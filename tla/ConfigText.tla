------------------------------ MODULE ConfigText ------------------------------
(***************************************************************************)
(* The text of a configuration (app/config.cpp) and two values that are    *)
(* read out of it in main.cpp: the hmac_secret in hexadecimal, and the     *)
(* number of days a ticket is kept, at the width of an int.                *)
(***************************************************************************)
EXTENDS Texts

CONSTANTS
    IntMax,      \* 2^31 - 1 in the code
    DayLength,   \* 86400 in the code
    DefaultDays  \* 7 in the code

ASSUME ConfigTextAssumption ==
    /\ {IntMax, DayLength, DefaultDays} \subseteq Nat \ {0}
    /\ DefaultDays * DayLength <= IntMax

Newline == "newline"

\* Mutant of Separator: the last equals sign separates.
LastEquals(line) == SelectLastInSeq(line, LAMBDA c : c = "=")

Separator(line) == Find(line, "=")

\* save: a line for every key, here the keys k and p in that order.
LineOf(key, value) == <<key, "=">> \o value \o <<Newline>>
SaveConfig(kv) == LineOf("k", kv["k"]) \o LineOf("p", kv["p"])

\* getline: the n-th end of a line is the one with n ends before it, the
\* beginning of the text among them.
Lines(text) ==
    LET ends == {0} \cup {i \in DOMAIN text : text[i] = Newline}
        end(n) == CHOOSE i \in ends : Cardinality({j \in ends : j < i}) = n
    IN  [n \in 1..(Cardinality(ends) - 1) |-> SubSeq(text, end(n - 1) + 1, end(n) - 1)]

\* One line of load: blank lines, comments and lines without a sign are skipped.
LoadLine(kv, line) ==
    LET t == Trim(line)
        key == Trim(Before(t, Separator(t)))
    IN  IF t = <<>> \/ t[1] = "#" \/ Separator(t) = 0 THEN kv
        ELSE IF key \in {<<"k">>, <<"p">>}
             THEN [kv EXCEPT ![key[1]] = Trim(After(t, Separator(t)))]
             ELSE kv   \* a key nobody asks for

LoadConfig(text) == FoldLeft(LoadLine, [k |-> <<>>, p |-> <<>>], Lines(text))

-----------------------------------------------------------------------------
(* hmac_secret: bytes of two hexadecimal digits, each of them 0..3 here *)

SecretBytes == 0..15
HexDigits == <<"0", "1", "a", "b">>
RandomHex(bytes) == FlattenSeq([i \in DOMAIN bytes |->
    <<HexDigits[bytes[i] \div 4 + 1], HexDigits[(bytes[i] % 4) + 1]>>])

\* Capital letters are read as well, though none are written.
Small(c) == CASE c = "A" -> "a" [] c = "B" -> "b" [] OTHER -> c

HexValue(c) == Find(HexDigits, Small(c)) - 1
HexDecode(hex) ==
    IF \E i \in 1..(2 * (Len(hex) \div 2)) : HexValue(hex[i]) < 0 THEN <<>>
    ELSE [i \in 1..(Len(hex) \div 2) |-> 4 * HexValue(hex[2 * i - 1]) + HexValue(hex[2 * i])]

-----------------------------------------------------------------------------
(* closed_ticket_retention_days *)

Numerals == <<"0", "1", "2", "3", "4", "5", "6", "7", "8", "9">>
IsNumeral(c) == c \in Range(Numerals)

\* The numerals a text begins with, up to what is none.
Leading(s) ==
    LET end == SelectInSeq(s, LAMBDA c : ~IsNumeral(c)) IN IF end = 0 THEN s ELSE Before(s, end)

NumberOf(numerals) == FoldLeft(LAMBDA v, c : 10 * v + Find(Numerals, c) - 1, 0, numerals)

\* get_int: stoi reads a sign and the numerals after it, and throws where there
\* are none, or more than an int holds.
GetInt(value, fallback) ==
    LET signed == value # <<>> /\ value[1] \in {"-", "+"}
        numerals == Leading(IF signed THEN Tail(value) ELSE value)
        n == IF signed /\ value[1] = "-" THEN -NumberOf(numerals) ELSE NumberOf(numerals)
    IN  IF numerals = <<>> \/ n > IntMax \/ n < -IntMax - 1 THEN fallback ELSE n

\* Mutant of Wrapped: the product is a short.
WrappedShort(n) == ((n + (IntMax + 1) \div 2) % (IntMax + 1)) - (IntMax + 1) \div 2

\* The product of two ints, which runs over.
Wrapped(n) == ((n + IntMax + 1) % (2 * IntMax + 2)) - IntMax - 1

\* now - retention_days * 86400
Retention(value) == Wrapped(GetInt(value, DefaultDays) * DayLength)

-----------------------------------------------------------------------------
(* Properties of a text *)

\* What is saved under two keys is loaded again, whatever signs are in it; only
\* the blanks around it are lost.
LoadsBack(value, other) ==
    LoadConfig(SaveConfig([k |-> value, p |-> other])) = [k |-> Trim(value), p |-> Trim(other)]

\* The secret the server starts with is the one it generated.
SecretSurvives(bytes) ==
    HexDecode(LoadConfig(SaveConfig([k |-> RandomHex(bytes), p |-> <<>>])).k) = bytes

\* A number of days as the operator would write it is kept to the day as long as
\* its seconds fit an int; one that does not fit an int itself counts as none.
\* (In between, from 24856 days on, the cutoff is wrong: the product runs over.)
DaysKept(value) ==
    value # <<>> /\ Leading(value) = value =>
        LET days == NumberOf(value)
        IN  /\ days * DayLength <= IntMax => Retention(value) = days * DayLength
            /\ days > IntMax => Retention(value) = DefaultDays * DayLength
=============================================================================
