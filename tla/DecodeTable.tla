---------------------------- MODULE DecodeTable -----------------------------
(***************************************************************************)
(* The lookup table of b64url_decode (pow/challenge.cpp:45-67).  Table and *)
(* flag are static and the first call fills them, with no lock and no      *)
(* atomic; the worker threads of the HTTP server all come through here     *)
(* with the tokens they verify, so there may be several first calls.       *)
(*                                                                         *)
(* The race is undefined behaviour.  Of what a build can make of it the    *)
(* module keeps the least: the plain loads and stores interleave, in       *)
(* program order, as they are on x86; those of memset in any order.        *)
(*                                                                         *)
(* A character is a number: the Letters of the alphabet come first, in     *)
(* order, and one character stands for all that are not in it.  Which of   *)
(* a token's characters is looked up is left open.                         *)
(***************************************************************************)
EXTENDS Integers

CONSTANTS Workers, Letters

ASSUME DecodeTableAssumption == Letters \in Nat \ {0}

VARIABLES
    rev,    \* the table; statics start as zeros
    init,
    stage,  \* where each worker is in b64url_decode
    char,   \* the character it looks up
    todo,   \* the entries its memset has yet to clear
    next,   \* i, the letter it fills in next
    value   \* what its last lookup found

vars == <<rev, init, stage, char, todo, next, value>>

Chars == 0..Letters
Alphabet == 0..(Letters - 1)
NotInAlphabet == -1

\* RFC 4648: what the table should say.
Decoded(c) == IF c \in Alphabet THEN c ELSE NotInAlphabet

Stages == {"idle", "check", "clear", "fill", "publish", "read", "done"}

TypeOK ==
    /\ rev \in [Chars -> -1..Letters]
    /\ init \in BOOLEAN
    /\ stage \in [Workers -> Stages]
    /\ char \in [Workers -> Chars]
    /\ todo \in [Workers -> SUBSET Chars]
    /\ next \in [Workers -> 0..Letters]
    /\ value \in [Workers -> -1..Letters]

Init ==
    /\ rev = [c \in Chars |-> 0]
    /\ init = FALSE
    /\ stage = [w \in Workers |-> "idle"]
    /\ char = [w \in Workers |-> 0]
    /\ todo = [w \in Workers |-> {}]
    /\ next = [w \in Workers |-> 0]
    /\ value = [w \in Workers |-> 0]

Goto(w, from, to) == stage[w] = from /\ stage' = [stage EXCEPT ![w] = to]

Call(w, c) ==
    /\ stage[w] \in {"idle", "done"}
    /\ stage' = [stage EXCEPT ![w] = "check"]
    /\ char' = [char EXCEPT ![w] = c]
    /\ UNCHANGED <<rev, init, todo, next, value>>

\* Mutant of SizeOfRev: the size of the alphabet.
SizeOfAlphabet == Alphabet

\* The entries of the table, sizeof(rev).
SizeOfRev == Chars

\* if (!init)
Check(w) ==
    /\ Goto(w, "check", IF init THEN "read" ELSE "clear")
    /\ todo' = [todo EXCEPT ![w] = IF init THEN {} ELSE SizeOfRev]
    /\ UNCHANGED <<rev, init, char, next, value>>

\* std::memset(rev, -1, sizeof(rev)), one entry of it.
Clear(w) ==
    /\ Goto(w, "clear", "clear")
    /\ \E c \in todo[w] : /\ rev' = [rev EXCEPT ![c] = NotInAlphabet]
                          /\ todo' = [todo EXCEPT ![w] = @ \ {c}]
    /\ UNCHANGED <<init, char, next, value>>

ClearEnds(w) ==
    /\ todo[w] = {}
    /\ Goto(w, "clear", "fill")
    /\ next' = [next EXCEPT ![w] = 0]
    /\ UNCHANGED <<rev, init, char, todo, value>>

\* Mutant of Filled: the loop takes the NUL at the end of kAlpha for a letter.
FilledPastTheEnd(i) == i > Letters

\* The loop ends.
Filled(i) == i = Letters

\* rev[kAlpha[i]] = i, for one i.
Fill(w) ==
    /\ ~Filled(next[w])
    /\ Goto(w, "fill", "fill")
    /\ rev' = [rev EXCEPT ![next[w]] = next[w]]
    /\ next' = [next EXCEPT ![w] = @ + 1]
    /\ UNCHANGED <<init, char, todo, value>>

FillEnds(w) ==
    /\ Filled(next[w])
    /\ Goto(w, "fill", "publish")
    /\ UNCHANGED <<rev, init, char, todo, next, value>>

\* init = true
Publish(w) ==
    /\ Goto(w, "publish", "read")
    /\ init' = TRUE
    /\ UNCHANGED <<rev, char, todo, next, value>>

\* signed char v = rev[ch]
Read(w) ==
    /\ Goto(w, "read", "done")
    /\ value' = [value EXCEPT ![w] = rev[char[w]]]
    /\ UNCHANGED <<rev, init, char, todo, next>>

Step(w) == Check(w) \/ Clear(w) \/ ClearEnds(w) \/ Fill(w) \/ FillEnds(w) \/ Publish(w) \/ Read(w)

Next == \E w \in Workers : Step(w) \/ \E c \in Chars : Call(w, c)

Spec == Init /\ [][Next]_vars

-----------------------------------------------------------------------------

\* Once the flag is set and nobody is clearing the table or filling it in, it is
\* right, and for good: two first calls can disturb each other, but whoever was
\* past the check puts right what they cleared.
TableSettles ==
    init /\ (\A w \in Workers : stage[w] \notin {"clear", "fill"}) =>
        \A c \in Chars : rev[c] = Decoded(c)

\* The strengthening of TableSettles: from the first whole clear on, an entry that
\* is not right is a letter some worker has yet to fill in, now or after its clear.
Pending ==
    init \/ (\E w \in Workers : stage[w] \in {"fill", "publish"}) =>
        \A c \in Chars :
            \/ rev[c] = Decoded(c)
            \/ c \in Alphabet /\ \E w \in Workers :
                  stage[w] = "clear" \/ (stage[w] = "fill" /\ next[w] <= c)

\* tests/pow_challenge_test.cpp:29-40: a token just issued verifies.  No letter
\* of one is ever looked up as another or as none.
LettersDecode == \A w \in Workers : stage[w] = "done" => value[w] = Decoded(char[w])
=============================================================================
