---------------------------- MODULE InputsProofs ----------------------------
(***************************************************************************)
(* The text functions of the program, for texts of every length: what is   *)
(* checked of them on short texts holds of all - messages of the admin,    *)
(* texts of the form, addresses, tokens, and the lines of the file.        *)
(***************************************************************************)
EXTENDS Inputs, FunctionTheorems, SequenceTheorems, FiniteSetTheorems,
        WellFoundedInduction, TLAPS

-----------------------------------------------------------------------------
(* Numbers *)

\* A set of numbers has a smallest one.
LEMMA SmallestExists ==
    ASSUME NEW S \in SUBSET Nat, S # {}
    PROVE  Min(S) \in S /\ \A x \in S : Min(S) <= x
<1>1. PICK y \in S : \A z \in S : ~(<<z, y>> \in OpToRel(<, Nat))
  BY NatLessThanWellFounded, WFMin
<1>2. \A z \in S : z \in Nat /\ y \in Nat
  OBVIOUS
<1>3. \A z \in S : ~(z < y)
  BY <1>1, <1>2 DEF OpToRel
<1>4. \A z \in S : y <= z
  BY <1>2, <1>3
<1>5. QED
  BY <1>4 DEF Min

\* A bounded set of numbers has a largest one.
LEMMA LargestExists ==
    ASSUME NEW N \in Nat, NEW S \in SUBSET (0..N), S # {}
    PROVE  Max(S) \in S /\ \A x \in S : x <= Max(S)
<1> DEFINE T == {N - x : x \in S}
<1>1. \A x \in S : x \in Nat /\ N - x \in Nat
  OBVIOUS
<1>2. T \in SUBSET Nat /\ T # {}
  BY <1>1
<1>3. PICK x \in S : Min(T) = N - x
  BY <1>2, SmallestExists
<1>4. \A z \in S : z <= x
  <2> TAKE z \in S
  <2>1. N - z \in T
    OBVIOUS
  <2>2. N - x <= N - z
    BY <1>2, <1>3, <2>1, SmallestExists
  <2>3. QED
    BY <1>1, <2>2
<1>5. QED
  BY <1>4 DEF Max

\* Induction: a set with 0 that has with every number the next has them all.
LEMMA NumbersInduction ==
    ASSUME NEW S, 0 \in S, \A n \in Nat : n \in S => n + 1 \in S
    PROVE  \A n \in Nat : n \in S
<1> DEFINE missing == {n \in Nat : n \notin S}
<1> SUFFICES ASSUME missing # {} PROVE FALSE
  OBVIOUS
<1>1. Min(missing) \in missing /\ \A x \in missing : Min(missing) <= x
  BY SmallestExists
<1> DEFINE least == Min(missing)
<1>2. least \in Nat /\ least \notin S /\ least # 0
  BY <1>1
<1>3. least - 1 \in Nat /\ least - 1 \in S
  BY <1>1, <1>2
<1>4. least - 1 + 1 \in S
  BY <1>3
<1>5. QED
  BY <1>2, <1>4

-----------------------------------------------------------------------------
(* Texts *)

\* find stops at the first place where the unit is.
LEMMA FindIs ==
    ASSUME NEW S, NEW s \in Seq(S), NEW u
    PROVE  /\ Find(s, u) \in 0..Len(s)
           /\ Find(s, u) = 0 => \A i \in 1..Len(s) : s[i] # u
           /\ Find(s, u) # 0 => /\ s[Find(s, u)] = u
                                /\ \A i \in 1..(Find(s, u) - 1) : s[i] # u
<1> DEFINE places == {i \in 1..Len(s) : s[i] = u}
<1>1. places \in SUBSET Nat
  OBVIOUS
<1>2. Find(s, u) = IF places # {} THEN Min(places) ELSE 0
  BY DEF Find, SelectInSeq
<1>3. CASE places = {}
  BY <1>2, <1>3
<1>4. CASE places # {}
  <2>1. Min(places) \in places /\ \A x \in places : Min(places) <= x
    BY <1>1, <1>4, SmallestExists
  <2>2. \A i \in 1..(Min(places) - 1) : i \in 1..Len(s) /\ i \notin places
    BY <2>1
  <2>3. QED
    BY <1>2, <1>4, <2>1, <2>2
<1>5. QED
  BY <1>3, <1>4

\* The place of the first unit of a kind, where it is known.
LEMMA FindsFirst ==
    ASSUME NEW S, NEW s \in Seq(S), NEW u, NEW i \in 1..Len(s), s[i] = u,
           \A j \in 1..(i - 1) : s[j] # u
    PROVE  Find(s, u) = i
<1>1. Find(s, u) # 0
  BY FindIs
<1>2. Find(s, u) \in 1..Len(s) /\ s[Find(s, u)] = u /\ \A j \in 1..(Find(s, u) - 1) : s[j] # u
  BY <1>1, FindIs
<1>3. ~(Find(s, u) < i) /\ ~(i < Find(s, u))
  BY <1>2
<1>4. QED
  BY <1>2, <1>3

\* trim: from the first unit that is no blank to the last.
LEMMA TrimIs ==
    ASSUME NEW S, NEW s \in Seq(S), NEW m \in 1..Len(s), NEW n \in 1..Len(s),
           s[m] # Blank, s[n] # Blank,
           \A i \in 1..(m - 1) : s[i] = Blank, \A i \in (n + 1)..Len(s) : s[i] = Blank
    PROVE  Trim(s) = SubSeq(s, m, n)
<1> DEFINE places == {i \in 1..Len(s) : s[i] # Blank}
<1>1. places \in SUBSET Nat
  OBVIOUS
<1>2. m \in places /\ n \in places /\ Len(s) \in Nat
  OBVIOUS
<1>3. Trim(s) = IF (IF places # {} THEN Min(places) ELSE 0) = 0 THEN <<>>
                ELSE SubSeq(s, IF places # {} THEN Min(places) ELSE 0,
                               IF places # {} THEN Max(places) ELSE 0)
  BY DEF Trim, SelectInSeq, SelectLastInSeq
<1>4. Min(places) = m
  <2>1. Min(places) \in places /\ Min(places) <= m
    BY <1>1, <1>2, SmallestExists
  <2>2. QED
    BY <2>1
<1>5. Max(places) = n
  <2>1. places \in SUBSET (0..Len(s))
    OBVIOUS
  <2>2. Max(places) \in places /\ n <= Max(places)
    BY <1>2, <2>1, LargestExists
  <2>3. QED
    BY <2>2
<1> HIDE DEF places
<1>6. places # {} /\ m # 0
  BY <1>2
<1>7. QED
  BY <1>3, <1>4, <1>5, <1>6

\* trim leaves nothing of a text of blanks.
LEMMA TrimBlanks ==
    ASSUME NEW S, NEW s \in Seq(S), \A i \in 1..Len(s) : s[i] = Blank
    PROVE  Trim(s) = <<>>
  BY DEF Trim, SelectInSeq

\* What is no blank stays in the text.
LEMMA TrimKeeps ==
    ASSUME NEW S, NEW s \in Seq(S), NEW i \in 1..Len(s), s[i] # Blank
    PROVE  Trim(s) \in Seq(S) /\ \E k \in 1..Len(Trim(s)) : Trim(s)[k] = s[i]
<1> DEFINE places == {j \in 1..Len(s) : s[j] # Blank}
<1>1. places \in SUBSET (0..Len(s)) /\ places \in SUBSET Nat /\ places # {} /\ Len(s) \in Nat
  OBVIOUS
<1>2. /\ Min(places) \in places /\ \A x \in places : Min(places) <= x
      /\ Max(places) \in places /\ \A x \in places : x <= Max(places)
  BY <1>1, SmallestExists, LargestExists
<1> DEFINE m == Min(places)
           n == Max(places)
<1>3. m \in 1..Len(s) /\ n \in 1..Len(s) /\ i \in m..n /\ s[m] # Blank /\ s[n] # Blank
  BY <1>2
<1>4. (\A j \in places : m <= j /\ j <= n)
  BY <1>2
<1> HIDE DEF m, n
<1>5. (\A j \in 1..(m - 1) : s[j] = Blank) /\ (\A j \in (n + 1)..Len(s) : s[j] = Blank)
  BY <1>3, <1>4
<1>6. Trim(s) = SubSeq(s, m, n)
  BY <1>3, <1>5, TrimIs
<1>7. \A j \in m..n : s[j] \in S
  BY <1>3, ElementOfSeq
<1>8. /\ SubSeq(s, m, n) \in Seq(S)
      /\ Len(SubSeq(s, m, n)) = n - m + 1
      /\ \A k \in 1..(n - m + 1) : SubSeq(s, m, n)[k] = s[m + k - 1]
  BY <1>3, <1>7, SubSeqProperties
<1>9. i - m + 1 \in 1..(n - m + 1) /\ m + (i - m + 1) - 1 = i
  BY <1>3
<1>10. QED
  BY <1>6, <1>8, <1>9

\* The units of two texts one after the other.
LEMMA Joined ==
    ASSUME NEW S, NEW s \in Seq(S), NEW t \in Seq(S), NEW m \in Nat, NEW n \in Nat,
           Len(s) = m, Len(t) = n
    PROVE  /\ s \o t \in Seq(S)
           /\ Len(s \o t) = m + n
           /\ \A i \in 1..m : (s \o t)[i] = s[i]
           /\ \A i \in 1..n : (s \o t)[m + i] = t[i]
<1>1. /\ s \o t \in Seq(S) /\ Len(s \o t) = m + n
      /\ \A i \in 1..(m + n) : (s \o t)[i] = IF i <= m THEN s[i] ELSE t[i - m]
  BY ConcatProperties
<1>2. ASSUME NEW i \in 1..n PROVE (s \o t)[m + i] = t[i]
  <2>1. m + i \in 1..(m + n) /\ ~(m + i <= m) /\ m + i - m = i
    OBVIOUS
  <2>2. QED
    BY <1>1, <2>1
<1>3. QED
  BY <1>1, <1>2

\* A stretch of a text.
LEMMA Stretch ==
    ASSUME NEW S, NEW s \in Seq(S), NEW m \in 1..(Len(s) + 1), NEW n \in (m - 1)..Len(s)
    PROVE  /\ SubSeq(s, m, n) \in Seq(S)
           /\ Len(SubSeq(s, m, n)) = n - m + 1
           /\ \A i \in 1..(n - m + 1) : SubSeq(s, m, n)[i] = s[m + i - 1]
<1>1. Len(s) \in Nat /\ \A i \in m..n : s[i] \in S
  BY ElementOfSeq
<1>2. QED
  BY <1>1, SubSeqProperties

\* Texts of one and of three units.  (The provers do not see that 1..1 is {1}, so
\* a length that is used with other lengths has a name.)
LEMMA OneUnit ==
    ASSUME NEW S, NEW a \in S, NEW one \in Nat, one = 1
    PROVE  <<a>> \in Seq(S) /\ Len(<<a>>) = one /\ <<a>>[one] = a
  OBVIOUS

\* A text of three units.
LEMMA ThreeUnits ==
    ASSUME NEW S, NEW a \in S, NEW b \in S, NEW c \in S, NEW three \in Nat, three = 3
    PROVE  <<a, b, c>> \in Seq(S) /\ Len(<<a, b, c>>) = three
  OBVIOUS

-----------------------------------------------------------------------------
(* What the admin writes *)

\* A text with a tag, and the ticket the tag names.
LEMMA TaggedText ==
    ASSUME NEW S, NEW words \in Seq(S), Tags(words) # {}
    PROVE  /\ TagTaken(words) \in Tags(words)
           /\ \A i \in Tags(words) : TagTaken(words) <= i
           /\ SubSeq(words, TagTaken(words) + 1, TagTaken(words) + IdLength) \in Ids
           /\ ParseAdminMessage(words).ticket \in Ids
           /\ ParseAdminMessage(words).ticket # NoTicket
<1> DEFINE at == TagTaken(words)
<1>1. Tags(words) \in SUBSET Nat /\ Len(words) \in Nat /\ IdLength \in Nat \ {0}
  BY AdminTextAssumption DEF Tags
<1>2. at \in Tags(words) /\ \A i \in Tags(words) : at <= i
  BY <1>1, SmallestExists DEF TagTaken
<1>3. at \in 1..(Len(words) - IdLength - 1) /\ \A k \in 1..IdLength : words[at + k] \in IdChars
  BY <1>2 DEF Tags
<1> HIDE DEF at
<1> DEFINE ticket == SubSeq(words, at + 1, at + IdLength)
<1>4. ticket = [i \in 1..IdLength |-> words[at + i]]
  BY <1>1, <1>3
<1>5. ticket \in Ids
  BY <1>3, <1>4 DEF Ids
<1> HIDE DEF ticket
<1>6. ParseAdminMessage(words).ticket = ticket
  BY DEF ParseAdminMessage, at, ticket
<1>7. QED
  BY <1>2, <1>5, <1>6, AdminTextAssumption DEF at, ticket

\* Of a text without a tag nothing is parsed.
LEMMA UntaggedText ==
    ASSUME NEW words, Tags(words) = {}
    PROVE  /\ ParseAdminMessage(words) = [kind |-> "none", ticket |-> NoTicket, body |-> <<>>]
           /\ BodyWithoutTag(words) = Trim(words)
  BY DEF ParseAdminMessage, BodyWithoutTag

\* Beside a quote that says the ticket, a text with a tag of its own is neither
\* the command nor empty: the tag is still in it.
LEMMA TagIsText ==
    ASSUME NEW S, NEW words \in Seq(S), Tags(words) # {}
    PROVE  Trim(words) # CloseCommand /\ Trim(words) # <<>>
<1>1. PICK i \in 1..Len(words) : words[i] = "["
  <2>1. PICK i \in 1..(Len(words) - IdLength - 1) : words[i] = "["
    BY DEF Tags
  <2>2. QED
    BY <2>1, AdminTextAssumption
<1>2. PICK k \in 1..Len(Trim(words)) : Trim(words)[k] = "["
  BY <1>1, TrimKeeps DEF Blank
<1>3. Trim(words) # <<>>
  BY <1>2
<1>4. Trim(words) # CloseCommand
  BY <1>2 DEF CloseCommand
<1>5. QED
  BY <1>3, <1>4

\* Of a text that is parsed, the kind, the ticket and the body without the tag.
LEMMA ParsedText ==
    ASSUME NEW S, NEW words \in Seq(S), Tags(words) # {}
    PROVE  LET parsed == ParseAdminMessage(words)
           IN  /\ parsed.kind \in {"close", "reply"}
               /\ parsed.kind = "close" => Remainder(words) = "/close"
               /\ parsed.kind = "reply" =>
                    /\ Remainder(words) # "/close"
                    /\ parsed.body = <<>> <=> Remainder(words) = "empty"
<1> DEFINE body == Trim(Before(words, TagTaken(words))
                          \o After(words, TagTaken(words) + IdLength + 1))
           ticket == SubSeq(words, TagTaken(words) + 1, TagTaken(words) + IdLength)
<1>1. ParseAdminMessage(words) =
        IF body = CloseCommand THEN [kind |-> "close", ticket |-> ticket, body |-> <<>>]
        ELSE [kind |-> "reply", ticket |-> ticket, body |-> body]
  BY DEF ParseAdminMessage
<1>2. BodyWithoutTag(words) = ParseAdminMessage(words).body
  BY DEF BodyWithoutTag
<1> HIDE DEF body, ticket
<1>3. CASE body = CloseCommand
  BY <1>1, <1>2, <1>3 DEF Remainder
<1>4. CASE body # CloseCommand
  BY <1>1, <1>2, <1>4 DEF Remainder
<1>5. QED
  BY <1>3, <1>4

\* dc/admin_route.cpp: for every text, of every length, the abstract router
\* decides of its parts as the router of the text functions does.
THEOREM RoutesAgree ==
    ASSUME NEW S, NEW words \in Seq(S), NEW quoted \in Seq(S), NEW resolved
    PROVE  RouteOfParts(words, resolved, quoted)
<1> DEFINE route == RouteText(words, resolved, quoted)
           typed == ParseAdminMessage(words).ticket
           inQuote == ParseAdminMessage(quoted).ticket
           parts == Abstract!RouteAdminMessage(resolved, typed, Remainder(words), inQuote)
           Goal == /\ route.ticket = parts.ticket /\ route.kind = parts.kind
                   /\ route.kind = "reply" => (route.body = <<>> <=> parts.body = "empty")
<1> SUFFICES Goal
  BY DEF RouteOfParts
<1> USE DEF Abstract!RouteAdminMessage, Abstract!MakeKind, Abstract!Untagged, Abstract!NoTicketId
<1>1. CASE Tags(words) = {}
  <2>1. typed = NoTicket /\ BodyWithoutTag(words) = Trim(words)
    BY <1>1, UntaggedText
  <2>2. Remainder(words) = IF Trim(words) = CloseCommand THEN "/close"
                          ELSE IF Trim(words) = <<>> THEN "empty" ELSE "reply"
    BY <1>1, <2>1 DEF Remainder
  <2>3. CASE resolved # NoTicket
    BY <2>1, <2>2, <2>3 DEF RouteText, MakeKindOfText, BodyBesideQuote
  <2>4. CASE resolved = NoTicket /\ Tags(quoted) = {}
    BY <1>1, <2>1, <2>4, UntaggedText DEF RouteText
  <2>5. CASE resolved = NoTicket /\ Tags(quoted) # {}
    <3>1. inQuote # NoTicket
      BY <2>5, TaggedText
    <3>2. QED
      BY <1>1, <2>1, <2>2, <2>5, <3>1 DEF RouteText, MakeKindOfText, BodyBesideQuote
  <2>6. QED
    BY <2>3, <2>4, <2>5
<1>2. CASE Tags(words) # {}
  <2>1. typed # NoTicket
    BY <1>2, TaggedText
  <2>2. CASE resolved # NoTicket
    BY <1>2, <2>1, <2>2, TagIsText DEF RouteText, MakeKindOfText, BodyBesideQuote
  <2>3. CASE resolved = NoTicket
    <3>1. route = ParseAdminMessage(words)
      BY <1>2, <2>3 DEF RouteText
    <3>2. parts = Abstract!MakeKind(typed, Remainder(words))
      BY <2>1, <2>3
    <3>3. QED
      BY <1>2, <3>1, <3>2, ParsedText
  <2>4. QED
    BY <2>2, <2>3
<1>3. QED
  BY <1>1, <1>2

\* A text in brackets, with more after it.
InBrackets(open, inside, close, rest) == <<open>> \o inside \o <<close>> \o rest

\* A text with n units in brackets at its beginning, unit by unit.
Brackets(s, n, open, inside, close, rest) ==
    /\ s[1] = open /\ s[n + 2] = close
    /\ \A i \in 2..(n + 1) : s[i] = inside[i - 1]
    /\ \A i \in (n + 3)..Len(s) : s[i] = rest[i - n - 2]

\* A text in brackets with more after it, unit by unit.
LEMMA Bracketed ==
    ASSUME NEW T, NEW n \in Nat, NEW inside \in Seq(T), Len(inside) = n,
           NEW open \in T, NEW close \in T, NEW rest \in Seq(T)
    PROVE  /\ InBrackets(open, inside, close, rest) \in Seq(T)
           /\ Len(InBrackets(open, inside, close, rest)) = n + 2 + Len(rest)
           /\ Brackets(InBrackets(open, inside, close, rest), n, open, inside, close, rest)
<1> DEFINE o == <<open>>
           c == <<close>>
           opened == o \o inside
           closed == opened \o c
           s == closed \o rest
<1>1. PICK one \in Nat : one = 1
  OBVIOUS
<1>2. PICK l \in Nat : l = Len(rest)
  OBVIOUS
<1>3. o \in Seq(T) /\ Len(o) = one
  BY <1>1, OneUnit
<1>4. c \in Seq(T) /\ Len(c) = one
  BY <1>1, OneUnit
<1>5. o[one] = open /\ c[one] = close
  BY <1>1, OneUnit
<1> HIDE DEF o, c
<1>6. /\ opened \in Seq(T) /\ Len(opened) = one + n
      /\ \A i \in 1..one : opened[i] = o[i]
      /\ \A i \in 1..n : opened[one + i] = inside[i]
  <2>1. opened \in Seq(T)
    BY <1>3
  <2>2. Len(opened) = one + n
    BY <1>3
  <2>3. \A i \in 1..one : opened[i] = o[i]
    BY <1>3
  <2>4. \A i \in 1..n : opened[one + i] = inside[i]
    BY <1>3, SMTT(30)
  <2>5. QED
    BY <2>1, <2>2, <2>3, <2>4
<1> HIDE DEF opened
<1>7. /\ closed \in Seq(T) /\ Len(closed) = one + n + one
      /\ \A i \in 1..(one + n) : closed[i] = opened[i]
      /\ \A i \in 1..one : closed[one + n + i] = c[i]
  <2>1. closed \in Seq(T)
    BY <1>4, <1>6
  <2>2. Len(closed) = one + n + one
    BY <1>4, <1>6
  <2>3. \A i \in 1..(one + n) : closed[i] = opened[i]
    BY <1>4, <1>6
  <2>4. \A i \in 1..one : closed[one + n + i] = c[i]
    BY <1>4, <1>6
  <2>5. QED
    BY <2>1, <2>2, <2>3, <2>4
<1> HIDE DEF closed
<1>8. /\ s \in Seq(T) /\ Len(s) = one + n + one + l
      /\ \A i \in 1..(one + n + one) : s[i] = closed[i]
      /\ \A i \in 1..l : s[one + n + one + i] = rest[i]
  <2>1. s \in Seq(T)
    BY <1>2, <1>7
  <2>2. Len(s) = one + n + one + l
    BY <1>2, <1>7
  <2>3. \A i \in 1..(one + n + one) : s[i] = closed[i]
    BY <1>2, <1>7
  <2>4. \A i \in 1..l : s[one + n + one + i] = rest[i]
    BY <1>2, <1>7
  <2>5. QED
    BY <2>1, <2>2, <2>3, <2>4
<1> HIDE DEF s
<1>9. s[1] = open
  <2>1. 1 \in 1..one /\ 1 \in 1..(one + n) /\ 1 \in 1..(one + n + one)
    BY <1>1
  <2>2. QED
    BY <1>1, <1>5, <1>6, <1>7, <1>8, <2>1
<1>10. s[n + 2] = close
  <2>1. one \in 1..one /\ n + 2 \in 1..(one + n + one) /\ one + n + one = n + 2
    BY <1>1
  <2>2. closed[n + 2] = close
    BY <1>5, <1>7, <2>1
  <2>3. QED
    BY <1>8, <2>1, <2>2
<1>11. ASSUME NEW i \in 2..(n + 1) PROVE s[i] = inside[i - 1]
  <2>1. i \in 1..(one + n) /\ i \in 1..(one + n + one) /\ i - 1 \in 1..n /\ one + (i - 1) = i
    BY <1>1
  <2>2. QED
    BY <1>6, <1>7, <1>8, <2>1
<1>12. ASSUME NEW i \in (n + 3)..Len(s) PROVE s[i] = rest[i - n - 2]
  <2>1. i - n - 2 \in 1..l /\ one + n + one + (i - n - 2) = i
    BY <1>1, <1>8
  <2>2. QED
    BY <1>8, <2>1
<1>13. one + n + one = n + 2
  BY <1>1
<1>14. s \in Seq(T) /\ Len(s) = n + 2 + Len(rest)
  BY <1>2, <1>8, <1>13
<1>15. QED
  BY <1>9, <1>10, <1>11, <1>14, <1>12 DEF InBrackets, Brackets, s, closed, opened, o, c

\* A notification, unit by unit: its tag is at its first place.
LEMMA NotificationIs ==
    ASSUME NEW S, NEW body \in Seq(S), NEW ticket \in Ids
    PROVE  LET note == FormatAdminNotification(ticket, body)
           IN  /\ note \in Seq(S \cup IdChars \cup {"[", "]", " ", "c", "/"})
               /\ Len(note) = IdLength + 5 + Len(body)
               /\ Brackets(note, IdLength, "[", ticket, "]", Header \o body)
<1> DEFINE T == S \cup IdChars \cup {"[", "]", " ", "c", "/"}
           rest == Header \o body
           tagged == <<"[">> \o ticket \o <<"]">>
<1>1. PICK n \in Nat : n = IdLength
  BY AdminTextAssumption
<1>2. ticket \in Seq(T) /\ Len(ticket) = n
  <2>1. ticket \in [1..n -> IdChars]
    BY <1>1 DEF Ids
  <2>2. ticket \in [1..n -> T]
    BY <2>1
  <2> HIDE DEF T
  <2>3. QED
    BY <2>1, <2>2
<1>3. body \in Seq(T)
  <2>1. S \subseteq T
    OBVIOUS
  <2> HIDE DEF T
  <2>2. QED
    BY <2>1, SeqMonotonic
<1>4. "[" \in T /\ "]" \in T
  OBVIOUS
<1>5. "[" \in T /\ "]" \in T /\ " " \in T /\ "c" \in T /\ "/" \in T
  OBVIOUS
<1> HIDE DEF T
<1>6. PICK three \in Nat : three = 3
  OBVIOUS
<1>7. PICK l \in Nat : l = Len(body)
  BY <1>3
<1>8. Header \in Seq(T) /\ Len(Header) = three
  BY <1>5, <1>6, ThreeUnits, Zenon DEF Header
<1>9. rest \in Seq(T) /\ Len(rest) = three + l
  BY <1>3, <1>8, <1>7
<1>10. tagged \in Seq(T)
  <2>1. PICK one \in Nat : one = 1
    OBVIOUS
  <2>2. <<"[">> \in Seq(T) /\ <<"]">> \in Seq(T)
    BY <1>5, <2>1, OneUnit, Zenon
  <2>3. QED
    BY <1>2, <2>2, ConcatProperties
<1>11. FormatAdminNotification(ticket, body) = InBrackets("[", ticket, "]", rest)
  <2>1. FormatAdminNotification(ticket, body) = (tagged \o Header) \o body
    BY DEF FormatAdminNotification
  <2> HIDE DEF tagged
  <2>2. FormatAdminNotification(ticket, body) = tagged \o rest
    BY <1>3, <1>8, <1>10, <2>1, ConcatAssociative
  <2>3. QED
    BY <2>2 DEF InBrackets, tagged
<1> DEFINE note == InBrackets("[", ticket, "]", rest)
<1> HIDE DEF rest
<1>12. /\ note \in Seq(T) /\ Len(note) = n + 2 + Len(rest)
       /\ Brackets(note, n, "[", ticket, "]", rest)
  <2>1. PICK open \in T : open = "["
    BY <1>4
  <2>2. PICK close \in T : close = "]"
    BY <1>4
  <2> DEFINE s == InBrackets(open, ticket, close, rest)
  <2>3. ticket \in Seq(T) /\ Len(ticket) = n /\ rest \in Seq(T)
    BY <1>2, <1>9
  <2>4. /\ s \in Seq(T) /\ Len(s) = n + 2 + Len(rest)
        /\ Brackets(s, n, open, ticket, close, rest)
    BY <2>3, Bracketed
  <2>5. QED
    BY <2>1, <2>2, <2>4
<1>13. n + 2 + Len(rest) = n + 5 + Len(body)
  BY <1>6, <1>9, <1>7
<1>14. QED
  BY <1>1, <1>11, <1>12, <1>13 DEF T, rest

\* service.cpp:65 and admin_parse.cpp:30: whatever the visitor wrote, tags of
\* other tickets and commands included, the notification leads back to its ticket.
THEOREM NotificationsParseBack ==
    ASSUME NEW S, NEW body \in Seq(S)
    PROVE  ParsesBack(body)
<1> SUFFICES ASSUME NEW ticket \in Ids
             PROVE  ParseAdminMessage(FormatAdminNotification(ticket, body)).ticket = ticket
  BY DEF ParsesBack
<1> DEFINE note == FormatAdminNotification(ticket, body)
           T == S \cup IdChars \cup {"[", "]", " ", "c", "/"}
<1>1. PICK n \in Nat : n = IdLength
  BY AdminTextAssumption
<1>2. /\ note \in Seq(T) /\ Len(note) = n + 5 + Len(body)
      /\ note[1] = "[" /\ note[n + 2] = "]"
      /\ \A i \in 2..(n + 1) : note[i] = ticket[i - 1]
  BY <1>1, NotificationIs DEF Brackets
<1> HIDE DEF note, T
<1>3. ticket \in [1..n -> IdChars]
  BY <1>1 DEF Ids
<1>4. 1 \in Tags(note)
  <2>1. 1 \in 1..(Len(note) - n - 1) /\ 1 + n + 1 = n + 2
    BY <1>2
  <2>2. ASSUME NEW k \in 1..n PROVE note[1 + k] \in IdChars
    <3>1. 1 + k \in 2..(n + 1) /\ 1 + k - 1 = k /\ ticket[k] \in IdChars
      BY <1>3
    <3>2. QED
      BY <1>2, <3>1
  <2>3. QED
    BY <1>1, <1>2, <2>1, <2>2 DEF Tags
<1>5. TagTaken(note) = 1
  <2>1. TagTaken(note) \in Tags(note) /\ TagTaken(note) <= 1
    BY <1>2, <1>4, TaggedText
  <2>2. TagTaken(note) \in Nat \ {0}
    BY <2>1 DEF Tags
  <2>3. QED
    BY <2>1, <2>2
<1>6. ParseAdminMessage(note).ticket = SubSeq(note, 1 + 1, 1 + n)
  <2>1. Tags(note) # {}
    BY <1>4
  <2>2. QED
    BY <1>1, <1>5, <2>1 DEF ParseAdminMessage
<1>7. SubSeq(note, 1 + 1, 1 + n) = ticket
  BY <1>2, <1>3
<1>8. QED
  BY <1>6, <1>7 DEF note

-----------------------------------------------------------------------------
(* What is typed *)

\* A text is of the units of its subject.
TextTyped == text \in Seq(Units(subject))

THEOREM TextsTyped == Spec => []TextTyped
<1>1. Init => TextTyped
  <2>1. <<>> \in Seq(Units(subject))
    OBVIOUS
  <2>2. QED
    BY <2>1 DEF Init, TextTyped
<1>2. TextTyped /\ [Type]_vars => TextTyped'
  <2> SUFFICES ASSUME TextTyped, [Type]_vars PROVE TextTyped'
    OBVIOUS
  <2>1. CASE Type
    <3>1. PICK unit \in Units(subject) : text' = Append(text, unit)
      BY <2>1 DEF Type
    <3>2. subject' = subject
      BY <2>1 DEF Type
    <3> DEFINE U == Units(subject)
    <3>3. text \in Seq(U) /\ unit \in U
      BY <3>1 DEF TextTyped
    <3> HIDE DEF U
    <3>4. text' \in Seq(U)
      BY <3>1, <3>3
    <3>5. QED
      BY <3>2, <3>4 DEF TextTyped, U
  <2>2. CASE UNCHANGED vars
    BY <2>2 DEF vars, TextTyped
  <2>3. QED
    BY <2>1, <2>2
<1>3. QED
  BY <1>1, <1>2, PTL DEF Spec

\* dc/admin_route.cpp: whatever is typed, with and without a quote.
THEOREM RoutesAlwaysAgree == Spec => []RouteAgrees
<1>1. TextTyped => RouteAgrees
  <2> SUFFICES ASSUME text \in Seq(Units("admin")),
                      NEW resolved \in {NoTicket, <<"B">>},
                      NEW quoted \in {<<>>, text, FormatAdminNotification(<<"B">>, text)}
               PROVE  RouteOfParts(text, resolved, quoted)
    BY DEF RouteAgrees, TextTyped
  <2> DEFINE T == Units("admin") \cup {"[", "]", "B", " ", "c", "/"}
  <2>1. "[" \in T /\ "]" \in T /\ "B" \in T /\ " " \in T /\ "c" \in T /\ "/" \in T
    OBVIOUS
  <2>2. text \in Seq(T)
    BY SeqMonotonic
  <2> HIDE DEF T
  <2>3. <<>> \in Seq(T)
    OBVIOUS
  <2>4. FormatAdminNotification(<<"B">>, text) \in Seq(T)
    <3>1. PICK one \in Nat : one = 1
      OBVIOUS
    <3>2. PICK three \in Nat : three = 3
      OBVIOUS
    <3>3. <<"[">> \in Seq(T) /\ <<"]">> \in Seq(T) /\ <<"B">> \in Seq(T)
      BY <2>1, <3>1, OneUnit, Zenon
    <3>4. Header \in Seq(T)
      BY <2>1, <3>2, ThreeUnits, Zenon DEF Header
    <3>5. QED
      BY <2>2, <3>3, <3>4, ConcatProperties DEF FormatAdminNotification
  <2>5. quoted \in Seq(T)
    BY <2>2, <2>3, <2>4
  <2>6. QED
    BY <2>2, <2>5, RoutesAgree
<1>2. QED
  BY <1>1, TextsTyped, PTL

\* service.cpp:65 and admin_parse.cpp:30: whatever the visitor types.
THEOREM NotificationsAlwaysParseBack == Spec => []NotificationParsesBack
<1>1. TextTyped => NotificationParsesBack
  <2> SUFFICES ASSUME text \in Seq(Units("admin")) PROVE ParsesBack(text)
    BY DEF NotificationParsesBack, TextTyped
  <2>1. QED
    BY NotificationsParseBack
<1>2. QED
  BY <1>1, TextsTyped, PTL

-----------------------------------------------------------------------------
(* Addresses *)

\* Signs by name, which the provers take no literals of.
Comma == ","

\* How often a unit is in a text: not at all, and once.
LEMMA OccurrencesAre ==
    ASSUME NEW S, NEW s \in Seq(S), NEW u
    PROVE  /\ Occurrences(s, u) = 0 <=> \A i \in 1..Len(s) : s[i] # u
           /\ Occurrences(s, u) = 1 <=>
                \E i \in 1..Len(s) : s[i] = u /\ \A j \in 1..Len(s) : s[j] = u => j = i
<1> DEFINE places == {i \in DOMAIN s : s[i] = u}
<1>1. DOMAIN s = 1..Len(s) /\ Len(s) \in Nat
  OBVIOUS
<1>2. IsFiniteSet(1..Len(s))
  BY <1>1, FS_Interval
<1>3. IsFiniteSet(places)
  BY <1>1, <1>2, FS_Subset
<1>4. Occurrences(s, u) = Cardinality(places)
  BY DEF Occurrences
<1> HIDE DEF places
<1>5. Occurrences(s, u) = 0 <=> places = {}
  BY <1>3, <1>4, FS_EmptySet
<1>6. Occurrences(s, u) = 1 <=> \E i : places = {i}
  BY <1>3, <1>4, FS_Singleton
<1>7. places = {} <=> \A i \in 1..Len(s) : s[i] # u
  BY <1>1 DEF places
<1>8. (\E i : places = {i}) <=>
        \E i \in 1..Len(s) : s[i] = u /\ \A j \in 1..Len(s) : s[j] = u => j = i
  <2>1. ASSUME NEW i, places = {i}
        PROVE  i \in 1..Len(s) /\ s[i] = u /\ \A j \in 1..Len(s) : s[j] = u => j = i
    <3>1. i \in places /\ \A j \in places : j = i
      BY <2>1
    <3>2. QED
      BY <1>1, <3>1 DEF places
  <2>2. ASSUME NEW i \in 1..Len(s), s[i] = u, \A j \in 1..Len(s) : s[j] = u => j = i
        PROVE  places = {i}
    <3>1. i \in places /\ \A j \in places : j = i
      BY <1>1, <2>2 DEF places
    <3>2. QED
      BY <3>1
  <2>3. QED
    BY <2>1, <2>2
<1>9. QED
  BY <1>5, <1>6, <1>7, <1>8

\* An address: room for it, no unit of a header, and no port of its own.
IsAddress(a) ==
    /\ Len(a) \in 1..MaxAddress
    /\ \A i \in 1..Len(a) : a[i] # Blank /\ a[i] # Comma /\ a[i] # "[" /\ a[i] # "]"
    /\ Occurrences(a, ":") # 1

\* A header before its first comma, and one without.
LEMMA FirstHopIs ==
    ASSUME NEW S, NEW s \in Seq(S), \A i \in 1..Len(s) : s[i] # Comma
    PROVE  /\ FirstHop(s) = s
           /\ Comma \in S => \A rest \in Seq(S) : FirstHop(s \o <<Comma>> \o rest) = s
<1>1. \A t : FirstHop(t) = IF Find(t, Comma) = 0 THEN t ELSE Before(t, Find(t, Comma))
  BY Zenon DEF FirstHop, Comma
<1> HIDE DEF Comma
<1>2. Find(s, Comma) = 0
  BY FindIs
<1>3. ASSUME Comma \in S, NEW rest \in Seq(S)
      PROVE  FirstHop(s \o <<Comma>> \o rest) = s
  <2> DEFINE c == <<Comma>>
             hop == s \o c
             t == hop \o rest
  <2>1. PICK one \in Nat : one = 1
    OBVIOUS
  <2>2. c \in Seq(S) /\ Len(c) = one /\ c[one] = Comma
    BY <1>3, <2>1, OneUnit, Zenon
  <2> HIDE DEF c
  <2>3. PICK n \in Nat : Len(s) = n
    OBVIOUS
  <2>4. PICK l \in Nat : Len(rest) = l
    OBVIOUS
  <2>5. /\ hop \in Seq(S)
        /\ Len(hop) = n + one
        /\ \A i \in 1..n : hop[i] = s[i]
        /\ \A i \in 1..one : hop[n + i] = c[i]
    <3>1. hop \in Seq(S)
      BY <2>2, <2>3
    <3>2. Len(hop) = n + one
      BY <2>2, <2>3
    <3>3. \A i \in 1..n : hop[i] = s[i]
      BY <2>2, <2>3
    <3>4. \A i \in 1..one : hop[n + i] = c[i]
      BY <2>2, <2>3
    <3>5. QED
      BY <3>1, <3>2, <3>3, <3>4
  <2> HIDE DEF hop
  <2>6. /\ t \in Seq(S)
        /\ Len(t) = n + one + l
        /\ \A i \in 1..(n + one) : t[i] = hop[i]
    BY <1>3, <2>4, <2>5, Joined
  <2> HIDE DEF t
  <2>7. \A i \in 1..n : t[i] = s[i]
    BY <2>1, <2>5, <2>6
  <2>8. t[n + 1] = Comma /\ n + 1 \in 1..Len(t)
    <3>1. one \in 1..one /\ n + one \in 1..(n + one) /\ n + one = n + 1
      BY <2>1
    <3>2. QED
      BY <2>2, <2>5, <2>6, <3>1
  <2>9. Find(t, Comma) = n + 1
    <3> DEFINE k == n + 1
    <3>1. \A j \in 1..(k - 1) : t[j] # Comma
      BY <2>3, <2>7
    <3>2. t[k] = Comma /\ k \in 1..Len(t)
      BY <2>8
    <3> HIDE DEF k
    <3>3. Find(t, Comma) = k
      BY <2>6, <3>1, <3>2, FindsFirst
    <3>4. QED
      BY <3>3 DEF k
  <2>10. SubSeq(t, 1, n + 1 - 1) = s
    BY <2>3, <2>6, <2>7
  <2>11. FirstHop(t) = s
    BY <1>1, <2>9, <2>10 DEF Before
  <2>12. QED
    BY <2>11, Zenon DEF t, hop, c
<1>4. QED
  BY <1>1, <1>2, <1>3

\* A header in which an address is found is read as that address, whichever
\* header it is and whatever other hops follow.
LEMMA ReadAs ==
    ASSUME NEW S, Comma \in S, NEW s \in Seq(S), NEW a \in Seq(S), NEW rest \in Seq(S),
           IsAddress(a), s # <<>>, WithoutPort(Trim(s)) = a,
           \A i \in 1..Len(s) : s[i] # Comma
    PROVE  /\ VisitorIp(s, rest, <<"x">>) = a
           /\ VisitorIp(s \o <<Comma>> \o rest, <<>>, <<"x">>) = a
           /\ VisitorIp(<<>>, s, <<"x">>) = a
<1>1. Min({Len(a), MaxAddress}) = Len(a)
  <2>1. Len(a) \in Nat /\ MaxAddress \in Nat /\ Len(a) <= MaxAddress
    BY AddressAssumption DEF IsAddress
  <2>2. {Len(a), MaxAddress} \in SUBSET Nat /\ {Len(a), MaxAddress} # {}
    BY <2>1
  <2>3. Min({Len(a), MaxAddress}) \in {Len(a), MaxAddress} /\ Min({Len(a), MaxAddress}) <= Len(a)
    BY <2>2, SmallestExists
  <2>4. QED
    BY <2>1, <2>3
<1>2. SubSeq(a, 1, Len(a)) = a
  OBVIOUS
<1>3. \A header : FirstHop(header) = s => TakeFirst(header) = a
  BY <1>1, <1>2 DEF TakeFirst
<1>4. FirstHop(s) = s /\ FirstHop(s \o <<Comma>> \o rest) = s
  BY FirstHopIs
<1>5. s \o <<Comma>> \o rest # <<>>
  BY <1>4, FirstHopIs
<1>6. QED
  BY <1>3, <1>4, <1>5 DEF VisitorIp

\* An address as it stands.
LEMMA AddressAlone ==
    ASSUME NEW S, NEW a \in Seq(S), IsAddress(a)
    PROVE  Trim(a) = a /\ WithoutPort(a) = a /\ a # <<>>
<1>1. PICK n \in Nat : Len(a) = n
  OBVIOUS
<1>2. /\ 1 \in 1..n /\ n \in 1..n /\ a[1] # Blank /\ a[n] # Blank
      /\ a[1] # "[" /\ Occurrences(a, ":") # 1
  BY <1>1, AddressAssumption DEF IsAddress
<1>3. Trim(a) = SubSeq(a, 1, n)
  <2>1. (\A i \in 1..(1 - 1) : a[i] = Blank) /\ (\A i \in (n + 1)..n : a[i] = Blank)
    OBVIOUS
  <2>2. QED
    BY <1>1, <1>2, <2>1, TrimIs
<1>4. SubSeq(a, 1, n) = a
  BY <1>1
<1>5. WithoutPort(a) = a
  BY <1>2 DEF WithoutPort
<1>6. QED
  BY <1>1, <1>2, <1>3, <1>4, <1>5

\* With a blank after it or before it.
LEMMA AddressAndBlank ==
    ASSUME NEW S, Blank \in S, NEW a \in Seq(S), IsAddress(a)
    PROVE  /\ a \o <<Blank>> \in Seq(S) /\ Trim(a \o <<Blank>>) = a
           /\ <<Blank>> \o a \in Seq(S) /\ Trim(<<Blank>> \o a) = a
           /\ \A i \in 1..Len(a \o <<Blank>>) : (a \o <<Blank>>)[i] # Comma
           /\ \A i \in 1..Len(<<Blank>> \o a) : (<<Blank>> \o a)[i] # Comma
<1> DEFINE b == <<Blank>>
<1>1. PICK n \in Nat : Len(a) = n
  OBVIOUS
<1>2. PICK one \in Nat : one = 1
  OBVIOUS
<1>3. /\ 1 \in 1..n /\ n \in 1..n /\ a[1] # Blank /\ a[n] # Blank
      /\ \A i \in 1..n : a[i] # Comma
  BY <1>1, AddressAssumption DEF IsAddress
<1>4. Blank # Comma
  BY Zenon DEF Blank, Comma
<1>5. b \in Seq(S) /\ Len(b) = one /\ b[one] = Blank
  BY <1>2, OneUnit, Zenon
<1> HIDE DEF b
<1>6. ASSUME NEW s, s = a \o b
      PROVE  s \in Seq(S) /\ Trim(s) = a /\ \A i \in 1..Len(s) : s[i] # Comma
  <2>1. s \in Seq(S)
    BY <1>5, <1>6
  <2>2. Len(s) = n + one
    <3>1. Len(a \o b) = n + one
      BY <1>1, <1>5
    <3>2. QED
      BY <1>6, <3>1, Zenon
  <2>3. \A i \in 1..n : s[i] = a[i]
    BY <1>1, <1>5, <1>6
  <2>4. \A i \in 1..one : s[n + i] = b[i]
    BY <1>1, <1>5, <1>6
  <2> HIDE <1>6
  <2>5. \A i \in (n + 1)..Len(s) : s[i] = Blank
    <3>1. s[n + one] = Blank
      BY <1>2, <1>5, <2>4
    <3>2. \A i \in (n + 1)..Len(s) : i = n + one
      BY <1>2, <2>2
    <3>3. QED
      BY <3>1, <3>2
  <2>6. Trim(s) = SubSeq(s, 1, n)
    <3>1. 1 \in 1..Len(s) /\ n \in 1..Len(s) /\ s[1] # Blank /\ s[n] # Blank
      BY <1>2, <1>3, <2>2, <2>3
    <3>2. \A i \in 1..(1 - 1) : s[i] = Blank
      OBVIOUS
    <3>3. QED
      BY <2>1, <2>5, <3>1, <3>2, TrimIs
  <2>7. SubSeq(s, 1, n) = a
    BY <1>1, <1>2, <2>1, <2>2, <2>3
  <2>8. \A i \in 1..Len(s) : i \in 1..n \/ i \in (n + 1)..Len(s)
    OBVIOUS
  <2>9. QED
    BY <1>3, <1>4, <2>1, <2>3, <2>5, <2>6, <2>7, <2>8
<1>7. ASSUME NEW s, s = b \o a
      PROVE  s \in Seq(S) /\ Trim(s) = a /\ \A i \in 1..Len(s) : s[i] # Comma
  <2>1. s \in Seq(S)
    BY <1>5, <1>7
  <2>2. Len(s) = one + n
    <3>1. Len(b \o a) = one + n
      BY <1>1, <1>5
    <3>2. QED
      BY <1>7, <3>1, Zenon
  <2>3. \A i \in 1..one : s[i] = b[i]
    BY <1>1, <1>5, <1>7
  <2>4. \A i \in 1..n : s[one + i] = a[i]
    BY <1>1, <1>5, <1>7
  <2> HIDE <1>7
  <2>5. \A i \in 1..(2 - 1) : s[i] = Blank
    <3>1. s[one] = Blank /\ \A i \in 1..(2 - 1) : i = one
      BY <1>2, <1>5, <2>3
    <3>2. QED
      BY <3>1
  <2>6. \A i \in 2..(n + 1) : s[i] = a[i - 1]
    <3>1. \A i \in 2..(n + 1) : i - 1 \in 1..n /\ one + (i - 1) = i
      BY <1>2
    <3>2. QED
      BY <2>4, <3>1
  <2>7. Trim(s) = SubSeq(s, 2, n + 1)
    <3>1. 2 \in 1..Len(s) /\ n + 1 \in 1..Len(s) /\ n + 1 - 1 = n /\ 2 - 1 = 1
      BY <1>2, <1>3, <2>2
    <3>2. s[2] # Blank /\ s[n + 1] # Blank
      BY <1>3, <2>6, <3>1
    <3>3. \A i \in (n + 1 + 1)..Len(s) : s[i] = Blank
      BY <1>2, <2>2
    <3>4. QED
      BY <2>1, <2>5, <3>1, <3>2, <3>3, TrimIs
  <2>8. SubSeq(s, 2, n + 1) = a
    BY <1>1, <1>2, <2>1, <2>2, <2>6
  <2>9. \A i \in 1..Len(s) : i \in 1..(2 - 1) \/ (i \in 2..(n + 1) /\ i - 1 \in 1..n)
    BY <1>2, <2>2
  <2>10. QED
    BY <1>3, <1>4, <2>1, <2>5, <2>6, <2>7, <2>8, <2>9
<1>8. QED
  BY <1>6, <1>7 DEF b

\* In brackets, whatever follows them.
LEMMA AddressInBrackets ==
    ASSUME NEW S, NEW a \in Seq(S), IsAddress(a), NEW n \in Nat, Len(a) = n,
           NEW rest, NEW s \in Seq(S), Len(s) = n + 2 + Len(rest), Len(rest) \in Nat,
           Brackets(s, n, "[", a, "]", rest),
           \A i \in 1..Len(rest) : rest[i] # Blank /\ rest[i] # Comma
    PROVE  /\ Trim(s) = s /\ WithoutPort(s) = a
           /\ \A i \in 1..Len(s) : s[i] # Comma
<1>1. "[" # Comma /\ "]" # Comma /\ "[" # Blank /\ "]" # Blank /\ "[" # "]"
  BY Zenon DEF Blank, Comma
<1> HIDE DEF Comma
<1>2. n \in 1..n /\ \A i \in 1..n : a[i] # Comma /\ a[i] # "]"
  BY AddressAssumption DEF IsAddress
<1>3. PICK l \in Nat : Len(rest) = l
  OBVIOUS
<1>4. Len(s) = n + 2 + l
  BY <1>3
<1>5. s[1] = "[" /\ s[n + 2] = "]"
  BY DEF Brackets
<1>6. \A i \in 2..(n + 1) : s[i] = a[i - 1] /\ i - 1 \in 1..n
  BY DEF Brackets
<1>7. \A i \in (n + 3)..Len(s) : s[i] = rest[i - n - 2] /\ i - n - 2 \in 1..l
  BY <1>4 DEF Brackets
<1>8. \A i \in 1..Len(s) : i = 1 \/ i = n + 2 \/ i \in 2..(n + 1) \/ i \in (n + 3)..Len(s)
  BY <1>4
<1>9. \A i \in 1..Len(s) : s[i] # Comma
  BY <1>1, <1>2, <1>3, <1>5, <1>6, <1>7, <1>8
<1>10. Trim(s) = s
  <2>1. 1 \in 1..Len(s) /\ Len(s) \in 1..Len(s) /\ s[1] # Blank
    BY <1>1, <1>4, <1>5
  <2>2. s[Len(s)] # Blank
    <3>1. Len(s) = n + 2 \/ Len(s) \in (n + 3)..Len(s)
      BY <1>4
    <3>2. QED
      BY <1>1, <1>3, <1>5, <1>7, <3>1
  <2>3. (\A i \in 1..(1 - 1) : s[i] = Blank) /\ \A i \in (Len(s) + 1)..Len(s) : s[i] = Blank
    BY <1>4
  <2>4. Trim(s) = SubSeq(s, 1, Len(s))
    BY <2>1, <2>2, <2>3, TrimIs
  <2>5. QED
    BY <2>4
<1>11. WithoutPort(s) = a
  <2>1. \A i \in 1..(n + 2 - 1) : i = 1 \/ i \in 2..(n + 1)
    OBVIOUS
  <2>2. \A i \in 1..(n + 2 - 1) : s[i] # "]"
    BY <1>1, <1>2, <1>5, <1>6, <2>1
  <2>3. n + 2 \in 1..Len(s)
    BY <1>4
  <2>4. Find(s, "]") = n + 2
    BY <1>5, <2>2, <2>3, FindsFirst
  <2>5. SubSeq(s, 2, n + 2 - 1) = a
    BY <1>4, <1>6
  <2>6. s # <<>> /\ n + 2 # 0
    BY <2>3
  <2>7. QED
    BY <1>5, <2>4, <2>5, <2>6 DEF WithoutPort
<1>12. QED
  BY <1>9, <1>10, <1>11

\* An address without colons, and a port.
LEMMA AddressAndPort ==
    ASSUME NEW S, NEW a \in Seq(S), IsAddress(a), Occurrences(a, ":") = 0,
           NEW port \in Seq(S), NEW two \in Nat, two = 2, Len(port) = two,
           port[1] = ":", port[2] # ":", port[2] # Blank, port[2] # Comma
    PROVE  LET s == a \o port
           IN  /\ s \in Seq(S) /\ Trim(s) = s /\ WithoutPort(s) = a
               /\ \A i \in 1..Len(s) : s[i] # Comma
<1> DEFINE s == a \o port
<1>1. PICK n \in Nat : Len(a) = n
  OBVIOUS
<1>2. ":" # Comma /\ ":" # "["
  BY Zenon DEF Comma
<1> HIDE DEF Comma
<1>3. /\ 1 \in 1..n
      /\ \A i \in 1..n : a[i] # Comma /\ a[i] # Blank /\ a[i] # "["
  BY <1>1, AddressAssumption DEF IsAddress
<1>4. \A i \in 1..n : a[i] # ":"
  BY <1>1, OccurrencesAre
<1>5. s \in Seq(S)
  OBVIOUS
<1>6. Len(s) = n + two /\ \A i \in 1..two : s[n + i] = port[i]
  <2>1. a \in Seq(S) /\ port \in Seq(S) /\ Len(a) = n /\ Len(port) = two /\ n \in Nat /\ two \in Nat
    BY <1>1
  <2>2. Len(s) = n + two
    BY ONLY <2>1
  <2>3. \A i \in 1..two : s[n + i] = port[i]
    BY ONLY <2>1
  <2>4. QED
    BY <2>2, <2>3
<1>7. \A i \in 1..n : s[i] = a[i]
  BY <1>1
<1> HIDE DEF s
<1>8. s[n + 1] = ":" /\ s[n + 2] = port[2]
  BY <1>6
<1>9. \A i \in 1..Len(s) : i \in 1..n \/ i = n + 1 \/ i = n + 2
  BY <1>6
<1>10. \A i \in 1..Len(s) : s[i] # Comma
  BY <1>2, <1>3, <1>7, <1>8, <1>9
<1>11. Trim(s) = s
  <2>1. 1 \in 1..Len(s) /\ n + 2 \in 1..Len(s) /\ Len(s) = n + 2
    BY <1>3, <1>6
  <2>2. s[1] # Blank /\ s[n + 2] # Blank
    BY <1>3, <1>7, <1>8
  <2>3. (\A i \in 1..(1 - 1) : s[i] = Blank) /\ \A i \in (n + 2 + 1)..Len(s) : s[i] = Blank
    BY <2>1
  <2>4. Trim(s) = SubSeq(s, 1, n + 2)
    BY <1>5, <2>1, <2>2, <2>3, TrimIs
  <2>5. QED
    BY <1>5, <2>1, <2>4
<1>12. WithoutPort(s) = a
  <2>1. n + 1 \in 1..Len(s) /\ 1 \in 1..Len(s)
    BY <1>6
  <2>2. \A i \in 1..Len(s) : s[i] = ":" => i = n + 1
    BY <1>4, <1>7, <1>8, <1>9
  <2>3. Occurrences(s, ":") = 1
    BY <1>5, <1>8, <2>1, <2>2, OccurrencesAre
  <2>4. Find(s, ":") = n + 1
    <3>1. \A i \in 1..(n + 1 - 1) : s[i] # ":"
      BY <1>4, <1>7
    <3>2. QED
      BY SMTT(30), <1>5, <1>8, <2>1, <3>1, FindsFirst
  <2>5. SubSeq(s, 1, n + 1 - 1) = a
    BY <1>1, <1>5, <1>6, <1>7
  <2>6. s[1] # "["
    BY <1>3, <1>7
  <2>7. QED
    BY <2>3, <2>4, <2>5, <2>6 DEF WithoutPort, Before
<1>13. QED
  BY <1>5, <1>10, <1>11, <1>12 DEF s

\* Every spelling of an address is a text without commas in which it is found.
LEMMA SpellingsRead ==
    ASSUME NEW S, Blank \in S, "x" \in S, ":" \in S, "[" \in S, "]" \in S, Comma \in S,
           NEW a \in Seq(S), IsAddress(a), NEW s \in Spellings(a)
    PROVE  /\ s \in Seq(S) /\ s # <<>>
           /\ WithoutPort(Trim(s)) = a /\ \A i \in 1..Len(s) : s[i] # Comma
<1> DEFINE port == <<":", "x">>
           bracketed == <<"[">> \o a \o <<"]">>
           Read(t) == t \in Seq(S) /\ WithoutPort(Trim(t)) = a /\ \A i \in 1..Len(t) : t[i] # Comma
<1>1. PICK n \in Nat : Len(a) = n
  OBVIOUS
<1>2. Trim(a) = a /\ WithoutPort(a) = a /\ a # <<>>
  BY AddressAlone
<1>3. PICK two \in Nat : two = 2
  OBVIOUS
<1>4. ":" # Comma /\ ":" # Blank /\ "x" # Comma /\ "x" # Blank /\ "x" # ":"
  BY Zenon DEF Comma, Blank
<1>5. port \in Seq(S) /\ Len(port) = two /\ port[1] = ":" /\ port[2] = "x"
  BY <1>3
<1>6. <<>> \in Seq(S) /\ Len(<<>>) = 0
  OBVIOUS
<1> HIDE DEF port
<1>7. Read(a)
  BY <1>2 DEF IsAddress
<1>8. Read(a \o <<Blank>>) /\ Read(<<Blank>> \o a)
  BY <1>2, AddressAndBlank
<1>9. ASSUME NEW rest \in Seq(S), \A i \in 1..Len(rest) : rest[i] # Blank /\ rest[i] # Comma
      PROVE  Read(InBrackets("[", a, "]", rest))
  <2> DEFINE t == InBrackets("[", a, "]", rest)
  <2>1. t \in Seq(S) /\ Len(t) = n + 2 + Len(rest) /\ Brackets(t, n, "[", a, "]", rest)
    BY <1>1, Bracketed
  <2> HIDE DEF t
  <2>2. Len(rest) \in Nat
    OBVIOUS
  <2>3. Trim(t) = t /\ WithoutPort(t) = a /\ \A i \in 1..Len(t) : t[i] # Comma
    BY <1>1, <1>9, <2>1, <2>2, AddressInBrackets
  <2>4. QED
    BY <2>1, <2>3 DEF t
<1>10. Read(bracketed)
  <2>1. Read(InBrackets("[", a, "]", <<>>))
    <3> DEFINE none == <<>>
    <3>1. none \in Seq(S) /\ \A i \in 1..Len(none) : FALSE
      BY <1>6
    <3> HIDE DEF none
    <3>2. Read(InBrackets("[", a, "]", none))
      BY <1>9, <3>1
    <3>3. QED
      BY <3>2, Zenon DEF none
  <2>2. InBrackets("[", a, "]", <<>>) = bracketed
    <3>1. bracketed \in Seq(S)
      OBVIOUS
    <3> HIDE DEF bracketed
    <3>2. bracketed \o <<>> = bracketed
      BY <3>1
    <3>3. InBrackets("[", a, "]", <<>>) = bracketed \o <<>>
      BY DEF InBrackets, bracketed
    <3>4. QED
      BY <3>2, <3>3
  <2>3. QED
    BY <2>1, <2>2
<1>11. Read(bracketed \o port)
  <2>1. \A i \in 1..Len(port) : port[i] # Blank /\ port[i] # Comma
    BY <1>3, <1>4, <1>5
  <2>2. Read(InBrackets("[", a, "]", port))
    BY <1>5, <1>9, <2>1
  <2>3. QED
    BY <2>2 DEF InBrackets
<1>12. Occurrences(a, ":") = 0 => Read(a \o port)
  <2> SUFFICES ASSUME Occurrences(a, ":") = 0 PROVE Read(a \o port)
    OBVIOUS
  <2>1. LET t == a \o port
        IN  t \in Seq(S) /\ Trim(t) = t /\ WithoutPort(t) = a /\ \A i \in 1..Len(t) : t[i] # Comma
    BY <1>3, <1>4, <1>5, AddressAndPort
  <2>2. QED
    BY <2>1
<1>13. Read(s)
  <2>1. s \in {a, a \o <<Blank>>, <<Blank>> \o a, bracketed, bracketed \o port}
           \cup (IF Occurrences(a, ":") = 0 THEN {a \o port} ELSE {})
    BY DEF Spellings, port
  <2> HIDE DEF Read, bracketed
  <2>2. QED
    BY <1>7, <1>8, <1>10, <1>11, <1>12, <2>1, Zenon
<1>14. s # <<>>
  <2>1. Trim(<<>>) = <<>> /\ WithoutPort(<<>>) # a
    <3> DEFINE none == <<>>
    <3>1. none \in Seq(S) /\ \A i \in 1..Len(none) : FALSE
      BY <1>6
    <3> HIDE DEF none
    <3>2. Trim(none) = <<>>
      BY <3>1, TrimBlanks
    <3>3. Occurrences(none, ":") = 0
      BY <3>1, OccurrencesAre
    <3> USE DEF none
    <3>4. WithoutPort(<<>>) = <<>>
      BY <3>3 DEF WithoutPort
    <3>5. QED
      BY <1>2, <3>2, <3>4
  <2>2. QED
    BY <1>13, <2>1
<1>15. QED
  BY <1>13, <1>14

\* The addresses of the model are addresses.
LEMMA AddressesAre ==
    ASSUME NEW S, "x" \in S, ":" \in S, NEW a \in Addresses
    PROVE  a \in Seq(S) /\ IsAddress(a)
<1>1. "x" # Comma /\ "x" # Blank /\ ":" # Comma /\ ":" # Blank
  BY Zenon DEF Comma, Blank
<1> HIDE DEF Comma
<1>2. Len(a) <= MaxAddress /\ MaxAddress \in Nat
  BY AddressAssumption
<1>3. CASE a = <<"x">>
  <2>1. a \in Seq(S) /\ Len(a) = 1 /\ a[1] = "x"
    BY <1>3
  <2>2. \A i \in 1..Len(a) : a[i] = "x"
    BY <1>3
  <2>3. Occurrences(a, ":") # 1
    BY <2>1, <2>2, OccurrencesAre
  <2>4. QED
    BY <1>1, <1>2, <2>1, <2>2, <2>3 DEF IsAddress
<1>4. CASE a = <<"x", ":", ":", "x">>
  <2>1. a \in Seq(S) /\ Len(a) = 4 /\ 2 \in 1..Len(a) /\ 3 \in 1..Len(a) /\ a[2] = ":" /\ a[3] = ":"
    BY <1>4
  <2>2. \A i \in 1..Len(a) : a[i] = "x" \/ a[i] = ":"
    BY <1>4
  <2>3. Occurrences(a, ":") # 1
    BY <2>1, OccurrencesAre
  <2>4. QED
    BY <1>1, <1>2, <2>1, <2>2, <2>3 DEF IsAddress
<1>5. CASE a = <<":", ":", "x">>
  <2>1. a \in Seq(S) /\ Len(a) = 3 /\ 1 \in 1..Len(a) /\ 2 \in 1..Len(a) /\ a[1] = ":" /\ a[2] = ":"
    BY <1>5
  <2>2. \A i \in 1..Len(a) : a[i] = "x" \/ a[i] = ":"
    BY <1>5
  <2>3. Occurrences(a, ":") # 1
    BY <2>1, OccurrencesAre
  <2>4. QED
    BY <1>1, <1>2, <2>1, <2>2, <2>3 DEF IsAddress
<1>6. QED
  BY <1>3, <1>4, <1>5 DEF Addresses

\* server.cpp:36-39: whatever further hops there are, of any length.
THEOREM AddressesAgree ==
    ASSUME NEW S, NEW rest \in Seq(S)
    PROVE  SameAddress(rest)
<1> DEFINE T == S \cup {Blank, "x", ":", "[", "]", Comma}
<1>1. Blank \in T /\ "x" \in T /\ ":" \in T /\ "[" \in T /\ "]" \in T /\ Comma \in T
  BY Zenon
<1>2. S \subseteq T
  BY Zenon
<1> HIDE DEF T
<1>3. rest \in Seq(T)
  BY <1>2, SeqMonotonic
<1>4. ASSUME NEW a \in Addresses, NEW s \in Spellings(a)
      PROVE  /\ VisitorIp(s, rest, <<"x">>) = a
             /\ VisitorIp(s \o <<Comma>> \o rest, <<>>, <<"x">>) = a
             /\ VisitorIp(<<>>, s, <<"x">>) = a
  <2>1. a \in Seq(T) /\ IsAddress(a)
    BY <1>1, AddressesAre
  <2>2. /\ s \in Seq(T) /\ s # <<>>
        /\ WithoutPort(Trim(s)) = a /\ \A i \in 1..Len(s) : s[i] # Comma
    BY <1>1, <2>1, SpellingsRead
  <2>3. QED
    BY <1>1, <1>3, <2>1, <2>2, ReadAs
<1>5. QED
  BY <1>4, Zenon DEF SameAddress, Comma

\* server.cpp:36-39: whatever is typed after the address.
THEOREM ProxiesAlwaysAgree == Spec => []ProxiesAgree
<1>1. TextTyped => ProxiesAgree
  BY AddressesAgree DEF TextTyped, ProxiesAgree
<1>2. QED
  BY <1>1, TextsTyped, PTL

-----------------------------------------------------------------------------
(* Folds *)

\* The function a fold over the places 1..n is defined by: the fold takes
\* the last place of a set of places, and goes on with the others.
FoldEquation(it, V, n, base, step) ==
    /\ it \in [SUBSET (1..n) -> V]
    /\ \A P \in SUBSET (1..n) :
          it[P] = IF P = {} THEN base ELSE step[<<Max(P), it[P \ {Max(P)}]>>]

\* The last place of a set of places, when it is the last of all.
LEMMA LastPlace ==
    ASSUME NEW n \in Nat, NEW P \in SUBSET (1..(n + 1))
    PROVE  /\ P # {} => Max(P) \in P
           /\ n + 1 \notin P => P \in SUBSET (1..n)
           /\ n + 1 \in P => Max(P) = n + 1 /\ P \ {n + 1} \in SUBSET (1..n)
<1>1. P \in SUBSET (0..(n + 1)) /\ n + 1 \in Nat
  OBVIOUS
<1>2. P # {} => Max(P) \in P /\ \A x \in P : x <= Max(P)
  BY <1>1, LargestExists
<1>3. \A x \in P : x \in 1..(n + 1) /\ (x # n + 1 => x \in 1..n)
  OBVIOUS
<1>4. n + 1 \in P => Max(P) = n + 1
  <2> SUFFICES ASSUME n + 1 \in P PROVE Max(P) = n + 1
    OBVIOUS
  <2>1. Max(P) \in P /\ n + 1 <= Max(P)
    BY <1>2
  <2>2. Max(P) \in 1..(n + 1)
    BY <1>3, <2>1
  <2>3. QED
    BY <2>1, <2>2
<1>5. QED
  BY <1>2, <1>3, <1>4

\* The equation has a solution, whatever the base and the steps are.
LEMMA FoldExists ==
    ASSUME NEW V, NEW N \in Nat, NEW base \in V, NEW step \in [(1..N) \X V -> V]
    PROVE  \E it : FoldEquation(it, V, N, base, step)
<1> DEFINE Folded == {n \in Nat : n <= N => \E it : FoldEquation(it, V, n, base, step)}
<1>1. 0 \in Folded
  <2> DEFINE it == [P \in SUBSET (1..0) |-> base]
  <2>1. 1..0 = {}
    OBVIOUS
  <2>2. FoldEquation(it, V, 0, base, step)
    BY <2>1 DEF FoldEquation
  <2>3. QED
    BY <2>2
<1>2. ASSUME NEW n \in Nat, n \in Folded PROVE n + 1 \in Folded
  <2> SUFFICES ASSUME n + 1 <= N PROVE \E it : FoldEquation(it, V, n + 1, base, step)
    OBVIOUS
  <2>1. PICK old : FoldEquation(old, V, n, base, step)
    BY <1>2
  <2> DEFINE it == [P \in SUBSET (1..(n + 1)) |->
                      IF n + 1 \in P THEN step[<<n + 1, old[P \ {n + 1}]>>] ELSE old[P]]
  <2>2. n + 1 \in 1..N /\ 1..n \subseteq 1..(n + 1)
    OBVIOUS
  <2>3. \A P \in SUBSET (1..n) : old[P] \in V
    BY <2>1 DEF FoldEquation
  <2>4. it \in [SUBSET (1..(n + 1)) -> V]
    BY <2>2, <2>3, LastPlace
  <2>5. \A P \in SUBSET (1..n) : n + 1 \notin P
    OBVIOUS
  <2>6. \A P \in SUBSET (1..n) : it[P] = old[P]
    BY <2>2, <2>5
  <2>7. ASSUME NEW P \in SUBSET (1..(n + 1))
        PROVE  it[P] = IF P = {} THEN base ELSE step[<<Max(P), it[P \ {Max(P)}]>>]
    <3>1. CASE n + 1 \in P
      <4>1. Max(P) = n + 1 /\ P \ {n + 1} \in SUBSET (1..n) /\ P # {}
        BY <3>1, LastPlace
      <4>2. it[P] = step[<<n + 1, old[P \ {n + 1}]>>]
        BY <3>1
      <4>3. it[P \ {n + 1}] = old[P \ {n + 1}]
        BY <2>6, <4>1
      <4>4. QED
        BY <4>1, <4>2, <4>3
    <3>2. CASE n + 1 \notin P
      <4>1. P \in SUBSET (1..n) /\ P \ {Max(P)} \in SUBSET (1..n)
        BY <3>2, LastPlace
      <4>2. it[P] = old[P] /\ it[P \ {Max(P)}] = old[P \ {Max(P)}]
        BY <2>6, <4>1
      <4>3. old[P] = IF P = {} THEN base ELSE step[<<Max(P), old[P \ {Max(P)}]>>]
        BY <2>1, <4>1 DEF FoldEquation
      <4>4. QED
        BY <4>2, <4>3
    <3>3. QED
      BY <3>1, <3>2
  <2>8. FoldEquation(it, V, n + 1, base, step)
    BY <2>4, <2>7 DEF FoldEquation
  <2>9. QED
    BY <2>8
<1>3. N \in Folded
  <2> HIDE DEF Folded
  <2>1. QED
    BY <1>1, <1>2, NumbersInduction
<1>4. QED
  BY <1>3

-----------------------------------------------------------------------------
(* Numbers of days *)

\* What a numeral adds to the number.
NumeralValue(c) == Find(Numerals, c) - 1

\* The fold of NumberOf, and the equation it is the solution of.
NumberFold(it, s) ==
    it = [P \in SUBSET DOMAIN s |->
             IF P = {} THEN 0 ELSE 10 * it[P \ {Max(P)}] + Find(Numerals, s[Max(P)]) - 1]

\* NumberOf is the value, on the whole text, of the function the fold chooses.
LEMMA NumberIsFold ==
    ASSUME NEW s
    PROVE  NumberOf(s) = (CHOOSE it : NumberFold(it, s))[DOMAIN s]
  BY DEF NumberOf, FoldLeft, MapThenFoldSet, NumberFold

\* What a numeral adds is a number, and no less than zero.
LEMMA NumeralValues ==
    /\ \A c : Find(Numerals, c) \in Int /\ NumeralValue(c) \in Int
    /\ \A c : IsNumeral(c) => NumeralValue(c) >= 0
<1> DEFINE T == {"0", "1", "2", "3", "4", "5", "6", "7", "8", "9"}
<1>1. Numerals \in Seq(T)
  BY DEF Numerals
<1> HIDE DEF T
<1>2. \A c : Find(Numerals, c) \in 0..Len(Numerals)
  BY <1>1, FindIs
<1>3. ASSUME NEW c, IsNumeral(c) PROVE Find(Numerals, c) # 0
  <2>1. PICK i \in 1..Len(Numerals) : Numerals[i] = c
    BY <1>1, <1>3 DEF IsNumeral, Range
  <2>2. QED
    BY <1>1, <2>1, FindIs
<1>4. Len(Numerals) \in Nat
  BY <1>1
<1>5. QED
  BY <1>2, <1>3, <1>4 DEF NumeralValue

\* The equation has a solution, on a text of any units.
LEMMA NumberFoldExists ==
    ASSUME NEW S, NEW s \in Seq(S)
    PROVE  \E it : NumberFold(it, s)
<1>1. PICK n \in Nat : n = Len(s) /\ DOMAIN s = 1..n
  OBVIOUS
<1> DEFINE step == [p \in (1..n) \X Int |-> 10 * p[2] + NumeralValue(s[p[1]])]
<1>2. step \in [(1..n) \X Int -> Int]
  <2>1. \A v \in Int : \A c : 10 * v + NumeralValue(c) \in Int
    BY NumeralValues
  <2>2. QED
    BY <2>1
<1> HIDE DEF step
<1>3. PICK it : FoldEquation(it, Int, n, 0, step)
  <2>1. 0 \in Int
    OBVIOUS
  <2>2. QED
    BY <1>2, <2>1, FoldExists, Zenon
<1>4. ASSUME NEW P \in SUBSET (1..n)
      PROVE  it[P] = IF P = {} THEN 0 ELSE 10 * it[P \ {Max(P)}] + Find(Numerals, s[Max(P)]) - 1
  <2>1. CASE P = {}
    BY <1>3, <2>1 DEF FoldEquation
  <2>2. CASE P # {}
    <3>1. Max(P) \in 1..n /\ P \ {Max(P)} \in SUBSET (1..n)
      <4>1. P \in SUBSET (0..n)
        OBVIOUS
      <4>2. Max(P) \in P
        BY <2>2, <4>1, LargestExists
      <4>3. QED
        BY <4>2
    <3>2. it[P \ {Max(P)}] \in Int
      BY <1>3, <3>1 DEF FoldEquation
    <3>3. it[P] = step[<<Max(P), it[P \ {Max(P)}]>>]
      BY <1>3, <2>2 DEF FoldEquation
    <3>4. step[<<Max(P), it[P \ {Max(P)}]>>] = 10 * it[P \ {Max(P)}] + NumeralValue(s[Max(P)])
      BY <3>1, <3>2 DEF step
    <3>5. Find(Numerals, s[Max(P)]) - 1 \in Int /\ Find(Numerals, s[Max(P)]) \in Int
      BY NumeralValues
    <3>6. QED
      BY <2>2, <3>2, <3>3, <3>4, <3>5 DEF NumeralValue
  <2>3. QED
    BY <2>1, <2>2
<1>5. it \in [SUBSET (1..n) -> Int]
  BY <1>3 DEF FoldEquation
<1>6. NumberFold(it, s)
  BY <1>1, <1>4, <1>5 DEF NumberFold
<1>7. QED
  BY <1>6

\* The number of a text of numerals, by its parts: a numeral more is ten times
\* the number before it, and its value.
NumberParts(part, s) ==
    /\ part[0] = 0
    /\ \A j \in 1..Len(s) : part[j] = 10 * part[j - 1] + NumeralValue(s[j])

\* What NumberOf computes, part by part.
LEMMA NumberIs ==
    ASSUME NEW S, NEW s \in Seq(S)
    PROVE  \E part \in [0..Len(s) -> Int] : NumberParts(part, s) /\ NumberOf(s) = part[Len(s)]
<1>1. PICK n \in Nat : n = Len(s) /\ DOMAIN s = 1..n
  OBVIOUS
<1> DEFINE it == CHOOSE it : NumberFold(it, s)
<1>2. NumberFold(it, s)
  BY NumberFoldExists
<1>3. NumberOf(s) = it[1..n]
  BY <1>1, NumberIsFold
<1> HIDE DEF it
<1>4. it[1..0] = 0
  BY <1>1, <1>2 DEF NumberFold
<1>5. ASSUME NEW j \in 1..n PROVE it[1..j] = 10 * it[1..(j - 1)] + Find(Numerals, s[j]) - 1
  <2>1. 1..j \in SUBSET (1..n) /\ 1..j # {} /\ (1..j) \ {j} = 1..(j - 1)
    OBVIOUS
  <2>2. Max(1..j) = j
    <3>1. 1..j \in SUBSET (1..(j - 1 + 1)) /\ j - 1 + 1 = j /\ j - 1 + 1 \in 1..j /\ j - 1 \in Nat
      OBVIOUS
    <3>2. QED
      BY <3>1, LastPlace
  <2>3. QED
    BY <1>1, <1>2, <2>1, <2>2 DEF NumberFold
<1>6. \A j \in 0..n : it[1..j] \in Int
  <2> DEFINE Known == {j \in Nat : j <= n => it[1..j] \in Int}
  <2>1. 0 \in Known
    BY <1>4
  <2>2. ASSUME NEW j \in Nat, j \in Known PROVE j + 1 \in Known
    <3> SUFFICES ASSUME j + 1 <= n PROVE it[1..(j + 1)] \in Int
      OBVIOUS
    <3>1. it[1..j] \in Int /\ j + 1 \in 1..n /\ j + 1 - 1 = j
      BY <2>2
    <3>2. it[1..(j + 1)] = 10 * it[1..j] + Find(Numerals, s[j + 1]) - 1
      BY <1>5, <3>1
    <3>3. Find(Numerals, s[j + 1]) \in Int
      BY NumeralValues
    <3>4. QED
      BY <3>1, <3>2, <3>3
  <2> HIDE DEF Known
  <2>3. \A j \in Nat : j \in Known
    BY <2>1, <2>2, NumbersInduction
  <2>4. QED
    BY <2>3 DEF Known
<1> DEFINE part == [j \in 0..n |-> it[1..j]]
<1>7. part \in [0..n -> Int] /\ part[0] = 0 /\ NumberOf(s) = part[n]
  BY <1>3, <1>4, <1>6
<1>8. ASSUME NEW j \in 1..n PROVE part[j] = 10 * part[j - 1] + NumeralValue(s[j])
  <2>1. j \in 0..n /\ j - 1 \in 0..n
    OBVIOUS
  <2>2. part[j] = it[1..j] /\ part[j - 1] = it[1..(j - 1)] /\ it[1..(j - 1)] \in Int
    BY <1>6, <2>1
  <2>3. Find(Numerals, s[j]) \in Int
    BY NumeralValues
  <2>4. QED
    BY <1>5, <2>2, <2>3 DEF NumeralValue
<1> HIDE DEF part
<1>9. QED
  BY <1>1, <1>7, <1>8 DEF NumberParts

\* A text of numerals is no negative number.
LEMMA NumberIsNatural ==
    ASSUME NEW S, NEW s \in Seq(S), \A i \in 1..Len(s) : IsNumeral(s[i])
    PROVE  NumberOf(s) \in Nat
<1>1. PICK n \in Nat : n = Len(s)
  OBVIOUS
<1>2. PICK part \in [0..n -> Int] : NumberParts(part, s) /\ NumberOf(s) = part[n]
  BY <1>1, NumberIs
<1> DEFINE Natural == {j \in Nat : j <= n => part[j] >= 0}
<1>3. 0 \in Natural
  BY <1>2 DEF NumberParts
<1>4. ASSUME NEW j \in Nat, j \in Natural PROVE j + 1 \in Natural
  <2> SUFFICES ASSUME j + 1 <= n PROVE part[j + 1] >= 0
    OBVIOUS
  <2>1. part[j] \in Int /\ part[j] >= 0 /\ j + 1 \in 1..n /\ j + 1 - 1 = j
    BY <1>4
  <2>2. part[j + 1] = 10 * part[j] + NumeralValue(s[j + 1])
    BY <1>1, <1>2, <2>1 DEF NumberParts
  <2>3. NumeralValue(s[j + 1]) \in Int /\ NumeralValue(s[j + 1]) >= 0
    BY <1>1, <2>1, NumeralValues
  <2>4. QED
    BY <2>1, <2>2, <2>3
<1> HIDE DEF Natural
<1>5. n \in Natural
  BY <1>3, <1>4, NumbersInduction
<1>6. QED
  BY <1>2, <1>5 DEF Natural

\* A text all of whose leading numerals are the text is of numerals.
LEMMA LeadingIsAll ==
    ASSUME NEW S, NEW s \in Seq(S), Leading(s) = s
    PROVE  \A i \in 1..Len(s) : IsNumeral(s[i])
<1> DEFINE places == {i \in 1..Len(s) : ~IsNumeral(s[i])}
           end == IF places # {} THEN Min(places) ELSE 0
<1>1. Leading(s) = IF end = 0 THEN s ELSE SubSeq(s, 1, end - 1)
  BY DEF Leading, SelectInSeq, Before
<1>2. SUFFICES ASSUME places # {} PROVE FALSE
  OBVIOUS
<1>3. end \in 1..Len(s)
  <2>1. places \in SUBSET Nat
    OBVIOUS
  <2>2. Min(places) \in places
    BY <1>2, <2>1, SmallestExists
  <2>3. QED
    BY <1>2, <2>2
<1> HIDE DEF end
<1>4. Len(SubSeq(s, 1, end - 1)) = end - 1
  BY <1>3
<1>5. SubSeq(s, 1, end - 1) = s
  BY <1>1, <1>3
<1>6. QED
  BY <1>3, <1>4, <1>5

\* A sign ends the numerals.
LEMMA SignsAreNoNumerals == ~IsNumeral("-") /\ ~IsNumeral("+")
  BY DEF IsNumeral, Range, Numerals

\* The product of the days is no less than the days.
LEMMA ProductIsMore ==
    ASSUME NEW days \in Nat, NEW length \in Nat \ {0}
    PROVE  days * length \in Nat /\ days <= days * length
  OBVIOUS

\* What an int holds does not run over.
LEMMA WrappedWithin ==
    ASSUME NEW n \in 0..IntMax
    PROVE  Wrapped(n) = n
<1>1. IntMax \in Nat
  BY ConfigTextAssumption
<1>2. n + IntMax + 1 \in 0..(2 * IntMax + 1)
  BY <1>1
<1>3. (n + IntMax + 1) % (2 * IntMax + 2) = n + IntMax + 1
  BY <1>1, <1>2
<1>4. QED
  BY <1>1, <1>3 DEF Wrapped

\* main.cpp:298, 305: a number of days of any length.
THEOREM DaysSurvive ==
    ASSUME NEW S, NEW value \in Seq(S)
    PROVE  DaysKept(value)
<1> SUFFICES ASSUME value # <<>>, Leading(value) = value
             PROVE  LET days == NumberOf(value)
                    IN  /\ days * DayLength <= IntMax => Retention(value) = days * DayLength
                        /\ days > IntMax => Retention(value) = DefaultDays * DayLength
  BY DEF DaysKept
<1>1. \A i \in 1..Len(value) : IsNumeral(value[i])
  BY LeadingIsAll
<1>2. PICK days \in Nat : NumberOf(value) = days
  BY <1>1, NumberIsNatural
<1>3. value[1] # "-" /\ value[1] # "+"
  <2>1. 1 \in 1..Len(value)
    OBVIOUS
  <2>2. QED
    BY <1>1, <2>1, SignsAreNoNumerals, Zenon
<1>4. GetInt(value, DefaultDays) = IF days > IntMax \/ days < -IntMax - 1 THEN DefaultDays ELSE days
  BY <1>2, <1>3 DEF GetInt
<1>5. /\ IntMax \in Nat /\ DayLength \in Nat \ {0} /\ DefaultDays \in Nat
      /\ DefaultDays * DayLength <= IntMax
  BY ConfigTextAssumption
<1>6. GetInt(value, DefaultDays) = IF days > IntMax THEN DefaultDays ELSE days
  BY <1>4, <1>5
<1>7. ASSUME days * DayLength <= IntMax PROVE Retention(value) = days * DayLength
  <2>1. days <= days * DayLength /\ days * DayLength \in Nat
    BY <1>5, ProductIsMore
  <2>2. days <= IntMax
    BY <1>5, <1>7, <2>1
  <2>3. GetInt(value, DefaultDays) = days
    BY <1>5, <1>6, <2>2
  <2>4. Wrapped(days * DayLength) = days * DayLength
    BY <1>5, <1>7, <2>1, WrappedWithin
  <2>5. QED
    BY <2>3, <2>4 DEF Retention
<1>8. ASSUME days > IntMax PROVE Retention(value) = DefaultDays * DayLength
  <2>1. DefaultDays * DayLength \in Nat
    BY <1>5, ProductIsMore
  <2>2. Wrapped(DefaultDays * DayLength) = DefaultDays * DayLength
    BY <1>5, <2>1, WrappedWithin
  <2>3. QED
    BY <1>6, <1>8, <2>2 DEF Retention
<1>9. QED
  BY <1>2, <1>7, <1>8

\* main.cpp:298, 305: whatever the operator writes.
THEOREM DaysAreAlwaysKept == Spec => []DaysAreKept
<1>1. TextTyped => DaysAreKept
  BY DaysSurvive DEF TextTyped, DaysAreKept
<1>2. QED
  BY <1>1, TextsTyped, PTL

-----------------------------------------------------------------------------
(* Lengths of a field *)

\* How often a unit is in a text is a number.
LEMMA OccurrencesAreNatural ==
    ASSUME NEW S, NEW s \in Seq(S), NEW u
    PROVE  Occurrences(s, u) \in Nat /\ IsFiniteSet({i \in DOMAIN s : s[i] = u})
<1> DEFINE places == {i \in DOMAIN s : s[i] = u}
<1>1. DOMAIN s = 1..Len(s) /\ Len(s) \in Nat
  OBVIOUS
<1>2. IsFiniteSet(1..Len(s))
  BY <1>1, FS_Interval
<1>3. places \in SUBSET (1..Len(s))
  BY <1>1
<1> HIDE DEF places
<1>4. IsFiniteSet(places)
  BY <1>2, <1>3, FS_Subset
<1>5. QED
  BY <1>4, FS_CardinalityType DEF Occurrences, places

\* What is in two texts one after the other is what is in each.
LEMMA OccurrencesJoined ==
    ASSUME NEW S, NEW s \in Seq(S), NEW t \in Seq(S), NEW u
    PROVE  Occurrences(s \o t, u) = Occurrences(s, u) + Occurrences(t, u)
<1>1. PICK m \in Nat : Len(s) = m
  OBVIOUS
<1>2. PICK n \in Nat : Len(t) = n
  OBVIOUS
<1> DEFINE A == {i \in DOMAIN s : s[i] = u}
           B == {i \in DOMAIN t : t[i] = u}
           C == {m + i : i \in B}
           J == {i \in DOMAIN (s \o t) : (s \o t)[i] = u}
<1>3. DOMAIN s = 1..m /\ DOMAIN t = 1..n
  BY <1>1, <1>2
<1>4. J = A \cup C
  <2> DEFINE j == s \o t
  <2>1. Len(j) = m + n /\ j \in Seq(S)
    BY <1>1, <1>2, Joined
  <2>2. \A i \in 1..m : j[i] = s[i]
    BY <1>1, <1>2
  <2>3. \A i \in 1..n : j[m + i] = t[i]
    BY <1>1, <1>2
  <2> HIDE DEF j
  <2>4. DOMAIN j = 1..(m + n)
    BY <2>1
  <2>5. J = {i \in 1..(m + n) : j[i] = u}
    BY <2>4 DEF j
  <2>6. ASSUME NEW i \in J PROVE i \in A \cup C
    <3>1. i \in 1..(m + n) /\ j[i] = u
      BY <2>5
    <3>2. CASE i <= m
      BY <1>3, <2>2, <3>1, <3>2
    <3>3. CASE ~(i <= m)
      <4>1. i - m \in 1..n /\ m + (i - m) = i
        BY <3>1, <3>3
      <4>2. i - m \in B
        BY <1>3, <2>3, <3>1, <4>1
      <4>3. QED
        BY <4>1, <4>2
    <3>4. QED
      BY <3>2, <3>3
  <2>7. ASSUME NEW i \in A PROVE i \in J
    <3>1. i \in 1..m /\ s[i] = u /\ i \in 1..(m + n)
      BY <1>3
    <3>2. QED
      BY <2>2, <2>5, <3>1
  <2>8. ASSUME NEW i \in C PROVE i \in J
    <3>1. PICK k \in B : i = m + k
      OBVIOUS
    <3>2. k \in 1..n /\ t[k] = u /\ m + k \in 1..(m + n)
      BY <1>3
    <3>3. QED
      BY <2>3, <2>5, <3>1, <3>2
  <2> HIDE DEF A, C, J
  <2>9. QED
    BY <2>6, <2>7, <2>8
<1>5. A \cap C = {}
  <2>1. \A i \in B : ~(m + i \in 1..m)
    BY <1>3
  <2>2. A \subseteq 1..m
    BY <1>3
  <2>3. QED
    BY <2>1, <2>2
<1>6. IsFiniteSet(A) /\ IsFiniteSet(B)
  BY OccurrencesAreNatural
<1>7. IsFiniteSet(C) /\ Cardinality(C) = Cardinality(B)
  <2> DEFINE f == [i \in B |-> m + i]
  <2>1. \A i \in B : i \in Int
    BY <1>3
  <2>2. f \in [B -> C]
    OBVIOUS
  <2>3. \A i, k \in B : f[i] = f[k] => i = k
    BY <2>1
  <2>4. \A c \in C : \E i \in B : f[i] = c
    OBVIOUS
  <2> HIDE DEF A, B, C, f
  <2>5. f \in Bijection(B, C)
    BY <2>2, <2>3, <2>4, Fun_IsBij
  <2>6. ExistsBijection(B, C)
    BY <2>5 DEF ExistsBijection
  <2>7. QED
    BY <1>6, <2>6, FS_Bijection
<1> HIDE DEF C, J
<1>8. Occurrences(s \o t, u) = Cardinality(J) /\ Occurrences(s, u) = Cardinality(A)
      /\ Occurrences(t, u) = Cardinality(B)
  BY DEF Occurrences, J
<1> HIDE DEF A, B
<1>9. Cardinality(A \cup C) = Cardinality(A) + Cardinality(C) - Cardinality(A \cap C)
  BY <1>6, <1>7, FS_Union
<1>10. Cardinality(A \cap C) = 0
  BY <1>5, FS_EmptySet
<1>11. Cardinality(A) \in Nat /\ Cardinality(B) \in Nat
  BY <1>6, FS_CardinalityType
<1>12. QED
  BY <1>4, <1>7, <1>8, <1>9, <1>10, <1>11

\* The function FlattenSeq is defined by, on the first places of the sequence.
JoinedAt(part, seqs, i) == part[i] = IF i = 1 THEN seqs[i] ELSE part[i - 1] \o seqs[i]
\* The equation up to the n-th place.
FlattenEquation(part, seqs, T, n) ==
    part \in [1..n -> Seq(T)] /\ \A i \in 1..n : JoinedAt(part, seqs, i)

\* The equation has a solution, for every sequence of texts.
LEMMA FlattenExists ==
    ASSUME NEW T, NEW seqs \in Seq(Seq(T))
    PROVE  \E part : FlattenEquation(part, seqs, T, Len(seqs))
<1> DEFINE Flattened == {n \in Nat : n <= Len(seqs) => \E part : FlattenEquation(part, seqs, T, n)}
<1>1. 0 \in Flattened
  <2>1. FlattenEquation([i \in 1..0 |-> <<>>], seqs, T, 0)
    BY DEF FlattenEquation, JoinedAt
  <2>2. QED
    BY <2>1
<1>2. ASSUME NEW n \in Nat, n \in Flattened PROVE n + 1 \in Flattened
  <2> SUFFICES ASSUME n + 1 <= Len(seqs) PROVE \E part : FlattenEquation(part, seqs, T, n + 1)
    OBVIOUS
  <2>1. PICK old : FlattenEquation(old, seqs, T, n)
    BY <1>2
  <2> DEFINE last == IF n = 0 THEN seqs[n + 1] ELSE old[n] \o seqs[n + 1]
             part == [i \in 1..(n + 1) |-> IF i = n + 1 THEN last ELSE old[i]]
  <2>2. seqs[n + 1] \in Seq(T)
    OBVIOUS
  <2>3. \A i \in 1..n : old[i] \in Seq(T)
    BY <2>1 DEF FlattenEquation, JoinedAt
  <2>4. last \in Seq(T)
    <3>1. CASE n = 0
      BY <2>2, <3>1
    <3>2. CASE n # 0
      <4>1. old[n] \in Seq(T)
        BY <2>3, <3>2
      <4>2. QED
        BY <2>2, <3>2, <4>1
    <3>3. QED
      BY <3>1, <3>2
  <2> HIDE DEF last
  <2>5. part \in [1..(n + 1) -> Seq(T)]
    BY <2>3, <2>4
  <2>6. ASSUME NEW i \in 1..(n + 1)
        PROVE  part[i] = IF i = 1 THEN seqs[i] ELSE part[i - 1] \o seqs[i]
    <3>1. CASE i = n + 1
      <4>1. part[i] = last
        BY <3>1
      <4>2. CASE n = 0
        BY <3>1, <4>1, <4>2 DEF last
      <4>3. CASE n # 0
        <5>1. i - 1 = n /\ i # 1 /\ n \in 1..(n + 1) /\ n # n + 1
          BY <3>1, <4>3
        <5>2. part[n] = old[n]
          BY <5>1
        <5>3. last = old[n] \o seqs[n + 1]
          BY <4>3 DEF last
        <5> HIDE DEF part
        <5>4. QED
          BY <3>1, <4>1, <5>1, <5>2, <5>3
      <4>4. QED
        BY <4>2, <4>3
    <3>2. CASE i # n + 1
      <4>1. i \in 1..n /\ (i # 1 => i - 1 \in 1..n /\ i - 1 # n + 1 /\ i - 1 \in 1..(n + 1))
        BY <3>2
      <4>2. part[i] = old[i] /\ (i # 1 => part[i - 1] = old[i - 1])
        BY <4>1
      <4>3. old[i] = IF i = 1 THEN seqs[i] ELSE old[i - 1] \o seqs[i]
        BY <2>1, <4>1 DEF FlattenEquation, JoinedAt
      <4> HIDE DEF part
      <4>4. QED
        BY <4>2, <4>3
    <3>3. QED
      BY <3>1, <3>2
  <2>7. FlattenEquation(part, seqs, T, n + 1)
    BY <2>5, <2>6 DEF FlattenEquation, JoinedAt
  <2>8. QED
    BY <2>7
<1> HIDE DEF Flattened
<1>3. Len(seqs) \in Flattened
  BY <1>1, <1>2, NumbersInduction
<1>4. QED
  BY <1>3 DEF Flattened

\* A sequence of texts made one: every text is joined to those before it.
LEMMA FlattenIs ==
    ASSUME NEW T, NEW seqs \in Seq(Seq(T)), seqs # <<>>
    PROVE  \E part \in [1..Len(seqs) -> Seq(T)] :
              /\ FlattenEquation(part, seqs, T, Len(seqs))
              /\ FlattenSeq(seqs) = part[Len(seqs)]
<1>1. PICK n \in Nat \ {0} : n = Len(seqs)
  OBVIOUS
<1> DEFINE Equation(part) ==
             part = [i \in 1..n |-> IF i = 1 THEN seqs[i] ELSE part[i - 1] \o seqs[i]]
           flatten == CHOOSE part : Equation(part)
<1>2. FlattenSeq(seqs) = flatten[n]
  BY <1>1 DEF FlattenSeq
<1>3. PICK part : FlattenEquation(part, seqs, T, n)
  BY <1>1, FlattenExists
<1>4. Equation(part)
  BY <1>3 DEF FlattenEquation, JoinedAt
<1>5. Equation(flatten)
  BY <1>4
<1> HIDE DEF flatten
<1>6. \A i \in 1..n : flatten[i] = IF i = 1 THEN seqs[i] ELSE flatten[i - 1] \o seqs[i]
  BY <1>5
<1>7. \A i \in 1..n : part[i] = IF i = 1 THEN seqs[i] ELSE part[i - 1] \o seqs[i]
  BY <1>3 DEF FlattenEquation, JoinedAt
<1> DEFINE Same == {i \in Nat : i \in 1..n => flatten[i] = part[i]}
<1>8. 0 \in Same
  OBVIOUS
<1>9. ASSUME NEW i \in Nat, i \in Same PROVE i + 1 \in Same
  <2> SUFFICES ASSUME i + 1 \in 1..n PROVE flatten[i + 1] = part[i + 1]
    OBVIOUS
  <2>1. flatten[i + 1] = IF i + 1 = 1 THEN seqs[i + 1] ELSE flatten[i + 1 - 1] \o seqs[i + 1]
    BY <1>6
  <2>2. part[i + 1] = IF i + 1 = 1 THEN seqs[i + 1] ELSE part[i + 1 - 1] \o seqs[i + 1]
    BY <1>7
  <2>3. i + 1 # 1 => flatten[i + 1 - 1] = part[i + 1 - 1]
    <3>1. i + 1 - 1 = i /\ (i + 1 # 1 => i \in 1..n)
      OBVIOUS
    <3>2. QED
      BY <1>9, <3>1
  <2>4. QED
    BY <2>1, <2>2, <2>3
<1> HIDE DEF Same
<1>10. n \in Same
  BY <1>8, <1>9, NumbersInduction
<1>11. FlattenSeq(seqs) = part[n]
  BY <1>2, <1>10 DEF Same
<1>12. QED
  BY <1>1, <1>3, <1>11 DEF FlattenEquation, JoinedAt

\* The kinds of bytes.
Utf8Bytes == {"leading", "continuation", "newline", "control"}

\* The bytes of a code point: one of them is none of the continuation bytes.
LEMMA Utf8Is ==
    ASSUME NEW p \in CodePoints
    PROVE  /\ Utf8(p) \in Seq(Utf8Bytes) /\ Len(Utf8(p)) \in Nat \ {0}
           /\ CodepointCount(Utf8(p)) = 1
           /\ Occurrences(Utf8(p), "control") = 0 <=> p # "control"
<1>1. PICK w \in Nat \ {0} : w = Width(p) /\ (p = "control" => w = 1)
  BY DEF Width, CodePoints
<1> DEFINE bytes == Utf8(p)
<1>2. bytes = [i \in 1..w |-> IF i > 1 THEN "continuation"
                              ELSE IF p \in {"newline", "control"} THEN p ELSE "leading"]
  BY <1>1 DEF Utf8
<1>3. bytes \in Seq(Utf8Bytes)
  <2>1. bytes \in [1..w -> Utf8Bytes]
    BY <1>2 DEF Utf8Bytes
  <2>2. QED
    BY <2>1
<1>4. Len(bytes) = w /\ DOMAIN bytes = 1..w
  BY <1>2
<1>5. \A i \in 1..w : bytes[i] = IF i > 1 THEN "continuation"
                                 ELSE IF p \in {"newline", "control"} THEN p ELSE "leading"
  BY <1>2
<1> HIDE DEF bytes
<1>6. Occurrences(bytes, "continuation") = w - 1
  <2>1. {i \in DOMAIN bytes : bytes[i] = "continuation"} = 2..w
    BY <1>4, <1>5
  <2>2. Cardinality(2..w) = w - 1
    BY FS_Interval
  <2>3. QED
    BY <2>1, <2>2 DEF Occurrences
<1>7. Occurrences(bytes, "control") = 0 <=> p # "control"
  <2>1. Occurrences(bytes, "control") = 0 <=> \A i \in 1..Len(bytes) : bytes[i] # "control"
    BY <1>3, OccurrencesAre
  <2>2. 1 \in 1..w
    OBVIOUS
  <2>3. (\A i \in 1..w : bytes[i] # "control") <=> p # "control"
    BY <1>5, <2>2
  <2>4. QED
    BY <1>4, <2>1, <2>3
<1>8. QED
  BY <1>3, <1>4, <1>6, <1>7 DEF CodepointCount, bytes

\* utf8_codepoint_count adds up.
LEMMA CountsAdd ==
    ASSUME NEW S, NEW s \in Seq(S), NEW t \in Seq(S)
    PROVE  /\ CodepointCount(s \o t) = CodepointCount(s) + CodepointCount(t)
           /\ CodepointCount(s) \in Int
<1>1. PICK m \in Nat : Len(s) = m
  OBVIOUS
<1>2. PICK n \in Nat : Len(t) = n
  OBVIOUS
<1>3. Len(s \o t) = m + n
  BY <1>1, <1>2
<1>4. PICK c \in Nat : Occurrences(s, "continuation") = c
  BY OccurrencesAreNatural
<1>5. PICK d \in Nat : Occurrences(t, "continuation") = d
  BY OccurrencesAreNatural
<1>6. Occurrences(s \o t, "continuation") = c + d
  BY <1>4, <1>5, OccurrencesJoined
<1> DEFINE j == s \o t
<1> HIDE DEF j
<1>7. Len(j) = m + n /\ Occurrences(j, "continuation") = c + d
  BY <1>3, <1>6 DEF j
<1>8. CodepointCount(j) = CodepointCount(s) + CodepointCount(t)
  BY <1>1, <1>2, <1>4, <1>5, <1>7 DEF CodepointCount
<1>9. CodepointCount(s) \in Int
  BY <1>1, <1>4 DEF CodepointCount
<1>10. QED
  BY <1>8, <1>9 DEF j

\* The bytes of a text: as many code points, and control characters if it has any.
LEMMA EncodedIs ==
    ASSUME NEW s \in Seq(CodePoints)
    PROVE  /\ Encoded(s) = <<>> <=> s = <<>>
           /\ CodepointCount(Encoded(s)) = Len(s)
           /\ HasDisallowedControlChars(Encoded(s)) <=> Occurrences(s, "control") # 0
<1> DEFINE seqs == [i \in DOMAIN s |-> Utf8(s[i])]
           B == Utf8Bytes
<1>1. PICK n \in Nat : n = Len(s) /\ DOMAIN s = 1..n
  OBVIOUS
<1>2. \A i \in 1..n : s[i] \in CodePoints
  BY <1>1
<1>3. seqs \in Seq(Seq(B)) /\ Len(seqs) = n /\ \A i \in 1..n : seqs[i] = Utf8(s[i])
  <2>1. seqs \in [1..n -> Seq(B)]
    BY <1>1, <1>2, Utf8Is
  <2>2. QED
    BY <1>1, <2>1
<1>4. Encoded(s) = FlattenSeq(seqs)
  BY DEF Encoded
<1> HIDE DEF seqs, B
<1>5. CASE n = 0
  <2>1. s = <<>> /\ seqs = <<>>
    BY <1>1, <1>3, <1>5
  <2>2. Encoded(s) = <<>>
    BY <1>4, <2>1 DEF FlattenSeq
  <2>3. Occurrences(<<>>, "control") = 0 /\ Occurrences(<<>>, "continuation") = 0
    <3>1. s \in Seq(CodePoints) /\ \A i \in 1..Len(s) : FALSE
      BY <1>1, <1>5
    <3>2. Occurrences(s, "control") = 0 /\ Occurrences(s, "continuation") = 0
      BY <3>1, OccurrencesAre
    <3>3. QED
      BY <2>1, <3>2
  <2>4. CodepointCount(<<>>) = 0
    BY <2>3 DEF CodepointCount
  <2>5. QED
    BY <1>1, <1>5, <2>1, <2>2, <2>3, <2>4 DEF HasDisallowedControlChars
<1>6. CASE n # 0
  <2>1. PICK part \in [1..n -> Seq(B)] :
            /\ FlattenEquation(part, seqs, B, n) /\ FlattenSeq(seqs) = part[n]
    <3>1. seqs # <<>>
      BY <1>3, <1>6
    <3>2. QED
      BY <1>3, <3>1, FlattenIs
  <2>2. \A i \in 1..n : JoinedAt(part, seqs, i)
    BY <2>1 DEF FlattenEquation
  <2>3. \A i \in 1..n : part[i] \in Seq(B) /\ seqs[i] \in Seq(B)
    BY <1>3
  <2> DEFINE Clean(i) == \A k \in 1..i : s[k] # "control"
             Counted(i) == /\ CodepointCount(part[i]) = i
                           /\ Occurrences(part[i], "control") = 0 <=> Clean(i)
             Good == {i \in Nat : i \in 1..n => Counted(i)}
  <2>4. 0 \in Good
    OBVIOUS
  <2>5. ASSUME NEW i \in Nat, i \in Good PROVE i + 1 \in Good
    <3> SUFFICES ASSUME i + 1 \in 1..n PROVE Counted(i + 1)
      OBVIOUS
    <3>1. JoinedAt(part, seqs, i + 1)
      BY <2>2
    <3> DEFINE u == seqs[i + 1]
    <3>2. /\ u \in Seq(B) /\ CodepointCount(u) = 1
          /\ Occurrences(u, "control") = 0 <=> s[i + 1] # "control"
      BY <1>2, <1>3, <2>3, Utf8Is
    <3> HIDE DEF u
    <3>3. CASE i = 0
      <4>1. part[i + 1] = u
        BY <3>3, <3>1 DEF u, JoinedAt
      <4>2. Clean(i + 1) <=> s[i + 1] # "control"
        BY <3>3
      <4> HIDE DEF Clean
      <4>3. QED
        BY <3>2, <3>3, <4>1, <4>2
    <3>4. CASE i # 0
      <4>1. i \in 1..n /\ i + 1 # 1 /\ i + 1 - 1 = i
        BY <3>4
      <4>2. part[i + 1] = part[i + 1 - 1] \o u
        BY <3>1, <4>1 DEF u, JoinedAt
      <4>3. part[i + 1] = part[i] \o u
        BY <4>1, <4>2
      <4>4. Counted(i) /\ part[i] \in Seq(B)
        BY <2>3, <2>5, <4>1
      <4> DEFINE before == part[i]
                 joined == before \o u
      <4> HIDE DEF before
      <4>5. CodepointCount(joined) = CodepointCount(before) + CodepointCount(u)
        BY <3>2, <4>4, CountsAdd DEF before
      <4>6. Occurrences(joined, "control") =
              Occurrences(before, "control") + Occurrences(u, "control")
        BY <3>2, <4>4, OccurrencesJoined DEF before
      <4>7. Occurrences(before, "control") \in Nat /\ Occurrences(u, "control") \in Nat
        BY <3>2, <4>4, OccurrencesAreNatural DEF before
      <4>8. CodepointCount(before) = i /\ (Occurrences(before, "control") = 0 <=> Clean(i))
        BY <4>4 DEF before
      <4>9. Clean(i + 1) <=> Clean(i) /\ s[i + 1] # "control"
        <5>1. \A k \in 1..(i + 1) : k \in 1..i \/ k = i + 1
          OBVIOUS
        <5>2. 1..i \subseteq 1..(i + 1) /\ i + 1 \in 1..(i + 1)
          OBVIOUS
        <5>3. QED
          BY <5>1, <5>2
      <4> HIDE DEF joined, Clean
      <4>10. CodepointCount(joined) = i + 1
        BY <3>2, <4>5, <4>8
      <4>11. Occurrences(joined, "control") = 0 <=> Clean(i + 1)
        BY <3>2, <4>6, <4>7, <4>8, <4>9
      <4>12. part[i + 1] = joined
        BY <4>3 DEF joined, before
      <4>13. QED
        BY <4>10, <4>11, <4>12
    <3>5. QED
      BY <3>3, <3>4
  <2>6. n \in Good
    <3> HIDE DEF Good
    <3>1. QED
      BY <2>4, <2>5, NumbersInduction
  <2>7. Counted(n)
    BY <1>6, <2>6
  <2> DEFINE bytes == Encoded(s)
  <2>8. bytes = part[n] /\ bytes \in Seq(B)
    BY <1>4, <1>6, <2>1, <2>3
  <2> HIDE DEF bytes
  <2>9. CodepointCount(bytes) = n /\ (Occurrences(bytes, "control") = 0 <=> Clean(n))
    BY <2>7, <2>8
  <2>10. Occurrences(s, "control") = 0 <=> Clean(n)
    BY <1>1, OccurrencesAre
  <2>11. bytes # <<>>
    <3>1. SUFFICES ASSUME Len(bytes) = 0 PROVE FALSE
      BY <2>8
    <3>2. Occurrences(bytes, "continuation") \in Nat
      BY <2>8, OccurrencesAreNatural
    <3>3. QED
      BY <1>6, <2>9, <3>1, <3>2 DEF CodepointCount
  <2>12. Occurrences(bytes, "control") \in Nat
    BY <2>8, OccurrencesAreNatural
  <2>13. HasDisallowedControlChars(bytes) <=> Occurrences(s, "control") # 0
    BY <2>9, <2>10, <2>12 DEF HasDisallowedControlChars
  <2>14. s # <<>>
    BY <1>1, <1>6
  <2>15. QED
    BY <1>1, <2>9, <2>11, <2>13, <2>14 DEF bytes
<1>7. QED
  BY <1>5, <1>6

\* Validator::check of a field as it is typed.
LEMMA CheckedField ==
    ASSUME NEW s \in Seq(CodePoints), NEW max \in Nat, NEW allowEmpty \in BOOLEAN
    PROVE  CheckText(Encoded(s), max, allowEmpty) = "Ok" <=>
              IF s = <<>> THEN allowEmpty
              ELSE Occurrences(s, "control") = 0 /\ Len(s) <= max
<1> DEFINE bytes == Encoded(s)
<1>1. /\ bytes = <<>> <=> s = <<>>
      /\ CodepointCount(bytes) = Len(s)
      /\ HasDisallowedControlChars(bytes) <=> Occurrences(s, "control") # 0
  BY EncodedIs
<1> HIDE DEF bytes
<1>2. Len(s) \in Nat
  OBVIOUS
<1>3. CheckText(bytes, max, allowEmpty) = "Ok" <=>
        IF s = <<>> THEN allowEmpty ELSE Occurrences(s, "control") = 0 /\ Len(s) <= max
  BY <1>1, <1>2 DEF CheckText
<1>4. QED
  BY <1>3 DEF bytes

\* validator.h:64-66: a name and a message of any length, and any limits.
THEOREM FormsAreServed ==
    ASSUME NEW s \in Seq(CodePoints), NEW name \in Seq(CodePoints)
    PROVE  FormIsServed(s, name)
<1>1. SUFFICES ASSUME NEW limits \in Limits
               PROVE  LET accepted == ReportOk(Validate(limits, Encoded(name), Encoded(s),
                                                        "ru", <<>>, FALSE))
                          clean == Occurrences(s \o name, "control") = 0
                      IN  /\ accepted <=> /\ clean
                                         /\ Len(s) \in 1..limits.message
                                         /\ Len(name) <= limits.name
                          /\ /\ FormAdmits(s, PageMessageMax) /\ FormAdmits(name, PageNameMax)
                             /\ limits.message >= PageMessageMax /\ limits.name >= PageNameMax
                             => (accepted <=> s # <<>> /\ clean)
  BY Zenon DEF FormIsServed
<1>2. limits.message \in Nat /\ limits.name \in Nat
  BY FieldsAssumption
<1>3. PICK most \in Nat, nameMost \in Nat : most = limits.message /\ nameMost = limits.name
  BY <1>2
<1> DEFINE report == Validate(limits, Encoded(name), Encoded(s), "ru", <<>>, FALSE)
           nameOk == CheckText(Encoded(name), nameMost, TRUE) = "Ok"
           messageOk == CheckText(Encoded(s), most, FALSE) = "Ok"
<1>4. ReportOk(report) <=> nameOk /\ messageOk
  <2>1. report = [name |-> CheckText(Encoded(name), nameMost, TRUE),
                  message |-> CheckText(Encoded(s), most, FALSE),
                  locale |-> "Ok", honeypot |-> "Ok", timing |-> "Ok"]
    BY <1>3 DEF Validate
  <2> HIDE DEF report
  <2>2. DOMAIN report = {"name", "message", "locale", "honeypot", "timing"}
    BY <2>1
  <2>3. /\ report["name"] = CheckText(Encoded(name), nameMost, TRUE)
        /\ report["message"] = CheckText(Encoded(s), most, FALSE)
    BY <2>1
  <2>4. report["locale"] = "Ok" /\ report["honeypot"] = "Ok" /\ report["timing"] = "Ok"
    BY <2>1
  <2>5. QED
    BY <2>2, <2>3, <2>4 DEF ReportOk
<1>5. nameOk <=> (name = <<>> \/ (Occurrences(name, "control") = 0 /\ Len(name) <= nameMost))
  BY CheckedField
<1>6. messageOk <=> (s # <<>> /\ Occurrences(s, "control") = 0 /\ Len(s) <= most)
  BY CheckedField
<1> HIDE DEF report, nameOk, messageOk
<1>7. PICK c \in Nat : Occurrences(s, "control") = c
  BY OccurrencesAreNatural
<1>8. PICK d \in Nat : Occurrences(name, "control") = d
  BY OccurrencesAreNatural
<1>9. PICK wide \in Nat : Occurrences(s, "4") = wide
  BY OccurrencesAreNatural
<1>10. PICK wider \in Nat : Occurrences(name, "4") = wider
  BY OccurrencesAreNatural
<1>11. PICK m \in Nat : Len(s) = m /\ (s # <<>> <=> m >= 1)
  OBVIOUS
<1>12. PICK n \in Nat : Len(name) = n /\ (name = <<>> => n = 0)
  OBVIOUS
<1>13. Occurrences(s \o name, "control") = c + d
  BY <1>7, <1>8, OccurrencesJoined
<1>14. name = <<>> => d = 0
  <2> SUFFICES ASSUME name = <<>> PROVE d = 0
    OBVIOUS
  <2>1. \A i \in 1..Len(name) : name[i] # "control"
    OBVIOUS
  <2>2. QED
    BY <1>8, <2>1, OccurrencesAre
<1>15. ReportOk(report) <=> (c = 0 /\ d = 0 /\ m \in 1..most /\ n <= nameMost)
  BY <1>4, <1>5, <1>6, <1>7, <1>8, <1>11, <1>12, <1>14
<1>16. c + d = 0 <=> c = 0 /\ d = 0
  OBVIOUS
<1>17. /\ FormAdmits(s, PageMessageMax) <=> m + wide <= PageMessageMax
       /\ FormAdmits(name, PageNameMax) <=> n + wider <= PageNameMax
  BY <1>9, <1>10, <1>11, <1>12 DEF FormAdmits, Utf16Length
<1>18. PageMessageMax \in Nat /\ PageNameMax \in Nat
  BY FieldsAssumption
<1>19. ReportOk(report) <=> c + d = 0 /\ m \in 1..most /\ n <= nameMost
  BY <1>15, <1>16
<1>20. ASSUME m + wide <= PageMessageMax, n + wider <= PageNameMax,
              most >= PageMessageMax, nameMost >= PageNameMax
       PROVE  (m \in 1..most <=> m >= 1) /\ n <= nameMost
  <2>1. m <= PageMessageMax /\ n <= PageNameMax
    BY <1>18, <1>20
  <2>2. m <= most /\ n <= nameMost
    BY <1>18, <1>20, <2>1
  <2>3. QED
    BY <2>2
<1>21. ASSUME FormAdmits(s, PageMessageMax), FormAdmits(name, PageNameMax),
              most >= PageMessageMax, nameMost >= PageNameMax
       PROVE  ReportOk(report) <=> s # <<>> /\ c + d = 0
  BY <1>11, <1>17, <1>19, <1>20, <1>21
<1>22. QED
  BY <1>3, <1>11, <1>12, <1>13, <1>19, <1>21 DEF report

\* validator.h:64-66: whatever is typed in the form.
THEOREM FormAndServerAlwaysAgree == Spec => []FormAndServerAgree
<1>1. TextTyped => FormAndServerAgree
  <2> SUFFICES ASSUME text \in Seq(CodePoints),
                      NEW name \in {<<>>, <<"2">>, <<"4">>, <<"1", "3">>,
                                    <<"1", "1", "1">>, <<"control">>}
               PROVE  FormIsServed(text, name)
    BY DEF FormAndServerAgree, TextTyped, Units
  <2> DEFINE C == CodePoints
  <2>1. "1" \in C /\ "2" \in C /\ "3" \in C /\ "4" \in C /\ "control" \in C
    BY DEF CodePoints
  <2> HIDE DEF C
  <2>2. name \in Seq(C)
    <3>1. <<>> \in Seq(C) /\ <<"2">> \in Seq(C) /\ <<"4">> \in Seq(C)
      BY <2>1
    <3>2. <<"1", "3">> \in Seq(C)
      BY <2>1
    <3>3. <<"1", "1", "1">> \in Seq(C)
      BY <2>1
    <3>4. <<"control">> \in Seq(C)
      BY <2>1
    <3>5. QED
      BY <3>1, <3>2, <3>3, <3>4, Zenon
  <2>3. name \in Seq(CodePoints)
    BY <2>2 DEF C
  <2>4. QED
    BY <2>3, FormsAreServed
<1>2. QED
  BY <1>1, TextsTyped, PTL

-----------------------------------------------------------------------------
(* The configuration *)

\* The sign of a comment.
Hash == "#"

\* How far a text goes without the blanks at its end.
LEMMA LastWord ==
    ASSUME NEW S, NEW s \in Seq(S)
    PROVE  \E last \in 0..Len(s) :
              /\ last # 0 => s[last] # Blank
              /\ \A i \in (last + 1)..Len(s) : s[i] = Blank
<1> DEFINE places == {i \in 1..Len(s) : s[i] # Blank}
<1>1. CASE places = {}
  <2>1. 0 \in 0..Len(s) /\ \A i \in (0 + 1)..Len(s) : s[i] = Blank
    BY <1>1
  <2>2. QED
    BY <2>1
<1>2. CASE places # {}
  <2>1. places \in SUBSET (0..Len(s)) /\ Len(s) \in Nat
    OBVIOUS
  <2>2. Max(places) \in places /\ \A x \in places : x <= Max(places)
    BY <1>2, <2>1, LargestExists
  <2>3. PICK last \in places : \A x \in places : x <= last
    BY <2>2
  <2>4. last \in 0..Len(s) /\ s[last] # Blank
    BY <2>3
  <2>5. \A i \in (last + 1)..Len(s) : i \in 1..Len(s) /\ ~(i <= last)
    BY <2>1, <2>4
  <2>6. \A i \in (last + 1)..Len(s) : i \notin places
    BY <2>3, <2>5
  <2>7. \A i \in (last + 1)..Len(s) : s[i] = Blank
    BY <2>5, <2>6
  <2>8. QED
    BY <2>4, <2>7
<1>3. QED
  BY <1>1, <1>2

\* The first unit of a text, as a text.
LEMMA FirstUnit ==
    ASSUME NEW S, NEW s \in Seq(S), s # <<>>
    PROVE  SubSeq(s, 1, 1) = <<s[1]>>
<1>1. PICK one \in Nat : one = 1
  OBVIOUS
<1> DEFINE a == s[one]
           t == <<a>>
           u == SubSeq(s, one, one)
<1>2. a \in S /\ one \in 1..Len(s)
  BY <1>1
<1> HIDE DEF a
<1>3. t \in Seq(S) /\ Len(t) = one /\ t[one] = a
  BY <1>1, <1>2, OneUnit
<1>4. u \in Seq(S) /\ Len(u) = one /\ u[one] = a
  <2>1. one \in 1..(Len(s) + 1) /\ one \in (one - 1)..Len(s) /\ one - one + 1 = one
    BY <1>1, <1>2
  <2>2. /\ u \in Seq(S) /\ Len(u) = one - one + 1
        /\ \A i \in 1..(one - one + 1) : u[i] = s[one + i - 1]
    BY <2>1, Stretch
  <2>3. one \in 1..(one - one + 1) /\ one + one - 1 = one
    BY <1>1
  <2>4. QED
    BY <2>1, <2>2, <2>3 DEF a
<1> HIDE DEF t, u
<1>5. \A i \in 1..one : t[i] = u[i]
  <2>1. \A i \in 1..one : i = one
    BY <1>1
  <2>2. QED
    BY <1>3, <1>4, <2>1
<1>6. t = u
  BY <1>3, <1>4, <1>5, SeqEqual
<1>7. QED
  BY <1>1, <1>6, Zenon DEF t, u, a

\* Blanks at the end make no difference to trim.
LEMMA TrimOfStretch ==
    ASSUME NEW S, NEW s \in Seq(S), NEW w \in Seq(S), NEW last \in 0..Len(s),
           Len(w) = last, \A i \in 1..last : w[i] = s[i],
           last # 0 => s[last] # Blank,
           \A i \in (last + 1)..Len(s) : s[i] = Blank
    PROVE  Trim(w) = Trim(s)
<1>1. CASE last = 0
  <2>1. (\A i \in 1..Len(s) : s[i] = Blank) /\ \A i \in 1..Len(w) : w[i] = Blank
    BY <1>1
  <2>2. QED
    BY <2>1, TrimBlanks
<1>2. CASE last # 0
  <2> DEFINE places == {i \in 1..last : s[i] # Blank}
  <2>1. last \in places /\ places \in SUBSET Nat
    BY <1>2
  <2>2. Min(places) \in places /\ \A x \in places : Min(places) <= x
    BY <2>1, SmallestExists
  <2>3. PICK first \in places : \A x \in places : first <= x
    BY <2>2
  <2>4. /\ first \in 1..last /\ s[first] # Blank /\ w[first] # Blank
        /\ s[last] # Blank /\ w[last] # Blank
    BY <1>2, <2>3
  <2>5. \A i \in 1..(first - 1) : i \in 1..last /\ ~(first <= i)
    BY <2>4
  <2>6. \A i \in 1..(first - 1) : s[i] = Blank /\ w[i] = Blank
    BY <2>3, <2>5
  <2>7. Trim(s) = SubSeq(s, first, last)
    <3>1. first \in 1..Len(s) /\ last \in 1..Len(s)
      BY <2>4
    <3>2. QED
      BY <2>4, <2>6, <3>1, TrimIs
  <2>8. Trim(w) = SubSeq(w, first, last)
    <3>1. first \in 1..Len(w) /\ last \in 1..Len(w) /\ \A i \in (last + 1)..Len(w) : w[i] = Blank
      BY <2>4
    <3>2. w[first] # Blank /\ w[last] # Blank /\ \A i \in 1..(first - 1) : w[i] = Blank
      BY <2>4, <2>6
    <3>3. QED
      BY <3>1, <3>2, TrimIs, ZenonT(60)
  <2>9. SubSeq(w, first, last) = SubSeq(s, first, last)
    BY <2>4
  <2>10. QED
    BY <2>7, <2>8, <2>9
<1>3. QED
  BY <1>1, <1>2

\* A line of a key and a value of n units, unit by unit.
IsLine(line, key, value, n) ==
    /\ line[1] = key /\ line[2] = "="
    /\ \A i \in 3..(n + 2) : line[i] = value[i - 2]

\* A line of a key and a value, as load reads it.
LEMMA LineIsLoaded ==
    ASSUME NEW T, NEW line \in Seq(T), NEW value \in Seq(T), NEW n \in Nat, Len(value) = n,
           Len(line) = n + 2, NEW key \in {"k", "p"}, IsLine(line, key, value, n), NEW kv
    PROVE  LoadLine(kv, line) = [kv EXCEPT ![key] = Trim(value)]
<1>1. line[1] = key /\ line[2] = "=" /\ \A i \in 3..(n + 2) : line[i] = value[i - 2]
  BY DEF IsLine
<1>2. PICK last \in 0..n : /\ last # 0 => value[last] # Blank
                           /\ \A i \in (last + 1)..n : value[i] = Blank
  BY LastWord
<1>3. "k" # Blank /\ "p" # Blank /\ "=" # Blank /\ "k" # "=" /\ "p" # "=" /\ key # Hash
  BY Zenon DEF Blank, Hash
<1> HIDE DEF Hash
<1> DEFINE t == SubSeq(line, 1, last + 2)
           w == SubSeq(t, 3, last + 2)
           one == SubSeq(t, 1, 1)
<1>4. Trim(line) = t
  <2>1. 1 \in 1..Len(line) /\ last + 2 \in 1..Len(line)
    OBVIOUS
  <2>2. line[1] # Blank
    BY <1>3, <1>1
  <2>3. line[last + 2] # Blank
    <3>1. CASE last = 0
      BY <1>3, <1>1, <3>1
    <3>2. CASE last # 0
      <4>1. last + 2 \in 3..(n + 2) /\ last + 2 - 2 = last
        BY <3>2
      <4>2. QED
        BY <1>2, <1>1, <3>2, <4>1
    <3>3. QED
      BY <3>1, <3>2
  <2>4. \A i \in (last + 2 + 1)..Len(line) : line[i] = Blank
    <3>1. \A i \in (last + 2 + 1)..Len(line) : i \in 3..(n + 2) /\ i - 2 \in (last + 1)..n
      OBVIOUS
    <3>2. QED
      BY <1>2, <1>1, <3>1
  <2>5. \A i \in 1..(1 - 1) : line[i] = Blank
    OBVIOUS
  <2>6. QED
    BY <2>1, <2>2, <2>3, <2>4, <2>5, TrimIs
<1>5. t \in Seq(T) /\ Len(t) = last + 2 /\ \A i \in 1..(last + 2) : t[i] = line[i]
  <2>1. \A i \in 1..(last + 2) : i \in 1..Len(line)
    OBVIOUS
  <2>2. QED
    BY <2>1
<1>6. t[1] = key /\ t[2] = "="
  BY <1>5, <1>1
<1> HIDE DEF t
<1>7. Find(t, "=") = 2
  <2>1. 2 \in 1..Len(t) /\ \A i \in 1..(2 - 1) : t[i] # "="
    BY <1>3, <1>5, <1>6
  <2>2. QED
    BY <1>5, <1>6, <2>1, FindsFirst
<1>8. Before(t, 2) = <<key>>
  <2>1. Before(t, 2) = SubSeq(t, 1, 1)
    BY DEF Before
  <2>2. SubSeq(t, 1, 1) = <<key>>
    <3>1. t # <<>>
      BY <1>5
    <3>2. SubSeq(t, 1, 1) = <<t[1]>>
      BY <1>5, <3>1, FirstUnit
    <3>3. QED
      BY <1>6, <3>2, Zenon
  <2>3. QED
    BY <2>1, <2>2
<1>9. Trim(<<key>>) = <<key>>
  <2> DEFINE k == <<key>>
  <2>1. k \in Seq({"k", "p"}) /\ 1 \in 1..Len(k) /\ Len(k) = 1 /\ k[1] = key
    OBVIOUS
  <2>2. SubSeq(k, 1, 1) = k
    <3>1. k # <<>> /\ <<k[1]>> = k
      BY <2>1
    <3> HIDE DEF k
    <3>2. QED
      BY <2>1, <3>1, FirstUnit
  <2> HIDE DEF k
  <2>3. /\ k[1] # Blank /\ \A i \in 1..(1 - 1) : k[i] = Blank
        /\ \A i \in (1 + 1)..Len(k) : k[i] = Blank
    BY <1>3, <2>1
  <2>4. Trim(k) = SubSeq(k, 1, 1)
    BY <2>1, <2>3, TrimIs
  <2>5. QED
    BY <2>2, <2>4 DEF k
<1>10. After(t, 2) = w
  <2>1. After(t, 2) = SubSeq(t, 2 + 1, Len(t))
    BY DEF After
  <2>2. QED
    BY <1>5, <2>1
<1>11. w \in Seq(T) /\ Len(w) = last /\ \A i \in 1..last : w[i] = value[i]
  <2>1. \A i \in 1..last : t[3 + i - 1] = line[i + 2] /\ line[i + 2] = value[i]
    <3>1. \A i \in 1..last : /\ i + 2 \in 1..(last + 2) /\ i + 2 \in 3..(n + 2)
                             /\ i + 2 - 2 = i /\ 3 + i - 1 = i + 2
      OBVIOUS
    <3>2. QED
      BY <1>5, <1>1, <3>1
  <2>2. /\ SubSeq(t, 3, last + 2) \in Seq(T)
        /\ Len(SubSeq(t, 3, last + 2)) = (last + 2) - 3 + 1
        /\ \A i \in 1..((last + 2) - 3 + 1) : SubSeq(t, 3, last + 2)[i] = t[3 + i - 1]
    <3>1. 3 \in 1..(Len(t) + 1) /\ last + 2 \in (3 - 1)..Len(t)
      BY <1>5
    <3>2. QED
      BY <1>5, <3>1, Stretch
  <2>3. (last + 2) - 3 + 1 = last
    OBVIOUS
  <2>4. QED
    BY <2>1, <2>2, <2>3
<1> HIDE DEF w
<1>12. Trim(w) = Trim(value)
  BY <1>2, <1>11, TrimOfStretch
<1>13. Separator(t) = 2
  BY <1>7 DEF Separator
<1>14. t # <<>> /\ t[1] # Hash
  BY <1>3, <1>5, <1>6
<1>15. LoadLine(kv, line) =
         IF t = <<>> \/ t[1] = Hash \/ Separator(t) = 0 THEN kv
         ELSE IF Trim(Before(t, Separator(t))) \in {<<"k">>, <<"p">>}
              THEN [kv EXCEPT ![Trim(Before(t, Separator(t)))[1]] = Trim(After(t, Separator(t)))]
              ELSE kv
  BY <1>4, Zenon DEF LoadLine, Hash
<1>16. Trim(Before(t, 2)) = <<key>> /\ Trim(After(t, 2)) = Trim(value)
  BY <1>8, <1>9, <1>10, <1>12
<1>17. <<key>> \in {<<"k">>, <<"p">>} /\ <<key>>[1] = key
  OBVIOUS
<1>18. ~(t = <<>> \/ t[1] = Hash \/ Separator(t) = 0)
  BY <1>13, <1>14
<1>19. QED
  <2>1. Trim(Before(t, Separator(t))) = <<key>> /\ Trim(After(t, Separator(t))) = Trim(value)
    BY <1>13, <1>16, Zenon
  <2>2. LoadLine(kv, line) = [kv EXCEPT ![<<key>>[1]] = Trim(value)]
    BY <1>15, <1>17, <1>18, <2>1, Zenon
  <2>3. QED
    BY <1>17, <2>2, Zenon

\* The fold of load over two lines.
LoadFold(it, base, lines) ==
    it = [P \in SUBSET DOMAIN lines |->
             IF P = {} THEN base ELSE LoadLine(it[P \ {Max(P)}], lines[Max(P)])]

\* FoldLeft is the value, on all the lines, of the function it chooses.
LEMMA LoadIsFold ==
    ASSUME NEW base, NEW lines
    PROVE  FoldLeft(LoadLine, base, lines) = (CHOOSE it : LoadFold(it, base, lines))[DOMAIN lines]
  BY DEF FoldLeft, MapThenFoldSet, LoadFold

\* One line is loaded after the other.
LEMMA TwoLinesAreLoaded ==
    ASSUME NEW base, NEW lines, DOMAIN lines = {1, 2}
    PROVE  FoldLeft(LoadLine, base, lines) = LoadLine(LoadLine(base, lines[1]), lines[2])
<1> DEFINE D == {1, 2}
           first == LoadLine(base, lines[1])
           second == LoadLine(first, lines[2])
           alone == LoadLine(base, lines[2])
           it == [P \in SUBSET D |->
                     IF P = {} THEN base ELSE IF P = {1} THEN first
                         ELSE IF P = {2} THEN alone ELSE second]
<1>1. Max({1}) = 1 /\ Max({2}) = 2 /\ Max(D) = 2
  <2>1. {1} \in SUBSET (0..2) /\ {2} \in SUBSET (0..2) /\ D \in SUBSET (0..2)
    OBVIOUS
  <2>2. Max({1}) \in {1} /\ Max({2}) \in {2}
    BY <2>1, LargestExists
  <2>3. Max(D) \in D /\ 2 <= Max(D)
    BY <2>1, LargestExists
  <2>4. QED
    BY <2>2, <2>3
<1>2. \A P \in SUBSET D : P = {} \/ P = {1} \/ P = {2} \/ P = D
  <2> SUFFICES ASSUME NEW P \in SUBSET D PROVE P = {} \/ P = {1} \/ P = {2} \/ P = D
    OBVIOUS
  <2>1. \A x \in P : x = 1 \/ x = 2
    OBVIOUS
  <2>2. CASE 1 \in P /\ 2 \in P
    BY <2>1, <2>2
  <2>3. CASE 1 \in P /\ 2 \notin P
    BY <2>1, <2>3
  <2>4. CASE 1 \notin P /\ 2 \in P
    BY <2>1, <2>4
  <2>5. CASE 1 \notin P /\ 2 \notin P
    BY <2>1, <2>5
  <2>6. QED
    BY <2>2, <2>3, <2>4, <2>5
<1>3. /\ {} \in SUBSET D /\ {1} \in SUBSET D /\ {2} \in SUBSET D /\ D \in SUBSET D
      /\ {1} \ {1} = {} /\ {2} \ {2} = {} /\ D \ {2} = {1}
      /\ {1} # {} /\ {2} # {} /\ {1} # {2} /\ D # {} /\ D # {1} /\ D # {2}
  OBVIOUS
<1> HIDE DEF D, first, second, alone
<1>4. it[{}] = base /\ it[{1}] = first /\ it[{2}] = alone /\ it[D] = second
  BY <1>3
<1>5. LoadFold(it, base, lines)
  <2>1. ASSUME NEW P \in SUBSET D
        PROVE  it[P] = IF P = {} THEN base ELSE LoadLine(it[P \ {Max(P)}], lines[Max(P)])
    <3> HIDE DEF it
    <3>1. CASE P = {}
      BY <1>4, <3>1
    <3>2. CASE P = {1}
      BY <1>1, <1>3, <1>4, <3>2 DEF first
    <3>3. CASE P = {2}
      BY <1>1, <1>3, <1>4, <3>3 DEF alone
    <3>4. CASE P = D
      BY <1>1, <1>3, <1>4, <3>4 DEF second
    <3>5. QED
      BY <1>2, <3>1, <3>2, <3>3, <3>4
  <2>2. DOMAIN lines = D
    BY DEF D
  <2>3. it = [P \in SUBSET D |-> it[P]]
    OBVIOUS
  <2> HIDE DEF it
  <2>4. QED
    BY <2>1, <2>2, <2>3 DEF LoadFold
<1> DEFINE chosen == CHOOSE f : LoadFold(f, base, lines)
<1>6. LoadFold(chosen, base, lines)
  BY <1>5
<1>7. FoldLeft(LoadLine, base, lines) = chosen[D]
  BY LoadIsFold DEF D
<1> HIDE DEF chosen, it
<1>8. \A P \in SUBSET D :
         chosen[P] = IF P = {} THEN base ELSE LoadLine(chosen[P \ {Max(P)}], lines[Max(P)])
  BY <1>6 DEF LoadFold, D
<1>9. chosen[{}] = base
  BY <1>3, <1>8
<1>10. chosen[{1}] = first
  BY <1>1, <1>3, <1>8, <1>9 DEF first
<1>11. chosen[D] = second
  BY <1>1, <1>3, <1>8, <1>10 DEF second
<1>12. QED
  BY <1>7, <1>11 DEF second, first

\* The n-th of the ends of the lines, as Lines has it.
EndOf(ends, n) == CHOOSE i \in ends : Cardinality({j \in ends : j < i}) = n

\* The ends of two lines.
LEMMA TwoEnds ==
    ASSUME NEW a \in Nat \ {0}, NEW b \in Nat, a < b, NEW ends, ends = {0} \cup {a, b}
    PROVE  /\ Cardinality(ends) = 3
           /\ EndOf(ends, 0) = 0 /\ EndOf(ends, 1) = a /\ EndOf(ends, 2) = b
<1> DEFINE before(i) == {j \in ends : j < i}
<1>1. /\ before(0) = {} /\ before(a) = {0} /\ before(b) = {0} \cup {a}
      /\ ends = ({0} \cup {a}) \cup {b}
  OBVIOUS
<1>2. Cardinality({}) = 0
  BY FS_EmptySet
<1>3. IsFiniteSet({0}) /\ Cardinality({0}) = 1
  BY FS_Singleton
<1>4. IsFiniteSet({0} \cup {a}) /\ Cardinality({0} \cup {a}) = 1 + 1
  <2>1. a \notin {0}
    OBVIOUS
  <2>2. QED
    BY <1>3, <2>1, FS_AddElement
<1>5. Cardinality(({0} \cup {a}) \cup {b}) = 1 + 1 + 1
  <2>1. b \notin {0} \cup {a}
    OBVIOUS
  <2>2. QED
    BY <1>4, <2>1, FS_AddElement
<1>6. Cardinality(before(0)) = 0 /\ Cardinality(before(a)) = 1 /\ Cardinality(before(b)) = 2
  BY <1>1, <1>2, <1>3, <1>4
<1>7. Cardinality(ends) = 3
  BY <1>1, <1>5
<1>8. \A i \in ends : i = 0 \/ i = a \/ i = b
  OBVIOUS
<1>9. 0 \in ends /\ a \in ends /\ b \in ends
  OBVIOUS
<1> HIDE DEF before
<1> DEFINE end(n) == CHOOSE i \in ends : Cardinality(before(i)) = n
<1>10. end(0) = 0
  BY <1>6, <1>8, <1>9
<1>11. end(1) = a
  BY <1>6, <1>8, <1>9
<1>12. end(2) = b
  BY <1>6, <1>8, <1>9
<1>13. QED
  BY <1>7, <1>10, <1>11, <1>12 DEF before, EndOf

\* What save writes of a key and a value.
LEMMA LineOfIs ==
    ASSUME NEW T, NEW value \in Seq(T), NEW n \in Nat, Len(value) = n,
           NEW key \in T, "=" \in T, Newline \in T
    PROVE  /\ LineOf(key, value) \in Seq(T) /\ Len(LineOf(key, value)) = n + 3
           /\ IsLine(LineOf(key, value), key, value, n)
           /\ LineOf(key, value)[n + 3] = Newline
<1> DEFINE head == <<key, "=">>
           tail == <<Newline>>
           begun == head \o value
           line == begun \o tail
<1>1. PICK one \in Nat : one = 1
  OBVIOUS
<1>2. PICK two \in Nat : two = 2
  OBVIOUS
<1>3. head \in Seq(T) /\ Len(head) = two /\ head[1] = key /\ head[2] = "="
  BY <1>2
<1>4. tail \in Seq(T) /\ Len(tail) = one /\ tail[one] = Newline
  BY <1>1, OneUnit, Zenon
<1> HIDE DEF head, tail
<1>5. begun \in Seq(T) /\ Len(begun) = two + n
  BY <1>3
<1>6. \A i \in 1..two : begun[i] = head[i]
  BY <1>3
<1>7. \A i \in 1..n : begun[two + i] = value[i]
  BY <1>3
<1> HIDE DEF begun
<1>8. line \in Seq(T) /\ Len(line) = two + n + one
  BY <1>4, <1>5
<1>9. \A i \in 1..(two + n) : line[i] = begun[i]
  BY <1>4, <1>5
<1>10. \A i \in 1..one : line[two + n + i] = tail[i]
  BY <1>4, <1>5
<1> HIDE DEF line
<1>11. line[1] = key /\ line[2] = "="
  <2>1. 1 \in 1..two /\ 2 \in 1..two /\ 1 \in 1..(two + n) /\ 2 \in 1..(two + n)
    BY <1>2
  <2>2. QED
    BY <1>3, <1>6, <1>9, <2>1
<1>12. \A i \in 3..(n + 2) : line[i] = value[i - 2]
  <2>1. \A i \in 3..(n + 2) : i \in 1..(two + n) /\ i - 2 \in 1..n /\ two + (i - 2) = i
    BY <1>2
  <2>2. QED
    BY <1>7, <1>9, <2>1
<1>13. line[n + 3] = Newline
  <2>1. one \in 1..one /\ two + n + one = n + 3
    BY <1>1, <1>2
  <2>2. QED
    BY <1>4, <1>10, <2>1
<1>14. line \in Seq(T) /\ Len(line) = n + 3
  BY <1>1, <1>2, <1>8
<1>15. QED
  BY <1>11, <1>12, <1>13, <1>14 DEF IsLine, LineOf, line, begun, head, tail

\* The text of the configuration is two lines, each with its key and its value.
LEMMA SavedLines ==
    ASSUME NEW T, "k" \in T, "p" \in T, "=" \in T, Newline \in T,
           NEW value \in Seq(T), NEW other \in Seq(T),
           NEW n \in Nat, NEW m \in Nat, Len(value) = n, Len(other) = m,
           \A i \in 1..n : value[i] # Newline, \A i \in 1..m : other[i] # Newline
    PROVE  LET lines == Lines(LineOf("k", value) \o LineOf("p", other))
           IN  /\ DOMAIN lines = {1, 2}
               /\ lines[1] \in Seq(T) /\ Len(lines[1]) = n + 2 /\ IsLine(lines[1], "k", value, n)
               /\ lines[2] \in Seq(T) /\ Len(lines[2]) = m + 2 /\ IsLine(lines[2], "p", other, m)
<1> DEFINE first == LineOf("k", value)
           second == LineOf("p", other)
           saved == first \o second
<1>1. PICK a \in Nat \ {0} : a = n + 3
  OBVIOUS
<1>2. PICK c \in Nat : c = m + 3
  OBVIOUS
<1>3. /\ first \in Seq(T) /\ Len(first) = a
      /\ IsLine(first, "k", value, n) /\ first[a] = Newline
  BY <1>1, LineOfIs
<1>4. /\ second \in Seq(T) /\ Len(second) = c
      /\ IsLine(second, "p", other, m) /\ second[c] = Newline
  BY <1>2, LineOfIs
<1> HIDE DEF first, second
<1>5. saved \in Seq(T) /\ Len(saved) = a + c
  BY <1>3, <1>4, SMTT(30)
<1>6. \A i \in 1..a : saved[i] = first[i]
  BY <1>3, <1>4
<1>7. \A i \in 1..c : saved[a + i] = second[i]
  BY <1>3, <1>4
<1> HIDE DEF saved
<1>8. "k" # Newline /\ "p" # Newline /\ "=" # Newline
  BY Zenon DEF Newline
<1>9. \A i \in 1..(n + 2) : first[i] # Newline
  <2>1. \A i \in 1..(n + 2) : i = 1 \/ i = 2 \/ (i \in 3..(n + 2) /\ i - 2 \in 1..n)
    OBVIOUS
  <2>2. QED
    BY <1>3, <1>8, <2>1 DEF IsLine
<1>10. \A i \in 1..(m + 2) : second[i] # Newline
  <2>1. \A i \in 1..(m + 2) : i = 1 \/ i = 2 \/ (i \in 3..(m + 2) /\ i - 2 \in 1..m)
    OBVIOUS
  <2>2. QED
    BY <1>4, <1>8, <2>1 DEF IsLine
<1> DEFINE b == a + c
<1>11. {i \in DOMAIN saved : saved[i] = Newline} = {a, b}
  <2>1. DOMAIN saved = 1..b
    BY <1>5
  <2>2. saved[a] = Newline /\ a \in 1..b
    BY <1>1, <1>3, <1>6
  <2>3. saved[b] = Newline /\ b \in 1..b
    <3>1. c \in 1..c
      BY <1>2
    <3>2. QED
      BY <1>4, <1>7, <3>1
  <2>4. ASSUME NEW i \in 1..b, i # a, i # b PROVE saved[i] # Newline
    <3>1. CASE i <= a
      <4>1. i \in 1..a /\ i \in 1..(n + 2)
        BY <1>1, <2>4, <3>1
      <4>2. QED
        BY <1>6, <1>9, <4>1
    <3>2. CASE ~(i <= a)
      <4>1. i - a \in 1..c /\ i - a \in 1..(m + 2) /\ a + (i - a) = i
        BY <1>2, <2>4, <3>2
      <4>2. QED
        BY <1>7, <1>10, <4>1
    <3>3. QED
      BY <3>1, <3>2
  <2>5. QED
    BY <2>1, <2>2, <2>3, <2>4
<1> DEFINE ends == {0} \cup {i \in DOMAIN saved : saved[i] = Newline}
           end(x) == CHOOSE i \in ends : Cardinality({j \in ends : j < i}) = x
           lines == Lines(saved)
<1>12. Cardinality(ends) = 3 /\ end(0) = 0 /\ end(1) = a /\ end(2) = b
  <2>1. b \in Nat /\ a < b /\ a \in Nat \ {0}
    BY <1>2
  <2>2. ends = {0} \cup {a, b}
    BY <1>11, Zenon
  <2> HIDE DEF b, ends
  <2>3. /\ Cardinality(ends) = 3
        /\ EndOf(ends, 0) = 0 /\ EndOf(ends, 1) = a /\ EndOf(ends, 2) = b
    BY <2>1, <2>2, TwoEnds
  <2>4. QED
    BY <2>3, Zenon DEF end, EndOf
<1>13. lines = [x \in 1..(Cardinality(ends) - 1) |-> SubSeq(saved, end(x - 1) + 1, end(x) - 1)]
  BY DEF Lines
<1> HIDE DEF ends, end, lines
<1>14. DOMAIN lines = 1..2 /\ 1 \in 1..2 /\ 2 \in 1..2 /\ 1..2 = {1, 2}
  BY <1>12, <1>13
<1>15. lines[1] = SubSeq(saved, 1, a - 1)
  <2>1. 1 - 1 = 0 /\ 0 + 1 = 1
    OBVIOUS
  <2>2. lines[1] = SubSeq(saved, end(1 - 1) + 1, end(1) - 1)
    BY <1>12, <1>13, <1>14
  <2>3. QED
    BY <1>12, <2>1, <2>2
<1>16. lines[2] = SubSeq(saved, a + 1, b - 1)
  <2>1. 2 - 1 = 1
    OBVIOUS
  <2>2. lines[2] = SubSeq(saved, end(2 - 1) + 1, end(2) - 1)
    BY <1>12, <1>13, <1>14
  <2>3. QED
    BY <1>12, <2>1, <2>2
<1>17. lines[1] \in Seq(T) /\ Len(lines[1]) = n + 2 /\ IsLine(lines[1], "k", value, n)
  <2> DEFINE l == lines[1]
  <2>1. 1 \in 1..(Len(saved) + 1) /\ a - 1 \in (1 - 1)..Len(saved) /\ a - 1 - 1 + 1 = n + 2
    BY <1>1, <1>5
  <2>2. /\ SubSeq(saved, 1, a - 1) \in Seq(T) /\ Len(SubSeq(saved, 1, a - 1)) = a - 1 - 1 + 1
        /\ \A i \in 1..(a - 1 - 1 + 1) : SubSeq(saved, 1, a - 1)[i] = saved[1 + i - 1]
    BY <1>5, <2>1, Stretch
  <2>3. l \in Seq(T) /\ Len(l) = n + 2 /\ \A i \in 1..(n + 2) : l[i] = saved[1 + i - 1]
    BY <1>15, <2>1, <2>2
  <2> HIDE DEF l
  <2>4. \A i \in 1..(n + 2) : 1 + i - 1 = i /\ i \in 1..a
    BY <1>1
  <2>5. \A i \in 1..(n + 2) : l[i] = first[i]
    BY <1>6, <2>3, <2>4
  <2>6. 1 \in 1..(n + 2) /\ 2 \in 1..(n + 2) /\ \A i \in 3..(n + 2) : i \in 1..(n + 2)
    OBVIOUS
  <2>7. IsLine(l, "k", value, n)
    BY <1>3, <2>5, <2>6 DEF IsLine
  <2>8. QED
    BY <2>3, <2>7 DEF l
<1>18. lines[2] \in Seq(T) /\ Len(lines[2]) = m + 2 /\ IsLine(lines[2], "p", other, m)
  <2> DEFINE l == lines[2]
  <2>1. /\ a + 1 \in 1..(Len(saved) + 1) /\ b - 1 \in (a + 1 - 1)..Len(saved)
        /\ b - 1 - (a + 1) + 1 = m + 2
    BY <1>2, <1>5
  <2>2. /\ SubSeq(saved, a + 1, b - 1) \in Seq(T)
        /\ Len(SubSeq(saved, a + 1, b - 1)) = b - 1 - (a + 1) + 1
        /\ \A i \in 1..(b - 1 - (a + 1) + 1) : SubSeq(saved, a + 1, b - 1)[i] = saved[a + 1 + i - 1]
    BY <1>5, <2>1, Stretch
  <2>3. l \in Seq(T) /\ Len(l) = m + 2 /\ \A i \in 1..(m + 2) : l[i] = saved[a + 1 + i - 1]
    BY <1>16, <2>1, <2>2
  <2> HIDE DEF l
  <2>4. \A i \in 1..(m + 2) : a + 1 + i - 1 = a + i /\ i \in 1..c
    BY <1>2
  <2>5. \A i \in 1..(m + 2) : l[i] = second[i]
    BY <1>7, <2>3, <2>4
  <2>6. 1 \in 1..(m + 2) /\ 2 \in 1..(m + 2) /\ \A i \in 3..(m + 2) : i \in 1..(m + 2)
    OBVIOUS
  <2>7. IsLine(l, "p", other, m)
    BY <1>4, <2>5, <2>6 DEF IsLine
  <2>8. QED
    BY <2>3, <2>7 DEF l
<1>19. QED
  BY <1>14, <1>17, <1>18 DEF lines, saved, first, second

\* config.cpp:19-36: what is saved is loaded, whatever the values are, of any
\* length, without line ends.
THEOREM SavedIsLoadedBack ==
    ASSUME NEW S, Newline \notin S, NEW value \in Seq(S), NEW other \in Seq(S)
    PROVE  LoadsBack(value, other)
<1> DEFINE T == S \cup {"k", "p", "=", Newline}
           kv == [k |-> value, p |-> other]
           lines == Lines(SaveConfig(kv))
           none == [k |-> <<>>, p |-> <<>>]
<1>1. "k" \in T /\ "p" \in T /\ "=" \in T /\ Newline \in T /\ S \subseteq T
  OBVIOUS
<1>2. PICK n \in Nat : Len(value) = n
  OBVIOUS
<1>3. PICK m \in Nat : Len(other) = m
  OBVIOUS
<1>4. (\A i \in 1..n : value[i] # Newline) /\ \A i \in 1..m : other[i] # Newline
  <2>1. (\A i \in 1..n : value[i] \in S) /\ \A i \in 1..m : other[i] \in S
    BY <1>2, <1>3
  <2>2. QED
    BY <2>1
<1> HIDE DEF T
<1>5. value \in Seq(T) /\ other \in Seq(T)
  BY <1>1, SeqMonotonic
<1>6. SaveConfig(kv) = LineOf("k", value) \o LineOf("p", other)
  BY DEF SaveConfig
<1>7. /\ DOMAIN lines = {1, 2}
      /\ lines[1] \in Seq(T) /\ Len(lines[1]) = n + 2 /\ IsLine(lines[1], "k", value, n)
      /\ lines[2] \in Seq(T) /\ Len(lines[2]) = m + 2 /\ IsLine(lines[2], "p", other, m)
  <2> DEFINE read == Lines(LineOf("k", value) \o LineOf("p", other))
  <2>1. /\ DOMAIN read = {1, 2}
        /\ read[1] \in Seq(T) /\ Len(read[1]) = n + 2 /\ IsLine(read[1], "k", value, n)
        /\ read[2] \in Seq(T) /\ Len(read[2]) = m + 2 /\ IsLine(read[2], "p", other, m)
    BY <1>1, <1>2, <1>3, <1>4, <1>5, SavedLines
  <2>2. QED
    BY <1>6, <2>1
<1> HIDE DEF lines
<1>8. FoldLeft(LoadLine, none, lines) = LoadLine(LoadLine(none, lines[1]), lines[2])
  BY <1>7, TwoLinesAreLoaded
<1>9. \A some : LoadLine(some, lines[1]) = [some EXCEPT !["k"] = Trim(value)]
  <2> DEFINE line == lines[1]
  <2>1. line \in Seq(T) /\ Len(line) = n + 2 /\ IsLine(line, "k", value, n)
    BY <1>7
  <2> HIDE DEF line
  <2>2. \A some : LoadLine(some, line) = [some EXCEPT !["k"] = Trim(value)]
    BY <1>2, <1>5, <2>1, LineIsLoaded
  <2>3. QED
    BY <2>2 DEF line
<1>10. \A some : LoadLine(some, lines[2]) = [some EXCEPT !["p"] = Trim(other)]
  <2> DEFINE line == lines[2]
  <2>1. line \in Seq(T) /\ Len(line) = m + 2 /\ IsLine(line, "p", other, m)
    BY <1>7
  <2> HIDE DEF line
  <2>2. \A some : LoadLine(some, line) = [some EXCEPT !["p"] = Trim(other)]
    BY <1>3, <1>5, <2>1, LineIsLoaded
  <2>3. QED
    BY <2>2 DEF line
<1>11. FoldLeft(LoadLine, none, lines) =
         [[none EXCEPT !["k"] = Trim(value)] EXCEPT !["p"] = Trim(other)]
  BY <1>8, <1>9, <1>10, Zenon
<1>12. [[none EXCEPT !["k"] = Trim(value)] EXCEPT !["p"] = Trim(other)]
         = [k |-> Trim(value), p |-> Trim(other)]
  OBVIOUS
<1>13. LoadConfig(SaveConfig(kv)) = [k |-> Trim(value), p |-> Trim(other)]
  BY <1>11, <1>12, Zenon DEF LoadConfig, lines
<1>14. QED
  BY <1>13, Zenon DEF LoadsBack

\* The characters of the hexadecimal digits.
Sixteen == {"0", "1", "a", "b"}

\* The values of the hexadecimal digits.
LEMMA DigitsHaveValues ==
    /\ \A d \in 0..3 : HexDigits[d + 1] \in Sixteen /\ HexValue(HexDigits[d + 1]) = d
    /\ Blank \notin Sixteen /\ Newline \notin Sixteen
<1>1. HexDigits \in Seq(Sixteen) /\ Len(HexDigits) = 4
  BY DEF HexDigits, Sixteen
<1>2. \A i \in 1..4 : \A j \in 1..(i - 1) : HexDigits[i] # HexDigits[j]
  <2>1. /\ HexDigits[1] = "0" /\ HexDigits[2] = "1" /\ HexDigits[3] = "a" /\ HexDigits[4] = "b"
    BY DEF HexDigits
  <2>2. "0" # "1" /\ "0" # "a" /\ "0" # "b" /\ "1" # "a" /\ "1" # "b" /\ "a" # "b"
    OBVIOUS
  <2>3. QED
    BY <2>1, <2>2
<1>3. ASSUME NEW d \in 0..3
      PROVE  HexDigits[d + 1] \in Sixteen /\ HexValue(HexDigits[d + 1]) = d
  <2> DEFINE i == d + 1
  <2>1. i \in 1..4 /\ i - 1 = d
    OBVIOUS
  <2> HIDE DEF i
  <2>2. HexDigits[i] \in Sixteen
    BY <1>1, <2>1, ElementOfSeq
  <2>3. Find(HexDigits, HexDigits[i]) = i
    <3>1. i \in 1..Len(HexDigits) /\ \A j \in 1..(i - 1) : HexDigits[j] # HexDigits[i]
      BY <1>1, <1>2, <2>1
    <3>2. QED
      BY <1>1, <3>1, FindsFirst
  <2>4. Small(HexDigits[i]) = HexDigits[i]
    <3>1. HexDigits[i] # "A" /\ HexDigits[i] # "B"
      BY <2>2 DEF Sixteen
    <3>2. QED
      BY <3>1, Zenon DEF Small
  <2>5. HexValue(HexDigits[i]) = d
    BY <2>1, <2>3, <2>4 DEF HexValue
  <2>6. QED
    BY <2>2, <2>5 DEF i
<1>4. Blank \notin Sixteen /\ Newline \notin Sixteen
  BY Zenon DEF Blank, Newline, Sixteen
<1>5. QED
  BY <1>3, <1>4

\* The two digits of each of the first m bytes.
SpellsBytes(hex, bytes, m) ==
    /\ hex \in Seq(Sixteen) /\ Len(hex) = 2 * m
    /\ \A i \in 1..m : /\ hex[2 * i - 1] = HexDigits[(bytes[i] \div 4) + 1]
                       /\ hex[2 * i] = HexDigits[(bytes[i] % 4) + 1]

\* Two more digits spell one more byte.
LEMMA OneMoreByte ==
    ASSUME NEW bytes \in Seq(SecretBytes), NEW m \in Nat, m + 1 \in 1..Len(bytes),
           NEW hex, SpellsBytes(hex, bytes, m),
           NEW pair \in Seq(Sixteen), NEW two \in Nat, two = 2, Len(pair) = two,
           pair[1] = HexDigits[(bytes[m + 1] \div 4) + 1],
           pair[two] = HexDigits[(bytes[m + 1] % 4) + 1]
    PROVE  SpellsBytes(hex \o pair, bytes, m + 1)
<1> DEFINE l == 2 * m
           more == hex \o pair
<1>1. hex \in Seq(Sixteen) /\ Len(hex) = l /\ l \in Nat
  BY DEF SpellsBytes
<1>2. /\ more \in Seq(Sixteen) /\ Len(more) = l + two
      /\ \A i \in 1..l : more[i] = hex[i]
      /\ \A i \in 1..two : more[l + i] = pair[i]
  <2> HIDE DEF l
  <2>1. pair \in Seq(Sixteen) /\ Len(pair) = two /\ two \in Nat
    OBVIOUS
  <2>2. more \in Seq(Sixteen)
    BY ONLY <1>1, <2>1
  <2>3. Len(more) = l + two
    BY ONLY <1>1, <2>1
  <2>4. \A i \in 1..l : more[i] = hex[i]
    BY ONLY <1>1, <2>1
  <2>5. \A i \in 1..two : more[l + i] = pair[i]
    BY ONLY <1>1, <2>1
  <2>6. QED
    BY <2>2, <2>3, <2>4, <2>5
<1> HIDE DEF more
<1>3. Len(more) = 2 * (m + 1)
  BY <1>2
<1>4. \A i \in 1..m : /\ more[2 * i - 1] = HexDigits[(bytes[i] \div 4) + 1]
                      /\ more[2 * i] = HexDigits[(bytes[i] % 4) + 1]
  <2>1. \A i \in 1..m : 2 * i - 1 \in 1..l /\ 2 * i \in 1..l
    OBVIOUS
  <2>2. \A i \in 1..m : /\ hex[2 * i - 1] = HexDigits[(bytes[i] \div 4) + 1]
                        /\ hex[2 * i] = HexDigits[(bytes[i] % 4) + 1]
    BY DEF SpellsBytes
  <2> HIDE DEF l
  <2>3. QED
    BY <1>2, <2>1, <2>2
<1>5. more[2 * (m + 1) - 1] = pair[1] /\ more[2 * (m + 1)] = pair[two]
  <2>1. 1 \in 1..two /\ two \in 1..two /\ l + 1 = 2 * (m + 1) - 1 /\ l + two = 2 * (m + 1)
    OBVIOUS
  <2>2. QED
    BY <1>2, <2>1
<1>6. \A i \in 1..(m + 1) : i \in 1..m \/ i = m + 1
  OBVIOUS
<1>7. \A i \in 1..(m + 1) : /\ more[2 * i - 1] = HexDigits[(bytes[i] \div 4) + 1]
                            /\ more[2 * i] = HexDigits[(bytes[i] % 4) + 1]
  <2>1. SUFFICES ASSUME NEW i \in 1..(m + 1)
                 PROVE  /\ more[2 * i - 1] = HexDigits[(bytes[i] \div 4) + 1]
                        /\ more[2 * i] = HexDigits[(bytes[i] % 4) + 1]
    OBVIOUS
  <2>2. CASE i \in 1..m
    BY <1>4, <2>2
  <2>3. CASE i = m + 1
    BY <1>5, <2>3
  <2>4. QED
    BY <1>6, <2>2, <2>3
<1>8. QED
  BY <1>2, <1>3, <1>7 DEF SpellsBytes, more

\* The quarters of a byte, and the byte they make up.
LEMMA QuartersOfByte ==
    ASSUME NEW b \in SecretBytes
    PROVE  (b \div 4) \in 0..3 /\ (b % 4) \in 0..3 /\ 4 * (b \div 4) + (b % 4) = b
  BY DEF SecretBytes

\* What RandomHex makes of the bytes.
LEMMA RandomHexIs ==
    ASSUME NEW bytes \in Seq(SecretBytes)
    PROVE  SpellsBytes(RandomHex(bytes), bytes, Len(bytes))
<1>1. PICK n \in Nat : n = Len(bytes) /\ DOMAIN bytes = 1..n
  OBVIOUS
<1>2. PICK two \in Nat : two = 2
  OBVIOUS
<1> DEFINE Pair(b) == <<HexDigits[b \div 4 + 1], HexDigits[(b % 4) + 1]>>
           seqs == [i \in DOMAIN bytes |-> Pair(bytes[i])]
<1>3. \A i \in 1..n : bytes[i] \in SecretBytes
  BY <1>1
<1>4. ASSUME NEW b \in SecretBytes
      PROVE  /\ Pair(b) \in Seq(Sixteen) /\ Len(Pair(b)) = two
             /\ Pair(b)[1] = HexDigits[(b \div 4) + 1] /\ Pair(b)[two] = HexDigits[(b % 4) + 1]
  <2>1. HexDigits[(b \div 4) + 1] \in Sixteen /\ HexDigits[(b % 4) + 1] \in Sixteen
    BY QuartersOfByte, DigitsHaveValues
  <2> DEFINE x == HexDigits[(b \div 4) + 1]
             y == HexDigits[(b % 4) + 1]
  <2> HIDE DEF x, y
  <2>2. x \in Sixteen /\ y \in Sixteen
    BY <2>1 DEF x, y
  <2>3. <<x, y>> \in Seq(Sixteen) /\ Len(<<x, y>>) = two /\ <<x, y>>[1] = x /\ <<x, y>>[two] = y
    BY <1>2, <2>2
  <2>4. Pair(b) = <<x, y>>
    BY DEF x, y
  <2>5. QED
    BY <2>3, <2>4 DEF x, y
<1> HIDE DEF Pair
<1>5. seqs \in Seq(Seq(Sixteen)) /\ Len(seqs) = n /\ \A i \in 1..n : seqs[i] = Pair(bytes[i])
  <2>1. seqs \in [1..n -> Seq(Sixteen)]
    BY <1>1, <1>3, <1>4
  <2>2. QED
    BY <1>1, <2>1
<1>6. RandomHex(bytes) = FlattenSeq(seqs)
  BY Zenon DEF RandomHex, Pair
<1> HIDE DEF seqs
<1>7. \A none : none = <<>> => SpellsBytes(none, bytes, 0)
  BY DEF SpellsBytes
<1>8. CASE n = 0
  <2>1. seqs = <<>>
    BY <1>5, <1>8
  <2>2. RandomHex(bytes) = <<>>
    BY <1>6, <2>1 DEF FlattenSeq
  <2>3. QED
    BY <1>1, <1>7, <1>8, <2>2
<1>9. CASE n # 0
  <2>1. PICK part \in [1..n -> Seq(Sixteen)] :
            FlattenEquation(part, seqs, Sixteen, n) /\ FlattenSeq(seqs) = part[n]
    <3>1. seqs # <<>>
      BY <1>5, <1>9
    <3>2. QED
      BY <1>5, <3>1, FlattenIs
  <2>2. \A i \in 1..n : JoinedAt(part, seqs, i)
    BY <2>1 DEF FlattenEquation
  <2> DEFINE Good == {i \in Nat : i \in 1..n => SpellsBytes(part[i], bytes, i)}
  <2>3. 0 \in Good
    OBVIOUS
  <2>4. ASSUME NEW i \in Nat, i \in Good PROVE i + 1 \in Good
    <3> SUFFICES ASSUME i + 1 \in 1..n PROVE SpellsBytes(part[i + 1], bytes, i + 1)
      OBVIOUS
    <3> DEFINE pair == Pair(bytes[i + 1])
               none == <<>>
    <3>1. /\ pair \in Seq(Sixteen) /\ Len(pair) = two
          /\ pair[1] = HexDigits[(bytes[i + 1] \div 4) + 1]
          /\ pair[two] = HexDigits[(bytes[i + 1] % 4) + 1]
      BY <1>3, <1>4
    <3>2. JoinedAt(part, seqs, i + 1) /\ seqs[i + 1] = pair
      BY <1>5, <2>2
    <3>3. SpellsBytes(none, bytes, 0) /\ none \o pair = pair
      BY <1>7, <3>1
    <3> HIDE DEF pair, none
    <3>4. CASE i = 0
      <4>1. part[i + 1] = none \o pair
        BY <3>2, <3>3, <3>4 DEF JoinedAt
      <4>2. SpellsBytes(none, bytes, i)
        BY <3>3, <3>4
      <4>3. SpellsBytes(none \o pair, bytes, i + 1)
        BY <1>1, <1>2, <3>1, <4>2, OneMoreByte
      <4>4. QED
        BY <4>1, <4>3, Zenon
    <3>5. CASE i # 0
      <4>1. i \in 1..n /\ i + 1 # 1 /\ i + 1 - 1 = i
        BY <3>5
      <4>2. part[i + 1] = part[i + 1 - 1] \o pair
        BY <3>2, <4>1 DEF JoinedAt
      <4>3. part[i + 1] = part[i] \o pair
        BY <4>1, <4>2
      <4>4. SpellsBytes(part[i], bytes, i)
        BY <2>4, <4>1
      <4>5. SpellsBytes(part[i] \o pair, bytes, i + 1)
        BY <1>1, <1>2, <3>1, <4>4, OneMoreByte
      <4>6. QED
        BY <4>3, <4>5, Zenon
    <3>6. QED
      BY <3>4, <3>5
  <2>5. n \in Good
    <3> HIDE DEF Good
    <3>1. QED
      BY <2>3, <2>4, NumbersInduction
  <2>6. SpellsBytes(part[n], bytes, n)
    BY <1>9, <2>5
  <2>7. RandomHex(bytes) = part[n]
    BY <1>6, <2>1, Zenon
  <2>8. QED
    BY <1>1, <2>6, <2>7, Zenon
<1>10. QED
  BY <1>8, <1>9

\* A text without blanks is not shortened.
LEMMA TrimNothing ==
    ASSUME NEW S, NEW s \in Seq(S), \A i \in 1..Len(s) : s[i] # Blank
    PROVE  Trim(s) = s
<1>1. CASE Len(s) = 0
  <2>1. s = <<>> /\ \A i \in 1..Len(s) : s[i] = Blank
    BY <1>1
  <2>2. Trim(s) = <<>>
    BY <2>1, TrimBlanks
  <2>3. QED
    BY <2>1, <2>2
<1>2. CASE Len(s) # 0
  <2>1. PICK n \in Nat \ {0} : n = Len(s)
    BY <1>2
  <2>2. /\ 1 \in 1..Len(s) /\ n \in 1..Len(s) /\ s[1] # Blank /\ s[n] # Blank
        /\ (\A i \in 1..(1 - 1) : s[i] = Blank) /\ \A i \in (n + 1)..Len(s) : s[i] = Blank
    BY <2>1
  <2>3. Trim(s) = SubSeq(s, 1, n)
    BY <2>2, TrimIs
  <2>4. SubSeq(s, 1, n) = s
    BY <2>1
  <2>5. QED
    BY <2>3, <2>4
<1>3. QED
  BY <1>1, <1>2

\* The digits of a text of digits are its bytes.
LEMMA HexDecodes ==
    ASSUME NEW bytes \in Seq(SecretBytes), NEW hex, SpellsBytes(hex, bytes, Len(bytes))
    PROVE  HexDecode(hex) = bytes
<1>1. PICK n \in Nat : n = Len(bytes) /\ DOMAIN bytes = 1..n
  OBVIOUS
<1>2. hex \in Seq(Sixteen) /\ Len(hex) = 2 * n
  BY <1>1 DEF SpellsBytes
<1>3. Len(hex) \div 2 = n
  BY <1>2
<1>4. \A i \in 1..n : bytes[i] \in SecretBytes
  BY <1>1
<1>5. ASSUME NEW i \in 1..n
      PROVE  /\ HexValue(hex[2 * i - 1]) = (bytes[i] \div 4)
             /\ HexValue(hex[2 * i]) = (bytes[i] % 4)
  <2>1. /\ hex[2 * i - 1] = HexDigits[(bytes[i] \div 4) + 1]
        /\ hex[2 * i] = HexDigits[(bytes[i] % 4) + 1]
    BY <1>1 DEF SpellsBytes
  <2>2. (bytes[i] \div 4) \in 0..3 /\ (bytes[i] % 4) \in 0..3
    BY <1>4, QuartersOfByte
  <2>3. QED
    BY <2>1, <2>2, DigitsHaveValues
<1>6. \A i \in 1..n : 4 * HexValue(hex[2 * i - 1]) + HexValue(hex[2 * i]) = bytes[i]
  <2>1. \A i \in 1..n : 4 * (bytes[i] \div 4) + (bytes[i] % 4) = bytes[i]
    BY <1>4, QuartersOfByte
  <2>2. QED
    BY <1>5, <2>1
<1>7. \A i \in 1..(2 * n) : ~(HexValue(hex[i]) < 0)
  <2>1. SUFFICES ASSUME NEW i \in 1..(2 * n) PROVE HexValue(hex[i]) \in 0..3
    OBVIOUS
  <2>2. hex[i] \in Sixteen
    BY <1>2
  <2>3. \E d \in 0..3 : hex[i] = HexDigits[d + 1]
    <3>1. /\ HexDigits[0 + 1] = "0" /\ HexDigits[1 + 1] = "1"
          /\ HexDigits[2 + 1] = "a" /\ HexDigits[3 + 1] = "b"
      BY DEF HexDigits
    <3>2. QED
      BY <2>2, <3>1 DEF Sixteen
  <2>4. QED
    BY <2>3, DigitsHaveValues
<1> DEFINE decoded == [i \in 1..n |-> 4 * HexValue(hex[2 * i - 1]) + HexValue(hex[2 * i])]
<1>8. HexDecode(hex) = decoded
  BY <1>3, <1>7 DEF HexDecode
<1>9. decoded = [i \in 1..n |-> bytes[i]]
  BY <1>6
<1>10. [i \in 1..n |-> bytes[i]] = bytes
  BY <1>1
<1>11. QED
  BY <1>8, <1>9, <1>10, Zenon

\* main.cpp:60-69 and 118-132: a secret of any length is the one that was
\* generated when the program starts again.
THEOREM SecretComesBack ==
    ASSUME NEW bytes \in Seq(SecretBytes)
    PROVE  SecretSurvives(bytes)
<1> DEFINE hex == RandomHex(bytes)
           none == <<>>
<1>1. SpellsBytes(hex, bytes, Len(bytes))
  BY RandomHexIs
<1>2. hex \in Seq(Sixteen)
  BY <1>1 DEF SpellsBytes
<1>3. none \in Seq(Sixteen)
  OBVIOUS
<1> HIDE DEF hex, none
<1>4. LoadsBack(hex, none)
  BY <1>2, <1>3, DigitsHaveValues, SavedIsLoadedBack
<1>5. LoadConfig(SaveConfig([k |-> hex, p |-> none])).k = Trim(hex)
  BY <1>4 DEF LoadsBack
<1>6. Trim(hex) = hex
  <2>1. \A i \in 1..Len(hex) : hex[i] # Blank
    BY <1>2, DigitsHaveValues
  <2>2. QED
    BY <1>2, <2>1, TrimNothing
<1>7. HexDecode(hex) = bytes
  BY <1>1, HexDecodes
<1>8. QED
  BY <1>5, <1>6, <1>7, Zenon DEF SecretSurvives, hex, none

\* config.cpp:19-36 and main.cpp:60-69, 118-132: whatever is saved.
THEOREM SavedIsAlwaysLoaded == Spec => []SavedIsLoaded
<1>1. TextTyped => SavedIsLoaded
  <2> SUFFICES ASSUME TextTyped PROVE SavedIsLoaded
    OBVIOUS
  <2>1. ASSUME subject = "value", NEW other \in {<<>>, <<"v">>, text}
        PROVE  LoadsBack(text, other)
    <3> DEFINE U == Units("value")
    <3>1. "v" \in U /\ Newline \notin U
      BY Zenon DEF Units, Newline
    <3> HIDE DEF U
    <3>2. text \in Seq(U)
      BY <2>1, Zenon DEF TextTyped, U
    <3>3. <<>> \in Seq(U)
      OBVIOUS
    <3>4. <<"v">> \in Seq(U)
      <4>1. PICK one \in Nat : one = 1
        OBVIOUS
      <4>2. QED
        BY <3>1, <4>1, OneUnit, Zenon
    <3>5. other \in Seq(U)
      BY <2>1, <3>2, <3>3, <3>4, Zenon
    <3>6. QED
      BY <3>1, <3>2, <3>5, SavedIsLoadedBack
  <2>2. ASSUME subject = "secret" PROVE SecretSurvives(text)
    <3>1. text \in Seq(SecretBytes)
      BY <2>2, Zenon DEF TextTyped, Units
    <3>2. QED
      BY <3>1, SecretComesBack
  <2>3. QED
    BY <2>1, <2>2, Zenon DEF SavedIsLoaded
<1>2. QED
  BY <1>1, TextsTyped, PTL

-----------------------------------------------------------------------------
(* Powers *)

\* The equation of Power.
Powers(p, b, n) == p \in [0..n -> Nat] /\ p[0] = 1 /\ \A i \in 1..n : p[i] = b * p[i - 1]

\* It has a solution.
LEMMA PowersExist ==
    ASSUME NEW b \in Nat, NEW n \in Nat
    PROVE  \E p : Powers(p, b, n)
<1> DEFINE Solved == {k \in Nat : \E p : Powers(p, b, k)}
<1>1. 0 \in Solved
  <2>1. Powers([i \in 0..0 |-> 1], b, 0)
    BY DEF Powers
  <2>2. QED
    BY <2>1
<1>2. ASSUME NEW k \in Nat, k \in Solved PROVE k + 1 \in Solved
  <2>1. PICK p : Powers(p, b, k)
    BY <1>2
  <2> DEFINE q == [i \in 0..(k + 1) |-> IF i = k + 1 THEN b * p[k] ELSE p[i]]
  <2>2. p \in [0..k -> Nat] /\ p[0] = 1 /\ \A i \in 1..k : p[i] = b * p[i - 1]
    BY <2>1 DEF Powers
  <2>3. b * p[k] \in Nat
    <3>1. p[k] \in Nat
      BY <2>2
    <3>2. QED
      BY <3>1
  <2>4. q \in [0..(k + 1) -> Nat]
    BY <2>2, <2>3
  <2>5. q[0] = 1 /\ \A i \in 0..k : q[i] = p[i]
    BY <2>2
  <2>6. q[k + 1] = b * q[k]
    BY <2>5
  <2> HIDE DEF q
  <2>7. \A i \in 1..(k + 1) : q[i] = b * q[i - 1]
    <3>1. SUFFICES ASSUME NEW i \in 1..(k + 1) PROVE q[i] = b * q[i - 1]
      OBVIOUS
    <3>2. CASE i = k + 1
      BY <2>6, <3>2
    <3>3. CASE i # k + 1
      <4>1. i \in 1..k /\ i \in 0..k /\ i - 1 \in 0..k
        BY <3>3
      <4>2. QED
        BY <2>2, <2>5, <4>1
    <3>4. QED
      BY <3>2, <3>3
  <2>8. Powers(q, b, k + 1)
    BY <2>4, <2>5, <2>7 DEF Powers
  <2>9. QED
    BY <2>8
<1>3. n \in Solved
  <2> HIDE DEF Solved
  <2>1. QED
    BY <1>1, <1>2, NumbersInduction
<1>4. QED
  BY <1>3

\* And no other.
LEMMA PowersAgree ==
    ASSUME NEW b \in Nat, NEW m \in Nat, NEW n \in Nat, m <= n,
           NEW p, Powers(p, b, m), NEW q, Powers(q, b, n)
    PROVE  p[m] = q[m]
<1> DEFINE Same == {k \in Nat : k <= m => p[k] = q[k]}
<1>1. 0 \in Same
  BY DEF Powers
<1>2. ASSUME NEW k \in Nat, k \in Same PROVE k + 1 \in Same
  <2> SUFFICES ASSUME k + 1 <= m PROVE p[k + 1] = q[k + 1]
    OBVIOUS
  <2>1. k + 1 \in 1..m /\ k + 1 \in 1..n /\ k + 1 - 1 = k /\ p[k] = q[k]
    BY <1>2
  <2>2. p[k + 1] = b * p[k] /\ q[k + 1] = b * q[k]
    BY <2>1 DEF Powers
  <2>3. QED
    BY <2>1, <2>2
<1>3. m \in Same
  <2> HIDE DEF Same
  <2>1. QED
    BY <1>1, <1>2, NumbersInduction
<1>4. QED
  BY <1>3

\* Power is the solution.
LEMMA PowerIs ==
    ASSUME NEW b \in Nat, NEW n \in Nat
    PROVE  \E p : Powers(p, b, n) /\ Power(b, n) = p[n]
<1> DEFINE Equation(p) == p = [i \in 0..n |-> IF i = 0 THEN 1 ELSE b * p[i - 1]]
           power == CHOOSE p : Equation(p)
<1>1. Power(b, n) = power[n]
  BY DEF Power
<1>2. PICK p : Powers(p, b, n)
  BY PowersExist
<1>3. Equation(p)
  <2>1. p \in [0..n -> Nat] /\ p[0] = 1 /\ \A i \in 1..n : p[i] = b * p[i - 1]
    BY <1>2 DEF Powers
  <2>2. \A i \in 0..n : i = 0 \/ i \in 1..n
    OBVIOUS
  <2>3. \A i \in 0..n : p[i] = IF i = 0 THEN 1 ELSE b * p[i - 1]
    BY <2>1, <2>2
  <2>4. p = [i \in 0..n |-> p[i]]
    BY <2>1
  <2>5. QED
    BY <2>3, <2>4
<1>4. Equation(power)
  <2> HIDE DEF Equation
  <2>1. QED
    BY <1>3
<1> HIDE DEF power
<1>5. \A i \in 0..n : power[i] = IF i = 0 THEN 1 ELSE b * power[i - 1]
  BY <1>4
<1>6. power[0] = 1 /\ \A i \in 1..n : power[i] = b * power[i - 1]
  BY <1>5
<1>7. \A i \in 0..n : power[i] \in Nat
  <2> DEFINE Natural == {k \in Nat : k <= n => power[k] \in Nat}
  <2>1. 0 \in Natural
    BY <1>6
  <2>2. ASSUME NEW k \in Nat, k \in Natural PROVE k + 1 \in Natural
    <3> SUFFICES ASSUME k + 1 <= n PROVE power[k + 1] \in Nat
      OBVIOUS
    <3>1. k + 1 \in 1..n /\ k + 1 - 1 = k /\ power[k] \in Nat
      BY <2>2
    <3>2. power[k + 1] = b * power[k]
      BY <1>6, <3>1
    <3>3. QED
      BY <3>1, <3>2
  <2> HIDE DEF Natural
  <2>3. \A k \in Nat : k \in Natural
    BY <2>1, <2>2, NumbersInduction
  <2>4. QED
    BY <2>3 DEF Natural
<1>8. power \in [0..n -> Nat]
  <2>1. power = [i \in 0..n |-> power[i]]
    BY <1>4
  <2>2. QED
    BY <1>7, <2>1
<1>9. QED
  BY <1>1, <1>6, <1>8 DEF Powers

\* What is needed of powers.
LEMMA PowerNext ==
    ASSUME NEW b \in Nat
    PROVE  /\ Power(b, 0) = 1
           /\ \A n \in Nat : Power(b, n) \in Nat /\ Power(b, n + 1) = b * Power(b, n)
<1>1. Power(b, 0) = 1
  <2>1. PICK p : Powers(p, b, 0) /\ Power(b, 0) = p[0]
    BY PowerIs
  <2>2. QED
    BY <2>1 DEF Powers
<1>2. ASSUME NEW n \in Nat
      PROVE  Power(b, n) \in Nat /\ Power(b, n + 1) = b * Power(b, n)
  <2>1. PICK p : Powers(p, b, n) /\ Power(b, n) = p[n]
    BY PowerIs
  <2>2. n + 1 \in Nat /\ n <= n + 1 /\ n \in 0..n
    OBVIOUS
  <2>3. PICK q : Powers(q, b, n + 1) /\ Power(b, n + 1) = q[n + 1]
    BY <2>2, PowerIs
  <2>4. p[n] = q[n]
    BY <2>1, <2>2, <2>3, PowersAgree
  <2>5. q[n + 1] = b * q[n + 1 - 1] /\ n + 1 - 1 = n
    BY <2>3 DEF Powers
  <2>6. p[n] \in Nat
    BY <2>1, <2>2 DEF Powers
  <2>7. QED
    BY <2>1, <2>3, <2>4, <2>5, <2>6
<1>3. QED
  BY <1>1, <1>2

\* Products of three.
LEMMA ProductOfThree ==
    ASSUME NEW x \in Nat, NEW y \in Nat, NEW z \in Nat
    PROVE  x * (y * z) = (x * y) * z /\ x * (y * z) = y * (x * z)
  OBVIOUS

\* Products are monotone.
LEMMA ProductMonotone ==
    ASSUME NEW x \in Nat, NEW y \in Nat, NEW z \in Nat, x <= y
    PROVE  x * z \in Nat /\ y * z \in Nat /\ x * z <= y * z
  OBVIOUS

\* The power of a sum.
LEMMA PowerSum ==
    ASSUME NEW b \in Nat, NEW m \in Nat, NEW n \in Nat
    PROVE  Power(b, m + n) = Power(b, m) * Power(b, n)
<1> DEFINE P(k) == Power(b, k)
           Good == {k \in Nat : P(m + k) = P(m) * P(k)}
<1>1. P(0) = 1 /\ \A k \in Nat : P(k) \in Nat /\ P(k + 1) = b * P(k)
  BY PowerNext
<1> HIDE DEF P
<1>2. 0 \in Good
  BY <1>1
<1>3. ASSUME NEW k \in Nat, k \in Good PROVE k + 1 \in Good
  <2>1. P(m + k) = P(m) * P(k) /\ m + k \in Nat /\ m + k + 1 = m + (k + 1)
    BY <1>3
  <2>2. P(m + (k + 1)) = b * (P(m) * P(k))
    <3>1. P(m + k + 1) = b * P(m + k)
      BY <1>1, <2>1
    <3>2. QED
      BY <2>1, <3>1
  <2>3. b * (P(m) * P(k)) = P(m) * (b * P(k))
    <3>1. P(m) \in Nat /\ P(k) \in Nat
      BY <1>1
    <3>2. QED
      BY <3>1, ProductOfThree
  <2>4. P(k + 1) = b * P(k)
    BY <1>1
  <2>5. QED
    BY <2>2, <2>3, <2>4
<1>4. n \in Good
  <2> HIDE DEF Good
  <2>1. QED
    BY <1>2, <1>3, NumbersInduction
<1>5. QED
  BY <1>4 DEF P

\* Powers are positive.
LEMMA PowerPositive ==
    ASSUME NEW b \in Nat \ {0}, NEW n \in Nat
    PROVE  Power(b, n) \in Nat \ {0}
<1> DEFINE P(k) == Power(b, k)
           Good == {k \in Nat : P(k) \in Nat \ {0}}
<1>1. P(0) = 1 /\ \A k \in Nat : P(k) \in Nat /\ P(k + 1) = b * P(k)
  BY PowerNext
<1> HIDE DEF P
<1>2. 0 \in Good
  BY <1>1
<1>3. ASSUME NEW k \in Nat, k \in Good PROVE k + 1 \in Good
  <2>1. P(k) \in Nat \ {0} /\ P(k + 1) = b * P(k)
    BY <1>1, <1>3
  <2>2. \A x \in Nat \ {0}, y \in Nat \ {0} : x * y \in Nat \ {0}
    OBVIOUS
  <2>3. QED
    BY <2>1, <2>2
<1>4. n \in Good
  <2> HIDE DEF Good
  <2>1. QED
    BY <1>2, <1>3, NumbersInduction
<1>5. QED
  BY <1>4 DEF P

\* Powers grow.
LEMMA PowerMonotone ==
    ASSUME NEW b \in Nat \ {0}, NEW m \in Nat, NEW n \in Nat, m <= n
    PROVE  Power(b, m) <= Power(b, n)
<1>1. PICK k \in Nat : k = n - m /\ n = m + k
  OBVIOUS
<1>2. Power(b, n) = Power(b, m) * Power(b, k)
  BY <1>1, PowerSum
<1>3. Power(b, m) \in Nat /\ Power(b, k) \in Nat \ {0}
  BY PowerPositive
<1>4. \A x \in Nat, y \in Nat \ {0} : x <= x * y
  OBVIOUS
<1>5. QED
  BY <1>2, <1>3, <1>4

\* A power of two is more than its exponent.
LEMMA PowerIsMore ==
    ASSUME NEW n \in Nat
    PROVE  n < Power(2, n)
<1> DEFINE P(k) == Power(2, k)
           Good == {k \in Nat : k < P(k)}
<1>1. P(0) = 1 /\ \A k \in Nat : P(k) \in Nat /\ P(k + 1) = 2 * P(k)
  BY PowerNext
<1> HIDE DEF P
<1>2. 0 \in Good
  BY <1>1
<1>3. ASSUME NEW k \in Nat, k \in Good PROVE k + 1 \in Good
  <2>1. k < P(k) /\ P(k) \in Nat /\ P(k + 1) = 2 * P(k)
    BY <1>1, <1>3
  <2>2. QED
    BY <2>1
<1>4. n \in Good
  <2> HIDE DEF Good
  <2>1. QED
    BY <1>2, <1>3, NumbersInduction
<1>5. QED
  BY <1>4 DEF P

\* Division with remainder.
LEMMA Division ==
    ASSUME NEW x \in Nat, NEW b \in Nat \ {0}
    PROVE  (x \div b) \in Nat /\ (x % b) \in 0..(b - 1) /\ x = (x \div b) * b + (x % b)
  OBVIOUS

\* Quotient and remainder are the only ones.
LEMMA DivisionIs ==
    ASSUME NEW q \in Nat, NEW b \in Nat \ {0}, NEW r \in 0..(b - 1)
    PROVE  ((q * b + r) \div b) = q /\ ((q * b + r) % b) = r
<1> DEFINE x == q * b + r
           d == x \div b
           s == x % b
<1>1. x \in Nat
  OBVIOUS
<1> HIDE DEF x
<1>2. d \in Nat /\ s \in 0..(b - 1) /\ x = d * b + s
  BY <1>1, Division
<1> HIDE DEF d, s
<1>3. q * b + r = d * b + s
  BY <1>2 DEF x
<1>4. d = q
  <2>1. ASSUME d < q PROVE FALSE
    <3>1. (d + 1) * b <= q * b
      BY <1>2, <2>1, ProductMonotone
    <3>2. (d + 1) * b = d * b + b
      BY <1>2
    <3>3. QED
      BY <1>2, <1>3, <3>1, <3>2
  <2>2. ASSUME q < d PROVE FALSE
    <3>1. (q + 1) * b <= d * b
      BY <1>2, <2>2, ProductMonotone
    <3>2. (q + 1) * b = q * b + b
      BY <1>2
    <3>3. QED
      BY <1>2, <1>3, <3>1, <3>2
  <2>3. QED
    BY <1>2, <2>1, <2>2
<1>5. s = r
  BY <1>2, <1>3, <1>4
<1>6. QED
  BY <1>4, <1>5 DEF d, s, x

-----------------------------------------------------------------------------
(* The number a digest is *)

\* The fold of Magnitude.
MagnitudeFold(it, s) ==
    it = [P \in SUBSET DOMAIN s |->
             IF P = {} THEN 0 ELSE it[P \ {Max(P)}] * Power(2, 4 * Unit) + s[Max(P)]]

\* Magnitude is the value, on the whole digest, of the function the fold chooses.
LEMMA MagnitudeIsFold ==
    ASSUME NEW s
    PROVE  Magnitude(s) = (CHOOSE it : MagnitudeFold(it, s))[DOMAIN s]
  BY DEF Magnitude, FoldLeft, MapThenFoldSet, MagnitudeFold

\* How many values a byte has.
LEMMA ByteRange ==
    /\ Unit \in Nat \ {0} /\ 4 * Unit \in Nat \ {0}
    /\ Power(2, 4 * Unit) \in Nat \ {0} /\ Bytes = 0..(Power(2, 4 * Unit) - 1)
<1>1. Unit \in Nat \ {0} /\ 4 * Unit \in Nat \ {0}
  BY TokenAssumption
<1>2. Power(2, 4 * Unit) \in Nat \ {0}
  BY <1>1, PowerPositive
<1>3. QED
  BY <1>1, <1>2 DEF Bytes

\* The equation of the fold has a solution.
LEMMA MagnitudeFoldExists ==
    ASSUME NEW s \in Seq(Bytes)
    PROVE  \E it : MagnitudeFold(it, s)
<1>1. PICK n \in Nat : n = Len(s) /\ DOMAIN s = 1..n
  OBVIOUS
<1> DEFINE p == Power(2, 4 * Unit)
           step == [x \in (1..n) \X Nat |-> x[2] * p + s[x[1]]]
<1>2. p \in Nat \ {0} /\ \A i \in 1..n : s[i] \in Nat
  BY <1>1, ByteRange
<1> HIDE DEF p
<1>3. step \in [(1..n) \X Nat -> Nat]
  <2>1. \A v \in Nat, c \in Nat : v * p + c \in Nat
    BY <1>2
  <2>2. QED
    BY <1>2, <2>1
<1> HIDE DEF step
<1>4. PICK it : FoldEquation(it, Nat, n, 0, step)
  <2>1. 0 \in Nat
    OBVIOUS
  <2>2. QED
    BY <1>3, <2>1, FoldExists, Zenon
<1>5. ASSUME NEW P \in SUBSET (1..n)
      PROVE  it[P] = IF P = {} THEN 0 ELSE it[P \ {Max(P)}] * p + s[Max(P)]
  <2>1. CASE P = {}
    BY <1>4, <2>1 DEF FoldEquation
  <2>2. CASE P # {}
    <3>1. Max(P) \in 1..n /\ P \ {Max(P)} \in SUBSET (1..n)
      <4>1. P \in SUBSET (0..n)
        OBVIOUS
      <4>2. Max(P) \in P
        BY <2>2, <4>1, LargestExists
      <4>3. QED
        BY <4>2
    <3>2. it[P \ {Max(P)}] \in Nat
      BY <1>4, <3>1 DEF FoldEquation
    <3>3. it[P] = step[<<Max(P), it[P \ {Max(P)}]>>]
      BY <1>4, <2>2 DEF FoldEquation
    <3>4. step[<<Max(P), it[P \ {Max(P)}]>>] = it[P \ {Max(P)}] * p + s[Max(P)]
      BY <3>1, <3>2 DEF step
    <3>5. QED
      BY <2>2, <3>3, <3>4
  <2>3. QED
    BY <2>1, <2>2
<1>6. it \in [SUBSET (1..n) -> Nat]
  BY <1>4 DEF FoldEquation
<1>7. MagnitudeFold(it, s)
  BY <1>1, <1>5, <1>6 DEF MagnitudeFold, p
<1>8. QED
  BY <1>7

\* The number of the first bytes: with every byte more it is shifted by a byte.
MagnitudeParts(part, s) ==
    /\ part \in [0..Len(s) -> Nat] /\ part[0] = 0
    /\ \A j \in 1..Len(s) : part[j] = part[j - 1] * Power(2, 4 * Unit) + s[j]

\* What Magnitude computes, part by part.
LEMMA MagnitudeIs ==
    ASSUME NEW s \in Seq(Bytes)
    PROVE  \E part : MagnitudeParts(part, s) /\ Magnitude(s) = part[Len(s)]
<1>1. PICK n \in Nat : n = Len(s) /\ DOMAIN s = 1..n
  OBVIOUS
<1> DEFINE it == CHOOSE it : MagnitudeFold(it, s)
           p == Power(2, 4 * Unit)
<1>2. MagnitudeFold(it, s)
  BY MagnitudeFoldExists
<1>3. Magnitude(s) = it[1..n]
  BY <1>1, MagnitudeIsFold
<1> HIDE DEF it
<1>4. it[1..0] = 0
  BY <1>1, <1>2 DEF MagnitudeFold
<1>5. ASSUME NEW j \in 1..n PROVE it[1..j] = it[1..(j - 1)] * p + s[j]
  <2>1. 1..j \in SUBSET (1..n) /\ 1..j # {} /\ (1..j) \ {j} = 1..(j - 1)
    OBVIOUS
  <2>2. Max(1..j) = j
    <3>1. 1..j \in SUBSET (1..(j - 1 + 1)) /\ j - 1 + 1 = j /\ j - 1 + 1 \in 1..j /\ j - 1 \in Nat
      OBVIOUS
    <3>2. QED
      BY <3>1, LastPlace
  <2>3. QED
    BY <1>1, <1>2, <2>1, <2>2 DEF MagnitudeFold
<1>6. p \in Nat \ {0} /\ \A j \in 1..n : s[j] \in Nat
  BY <1>1, ByteRange
<1> HIDE DEF p
<1>7. \A j \in 0..n : it[1..j] \in Nat
  <2> DEFINE Known == {j \in Nat : j <= n => it[1..j] \in Nat}
  <2>1. 0 \in Known
    BY <1>4
  <2>2. ASSUME NEW j \in Nat, j \in Known PROVE j + 1 \in Known
    <3> SUFFICES ASSUME j + 1 <= n PROVE it[1..(j + 1)] \in Nat
      OBVIOUS
    <3>1. it[1..j] \in Nat /\ j + 1 \in 1..n /\ j + 1 - 1 = j
      BY <2>2
    <3>2. it[1..(j + 1)] = it[1..j] * p + s[j + 1]
      BY <1>5, <3>1
    <3>3. \A v \in Nat, c \in Nat : v * p + c \in Nat
      BY <1>6
    <3>4. QED
      BY <1>6, <3>1, <3>2, <3>3
  <2> HIDE DEF Known
  <2>3. \A j \in Nat : j \in Known
    BY <2>1, <2>2, NumbersInduction
  <2>4. QED
    BY <2>3 DEF Known
<1> DEFINE part == [j \in 0..n |-> it[1..j]]
<1>8. part \in [0..n -> Nat] /\ part[0] = 0 /\ Magnitude(s) = part[n]
  BY <1>3, <1>4, <1>7
<1>9. ASSUME NEW j \in 1..n PROVE part[j] = part[j - 1] * p + s[j]
  <2>1. j \in 0..n /\ j - 1 \in 0..n
    OBVIOUS
  <2>2. part[j] = it[1..j] /\ part[j - 1] = it[1..(j - 1)]
    BY <2>1
  <2>3. QED
    BY <1>5, <2>2
<1> HIDE DEF part
<1>10. QED
  BY <1>1, <1>8, <1>9 DEF MagnitudeParts, p

\* A quotient is zero where the divisor is more.
LEMMA ZeroQuotient ==
    ASSUME NEW x \in Nat, NEW b \in Nat \ {0}
    PROVE  (x \div b) = 0 <=> x < b
<1> DEFINE q == x \div b
           r == x % b
<1>1. q \in Nat /\ r \in 0..(b - 1) /\ x = q * b + r
  BY Division
<1> HIDE DEF q, r
<1>2. CASE q = 0
  BY <1>1, <1>2 DEF q
<1>3. CASE q # 0
  <2>1. \A y \in Nat \ {0} : b <= y * b
    OBVIOUS
  <2>2. q \in Nat \ {0}
    BY <1>1, <1>3
  <2>3. b <= q * b
    BY <2>1, <2>2
  <2>4. ~(x < b)
    BY <1>1, <2>3
  <2>5. QED
    BY <1>3, <2>4 DEF q
<1>4. QED
  BY <1>2, <1>3

\* The bits of a byte up to its highest one that is set.
BitsOf(b, w) == Power(2, w - 1) <= b /\ b < Power(2, w)

\* leading_zero_bits: what is left of a byte above them.
LEMMA LeadingZerosAre ==
    ASSUME NEW b \in Bytes \ {0}
    PROVE  \E w \in 1..(4 * Unit) : LeadingZeros(b) = 4 * Unit - w /\ BitsOf(b, w)
<1> DEFINE B == 4 * Unit
           P(k) == Power(2, k)
           fit == {w \in 0..B : b < P(w)}
           Fits(w) == High(b, w) = 0 /\ (w > 0 => High(b, w - 1) # 0)
           width == CHOOSE w \in 0..B : Fits(w)
<1>1. B \in Nat \ {0} /\ b \in Nat \ {0} /\ b < P(B)
  BY ByteRange
<1>2. P(0) = 1 /\ \A k \in Nat : P(k) \in Nat \ {0}
  <2>1. 2 \in Nat /\ 2 \in Nat \ {0}
    OBVIOUS
  <2>2. P(0) = 1
    BY <2>1, PowerNext
  <2>3. \A k \in Nat : P(k) \in Nat \ {0}
    BY <2>1, PowerPositive
  <2>4. QED
    BY <2>2, <2>3
<1> HIDE DEF B, P
<1>3. \A k \in Nat : High(b, k) = 0 <=> b < P(k)
  <2>1. SUFFICES ASSUME NEW k \in Nat PROVE (b \div P(k)) = 0 <=> b < P(k)
    BY DEF High, P
  <2>2. b \in Nat /\ P(k) \in Nat \ {0}
    BY <1>1, <1>2
  <2>3. QED
    BY <2>2, ZeroQuotient
<1>4. fit \in SUBSET Nat /\ fit # {}
  <2>1. B \in fit
    BY <1>1
  <2>2. QED
    BY <2>1
<1>5. PICK least \in fit : \A w \in fit : least <= w
  BY <1>4, SmallestExists
<1>6. \E w \in 0..B : Fits(w)
  <2>1. least \in 0..B /\ High(b, least) = 0
    BY <1>3, <1>5
  <2>2. ASSUME least > 0 PROVE High(b, least - 1) # 0
    <3>1. least - 1 \in 0..B /\ least - 1 \in Nat /\ ~(least <= least - 1)
      BY <1>1, <2>1, <2>2
    <3>2. least - 1 \notin fit
      BY <1>5, <3>1
    <3>3. QED
      BY <1>3, <3>1, <3>2
  <2>3. QED
    BY <2>1, <2>2
<1>7. width \in 0..B /\ Fits(width)
  <2> HIDE DEF Fits
  <2>1. QED
    BY <1>6
<1>8. LeadingZeros(b) = B - width
  BY DEF LeadingZeros, B
<1> HIDE DEF width, fit
<1>9. width # 0
  <2>1. High(b, 0) # 0
    <3>1. ~(b < P(0))
      BY <1>1, <1>2
    <3>2. QED
      BY <1>3, <3>1
  <2>2. QED
    BY <1>7, <2>1
<1>10. width \in 1..B /\ width - 1 \in Nat /\ width \in Nat
  BY <1>1, <1>7, <1>9
<1>11. b < P(width) /\ ~(b < P(width - 1))
  <2>1. High(b, width) = 0 /\ High(b, width - 1) # 0
    BY <1>7, <1>10
  <2>2. QED
    BY <1>3, <1>10, <2>1
<1>12. P(width - 1) <= b
  BY <1>1, <1>2, <1>10, <1>11
<1>13. QED
  BY <1>8, <1>10, <1>11, <1>12 DEF B, P, BitsOf

\* The first byte that is not zero, and ZeroBits by it.
LEMMA ZeroBitsAre ==
    ASSUME NEW s \in Seq(Bytes)
    PROVE  \/ /\ \A i \in 1..Len(s) : s[i] = 0
              /\ ZeroBits(s) = 4 * Unit * Len(s)
           \/ \E z \in 1..Len(s) :
                 /\ \A i \in 1..(z - 1) : s[i] = 0
                 /\ s[z] # 0
                 /\ ZeroBits(s) = 4 * Unit * (z - 1) + LeadingZeros(s[z])
<1> DEFINE places == {i \in 1..Len(s) : s[i] # 0}
           zeros == IF places # {} THEN Min(places) ELSE 0
<1>1. ZeroBits(s) = IF zeros = 0 THEN 4 * Unit * Len(s)
                    ELSE 4 * Unit * (zeros - 1) + LeadingZeros(s[zeros])
  BY DEF ZeroBits, SelectInSeq
<1>2. CASE places = {}
  BY <1>1, <1>2
<1>3. CASE places # {}
  <2>1. places \in SUBSET Nat
    OBVIOUS
  <2>2. Min(places) \in places /\ \A x \in places : Min(places) <= x
    BY <1>3, <2>1, SmallestExists
  <2>3. zeros \in places /\ \A x \in places : zeros <= x
    BY <1>3, <2>2
  <2> HIDE DEF zeros
  <2>4. zeros \in 1..Len(s) /\ s[zeros] # 0 /\ zeros # 0
    BY <2>3
  <2>5. \A i \in 1..(zeros - 1) : s[i] = 0
    BY <2>3, <2>4
  <2>6. QED
    BY <1>1, <2>4, <2>5
<1>4. QED
  BY <1>2, <1>3

\* One byte more: the bits of the number grow by those of a byte.
LEMMA ByteAppended ==
    ASSUME NEW v \in Nat, NEW e \in Nat, NEW d \in Bytes,
           Power(2, e) <= v, v < Power(2, e + 1)
    PROVE  LET B == 4 * Unit
               u == v * Power(2, B) + d
           IN  Power(2, e + B) <= u /\ u < Power(2, e + 1 + B)
<1> DEFINE B == 4 * Unit
           p == Power(2, B)
           low == Power(2, e)
           high == Power(2, e + 1)
<1>1. B \in Nat /\ p \in Nat \ {0} /\ d \in 0..(p - 1)
  BY ByteRange
<1>2. 2 \in Nat /\ 2 \in Nat \ {0} /\ e + 1 \in Nat
  OBVIOUS
<1>3. low \in Nat /\ high \in Nat
  BY <1>2, PowerPositive
<1>4. Power(2, e + B) = low * p /\ Power(2, e + 1 + B) = high * p
  BY <1>1, <1>2, PowerSum
<1> HIDE DEF B, p, low, high
<1>5. low <= v /\ v + 1 <= high
  BY <1>3 DEF low, high
<1>6. low * p <= v * p /\ low * p \in Nat /\ v * p \in Nat
  BY <1>1, <1>3, <1>5, ProductMonotone
<1>7. (v + 1) * p <= high * p /\ high * p \in Nat
  <2>1. v + 1 \in Nat
    OBVIOUS
  <2>2. QED
    BY <1>1, <1>3, <1>5, <2>1, ProductMonotone
<1>8. (v + 1) * p = v * p + p
  BY <1>1
<1>9. low * p <= v * p + d /\ v * p + d < high * p
  BY <1>1, <1>6, <1>7, <1>8
<1>10. QED
  BY <1>4, <1>9 DEF B, p

\* The bits of a digest from its first byte that is not zero on.
LEMMA MagnitudeBits ==
    ASSUME NEW s \in Seq(Bytes), NEW z \in 1..Len(s), NEW w \in 1..(4 * Unit),
           \A i \in 1..(z - 1) : s[i] = 0, BitsOf(s[z], w)
    PROVE  BitsOf(Magnitude(s), w + 4 * Unit * (Len(s) - z))
<1> DEFINE B == 4 * Unit
           p == Power(2, B)
<1>1. PICK n \in Nat : n = Len(s)
  OBVIOUS
<1>2. PICK part : MagnitudeParts(part, s) /\ Magnitude(s) = part[n]
  BY <1>1, MagnitudeIs
<1>3. /\ part \in [0..n -> Nat] /\ part[0] = 0
      /\ \A j \in 1..n : part[j] = part[j - 1] * p + s[j]
  BY <1>1, <1>2 DEF MagnitudeParts
<1>4. B \in Nat \ {0} /\ p \in Nat \ {0} /\ \A j \in 1..n : s[j] \in Bytes /\ s[j] \in Nat
  BY <1>1, ByteRange
<1>5. w \in 1..B /\ z \in 1..n
  BY <1>1
<1>6. Power(2, w - 1) <= s[z] /\ s[z] < Power(2, w)
  BY DEF BitsOf
<1>7. \A e \in Nat, v \in Nat, d \in Bytes :
          Power(2, e) <= v /\ v < Power(2, e + 1) =>
              Power(2, e + B) <= v * p + d /\ v * p + d < Power(2, e + 1 + B)
  BY ByteAppended
<1> HIDE DEF B, p
<1>8. part[z - 1] = 0
  <2> DEFINE Zeros == {j \in Nat : j <= z - 1 => part[j] = 0}
  <2>1. 0 \in Zeros
    BY <1>3
  <2>2. ASSUME NEW j \in Nat, j \in Zeros PROVE j + 1 \in Zeros
    <3> SUFFICES ASSUME j + 1 <= z - 1 PROVE part[j + 1] = 0
      OBVIOUS
    <3>1. part[j] = 0 /\ j + 1 \in 1..(z - 1) /\ j + 1 \in 1..n /\ j + 1 - 1 = j
      BY <1>1, <2>2
    <3>2. part[j + 1] = part[j] * p + s[j + 1] /\ s[j + 1] = 0
      BY <1>3, <3>1
    <3>3. 0 * p + 0 = 0
      BY <1>4
    <3>4. QED
      BY <3>1, <3>2, <3>3
  <2>3. z - 1 \in Zeros
    <3>1. z - 1 \in Nat
      BY <1>5
    <3> HIDE DEF Zeros
    <3>2. QED
      BY <2>1, <2>2, <3>1, NumbersInduction
  <2>4. QED
    BY <1>5, <2>3
<1>9. part[z] = s[z]
  <2>1. part[z] = part[z - 1] * p + s[z] /\ 0 * p = 0 /\ s[z] \in Nat
    BY <1>3, <1>4, <1>5
  <2>2. QED
    BY <1>8, <2>1
<1> DEFINE e == [j \in Nat |-> w - 1 + B * j]
           Good == {j \in Nat : z + j <= n =>
                        Power(2, e[j]) <= part[z + j] /\ part[z + j] < Power(2, e[j] + 1)}
<1>10. ASSUME NEW j \in Nat PROVE e[j] \in Nat /\ e[j + 1] = e[j] + B
  <2>1. PICK x \in Nat : x = B * j
    BY <1>4
  <2>2. PICK y \in Nat : y = B * (j + 1) /\ y = x + B
    <3>1. j + 1 \in Nat /\ B * (j + 1) = B * j + B /\ B \in Nat
      BY <1>4
    <3>2. x + B \in Nat
      BY <3>1
    <3>3. QED
      BY <2>1, <3>1, <3>2
  <2>3. e[j] = w - 1 + x
    BY <2>1
  <2>4. e[j + 1] = w - 1 + y
    BY <2>2
  <2>5. B \in Nat /\ w \in Nat \ {0}
    BY <1>4
  <2> HIDE DEF e
  <2>6. e[j] \in Nat
    BY <2>3, <2>5
  <2>7. e[j + 1] = e[j] + B
    BY <2>2, <2>3, <2>4, <2>5
  <2>8. QED
    BY <2>6, <2>7
<1>11. e[0] = w - 1
  <2>1. B * 0 = 0 /\ w - 1 + 0 = w - 1
    BY <1>4
  <2>2. QED
    BY <2>1
<1>12. PICK l \in Nat : l = n - z /\ z + l = n
  BY <1>5
<1>13. PICK h \in Nat : h = w + B * l /\ e[l] = h - 1 /\ e[l] + 1 = h
  <2>1. PICK x \in Nat : x = B * l
    BY <1>4
  <2>2. e[l] = w - 1 + x
    BY <2>1
  <2>3. w + x \in Nat /\ w - 1 + x = w + x - 1 /\ w - 1 + x + 1 = w + x
    BY <1>4, <2>1
  <2> HIDE DEF e
  <2>4. QED
    BY <2>1, <2>2, <2>3
<1> HIDE DEF e
<1>14. 0 \in Good
  <2>1. e[0] + 1 = w /\ z + 0 = z
    BY <1>5, <1>11
  <2>2. QED
    BY <1>6, <1>9, <1>11, <2>1
<1>15. ASSUME NEW j \in Nat, j \in Good PROVE j + 1 \in Good
  <2> SUFFICES ASSUME z + (j + 1) <= n
               PROVE  /\ Power(2, e[j + 1]) <= part[z + (j + 1)]
                      /\ part[z + (j + 1)] < Power(2, e[j + 1] + 1)
    OBVIOUS
  <2> DEFINE v == part[z + j]
             d == s[z + (j + 1)]
  <2>1. z + (j + 1) \in 1..n /\ z + (j + 1) - 1 = z + j /\ z + j \in 0..n
    BY <1>5
  <2>2. Power(2, e[j]) <= v /\ v < Power(2, e[j] + 1)
    BY <1>15, <2>1
  <2>3. v \in Nat /\ d \in Bytes /\ e[j] \in Nat
    BY <1>3, <1>4, <1>10, <2>1
  <2>4. part[z + (j + 1)] = v * p + d
    BY <1>3, <2>1
  <2>5. e[j + 1] = e[j] + B /\ e[j + 1] + 1 = e[j] + 1 + B
    <3>1. e[j + 1] = e[j] + B
      BY <1>10
    <3> HIDE DEF e
    <3>2. B \in Nat /\ e[j] \in Nat
      BY <1>4, <2>3
    <3>3. e[j] + B + 1 = e[j] + 1 + B
      BY <3>2
    <3>4. QED
      BY <3>1, <3>3
  <2> HIDE DEF v, d, Good
  <2>6. Power(2, e[j] + B) <= v * p + d /\ v * p + d < Power(2, e[j] + 1 + B)
    BY <1>7, <2>2, <2>3
  <2>7. QED
    BY <2>4, <2>5, <2>6
<1>16. l \in Good
  <2> HIDE DEF Good
  <2>1. QED
    BY <1>14, <1>15, NumbersInduction
<1>17. Power(2, h - 1) <= Magnitude(s) /\ Magnitude(s) < Power(2, h)
  BY <1>2, <1>12, <1>13, <1>16
<1>18. h = w + B * (Len(s) - z)
  BY <1>1, <1>12, <1>13
<1>19. BitsOf(Magnitude(s), h)
  BY <1>17 DEF BitsOf
<1>20. QED
  BY <1>18, <1>19, Zenon DEF B

\* A digest of zeros is the number 0.
LEMMA MagnitudeOfZeros ==
    ASSUME NEW s \in Seq(Bytes), \A i \in 1..Len(s) : s[i] = 0
    PROVE  Magnitude(s) = 0
<1> DEFINE p == Power(2, 4 * Unit)
<1>1. PICK n \in Nat : n = Len(s)
  OBVIOUS
<1>2. PICK part : MagnitudeParts(part, s) /\ Magnitude(s) = part[n]
  BY <1>1, MagnitudeIs
<1>3. /\ part \in [0..n -> Nat] /\ part[0] = 0
      /\ \A j \in 1..n : part[j] = part[j - 1] * p + s[j]
  BY <1>1, <1>2 DEF MagnitudeParts
<1>4. p \in Nat \ {0}
  BY ByteRange
<1> HIDE DEF p
<1> DEFINE Zeros == {j \in Nat : j <= n => part[j] = 0}
<1>5. 0 \in Zeros
  BY <1>3
<1>6. ASSUME NEW j \in Nat, j \in Zeros PROVE j + 1 \in Zeros
  <2> SUFFICES ASSUME j + 1 <= n PROVE part[j + 1] = 0
    OBVIOUS
  <2>1. part[j] = 0 /\ j + 1 \in 1..n /\ j + 1 - 1 = j
    BY <1>1, <1>6
  <2>2. part[j + 1] = part[j] * p + s[j + 1] /\ s[j + 1] = 0
    BY <1>1, <1>3, <2>1
  <2>3. 0 * p + 0 = 0
    BY <1>4
  <2>4. QED
    BY <2>1, <2>2, <2>3
<1>7. n \in Zeros
  <2> HIDE DEF Zeros
  <2>1. QED
    BY <1>5, <1>6, NumbersInduction
<1>8. QED
  BY <1>2, <1>7

\* A number of h bits, and the powers it is below.
LEMMA BitsMeasure ==
    ASSUME NEW m \in Nat, NEW h \in Nat \ {0}, BitsOf(m, h), NEW e \in Nat
    PROVE  h <= e <=> m < Power(2, e)
<1> DEFINE P(i) == Power(2, i)
<1>1. 2 \in Nat \ {0} /\ h - 1 \in Nat
  OBVIOUS
<1>2. P(h - 1) <= m /\ m < P(h)
  BY DEF BitsOf
<1>3. P(h - 1) \in Nat /\ P(h) \in Nat /\ P(e) \in Nat
  BY <1>1, PowerPositive
<1>4. h <= e => P(h) <= P(e)
  BY <1>1, PowerMonotone
<1>5. e <= h - 1 => P(e) <= P(h - 1)
  BY <1>1, PowerMonotone
<1> HIDE DEF P
<1>6. h <= e <=> m < P(e)
  BY <1>2, <1>3, <1>4, <1>5
<1>7. QED
  BY <1>6 DEF P

\* The zero bits of every digest are as many as its number has to be small.
LEMMA WorkIsMeasured ==
    ASSUME NEW s \in Seq(Bytes)
    PROVE  MeasuresWork(s)
<1> DEFINE B == 4 * Unit
<1>1. PICK all \in Nat : all = B * Len(s)
  <2>1. B \in Nat /\ Len(s) \in Nat
    BY ByteRange
  <2>2. B * Len(s) \in Nat
    BY <2>1
  <2>3. QED
    BY <2>2
<1> SUFFICES ASSUME NEW k \in 0..all
             PROVE  ZeroBits(s) >= k <=> Magnitude(s) < Power(2, all - k)
  BY <1>1 DEF MeasuresWork
<1>2. B \in Nat \ {0} /\ all - k \in Nat
  BY ByteRange
<1>3. CASE \A i \in 1..Len(s) : s[i] = 0
  <2>1. Magnitude(s) = 0
    BY <1>3, MagnitudeOfZeros
  <2>2. Power(2, all - k) \in Nat \ {0}
    <3>1. 2 \in Nat \ {0}
      OBVIOUS
    <3>2. QED
      BY <1>2, <3>1, PowerPositive
  <2>3. ZeroBits(s) = all
    BY <1>1, <1>3, ZeroBitsAre
  <2>4. QED
    BY <2>1, <2>2, <2>3
<1>4. CASE \E i \in 1..Len(s) : s[i] # 0
  <2>1. PICK z \in 1..Len(s) :
            /\ \A i \in 1..(z - 1) : s[i] = 0
            /\ s[z] # 0
            /\ ZeroBits(s) = B * (z - 1) + LeadingZeros(s[z])
    BY <1>4, ZeroBitsAre
  <2>2. s[z] \in Bytes \ {0}
    BY <2>1
  <2>3. PICK w \in 1..B : LeadingZeros(s[z]) = B - w /\ BitsOf(s[z], w)
    BY <2>2, LeadingZerosAre
  <2>4. BitsOf(Magnitude(s), w + B * (Len(s) - z))
    BY <2>1, <2>3, MagnitudeBits
  <2>5. Magnitude(s) \in Nat
    <3>1. PICK part : MagnitudeParts(part, s) /\ Magnitude(s) = part[Len(s)]
      BY MagnitudeIs
    <3>2. part \in [0..Len(s) -> Nat] /\ Len(s) \in 0..Len(s)
      BY <3>1 DEF MagnitudeParts
    <3>3. QED
      BY <3>1, <3>2
  <2>6. PICK n \in Nat : n = Len(s)
    OBVIOUS
  <2>7. w \in Nat \ {0} /\ w <= B /\ B \in Nat /\ z \in 1..n
    BY <1>2, <2>3, <2>6
  <2> HIDE DEF B
  <2>8. B * (z - 1) \in Nat /\ B * (n - z) \in Nat
    BY <2>7
  <2>9. B * (z - 1) + B + B * (n - z) = B * n
    BY <2>7
  <2>10. PICK h \in Nat \ {0} : h = w + B * (n - z)
    BY <2>7, <2>8
  <2>11. B * (z - 1) + (B - w) = all - h
    BY <1>1, <2>6, <2>7, <2>8, <2>9, <2>10
  <2>12. ZeroBits(s) = all - h
    BY <2>1, <2>3, <2>11
  <2>13. BitsOf(Magnitude(s), h)
    BY <2>4, <2>6, <2>10
  <2>14. h <= all - k <=> Magnitude(s) < Power(2, all - k)
    BY <1>2, <2>5, <2>13, BitsMeasure
  <2>15. all - h >= k <=> h <= all - k
    OBVIOUS
  <2>16. QED
    BY <2>12, <2>14, <2>15
<1>5. QED
  BY <1>3, <1>4

-----------------------------------------------------------------------------
(* The bits of a value above and below a place *)

\* The remainder of a remainder by a multiple.
LEMMA RemainderTwice ==
    ASSUME NEW x \in Nat, NEW n \in Nat \ {0}, NEW t \in Nat \ {0}
    PROVE  (x % (n * t)) \in Nat /\ ((x % (n * t)) % n) = x % n
<1>1. n * t \in Nat \ {0}
  OBVIOUS
<1>2. PICK m \in Nat, y \in Nat : x = m * (n * t) + y /\ y = x % (n * t)
  <2>1. /\ (x \div (n * t)) \in Nat /\ (x % (n * t)) \in 0..(n * t - 1)
        /\ x = (x \div (n * t)) * (n * t) + (x % (n * t))
    BY <1>1, Division
  <2>2. (x % (n * t)) \in Nat
    BY <1>1, <2>1
  <2>3. QED
    BY <2>1, <2>2
<1>3. PICK j \in Nat, r \in 0..(n - 1) : y = j * n + r /\ r = y % n
  <2>1. (y \div n) \in Nat /\ (y % n) \in 0..(n - 1) /\ y = (y \div n) * n + (y % n)
    BY <1>2, Division
  <2>2. QED
    BY <2>1
<1>4. PICK c \in Nat : c = m * t /\ m * (n * t) = c * n
  <2>1. m * (n * t) = (m * t) * n /\ m * t \in Nat
    OBVIOUS
  <2>2. QED
    BY <2>1
<1>5. c + j \in Nat /\ x = (c + j) * n + r
  <2>1. (c + j) * n = c * n + j * n /\ c * n \in Nat /\ j * n \in Nat
    OBVIOUS
  <2>2. PICK cn \in Nat, jn \in Nat : cn = c * n /\ jn = j * n
    BY <2>1
  <2>3. x = cn + (jn + r)
    BY <1>2, <1>3, <1>4, <2>2, Zenon
  <2>4. cn + (jn + r) = cn + jn + r
    OBVIOUS
  <2>5. QED
    BY <2>1, <2>2, <2>3, <2>4
<1>6. x % n = r
  BY <1>5, DivisionIs
<1>7. QED
  BY <1>2, <1>3, <1>6

\* The bits of a value from a place on, as many as a byte has.
LEMMA BitsFrom ==
    ASSUME NEW y \in Nat, NEW q \in Nat \ {0}, NEW w \in Nat \ {0},
           NEW h \in Nat, NEW l \in Nat, h < w, l < q, y % (q * w) = h * q + l
    PROVE  (y \div q) % w = h /\ y % q = l
<1>1. q * w \in Nat \ {0} /\ h \in 0..(w - 1) /\ l \in 0..(q - 1)
  OBVIOUS
<1>2. PICK j \in Nat : y = j * (q * w) + (h * q + l)
  <2>1. (y \div (q * w)) \in Nat /\ y = (y \div (q * w)) * (q * w) + (y % (q * w))
    BY <1>1, Division
  <2>2. QED
    BY <2>1
<1>3. j * w + h \in Nat /\ y = (j * w + h) * q + l
  <2>1. j * (q * w) = (j * w) * q /\ j * w \in Nat
    OBVIOUS
  <2>2. (j * w + h) * q = (j * w) * q + h * q
    BY <1>1, <2>1
  <2>3. (j * w) * q \in Nat /\ h * q \in Nat
    BY <1>1, <2>1
  <2>4. QED
    BY <1>1, <1>2, <2>1, <2>2, <2>3
<1>4. (y \div q) = j * w + h /\ y % q = l
  BY <1>1, <1>3, DivisionIs
<1>5. (j * w + h) % w = h
  BY <1>1, DivisionIs
<1>6. QED
  BY <1>4, <1>5

\* A number, and what is left of it below a place.
Leaves(y, n, rest) == y \in Nat /\ y % n = rest

\* A digit of e * q values below a rest of r: the int has room for both, and
\* what the int loses is above them.
LEMMA DigitShifted ==
    ASSUME NEW val \in Nat, NEW r \in Nat \ {0}, NEW d \in Nat \ {0}, NEW t \in Nat \ {0},
           NEW digit \in Nat, digit < d
    PROVE  Leaves((val * d + digit) % ((r * d) * t), r * d, (val % r) * d + digit)
<1>1. r * d \in Nat \ {0} /\ digit \in Nat
  OBVIOUS
<1>2. PICK x \in Nat : x = val * d + digit
  <2>1. val * d \in Nat
    OBVIOUS
  <2>2. QED
    BY <1>1, <2>1
<1>3. PICK a \in Nat, p \in 0..(r - 1) : val = a * r + p /\ p = val % r
  <2>1. (val \div r) \in Nat /\ (val % r) \in 0..(r - 1) /\ val = (val \div r) * r + (val % r)
    BY Division
  <2>2. QED
    BY <2>1
<1>4. x = a * (r * d) + (p * d + digit)
  <2>1. (a * r + p) * d = (a * r) * d + p * d /\ (a * r) * d = a * (r * d)
    OBVIOUS
  <2>2. a * (r * d) \in Nat /\ p * d \in Nat
    BY <1>1
  <2>3. QED
    BY <1>1, <1>2, <1>3, <2>1, <2>2
<1>5. p * d + digit \in 0..(r * d - 1)
  <2>1. p \in Nat /\ p + 1 \in Nat /\ p + 1 <= r
    OBVIOUS
  <2>2. (p + 1) * d <= r * d
    BY <2>1, ProductMonotone
  <2>3. (p + 1) * d = p * d + d /\ p * d \in Nat
    BY <2>1
  <2>4. QED
    BY <1>1, <2>2, <2>3
<1>6. x % (r * d) = p * d + digit
  BY <1>1, <1>4, <1>5, DivisionIs
<1>7. (x % ((r * d) * t)) \in Nat /\ (x % ((r * d) * t)) % (r * d) = x % (r * d)
  BY <1>1, RemainderTwice
<1>8. QED
  BY <1>2, <1>3, <1>6, <1>7 DEF Leaves

\* What is below a place of a byte, followed by l.
Lower(digit, byte, e, q, l) == digit = (byte % e) * q + l
\* A byte is above the place q of a value, and l below it.
ReadOff(y, q, w, byte, l) == y \in Nat /\ (y \div q) % w = byte /\ y % q = l

\* The part of a byte above a place is pending, and a digit comes with the part
\* below it: the byte is read off, and what is left of the digit is pending.
LEMMA ByteRead ==
    ASSUME NEW val \in Nat, NEW r \in Nat \ {0}, NEW e \in Nat \ {0}, NEW q \in Nat \ {0},
           NEW t \in Nat \ {0}, NEW byte \in Nat, byte < r * e, NEW l \in Nat, l < q,
           val % r = byte \div e, NEW digit, Lower(digit, byte, e, q, l)
    PROVE  /\ digit \in Nat /\ digit < e * q
           /\ ReadOff((val * (e * q) + digit) % ((r * (e * q)) * t), q, r * e, byte, l)
<1> DEFINE y == (val * (e * q) + digit) % ((r * (e * q)) * t)
<1>1. e * q \in Nat \ {0} /\ r * e \in Nat \ {0} /\ byte \in Nat /\ l \in Nat
  OBVIOUS
<1>2. PICK a \in Nat, s \in 0..(e - 1) : byte = a * e + s /\ a = byte \div e /\ s = byte % e
  <2>1. (byte \div e) \in Nat /\ (byte % e) \in 0..(e - 1)
        /\ byte = (byte \div e) * e + (byte % e)
    BY <1>1, Division
  <2>2. QED
    BY <2>1
<1>3. PICK d \in Nat \ {0}, w \in Nat \ {0} : d = e * q /\ w = r * e
  BY <1>1
<1>4. digit \in Nat /\ digit < d
  <2>1. s \in Nat /\ s + 1 \in Nat /\ s + 1 <= e
    OBVIOUS
  <2>2. (s + 1) * q <= d
    BY <1>3, <2>1, ProductMonotone
  <2>3. (s + 1) * q = s * q + q /\ s * q \in Nat
    BY <2>1
  <2>4. digit = s * q + l
    BY <1>2 DEF Lower
  <2>5. QED
    BY <1>1, <1>3, <2>2, <2>3, <2>4
<1>5. (val * d + digit) % ((r * d) * t) \in Nat
      /\ ((val * d + digit) % ((r * d) * t)) % (r * d) = (val % r) * d + digit
  <2>1. PICK g \in Nat : g = digit
    BY <1>4
  <2>2. /\ val \in Nat /\ r \in Nat \ {0} /\ d \in Nat \ {0} /\ t \in Nat \ {0}
        /\ g \in Nat /\ g < d
    BY <1>4, <2>1
  <2>3. Leaves((val * d + g) % ((r * d) * t), r * d, (val % r) * d + g)
    BY ONLY <2>2, DigitShifted, Zenon
  <2>4. QED
    BY <2>1, <2>3, Zenon DEF Leaves
<1>6. y = (val * d + digit) % ((r * d) * t)
  BY <1>3
<1>7. a * d + (s * q + l) = byte * q + l
  <2>1. (a * e + s) * q = (a * e) * q + s * q /\ (a * e) * q = a * (e * q)
    OBVIOUS
  <2>2. a * (e * q) \in Nat /\ s * q \in Nat
    BY <1>1
  <2>3. QED
    BY <1>1, <1>2, <1>3, <2>1, <2>2
<1>8. r * d = q * w
  <2>1. r * (e * q) = q * (r * e)
    OBVIOUS
  <2>2. QED
    BY <1>3, <2>1
<1>9. digit = s * q + l /\ val % r = a
  BY <1>2 DEF Lower
<1> HIDE DEF y
<1>10. y \in Nat /\ y % (r * d) = byte * q + l
  BY <1>5, <1>6, <1>7, <1>9, Zenon
<1>11. y % (q * w) = byte * q + l
  BY <1>8, <1>10, Zenon
<1>12. byte < w
  BY <1>3
<1>13. (y \div q) % w = byte /\ y % q = l
  <2>1. PICK v \in Nat : v = y
    BY <1>10
  <2>2. v % (q * w) = byte * q + l
    BY <1>11, <2>1, Zenon
  <2>3. /\ v \in Nat /\ q \in Nat \ {0} /\ w \in Nat \ {0}
        /\ byte \in Nat /\ l \in Nat /\ byte < w /\ l < q
    BY <1>12
  <2>4. (v \div q) % w = byte /\ v % q = l
    BY ONLY <2>2, <2>3, BitsFrom
  <2>5. QED
    BY <2>1, <2>4, Zenon
<1>14. QED
  BY <1>3, <1>4, <1>10, <1>13, Zenon DEF y, ReadOff

-----------------------------------------------------------------------------
(* The decoder, digit by digit *)

\* What a digit does to the int of the decoder with q bits pending afterwards.
Reads(val, digit, q, byte, l) ==
    /\ digit \in Digits /\ Shifted(val, digit) \in Nat
    /\ Low(High(Shifted(val, digit), q), 4 * Unit) = byte
    /\ Shifted(val, digit) % Power(2, q) = l

\* The powers of a place are those of the bits above and below it.
LEMMA PowersMultiply ==
    ASSUME NEW m \in Nat, NEW n \in Nat
    PROVE  Power(2, m) \in Nat \ {0} /\ Power(2, m + n) = Power(2, m) * Power(2, n)
<1>1. 2 \in Nat /\ 2 \in Nat \ {0}
  OBVIOUS
<1>2. Power(2, m) \in Nat \ {0}
  BY <1>1, PowerPositive
<1>3. Power(2, m + n) = Power(2, m) * Power(2, n)
  BY <1>1, PowerSum
<1>4. QED
  BY <1>2, <1>3

\* The int has room for a digit and for all that is pending.
LEMMA IntHasRoom ==
    ASSUME NEW r \in Nat, r <= 4 * Unit
    PROVE  \E t \in Nat \ {0} : Power(2, IntBits) = (Power(2, r) * Power(2, 3 * Unit)) * t
<1>1. Unit \in Nat \ {0} /\ IntBits \in Nat /\ IntBits >= 7 * Unit
  BY TokenAssumption
<1>2. PICK d \in Nat : d = 3 * Unit
  BY <1>1
<1>3. PICK k \in Nat : k = IntBits - (r + d) /\ IntBits = (r + d) + k
  BY <1>1, <1>2
<1>4. r + d \in Nat
  OBVIOUS
<1>5. Power(2, (r + d) + k) = Power(2, r + d) * Power(2, k) /\ Power(2, k) \in Nat \ {0}
  BY <1>4, PowersMultiply
<1>6. Power(2, r + d) = Power(2, r) * Power(2, d)
  BY PowersMultiply
<1>7. Power(2, IntBits) = (Power(2, r) * Power(2, d)) * Power(2, k)
  BY <1>3, <1>5, <1>6, Zenon
<1>8. QED
  BY <1>2, <1>5, <1>7

\* A byte of which the upper part is pending is read off.
LEMMA ShiftedByte ==
    ASSUME NEW r \in Nat, NEW e \in Nat, NEW q \in Nat, r + e = 4 * Unit, e + q = 3 * Unit,
           NEW val \in Nat, NEW byte \in Bytes, NEW l \in Nat, l < Power(2, q),
           val % Power(2, r) = High(byte, e), NEW digit,
           Lower(digit, byte, Power(2, e), Power(2, q), l)
    PROVE  Reads(val, digit, q, byte, l)
<1>1. PICK R \in Nat \ {0} : R = Power(2, r)
  BY PowersMultiply
<1>2. PICK E \in Nat \ {0} : E = Power(2, e)
  BY PowersMultiply
<1>3. PICK Q \in Nat \ {0} : Q = Power(2, q)
  BY PowersMultiply
<1>4. Power(2, 4 * Unit) = R * E
  <2>1. Power(2, r + e) = Power(2, r) * Power(2, e)
    BY PowersMultiply
  <2>2. QED
    BY <1>1, <1>2, <2>1
<1>5. Power(2, 3 * Unit) = E * Q
  <2>1. Power(2, e + q) = Power(2, e) * Power(2, q)
    BY PowersMultiply
  <2>2. QED
    BY <1>2, <1>3, <2>1
<1>6. PICK t \in Nat \ {0} : Power(2, IntBits) = (R * (E * Q)) * t
  <2>1. r <= 4 * Unit
    BY ByteRange
  <2>2. PICK t \in Nat \ {0} : Power(2, IntBits) = (Power(2, r) * Power(2, 3 * Unit)) * t
    BY <2>1, IntHasRoom
  <2>3. Power(2, IntBits) = (R * (E * Q)) * t
    BY <1>1, <1>5, <2>2, Zenon
  <2>4. QED
    BY <2>3
<1>7. byte \in Nat /\ byte < R * E
  <2>1. byte \in 0..(Power(2, 4 * Unit) - 1) /\ Power(2, 4 * Unit) \in Nat
    BY ByteRange
  <2>2. byte < Power(2, 4 * Unit)
    BY <2>1
  <2>3. QED
    BY <1>4, <2>1, <2>2
<1>8. val % R = byte \div E /\ l < Q /\ Lower(digit, byte, E, Q, l)
  <2>1. val % R = byte \div E
    BY <1>1, <1>2, Zenon DEF High
  <2>2. QED
    BY <1>2, <1>3, <2>1, Zenon
<1>9. /\ val \in Nat /\ R \in Nat \ {0} /\ E \in Nat \ {0} /\ Q \in Nat \ {0} /\ t \in Nat \ {0}
      /\ byte \in Nat /\ byte < R * E /\ l \in Nat /\ l < Q /\ val % R = byte \div E
  BY <1>7, <1>8
<1>10. /\ digit \in Nat /\ digit < E * Q
       /\ ReadOff((val * (E * Q) + digit) % ((R * (E * Q)) * t), Q, R * E, byte, l)
  BY ONLY <1>8, <1>9, ByteRead, Zenon
<1>11. Shifted(val, digit) = (val * (E * Q) + digit) % ((R * (E * Q)) * t)
  BY <1>5, <1>6, Zenon DEF Shifted
<1>12. ReadOff(Shifted(val, digit), Q, R * E, byte, l)
  BY <1>10, <1>11, Zenon
<1>13. Digits = 0..(E * Q - 1) /\ E * Q \in Nat
  <2>1. E * Q \in Nat
    OBVIOUS
  <2>2. QED
    BY <1>5, <2>1, Zenon DEF Digits
<1>14. digit \in Digits
  BY <1>10, <1>13
<1>15. QED
  BY <1>3, <1>4, <1>12, <1>14, Zenon DEF Reads, ReadOff, High, Low

\* The first digit of a group: nothing is pending, and no byte is read off.
LEMMA ShiftedFirst ==
    ASSUME NEW val \in Nat, NEW digit \in Digits
    PROVE  Shifted(val, digit) \in Nat /\ Shifted(val, digit) % Power(2, 3 * Unit) = digit
<1>1. Unit \in Nat /\ 3 * Unit \in Nat
  BY ByteRange
<1>2. PICK d \in Nat \ {0} : d = Power(2, 3 * Unit)
  BY <1>1, PowersMultiply
<1>3. PICK t \in Nat \ {0} : Power(2, IntBits) = (1 * d) * t
  <2>1. 0 \in Nat /\ 0 <= 4 * Unit
    BY <1>1
  <2>2. PICK t \in Nat \ {0} : Power(2, IntBits) = (Power(2, 0) * Power(2, 3 * Unit)) * t
    BY <2>1, IntHasRoom
  <2>3. Power(2, 0) = 1
    BY PowerNext
  <2>4. QED
    BY <1>2, <2>2, <2>3, Zenon
<1>4. digit \in Nat /\ digit < d
  BY <1>2 DEF Digits
<1>5. 1 \in Nat \ {0} /\ val % 1 = 0
  OBVIOUS
<1>6. Leaves((val * d + digit) % ((1 * d) * t), 1 * d, (val % 1) * d + digit)
  <2>1. /\ val \in Nat /\ 1 \in Nat \ {0} /\ d \in Nat \ {0} /\ t \in Nat \ {0}
        /\ digit \in Nat /\ digit < d
    BY <1>4
  <2>2. QED
    BY ONLY <2>1, DigitShifted, Zenon
<1>7. 1 * d = d /\ 0 * d + digit = digit
  BY <1>4
<1>8. Leaves((val * d + digit) % ((1 * d) * t), d, digit)
  BY <1>5, <1>6, <1>7, Zenon
<1>9. Shifted(val, digit) = (val * d + digit) % ((1 * d) * t)
  BY <1>2, <1>3, Zenon DEF Shifted
<1>10. QED
  BY <1>2, <1>8, <1>9, Zenon DEF Leaves

\* What the decoder has: its int, the bits that are pending in it, and the bytes.
Accs == [val : Nat, bits : Nat, out : Seq(Bytes)]

\* A digit leaves the decoder what it is.
LEMMA DigitDecoded ==
    ASSUME NEW acc \in Accs, NEW digit \in Digits
    PROVE  DecodeDigit(acc, digit) \in Accs
<1> DEFINE val == Shifted(acc.val, digit)
           bits == acc.bits + 3 * Unit
           byte == Low(High(val, bits - 4 * Unit), 4 * Unit)
<1>1. acc.val \in Nat /\ acc.bits \in Nat /\ acc.out \in Seq(Bytes)
  BY DEF Accs
<1>2. val \in Nat
  BY <1>1, ShiftedFirst
<1>3. bits \in Nat /\ (~(bits < 4 * Unit) => bits - 4 * Unit \in Nat)
  BY <1>1, ByteRange
<1>4. CASE bits < 4 * Unit
  <2>1. DecodeDigit(acc, digit) = [acc EXCEPT !.val = val, !.bits = bits]
    BY <1>4 DEF DecodeDigit
  <2> HIDE DEF val, bits
  <2>2. QED
    BY <1>2, <1>3, <2>1 DEF Accs
<1>5. CASE ~(bits < 4 * Unit)
  <2>1. DecodeDigit(acc, digit)
            = [val |-> val, bits |-> bits - 4 * Unit, out |-> Append(acc.out, byte)]
    BY <1>5 DEF DecodeDigit
  <2>2. byte \in Bytes
    <3>1. PICK q \in Nat : q = bits - 4 * Unit
      BY <1>3, <1>5
    <3>2. PICK Q \in Nat \ {0} : Q = Power(2, q)
      BY PowersMultiply
    <3>3. PICK W \in Nat \ {0} : W = Power(2, 4 * Unit) /\ Bytes = 0..(W - 1)
      BY ByteRange
    <3>4. byte = (val \div Q) % W
      BY <3>1, <3>2, <3>3, Zenon DEF High, Low
    <3> HIDE DEF val
    <3>5. (val \div Q) \in Nat
      BY <1>2, Division
    <3>6. ((val \div Q) % W) \in 0..(W - 1)
      BY <3>5, Division
    <3>7. QED
      BY <3>3, <3>4, <3>6, Zenon
  <2>3. Append(acc.out, byte) \in Seq(Bytes)
    <3> HIDE DEF byte
    <3>1. QED
      BY <1>1, <2>2
  <2>4. PICK q \in Nat : q = bits - 4 * Unit
    BY <1>3, <1>5
  <2> HIDE DEF val, bits, byte
  <2>5. QED
    BY <1>2, <2>1, <2>3, <2>4 DEF Accs
<1>6. QED
  BY <1>4, <1>5

\* Where the decoder starts.
NothingDecoded == [val |-> 0, bits |-> 0, out |-> <<>>]

\* The fold of B64urlDecode.
DecodeFold(it, s) ==
    it = [P \in SUBSET DOMAIN s |->
             IF P = {} THEN NothingDecoded ELSE DecodeDigit(it[P \ {Max(P)}], s[Max(P)])]

\* B64urlDecode is the bytes of the value, on the whole text, of the function
\* the fold chooses.
LEMMA DecodeIsFold ==
    ASSUME NEW s \in Seq(Digits)
    PROVE  B64urlDecode(s) = ((CHOOSE it : DecodeFold(it, s))[DOMAIN s]).out
<1>1. ~\E i \in DOMAIN s : s[i] \notin Digits
  OBVIOUS
<1>2. B64urlDecode(s) = FoldLeft(DecodeDigit, [val |-> 0, bits |-> 0, out |-> <<>>], s).out
  BY <1>1, Zenon DEF B64urlDecode
<1>3. QED
  BY <1>2 DEF FoldLeft, MapThenFoldSet, DecodeFold, NothingDecoded

\* What the decoder refuses is no bytes.
LEMMA BytesAreDecoded ==
    ASSUME NEW s \in Seq(Bytes)
    PROVE  s # Malformed
<1>1. Malformed[1] = -1 /\ Len(Malformed) = 1
  BY DEF Malformed
<1>2. SUFFICES ASSUME s = Malformed PROVE FALSE
  OBVIOUS
<1>3. s[1] \in Bytes
  <2>1. 1 \in 1..Len(s)
    BY <1>1, <1>2
  <2>2. QED
    BY <2>1
<1>4. s[1] \in Nat
  BY <1>3 DEF Bytes
<1>5. QED
  BY <1>1, <1>2, <1>4

\* The decoder may start.
LEMMA DecoderStarts == NothingDecoded \in Accs
<1>1. 0 \in Nat /\ <<>> \in Seq(Bytes)
  OBVIOUS
<1>2. QED
  BY <1>1, Zenon DEF NothingDecoded, Accs

\* The equation of the fold has a solution.
LEMMA DecodeFoldExists ==
    ASSUME NEW s \in Seq(Digits)
    PROVE  \E it : DecodeFold(it, s)
<1>1. PICK n \in Nat : n = Len(s) /\ DOMAIN s = 1..n
  OBVIOUS
<1> DEFINE step == [x \in (1..n) \X Accs |-> DecodeDigit(x[2], s[x[1]])]
<1>2. \A i \in 1..n : s[i] \in Digits
  BY <1>1
<1>3. step \in [(1..n) \X Accs -> Accs]
  <2>1. \A x \in (1..n) \X Accs : x[1] \in 1..n /\ x[2] \in Accs
    OBVIOUS
  <2>2. \A x \in (1..n) \X Accs : DecodeDigit(x[2], s[x[1]]) \in Accs
    BY <1>2, <2>1, DigitDecoded, Zenon
  <2>3. QED
    BY <2>2, Zenon
<1>4. \A i \in 1..n, acc \in Accs : step[<<i, acc>>] = DecodeDigit(acc, s[i])
  OBVIOUS
<1> HIDE DEF step
<1>5. PICK it : FoldEquation(it, Accs, n, NothingDecoded, step)
  BY <1>3, DecoderStarts, FoldExists, Zenon
<1>6. it \in [SUBSET (1..n) -> Accs]
  BY <1>5 DEF FoldEquation
<1>7. ASSUME NEW P \in SUBSET (1..n)
      PROVE  it[P] = IF P = {} THEN NothingDecoded ELSE DecodeDigit(it[P \ {Max(P)}], s[Max(P)])
  <2>1. CASE P = {}
    BY <1>5, <2>1 DEF FoldEquation
  <2>2. CASE P # {}
    <3>1. Max(P) \in 1..n /\ P \ {Max(P)} \in SUBSET (1..n)
      <4>1. P \in SUBSET (0..n)
        OBVIOUS
      <4>2. Max(P) \in P
        BY <2>2, <4>1, LargestExists
      <4>3. QED
        BY <4>2
    <3>2. it[P \ {Max(P)}] \in Accs
      BY <1>6, <3>1
    <3>3. it[P] = step[<<Max(P), it[P \ {Max(P)}]>>]
      BY <1>5, <2>2 DEF FoldEquation
    <3>4. QED
      BY <1>4, <2>2, <3>1, <3>2, <3>3
  <2>3. QED
    BY <2>1, <2>2
<1>8. DecodeFold(it, s)
  BY <1>1, <1>6, <1>7 DEF DecodeFold
<1>9. QED
  BY <1>8

\* The decoder after each of the digits.
DecodeParts(part, s) ==
    /\ part \in [0..Len(s) -> Accs] /\ part[0] = NothingDecoded
    /\ \A j \in 1..Len(s) : part[j] = DecodeDigit(part[j - 1], s[j])

\* What B64urlDecode computes, digit by digit.
LEMMA DecodeIs ==
    ASSUME NEW s \in Seq(Digits)
    PROVE  \E part : DecodeParts(part, s) /\ B64urlDecode(s) = part[Len(s)].out
<1>1. PICK n \in Nat : n = Len(s) /\ DOMAIN s = 1..n
  OBVIOUS
<1> DEFINE it == CHOOSE it : DecodeFold(it, s)
<1>2. DecodeFold(it, s)
  BY DecodeFoldExists
<1>3. B64urlDecode(s) = it[1..n].out
  BY <1>1, DecodeIsFold
<1> HIDE DEF it
<1>4. it[1..0] = NothingDecoded
  BY <1>1, <1>2 DEF DecodeFold
<1>5. ASSUME NEW j \in 1..n PROVE it[1..j] = DecodeDigit(it[1..(j - 1)], s[j])
  <2>1. 1..j \in SUBSET (1..n) /\ 1..j # {} /\ (1..j) \ {j} = 1..(j - 1)
    OBVIOUS
  <2>2. Max(1..j) = j
    <3>1. 1..j \in SUBSET (1..(j - 1 + 1)) /\ j - 1 + 1 = j /\ j - 1 + 1 \in 1..j /\ j - 1 \in Nat
      OBVIOUS
    <3>2. QED
      BY <3>1, LastPlace
  <2>3. QED
    BY <1>1, <1>2, <2>1, <2>2 DEF DecodeFold
<1>6. \A j \in 1..n : s[j] \in Digits
  BY <1>1
<1>7. \A j \in 0..n : it[1..j] \in Accs
  <2> DEFINE Known == {j \in Nat : j <= n => it[1..j] \in Accs}
  <2>1. 0 \in Known
    BY <1>4, DecoderStarts
  <2>2. ASSUME NEW j \in Nat, j \in Known PROVE j + 1 \in Known
    <3> SUFFICES ASSUME j + 1 <= n PROVE it[1..(j + 1)] \in Accs
      OBVIOUS
    <3>1. it[1..j] \in Accs /\ j + 1 \in 1..n /\ j + 1 - 1 = j
      BY <2>2
    <3>2. it[1..(j + 1)] = DecodeDigit(it[1..j], s[j + 1])
      BY <1>5, <3>1
    <3>3. s[j + 1] \in Digits
      BY <1>6, <3>1
    <3>4. QED
      BY <3>1, <3>2, <3>3, DigitDecoded, Zenon
  <2> HIDE DEF Known
  <2>3. \A j \in Nat : j \in Known
    BY <2>1, <2>2, NumbersInduction
  <2>4. QED
    BY <2>3 DEF Known
<1> DEFINE part == [j \in 0..n |-> it[1..j]]
<1>8. part \in [0..n -> Accs] /\ part[0] = NothingDecoded /\ B64urlDecode(s) = part[n].out
  BY <1>3, <1>4, <1>7
<1>9. ASSUME NEW j \in 1..n PROVE part[j] = DecodeDigit(part[j - 1], s[j])
  <2>1. j \in 0..n /\ j - 1 \in 0..n
    OBVIOUS
  <2>2. part[j] = it[1..j] /\ part[j - 1] = it[1..(j - 1)]
    BY <2>1
  <2>3. QED
    BY <1>5, <2>2
<1> HIDE DEF part
<1>10. QED
  BY <1>1, <1>8, <1>9 DEF DecodeParts

\* The bytes that are read, and what is pending below the last bits of the int.
Pending(acc, out, bits, rest) ==
    acc.out = out /\ acc.bits = bits /\ acc.val % Power(2, bits) = rest

\* The first digit of a group is kept whole.
LEMMA FirstIsPending ==
    ASSUME NEW acc \in Accs, NEW out, Pending(acc, out, 0, 0), NEW digit \in Digits
    PROVE  Pending(DecodeDigit(acc, digit), out, 3 * Unit, digit)
<1>1. acc.val \in Nat /\ acc.bits = 0 /\ acc.out = out
  BY DEF Accs, Pending
<1>2. Shifted(acc.val, digit) % Power(2, 3 * Unit) = digit
  BY <1>1, ShiftedFirst
<1>3. 0 + 3 * Unit = 3 * Unit /\ 3 * Unit < 4 * Unit
  BY ByteRange
<1>4. DecodeDigit(acc, digit)
          = [acc EXCEPT !.val = Shifted(acc.val, digit), !.bits = 3 * Unit]
  <2>1. acc.bits + 3 * Unit = 3 * Unit
    BY <1>1, <1>3
  <2>2. QED
    BY <1>3, <2>1, Zenon DEF DecodeDigit
<1> DEFINE val == Shifted(acc.val, digit)
           bits == 3 * Unit
<1>5. DecodeDigit(acc, digit) = [acc EXCEPT !.val = val, !.bits = bits]
  BY <1>4
<1> HIDE DEF val, bits
<1>6. /\ DecodeDigit(acc, digit).out = out /\ DecodeDigit(acc, digit).bits = bits
      /\ DecodeDigit(acc, digit).val = val
  BY <1>1, <1>5 DEF Accs
<1>7. QED
  BY <1>2, <1>6, Zenon DEF Pending, val, bits

\* With each of the others a byte is read off.
LEMMA ByteIsRead ==
    ASSUME NEW acc \in Accs, NEW out,
           NEW r \in Nat, NEW e \in Nat, NEW q \in Nat, r + e = 4 * Unit, e + q = 3 * Unit,
           NEW byte \in Bytes, NEW l \in Nat, l < Power(2, q),
           Pending(acc, out, r, High(byte, e)), NEW digit,
           Lower(digit, byte, Power(2, e), Power(2, q), l)
    PROVE  digit \in Digits /\ Pending(DecodeDigit(acc, digit), Append(out, byte), q, l)
<1>1. /\ acc.val \in Nat /\ acc.bits = r /\ acc.out = out
      /\ acc.val % Power(2, r) = High(byte, e)
  BY DEF Accs, Pending
<1>2. Reads(acc.val, digit, q, byte, l)
  BY <1>1, ShiftedByte
<1>3. (acc.bits + 3 * Unit) - 4 * Unit = q /\ ~(acc.bits + 3 * Unit < 4 * Unit)
  BY <1>1, ByteRange
<1> DEFINE val == Shifted(acc.val, digit)
<1>4. DecodeDigit(acc, digit)
          = [val |-> val, bits |-> q, out |-> Append(out, Low(High(val, q), 4 * Unit))]
  <2> DEFINE left == (acc.bits + 3 * Unit) - 4 * Unit
  <2>1. DecodeDigit(acc, digit) = [val |-> val, bits |-> left,
            out |-> Append(acc.out, Low(High(val, left), 4 * Unit))]
    <3> DEFINE enough == acc.bits + 3 * Unit < 4 * Unit
    <3>1. DecodeDigit(acc, digit)
              = IF enough THEN [acc EXCEPT !.val = val, !.bits = acc.bits + 3 * Unit]
                ELSE [val |-> val, bits |-> left,
                      out |-> Append(acc.out, Low(High(val, left), 4 * Unit))]
      BY DEF DecodeDigit
    <3>2. ~enough
      BY <1>3
    <3> HIDE DEF enough, left, val
    <3>3. QED
      BY <3>1, <3>2, Zenon
  <2>2. left = q
    BY <1>3
  <2> HIDE DEF left, val
  <2>3. QED
    BY <1>1, <2>1, <2>2, Zenon
<1>5. DecodeDigit(acc, digit) = [val |-> val, bits |-> q, out |-> Append(out, byte)]
  BY <1>2, <1>4, Zenon DEF Reads
<1>6. val % Power(2, q) = l /\ digit \in Digits
  BY <1>2, Zenon DEF Reads
<1> HIDE DEF val
<1>7. /\ DecodeDigit(acc, digit).out = Append(out, byte) /\ DecodeDigit(acc, digit).bits = q
      /\ DecodeDigit(acc, digit).val = val
  BY <1>5
<1>8. QED
  BY <1>6, <1>7, Zenon DEF Pending

\* The decoder goes on with one digit more.
LEMMA OneMoreDigit ==
    ASSUME NEW t \in Seq(Digits), NEW part, DecodeParts(part, t), NEW digit \in Digits
    PROVE  \E more : /\ DecodeParts(more, Append(t, digit))
                     /\ more[Len(Append(t, digit))] = DecodeDigit(part[Len(t)], digit)
<1>1. PICK n \in Nat : n = Len(t)
  OBVIOUS
<1>2. /\ part \in [0..n -> Accs] /\ part[0] = NothingDecoded
      /\ \A j \in 1..n : part[j] = DecodeDigit(part[j - 1], t[j])
  BY <1>1 DEF DecodeParts
<1> DEFINE last == DecodeDigit(part[n], digit)
           longer == Append(t, digit)
           more == [j \in 0..(n + 1) |-> IF j = n + 1 THEN last ELSE part[j]]
<1>3. last \in Accs
  BY <1>2, DigitDecoded
<1>4. Len(longer) = n + 1 /\ longer[n + 1] = digit /\ \A j \in 1..n : longer[j] = t[j]
  BY <1>1
<1> HIDE DEF last, longer
<1>5. more \in [0..(n + 1) -> Accs]
  BY <1>2, <1>3
<1>6. more[0] = NothingDecoded /\ more[n + 1] = last
  BY <1>2
<1>7. ASSUME NEW j \in 1..(n + 1) PROVE more[j] = DecodeDigit(more[j - 1], longer[j])
  <2>1. j - 1 \in 0..n /\ j - 1 \in 0..(n + 1) /\ j - 1 # n + 1
    OBVIOUS
  <2>2. more[j - 1] = part[j - 1]
    BY <2>1
  <2>3. CASE j = n + 1
    <3>1. more[j] = last /\ j - 1 = n /\ longer[j] = digit
      BY <1>4, <1>6, <2>3
    <3>2. QED
      BY <2>2, <3>1, Zenon DEF last
  <2>4. CASE j # n + 1
    <3>1. j \in 1..n
      BY <2>4
    <3>2. more[j] = part[j]
      BY <3>1
    <3> HIDE DEF more
    <3>3. QED
      BY <1>2, <1>4, <2>2, <3>1, <3>2
  <2>5. QED
    BY <2>3, <2>4
<1> HIDE DEF more
<1>8. DecodeParts(more, longer)
  BY <1>4, <1>5, <1>6, <1>7, Zenon DEF DecodeParts
<1>9. more[Len(longer)] = DecodeDigit(part[Len(t)], digit)
  BY <1>1, <1>4, <1>6, Zenon DEF last
<1>10. QED
  BY <1>8, <1>9, Zenon DEF longer

\* Two courses of the decoder on one text are the same.
LEMMA DecoderAgrees ==
    ASSUME NEW t \in Seq(Digits), NEW p, DecodeParts(p, t), NEW q, DecodeParts(q, t)
    PROVE  p[Len(t)] = q[Len(t)]
<1>1. PICK n \in Nat : n = Len(t)
  OBVIOUS
<1>2. /\ p[0] = NothingDecoded /\ q[0] = NothingDecoded
      /\ \A j \in 1..n : p[j] = DecodeDigit(p[j - 1], t[j])
      /\ \A j \in 1..n : q[j] = DecodeDigit(q[j - 1], t[j])
  BY <1>1 DEF DecodeParts
<1> DEFINE Same == {j \in Nat : j <= n => p[j] = q[j]}
<1>3. 0 \in Same
  BY <1>2
<1>4. ASSUME NEW j \in Nat, j \in Same PROVE j + 1 \in Same
  <2> SUFFICES ASSUME j + 1 <= n PROVE p[j + 1] = q[j + 1]
    OBVIOUS
  <2>1. p[j] = q[j] /\ j + 1 \in 1..n /\ j + 1 - 1 = j
    BY <1>4
  <2>2. p[j + 1] = DecodeDigit(p[j], t[j + 1]) /\ q[j + 1] = DecodeDigit(q[j], t[j + 1])
    BY <1>2, <2>1
  <2>3. QED
    BY <2>1, <2>2, Zenon
<1>5. n \in Same
  <2> HIDE DEF Same
  <2>1. QED
    BY <1>3, <1>4, NumbersInduction
<1>6. QED
  BY <1>1, <1>5

\* The text is decoded to the bytes, and so much of it is pending.
Decodes(t, out, bits, rest) ==
    /\ t \in Seq(Digits)
    /\ \E part : DecodeParts(part, t) /\ Pending(part[Len(t)], out, bits, rest)

\* It is what B64urlDecode gives.
LEMMA DecodesTo ==
    ASSUME NEW t, NEW out, NEW bits, NEW rest, Decodes(t, out, bits, rest)
    PROVE  B64urlDecode(t) = out
<1>1. t \in Seq(Digits)
  BY DEF Decodes
<1>2. PICK p : DecodeParts(p, t) /\ Pending(p[Len(t)], out, bits, rest)
  BY DEF Decodes
<1>3. PICK q : DecodeParts(q, t) /\ B64urlDecode(t) = q[Len(t)].out
  BY <1>1, DecodeIs
<1>4. p[Len(t)] = q[Len(t)]
  BY <1>1, <1>2, <1>3, DecoderAgrees
<1>5. QED
  BY <1>2, <1>3, <1>4, Zenon DEF Pending

\* The last of the courses is one of the decoder.
LEMMA CourseIsDecoder ==
    ASSUME NEW t \in Seq(Digits), NEW part, DecodeParts(part, t)
    PROVE  part[Len(t)] \in Accs
<1>1. Len(t) \in 0..Len(t)
  OBVIOUS
<1>2. QED
  BY <1>1 DEF DecodeParts

\* Nothing is decoded to nothing.
LEMMA DecodesNothing == \A none : none = <<>> => Decodes(none, none, 0, 0)
<1> SUFFICES ASSUME NEW none, none = <<>> PROVE Decodes(none, none, 0, 0)
  OBVIOUS
<1>1. none \in Seq(Digits) /\ Len(none) = 0
  OBVIOUS
<1> DEFINE part == [j \in 0..0 |-> NothingDecoded]
<1>2. part \in [0..0 -> Accs] /\ part[0] = NothingDecoded /\ 1..0 = {}
  BY DecoderStarts
<1> HIDE DEF part
<1>3. DecodeParts(part, none)
  BY <1>1, <1>2 DEF DecodeParts
<1>4. Pending(NothingDecoded, none, 0, 0)
  <2>1. /\ NothingDecoded.out = <<>> /\ NothingDecoded.bits = 0 /\ NothingDecoded.val = 0
    BY DEF NothingDecoded
  <2>2. Power(2, 0) = 1 /\ 0 % 1 = 0
    BY PowerNext
  <2>3. QED
    BY <2>1, <2>2, Zenon DEF Pending
<1>5. QED
  BY <1>1, <1>2, <1>3, <1>4 DEF Decodes

\* The first digit of a group.
LEMMA DecodesFirst ==
    ASSUME NEW t, NEW out, Decodes(t, out, 0, 0), NEW digit \in Digits
    PROVE  Decodes(Append(t, digit), out, 3 * Unit, digit)
<1>1. t \in Seq(Digits)
  BY DEF Decodes
<1>2. PICK part : DecodeParts(part, t) /\ Pending(part[Len(t)], out, 0, 0)
  BY DEF Decodes
<1>3. part[Len(t)] \in Accs
  BY <1>1, <1>2, CourseIsDecoder
<1>4. Pending(DecodeDigit(part[Len(t)], digit), out, 3 * Unit, digit)
  BY <1>2, <1>3, FirstIsPending
<1>5. PICK more : /\ DecodeParts(more, Append(t, digit))
                  /\ more[Len(Append(t, digit))] = DecodeDigit(part[Len(t)], digit)
  BY <1>1, <1>2, OneMoreDigit
<1>6. Append(t, digit) \in Seq(Digits)
  BY <1>1
<1>7. QED
  BY <1>4, <1>5, <1>6, Zenon DEF Decodes

\* The other digits.
LEMMA DecodesNext ==
    ASSUME NEW t, NEW out,
           NEW r \in Nat, NEW e \in Nat, NEW q \in Nat, r + e = 4 * Unit, e + q = 3 * Unit,
           NEW byte \in Bytes, NEW l \in Nat, l < Power(2, q),
           Decodes(t, out, r, High(byte, e)), NEW digit,
           Lower(digit, byte, Power(2, e), Power(2, q), l)
    PROVE  digit \in Digits /\ Decodes(Append(t, digit), Append(out, byte), q, l)
<1>1. t \in Seq(Digits)
  BY DEF Decodes
<1>2. PICK part : DecodeParts(part, t) /\ Pending(part[Len(t)], out, r, High(byte, e))
  BY DEF Decodes
<1>3. part[Len(t)] \in Accs
  BY <1>1, <1>2, CourseIsDecoder
<1>4. /\ digit \in Digits
      /\ Pending(DecodeDigit(part[Len(t)], digit), Append(out, byte), q, l)
  BY <1>2, <1>3, ByteIsRead
<1>5. PICK more : /\ DecodeParts(more, Append(t, digit))
                  /\ more[Len(Append(t, digit))] = DecodeDigit(part[Len(t)], digit)
  BY <1>1, <1>2, <1>4, OneMoreDigit
<1>6. Append(t, digit) \in Seq(Digits)
  BY <1>1, <1>4
<1>7. QED
  BY <1>4, <1>5, <1>6, Zenon DEF Decodes

-----------------------------------------------------------------------------
(* Groups of three bytes *)

\* A few joined to a sequence are appended one by one.
LEMMA JoinedOneByOne ==
    ASSUME NEW T, NEW s \in Seq(T), NEW a \in T, NEW b \in T, NEW c \in T, NEW d \in T
    PROVE  /\ s \o <<a>> = Append(s, a)
           /\ s \o <<a, b>> = Append(Append(s, a), b)
           /\ s \o <<a, b, c>> = Append(Append(Append(s, a), b), c)
           /\ s \o <<a, b, c, d>> = Append(Append(Append(Append(s, a), b), c), d)
<1>1. s \o <<a>> = Append(s, a)
  OBVIOUS
<1>2. s \o <<a, b>> = Append(Append(s, a), b)
  OBVIOUS
<1>3. s \o <<a, b, c>> = Append(Append(Append(s, a), b), c)
  OBVIOUS
<1>4. s \o <<a, b, c, d>> = Append(Append(Append(Append(s, a), b), c), d)
  OBVIOUS
<1>5. QED
  BY <1>1, <1>2, <1>3, <1>4

\* A sequence of one, two or three, written out.
LEMMA WrittenOut ==
    ASSUME NEW T, NEW s \in Seq(T)
    PROVE  /\ Len(s) = 1 => s[1] \in T /\ s = <<s[1]>>
           /\ Len(s) = 2 => s[1] \in T /\ s[2] \in T /\ s = <<s[1], s[2]>>
           /\ Len(s) = 3 => s[1] \in T /\ s[2] \in T /\ s[3] \in T /\ s = <<s[1], s[2], s[3]>>
<1>1. Len(s) = 1 => s[1] \in T /\ s = <<s[1]>>
  OBVIOUS
<1>2. Len(s) = 2 => s[1] \in T /\ s[2] \in T /\ s = <<s[1], s[2]>>
  BY SMTT(30)
<1>3. Len(s) = 3 => s[1] \in T /\ s[2] \in T /\ s[3] \in T /\ s = <<s[1], s[2], s[3]>>
  <2> SUFFICES ASSUME Len(s) = 3
               PROVE  s[1] \in T /\ s[2] \in T /\ s[3] \in T /\ s = <<s[1], s[2], s[3]>>
    OBVIOUS
  <2>1. s[1] \in T /\ s[2] \in T /\ s[3] \in T
    OBVIOUS
  <2>2. s \in [1..3 -> T]
    OBVIOUS
  <2> DEFINE x == s[1]
             y == s[2]
             z == s[3]
             all == <<x, y, z>>
  <2>3. x \in T /\ y \in T /\ z \in T
    BY <2>1
  <2> HIDE DEF x, y, z
  <2>4. all \in [1..3 -> T] /\ all[1] = x /\ all[2] = y /\ all[3] = z
    BY <2>3
  <2> HIDE DEF all
  <2>5. \A i \in 1..3 : i = 1 \/ i = 2 \/ i = 3
    OBVIOUS
  <2>6. \A i \in 1..3 : s[i] = all[i]
    BY <2>4, <2>5 DEF x, y, z
  <2>7. s = all
    BY <2>2, <2>4, <2>6
  <2>8. QED
    BY <2>1, <2>7 DEF x, y, z, all
<1>4. QED
  BY <1>1, <1>2, <1>3

\* The upper part of a byte.
LEMMA UpperPart ==
    ASSUME NEW r \in Nat, NEW e \in Nat, r + e = 4 * Unit, NEW byte \in Bytes
    PROVE  High(byte, e) \in Nat /\ High(byte, e) < Power(2, r)
<1>1. PICK R \in Nat \ {0} : R = Power(2, r)
  BY PowersMultiply
<1>2. PICK E \in Nat \ {0} : E = Power(2, e)
  BY PowersMultiply
<1>3. Power(2, 4 * Unit) = R * E
  <2>1. Power(2, r + e) = Power(2, r) * Power(2, e)
    BY PowersMultiply
  <2>2. QED
    BY <1>1, <1>2, <2>1
<1>4. byte \in Nat /\ byte < R * E
  <2>1. byte \in 0..(Power(2, 4 * Unit) - 1) /\ Power(2, 4 * Unit) \in Nat
    BY ByteRange
  <2>2. byte < Power(2, 4 * Unit)
    BY <2>1
  <2>3. QED
    BY <1>3, <2>1, <2>2
<1>5. High(byte, e) = byte \div E
  BY <1>2, Zenon DEF High
<1>6. PICK h \in Nat, l \in Nat : h = byte \div E /\ byte = h * E + l
  <2>1. (byte \div E) \in Nat /\ (byte % E) \in 0..(E - 1)
        /\ byte = (byte \div E) * E + (byte % E)
    BY <1>4, Division
  <2>2. QED
    BY <2>1
<1>7. h < R
  <2>1. SUFFICES ASSUME R <= h PROVE FALSE
    OBVIOUS
  <2>2. R * E <= h * E /\ h * E \in Nat /\ R * E \in Nat
    BY <2>1, ProductMonotone
  <2>3. QED
    BY <1>4, <1>6, <2>2
<1>8. QED
  BY <1>1, <1>5, <1>6, <1>7

\* Of nothing there is no upper part.
LEMMA NoUpperPart ==
    ASSUME NEW e \in Nat
    PROVE  High(0, e) = 0
<1>1. PICK E \in Nat \ {0} : E = Power(2, e)
  BY PowersMultiply
<1>2. 0 \div E = 0
  OBVIOUS
<1>3. QED
  BY <1>1, <1>2, Zenon DEF High

\* The first two digits of a group give its first byte.
LEMMA FirstByte ==
    ASSUME NEW t, NEW out, Decodes(t, out, 0, 0), NEW a \in Bytes,
           NEW l \in Nat, l < Power(2, 2 * Unit), NEW second,
           second = Low(a, Unit) * Power(2, 2 * Unit) + l
    PROVE  /\ High(a, Unit) \in Digits /\ second \in Digits
           /\ Decodes(Append(Append(t, High(a, Unit)), second), Append(out, a), 2 * Unit, l)
<1>1. PICK r \in Nat, e \in Nat, q \in Nat :
          /\ r = 3 * Unit /\ e = Unit /\ q = 2 * Unit
          /\ r + e = 4 * Unit /\ e + q = 3 * Unit
  <2>1. Unit \in Nat
    BY ByteRange
  <2>2. 3 * Unit \in Nat /\ 2 * Unit \in Nat /\ 3 * Unit + Unit = 4 * Unit
        /\ Unit + 2 * Unit = 3 * Unit
    BY <2>1
  <2>3. QED
    BY <2>1, <2>2
<1>2. High(a, e) \in Nat /\ High(a, e) < Power(2, 3 * Unit)
  BY <1>1, UpperPart
<1>3. High(a, e) \in Digits
  <2>1. Power(2, r) \in Nat
    BY PowersMultiply
  <2>2. QED
    BY <1>1, <1>2, <2>1 DEF Digits
<1>4. Decodes(Append(t, High(a, e)), out, r, High(a, e))
  BY <1>1, <1>3, DecodesFirst
<1>5. Lower(second, a, Power(2, e), Power(2, q), l) /\ l < Power(2, q)
  BY <1>1, Zenon DEF Lower, Low
<1>6. second \in Digits /\ Decodes(Append(Append(t, High(a, e)), second), Append(out, a), q, l)
  BY <1>1, <1>4, <1>5, DecodesNext
<1>7. QED
  BY <1>1, <1>3, <1>6, Zenon

\* The third digit gives the second byte.
LEMMA SecondByte ==
    ASSUME NEW t, NEW out, NEW b \in Bytes, Decodes(t, out, 2 * Unit, High(b, 2 * Unit)),
           NEW l \in Nat, l < Power(2, Unit), NEW third,
           third = Low(b, 2 * Unit) * Power(2, Unit) + l
    PROVE  third \in Digits /\ Decodes(Append(t, third), Append(out, b), Unit, l)
<1>1. PICK e \in Nat, q \in Nat :
          e = 2 * Unit /\ q = Unit /\ e + e = 4 * Unit /\ e + q = 3 * Unit
  <2>1. Unit \in Nat
    BY ByteRange
  <2>2. 2 * Unit \in Nat /\ 2 * Unit + 2 * Unit = 4 * Unit /\ 2 * Unit + Unit = 3 * Unit
    BY <2>1
  <2>3. QED
    BY <2>1, <2>2
<1>2. Lower(third, b, Power(2, e), Power(2, q), l) /\ l < Power(2, q)
  BY <1>1, Zenon DEF Lower, Low
<1>3. Decodes(t, out, e, High(b, e))
  BY <1>1, Zenon
<1>4. third \in Digits /\ Decodes(Append(t, third), Append(out, b), q, l)
  BY <1>1, <1>2, <1>3, DecodesNext
<1>5. QED
  BY <1>1, <1>4, Zenon

\* The fourth digit gives the third byte, and nothing is pending.
LEMMA ThirdByte ==
    ASSUME NEW t, NEW out, NEW c \in Bytes, Decodes(t, out, Unit, High(c, 3 * Unit)),
           NEW fourth, fourth = Low(c, 3 * Unit)
    PROVE  fourth \in Digits /\ Decodes(Append(t, fourth), Append(out, c), 0, 0)
<1>1. PICK r \in Nat, e \in Nat :
          r = Unit /\ e = 3 * Unit /\ r + e = 4 * Unit /\ e + 0 = 3 * Unit
  <2>1. Unit \in Nat
    BY ByteRange
  <2>2. 3 * Unit \in Nat /\ Unit + 3 * Unit = 4 * Unit /\ 3 * Unit + 0 = 3 * Unit
    BY <2>1
  <2>3. QED
    BY <2>1, <2>2
<1>2. Lower(fourth, c, Power(2, e), Power(2, 0), 0) /\ 0 < Power(2, 0)
  <2>1. Power(2, 0) = 1 /\ 0 < 1
    BY PowerNext
  <2>2. PICK E \in Nat \ {0} : E = Power(2, e)
    BY PowersMultiply
  <2>3. c \in Nat
    BY ByteRange
  <2>4. (c % E) \in Nat
    BY <2>3
  <2>5. (c % E) * 1 + 0 = c % E
    BY <2>4
  <2>6. fourth = c % E
    BY <1>1, <2>2, Zenon DEF Low
  <2>7. QED
    BY <2>1, <2>2, <2>5, <2>6, Zenon DEF Lower
<1>3. Decodes(t, out, r, High(c, e))
  BY <1>1, Zenon
<1>4. fourth \in Digits /\ Decodes(Append(t, fourth), Append(out, c), 0, 0)
  <2>1. 0 \in Nat
    OBVIOUS
  <2>2. QED
    BY <1>1, <1>2, <1>3, <2>1, DecodesNext
<1>5. QED
  BY <1>4

\* What the digits of a group are.
LEMMA GroupDigits ==
    ASSUME NEW g
    PROVE  LET first == High(g[1], Unit)
               second(b) == Low(g[1], Unit) * Power(2, 2 * Unit) + High(b, 2 * Unit)
               third(c) == Low(g[2], 2 * Unit) * Power(2, Unit) + High(c, 3 * Unit)
           IN  /\ Len(g) = 1 => EncodeGroup(g) = <<first, second(0)>>
               /\ Len(g) = 2 => EncodeGroup(g) = <<first, second(g[2]), third(0)>>
               /\ Len(g) = 3 => EncodeGroup(g)
                                    = <<first, second(g[2]), third(g[3]), Low(g[3], 3 * Unit)>>
<1> DEFINE x == EncodeGroup(g)
           one == <<High(g[1], Unit), Low(g[1], Unit) * Power(2, 2 * Unit) + High(0, 2 * Unit)>>
           two == <<High(g[1], Unit), Low(g[1], Unit) * Power(2, 2 * Unit) + High(g[2], 2 * Unit),
                    Low(g[2], 2 * Unit) * Power(2, Unit) + High(0, 3 * Unit)>>
           three == <<High(g[1], Unit), Low(g[1], Unit) * Power(2, 2 * Unit) + High(g[2], 2 * Unit),
                      Low(g[2], 2 * Unit) * Power(2, Unit) + High(g[3], 3 * Unit),
                      Low(g[3], 3 * Unit)>>
<1>1. x = CASE Len(g) = 1 -> one [] Len(g) = 2 -> two [] Len(g) = 3 -> three
  BY Zenon DEF EncodeGroup
<1> HIDE DEF x, one, two, three
<1>2. /\ Len(g) = 1 => Len(g) # 2 /\ Len(g) # 3
      /\ Len(g) = 2 => Len(g) # 1 /\ Len(g) # 3
      /\ Len(g) = 3 => Len(g) # 1 /\ Len(g) # 2
  OBVIOUS
<1>3. (Len(g) = 1 => x = one) /\ (Len(g) = 2 => x = two) /\ (Len(g) = 3 => x = three)
  BY <1>1, <1>2, Zenon
<1>4. QED
  BY <1>3, Zenon DEF x, one, two, three

\* A group is decoded to its bytes, and nothing is pending after a whole one.
Regained(t, out, g) ==
    /\ EncodeGroup(g) \in Seq(Digits)
    /\ \E bits, rest : Decodes(t \o EncodeGroup(g), out \o g, bits, rest)
    /\ Len(g) = 3 => Decodes(t \o EncodeGroup(g), out \o g, 0, 0)

\* The decoder gets every group back.
LEMMA GroupDecodes ==
    ASSUME NEW t, NEW out \in Seq(Bytes), Decodes(t, out, 0, 0),
           NEW g \in Seq(Bytes), Len(g) \in 1..3
    PROVE  Regained(t, out, g)
<1>1. t \in Seq(Digits)
  BY DEF Decodes
<1>2. Unit \in Nat /\ 2 * Unit \in Nat /\ 3 * Unit \in Nat
  BY ByteRange
<1>3. /\ 0 \in Nat /\ 0 < Power(2, 2 * Unit) /\ 0 < Power(2, Unit)
      /\ High(0, 2 * Unit) = 0 /\ High(0, 3 * Unit) = 0
  <2>1. Power(2, 2 * Unit) \in Nat \ {0} /\ Power(2, Unit) \in Nat \ {0}
    BY <1>2, PowersMultiply
  <2>2. High(0, 2 * Unit) = 0 /\ High(0, 3 * Unit) = 0
    BY <1>2, NoUpperPart
  <2>3. QED
    BY <2>1, <2>2
<1>4. \A b \in Bytes : High(b, 2 * Unit) \in Nat /\ High(b, 2 * Unit) < Power(2, 2 * Unit)
  <2>1. PICK e \in Nat : e = 2 * Unit /\ e + e = 4 * Unit
    BY <1>2
  <2>2. \A b \in Bytes : High(b, e) \in Nat /\ High(b, e) < Power(2, e)
    BY <2>1, UpperPart
  <2>3. QED
    BY <2>1, <2>2, Zenon
<1>5. \A c \in Bytes : High(c, 3 * Unit) \in Nat /\ High(c, 3 * Unit) < Power(2, Unit)
  <2>1. PICK e \in Nat : e = 3 * Unit /\ Unit + e = 4 * Unit
    BY <1>2
  <2>2. \A c \in Bytes : High(c, e) \in Nat /\ High(c, e) < Power(2, Unit)
    BY <1>2, <2>1, UpperPart
  <2>3. QED
    BY <2>1, <2>2, Zenon
<1> DEFINE first == High(g[1], Unit)
           second(b) == Low(g[1], Unit) * Power(2, 2 * Unit) + High(b, 2 * Unit)
           third(c) == Low(g[2], 2 * Unit) * Power(2, Unit) + High(c, 3 * Unit)
           fourth == Low(g[3], 3 * Unit)
           t1 == Append(t, first)
<1>6. CASE Len(g) = 1
  <2>1. g[1] \in Bytes /\ g = <<g[1]>>
    BY <1>6, WrittenOut
  <2>2. EncodeGroup(g) = <<first, second(0)>>
    BY <1>6, GroupDigits
  <2>3. second(0) = Low(g[1], Unit) * Power(2, 2 * Unit) + 0
    BY <1>3, Zenon
  <2>4. /\ first \in Digits /\ second(0) \in Digits
        /\ Decodes(Append(t1, second(0)), Append(out, g[1]), 2 * Unit, 0)
    BY <1>3, <2>1, <2>3, FirstByte
  <2> DEFINE d2 == second(0)
  <2>5. /\ first \in Digits /\ d2 \in Digits /\ EncodeGroup(g) = <<first, d2>>
        /\ Decodes(Append(t1, d2), Append(out, g[1]), 2 * Unit, 0)
    BY <2>2, <2>4
  <2> HIDE DEF first, d2
  <2>6. t \o <<first, d2>> = Append(t1, d2) /\ <<first, d2>> \in Seq(Digits)
    BY <1>1, <2>5, JoinedOneByOne
  <2>7. out \o <<g[1]>> = Append(out, g[1])
    BY <2>1, JoinedOneByOne
  <2>8. out \o g = Append(out, g[1])
    BY <2>1, <2>7, Zenon
  <2>9. Len(g) # 3
    BY <1>6
  <2>10. QED
    BY <2>5, <2>6, <2>8, <2>9, Zenon DEF Regained
<1>7. CASE Len(g) = 2
  <2>1. g[1] \in Bytes /\ g[2] \in Bytes /\ g = <<g[1], g[2]>>
    BY <1>7, WrittenOut
  <2>2. EncodeGroup(g) = <<first, second(g[2]), third(0)>>
    BY <1>7, GroupDigits
  <2>3. /\ first \in Digits /\ second(g[2]) \in Digits
        /\ Decodes(Append(t1, second(g[2])), Append(out, g[1]), 2 * Unit, High(g[2], 2 * Unit))
    BY <1>4, <2>1, FirstByte
  <2>4. third(0) = Low(g[2], 2 * Unit) * Power(2, Unit) + 0
    BY <1>3, Zenon
  <2>5. /\ third(0) \in Digits
        /\ Decodes(Append(Append(t1, second(g[2])), third(0)),
                   Append(Append(out, g[1]), g[2]), Unit, 0)
    BY <1>3, <2>1, <2>3, <2>4, SecondByte
  <2> DEFINE d2 == second(g[2])
             d3 == third(0)
  <2>6. /\ first \in Digits /\ d2 \in Digits /\ d3 \in Digits
        /\ EncodeGroup(g) = <<first, d2, d3>>
        /\ Decodes(Append(Append(t1, d2), d3), Append(Append(out, g[1]), g[2]), Unit, 0)
    BY <2>2, <2>3, <2>5
  <2> HIDE DEF first, d2, d3
  <2>7. t \o <<first, d2, d3>> = Append(Append(t1, d2), d3) /\ <<first, d2, d3>> \in Seq(Digits)
    BY <1>1, <2>6, JoinedOneByOne
  <2>8. out \o <<g[1], g[2]>> = Append(Append(out, g[1]), g[2])
    BY <2>1, JoinedOneByOne
  <2>9. out \o g = Append(Append(out, g[1]), g[2])
    BY <2>1, <2>8, Zenon
  <2>10. Len(g) # 3
    BY <1>7
  <2>11. QED
    BY <2>6, <2>7, <2>9, <2>10, Zenon DEF Regained
<1>8. CASE Len(g) = 3
  <2>1. g[1] \in Bytes /\ g[2] \in Bytes /\ g[3] \in Bytes /\ g = <<g[1], g[2], g[3]>>
    BY <1>8, WrittenOut
  <2>2. EncodeGroup(g) = <<first, second(g[2]), third(g[3]), fourth>>
    BY <1>8, GroupDigits
  <2>3. /\ first \in Digits /\ second(g[2]) \in Digits
        /\ Decodes(Append(t1, second(g[2])), Append(out, g[1]), 2 * Unit, High(g[2], 2 * Unit))
    BY <1>4, <2>1, FirstByte
  <2>4. /\ third(g[3]) \in Digits
        /\ Decodes(Append(Append(t1, second(g[2])), third(g[3])),
                   Append(Append(out, g[1]), g[2]), Unit, High(g[3], 3 * Unit))
    BY <1>5, <2>1, <2>3, SecondByte
  <2>5. /\ fourth \in Digits
        /\ Decodes(Append(Append(Append(t1, second(g[2])), third(g[3])), fourth),
                   Append(Append(Append(out, g[1]), g[2]), g[3]), 0, 0)
    BY <2>1, <2>4, ThirdByte
  <2> DEFINE d2 == second(g[2])
             d3 == third(g[3])
             whole == Append(Append(Append(t1, d2), d3), fourth)
  <2>6. /\ first \in Digits /\ d2 \in Digits /\ d3 \in Digits /\ fourth \in Digits
        /\ EncodeGroup(g) = <<first, d2, d3, fourth>>
        /\ Decodes(whole, Append(Append(Append(out, g[1]), g[2]), g[3]), 0, 0)
    BY <2>2, <2>3, <2>4, <2>5
  <2> HIDE DEF first, d2, d3, fourth
  <2>7. t \o <<first, d2, d3, fourth>> = whole /\ <<first, d2, d3, fourth>> \in Seq(Digits)
    BY <1>1, <2>6, JoinedOneByOne
  <2>8. out \o <<g[1], g[2], g[3]>> = Append(Append(Append(out, g[1]), g[2]), g[3])
    BY <2>1, JoinedOneByOne
  <2>9. out \o g = Append(Append(Append(out, g[1]), g[2]), g[3])
    BY <2>1, <2>8, Zenon
  <2>10. QED
    BY <2>6, <2>7, <2>9, Zenon DEF Regained
<1>9. QED
  BY <1>6, <1>7, <1>8

\* A stretch of a sequence joined to the one before it.
LEMMA Rejoined ==
    ASSUME NEW T, NEW s \in Seq(T), NEW a \in Nat, NEW b \in Nat, a <= b, b <= Len(s)
    PROVE  /\ SubSeq(s, 1, a) \o SubSeq(s, a + 1, b) = SubSeq(s, 1, b)
           /\ SubSeq(s, 1, a) \in Seq(T) /\ SubSeq(s, a + 1, b) \in Seq(T)
           /\ Len(SubSeq(s, a + 1, b)) = b - a
<1>1. SubSeq(s, 1, a) \o SubSeq(s, a + 1, b) = SubSeq(s, 1, b)
  <2>1. 1 \in 1..(Len(s) + 1) /\ a \in (1 - 1)..Len(s) /\ b \in a..Len(s)
    OBVIOUS
  <2>2. QED
    BY <2>1, ConcatAdjacentSubSeq
<1>2. SubSeq(s, 1, a) \in Seq(T) /\ SubSeq(s, a + 1, b) \in Seq(T)
  OBVIOUS
<1>3. Len(SubSeq(s, a + 1, b)) = b - a
  <2>1. PICK d \in Nat : d = b - a /\ b = a + d
    OBVIOUS
  <2>2. Len(SubSeq(s, a + 1, b)) = d
    BY <2>1
  <2>3. QED
    BY <2>1, <2>2
<1>4. QED
  BY <1>1, <1>2, <1>3

\* The k-th group of three.
Group(s, k) == SubSeq(s, 3 * k - 2, Min({3 * k, Len(s)}))

\* The place up to which the first k groups are.
LEMMA GroupEnd ==
    ASSUME NEW n \in Nat, NEW k \in Nat
    PROVE  Min({3 * k, n}) = IF 3 * k <= n THEN 3 * k ELSE n
<1>1. PICK m \in Nat : m = 3 * k
  OBVIOUS
<1>2. {m, n} \in SUBSET Nat /\ {m, n} # {}
  OBVIOUS
<1>3. Min({m, n}) \in {m, n} /\ \A x \in {m, n} : Min({m, n}) <= x
  BY <1>2, SmallestExists
<1>4. Min({m, n}) = IF m <= n THEN m ELSE n
  BY <1>3
<1>5. QED
  BY <1>1, <1>4

\* What is known after the first i groups: the bytes are those of the groups, and
\* nothing is pending as long as they are whole.
DecodesGroups(t, s, i) ==
    /\ t \in Seq(Digits)
    /\ 3 * i <= Len(s) => Decodes(t, SubSeq(s, 1, 3 * i), 0, 0)
    /\ 3 * i >= Len(s) => \E bits, rest : Decodes(t, s, bits, rest)

\* One more group.
LEMMA OneMoreGroup ==
    ASSUME NEW s \in Seq(Bytes), NEW i \in Nat, 3 * i < Len(s), NEW t, DecodesGroups(t, s, i)
    PROVE  /\ EncodeGroup(Group(s, i + 1)) \in Seq(Digits)
           /\ DecodesGroups(t \o EncodeGroup(Group(s, i + 1)), s, i + 1)
<1>1. PICK n \in Nat : n = Len(s)
  OBVIOUS
<1>2. PICK a \in Nat : a = 3 * i
  OBVIOUS
<1>3. PICK b \in Nat : b = Min({3 * (i + 1), n}) /\ a < b /\ b <= n /\ b <= a + 3
                       /\ (a + 3 <= n => b = a + 3) /\ (a + 3 >= n => b = n)
  <2>1. i + 1 \in Nat /\ 3 * (i + 1) = a + 3
    BY <1>2
  <2>2. Min({3 * (i + 1), n}) = IF a + 3 <= n THEN a + 3 ELSE n
    BY <2>1, GroupEnd
  <2>3. QED
    BY <1>1, <1>2, <2>2
<1> DEFINE out == SubSeq(s, 1, a)
           g == SubSeq(s, a + 1, b)
<1>4. /\ out \o g = SubSeq(s, 1, b) /\ out \in Seq(Bytes) /\ g \in Seq(Bytes)
      /\ Len(g) = b - a
  <2>1. a <= b /\ b <= Len(s)
    BY <1>1, <1>3
  <2>2. QED
    BY <2>1, Rejoined, Zenon
<1>5. Group(s, i + 1) = g
  <2>1. 3 * (i + 1) - 2 = a + 1
    BY <1>2
  <2>2. QED
    BY <1>1, <1>3, <2>1, Zenon DEF Group
<1>6. t \in Seq(Digits) /\ Decodes(t, out, 0, 0)
  <2>1. a <= Len(s)
    BY <1>2
  <2>2. QED
    BY <1>2, <2>1, Zenon DEF DecodesGroups
<1> HIDE DEF out, g
<1>7. Len(g) \in 1..3 /\ (b = a + 3 => Len(g) = 3)
  BY <1>3, <1>4
<1>8. Regained(t, out, g)
  BY <1>4, <1>6, <1>7, GroupDecodes
<1>9. EncodeGroup(g) \in Seq(Digits) /\ t \o EncodeGroup(g) \in Seq(Digits)
  BY <1>6, <1>8 DEF Regained
<1>10. ASSUME a + 3 <= n
       PROVE  Decodes(t \o EncodeGroup(g), SubSeq(s, 1, a + 3), 0, 0)
  BY <1>3, <1>4, <1>7, <1>8, <1>10, Zenon DEF Regained
<1>11. ASSUME a + 3 >= n
       PROVE  \E bits, rest : Decodes(t \o EncodeGroup(g), s, bits, rest)
  <2>1. SubSeq(s, 1, n) = s
    BY <1>1
  <2>2. out \o g = s
    BY <1>3, <1>4, <1>11, <2>1, Zenon
  <2>3. QED
    BY <1>8, <2>2, Zenon DEF Regained
<1>12. 3 * (i + 1) = a + 3
  BY <1>2
<1>13. DecodesGroups(t \o EncodeGroup(g), s, i + 1)
  BY <1>1, <1>9, <1>10, <1>11, <1>12, Zenon DEF DecodesGroups
<1>14. QED
  BY <1>5, <1>9, <1>13, Zenon

\* What the encoder makes of bytes is decoded to them.
LEMMA EncodedDecodes ==
    ASSUME NEW s \in Seq(Bytes)
    PROVE  \E bits, rest : Decodes(B64urlEncode(s), s, bits, rest)
<1>1. PICK n \in Nat : n = Len(s)
  OBVIOUS
<1>2. PICK m \in Nat : m = (n + 2) \div 3 /\ 3 * m >= n /\ 3 * m < n + 3
  OBVIOUS
<1> DEFINE seqs == [k \in 1..m |-> EncodeGroup(Group(s, k))]
<1>3. B64urlEncode(s) = FlattenSeq(seqs)
  BY <1>1, <1>2, Zenon DEF B64urlEncode, Group
<1>4. CASE m = 0
  <2>1. n = 0 /\ s = <<>>
    BY <1>1, <1>2, <1>4
  <2>2. seqs = <<>>
    BY <1>4
  <2>3. B64urlEncode(s) = <<>>
    BY <1>3, <2>2 DEF FlattenSeq
  <2>4. Decodes(s, s, 0, 0)
    BY <2>1, DecodesNothing
  <2>5. QED
    BY <2>1, <2>3, <2>4, Zenon
<1>5. CASE m # 0
  <2>1. \A k \in 1..m : EncodeGroup(Group(s, k)) \in Seq(Digits)
    <3> SUFFICES ASSUME NEW k \in 1..m PROVE EncodeGroup(Group(s, k)) \in Seq(Digits)
      OBVIOUS
    <3>1. PICK i \in Nat : k = i + 1 /\ 3 * i < n
      <4>1. k - 1 \in Nat /\ k = (k - 1) + 1 /\ 3 * (k - 1) < n
        BY <1>2
      <4>2. QED
        BY <4>1
    <3>2. Group(s, k) \in Seq(Bytes) /\ Len(Group(s, k)) \in 1..3
      <4>1. Min({3 * k, n}) = IF 3 * k <= n THEN 3 * k ELSE n
        BY GroupEnd
      <4>2. PICK b \in Nat : b = Min({3 * k, n}) /\ 3 * i < b /\ b <= n /\ b <= 3 * i + 3
        BY <3>1, <4>1
      <4>3. PICK a \in Nat : a = 3 * i
        OBVIOUS
      <4>4. SubSeq(s, a + 1, b) \in Seq(Bytes) /\ Len(SubSeq(s, a + 1, b)) = b - a
        <5>1. a <= b /\ b <= Len(s)
          BY <1>1, <4>2, <4>3
        <5>2. QED
          BY <5>1, Rejoined, Zenon
      <4>5. 3 * k - 2 = a + 1 /\ b - a \in 1..3
        BY <3>1, <4>2, <4>3
      <4>6. Group(s, k) = SubSeq(s, a + 1, b)
        BY <1>1, <4>2, <4>5, Zenon DEF Group
      <4>7. QED
        BY <4>4, <4>5, <4>6, Zenon
    <3>3. \A none : none = <<>> => Decodes(none, none, 0, 0) /\ none \in Seq(Bytes)
      BY DecodesNothing
    <3>4. QED
      BY <3>2, <3>3, GroupDecodes DEF Regained
  <2>2. seqs \in Seq(Seq(Digits)) /\ Len(seqs) = m /\ seqs # <<>>
        /\ \A k \in 1..m : seqs[k] = EncodeGroup(Group(s, k))
    <3> DEFINE e(k) == EncodeGroup(Group(s, k))
    <3>1. \A k \in 1..m : e(k) \in Seq(Digits)
      BY <2>1
    <3> HIDE DEF e
    <3>2. [k \in 1..m |-> e(k)] \in [1..m -> Seq(Digits)]
      BY <3>1
    <3> DEFINE f == [k \in 1..m |-> e(k)]
    <3>3. f \in Seq(Seq(Digits)) /\ Len(f) = m /\ f # <<>> /\ \A k \in 1..m : f[k] = e(k)
      BY <1>5, <3>2
    <3>4. QED
      BY <3>3, Zenon DEF e
  <2> HIDE DEF seqs
  <2>3. PICK part \in [1..m -> Seq(Digits)] :
            FlattenEquation(part, seqs, Digits, m) /\ FlattenSeq(seqs) = part[m]
    BY <2>2, FlattenIs
  <2>4. \A k \in 1..m : JoinedAt(part, seqs, k)
    BY <2>3 DEF FlattenEquation
  <2> DEFINE Good == {i \in Nat : i \in 1..m => DecodesGroups(part[i], s, i)}
  <2>5. 0 \in Good
    OBVIOUS
  <2>6. ASSUME NEW i \in Nat, i \in Good PROVE i + 1 \in Good
    <3> SUFFICES ASSUME i + 1 \in 1..m PROVE DecodesGroups(part[i + 1], s, i + 1)
      OBVIOUS
    <3>1. 3 * i < Len(s)
      BY <1>1, <1>2
    <3> DEFINE g == EncodeGroup(Group(s, i + 1))
               none == <<>>
    <3>2. JoinedAt(part, seqs, i + 1) /\ seqs[i + 1] = g /\ g \in Seq(Digits)
      BY <2>1, <2>2, <2>4
    <3>3. none \o g = g
      BY <3>2
    <3>4. DecodesGroups(none, s, 0)
      <4>1. none \in Seq(Digits)
        OBVIOUS
      <4>2. SubSeq(s, 1, 3 * 0) = none
        OBVIOUS
      <4>3. Decodes(none, none, 0, 0)
        BY DecodesNothing
      <4>4. ~(3 * 0 >= Len(s))
        BY <3>1
      <4> HIDE DEF none
      <4>5. QED
        BY <4>1, <4>2, <4>3, <4>4, Zenon DEF DecodesGroups
    <3> HIDE DEF none
    <3>5. CASE i = 0
      <4>1. part[i + 1] = none \o g
        BY <3>2, <3>3, <3>5 DEF JoinedAt
      <4>2. DecodesGroups(none, s, i)
        BY <3>4, <3>5
      <4>3. DecodesGroups(none \o g, s, i + 1)
        BY <3>1, <4>2, OneMoreGroup
      <4>4. QED
        BY <4>1, <4>3, Zenon
    <3>6. CASE i # 0
      <4>1. i \in 1..m /\ i + 1 # 1 /\ i + 1 - 1 = i
        BY <3>6
      <4>2. part[i + 1] = part[i + 1 - 1] \o g
        BY <3>2, <4>1 DEF JoinedAt
      <4>3. part[i + 1] = part[i] \o g
        BY <4>1, <4>2
      <4>4. DecodesGroups(part[i], s, i)
        BY <2>6, <4>1
      <4>5. DecodesGroups(part[i] \o g, s, i + 1)
        BY <3>1, <4>4, OneMoreGroup
      <4>6. QED
        BY <4>3, <4>5, Zenon
    <3>7. QED
      BY <3>5, <3>6
  <2>7. m \in Good
    <3> HIDE DEF Good
    <3>1. QED
      BY <2>5, <2>6, NumbersInduction
  <2>8. DecodesGroups(part[m], s, m)
    BY <1>5, <2>7
  <2>9. PICK bits, rest : Decodes(part[m], s, bits, rest)
    BY <1>1, <1>2, <2>8 DEF DecodesGroups
  <2>10. QED
    BY <1>3, <2>3, <2>9, Zenon
<1>6. QED
  BY <1>4, <1>5

\* Ids and signatures of every length survive base64url (challenge.cpp:20-66).
THEOREM BytesComeBack ==
    ASSUME NEW s \in Seq(Bytes)
    PROVE  SurvivesBase64(s)
<1>1. PICK bits, rest : Decodes(B64urlEncode(s), s, bits, rest)
  BY EncodedDecodes
<1>2. QED
  BY <1>1, DecodesTo, Zenon DEF SurvivesBase64

-----------------------------------------------------------------------------
(* Numbers in a token *)

\* The quotient of a quotient.
LEMMA QuotientTwice ==
    ASSUME NEW x \in Nat, NEW a \in Nat \ {0}, NEW b \in Nat \ {0}
    PROVE  (x \div a) \in Nat /\ (x \div (a * b)) = ((x \div a) \div b)
<1>1. PICK q \in Nat, r \in Nat : q = x \div a /\ x = q * a + r /\ r < a
  <2>1. (x \div a) \in Nat /\ (x % a) \in 0..(a - 1) /\ x = (x \div a) * a + (x % a)
    BY Division
  <2>2. (x % a) \in Nat /\ x % a < a
    BY <2>1
  <2>3. QED
    BY <2>1, <2>2
<1>2. PICK p \in Nat, s \in Nat : p = q \div b /\ q = p * b + s /\ s + 1 <= b
  <2>1. (q \div b) \in Nat /\ (q % b) \in 0..(b - 1) /\ q = (q \div b) * b + (q % b)
    BY Division
  <2>2. (q % b) \in Nat /\ (q % b) + 1 <= b
    BY <2>1
  <2>3. QED
    BY <2>1, <2>2
<1>3. PICK c \in Nat \ {0} : c = a * b
  OBVIOUS
<1>4. s * a + r \in 0..(c - 1)
  <2>1. s + 1 \in Nat /\ (s + 1) * a <= b * a
    BY <1>2, ProductMonotone
  <2>2. (s + 1) * a = s * a + a /\ s * a \in Nat /\ b * a = c
    BY <1>3
  <2>3. QED
    BY <1>1, <2>1, <2>2
<1>5. x = p * c + (s * a + r)
  <2>1. (p * b + s) * a = (p * b) * a + s * a /\ (p * b) * a = p * (a * b)
    OBVIOUS
  <2>2. p * c \in Nat /\ s * a \in Nat
    OBVIOUS
  <2>3. q * a = p * c + s * a
    BY <1>2, <1>3, <2>1
  <2>4. QED
    BY <1>1, <2>2, <2>3
<1>6. (x \div c) = p
  <2>1. PICK d \in 0..(c - 1) : d = s * a + r
    BY <1>4
  <2>2. x = p * c + d
    BY <1>5, <2>1
  <2>3. QED
    BY <2>2, DivisionIs
<1>7. QED
  BY <1>1, <1>2, <1>3, <1>6

\* Powers of the base grow beyond every number.
LEMMA BaseGrows ==
    ASSUME NEW n \in Nat
    PROVE  /\ Base \in Nat \ {0} /\ Base > 1 /\ Power(Base, n) \in Nat \ {0}
           /\ Power(Base, n + 1) = Power(Base, n) * Base /\ n < Power(Base, n)
<1>1. Base \in Nat \ {0} /\ Base > 1
  BY TokenAssumption
<1>2. \A k \in Nat : Power(Base, k) \in Nat \ {0}
  BY <1>1, PowerPositive
<1>3. \A k \in Nat : Power(Base, k + 1) = Base * Power(Base, k)
  BY <1>1, PowerNext
<1> DEFINE P(k) == Power(Base, k)
           Good == {k \in Nat : k < P(k)}
<1> HIDE DEF P
<1>4. 0 \in Good
  <2>1. P(0) = 1
    BY <1>1, PowerNext DEF P
  <2>2. QED
    BY <2>1
<1>5. ASSUME NEW k \in Nat, k \in Good PROVE k + 1 \in Good
  <2>1. PICK p \in Nat \ {0} : p = P(k) /\ k < p
    BY <1>2, <1>5 DEF P
  <2>2. P(k + 1) = Base * p
    BY <1>3, <2>1 DEF P
  <2>3. 2 * p <= Base * p
    <3>1. 2 \in Nat /\ 2 <= Base
      BY <1>1
    <3>2. QED
      BY <1>1, <3>1, ProductMonotone
  <2>4. 2 * p = p + p
    OBVIOUS
  <2>5. Base * p \in Nat
    BY <1>1
  <2>6. k + 1 < Base * p
    BY <2>1, <2>3, <2>4, <2>5
  <2>7. QED
    BY <2>2, <2>6
<1>6. n \in Good
  <2> HIDE DEF Good
  <2>1. QED
    BY <1>4, <1>5, NumbersInduction
<1>7. Power(Base, n + 1) = Power(Base, n) * Base
  <2>1. Power(Base, n) \in Nat
    BY <1>2
  <2>2. Power(Base, n + 1) = Base * Power(Base, n)
    BY <1>3
  <2>3. Base * Power(Base, n) = Power(Base, n) * Base
    BY <1>1, <2>1
  <2>4. QED
    BY <2>2, <2>3
<1>8. QED
  BY <1>1, <1>2, <1>6, <1>7 DEF P

\* The numerals of a number, the least significant one the last.
SpellsNumber(s, n, w) ==
    /\ n < Power(Base, w)
    /\ s = [i \in 1..w |-> Zero + ((n \div Power(Base, w - i)) % Base)]

\* Every number has a width.
LEMMA NumberHasWidth ==
    ASSUME NEW n \in Nat
    PROVE  \E w \in Nat \ {0} : SpellsNumber(NumberToText(n), n, w)
<1> DEFINE Fits(w) == n < Power(Base, w) /\ \A u \in 1..(w - 1) : Power(Base, u) <= n
           wide == {w \in 1..(n + 1) : n < Power(Base, w)}
           width == CHOOSE w \in 1..(n + 1) : Fits(w)
<1>1. n + 1 \in wide
  <2>1. n + 1 \in Nat /\ n + 1 \in 1..(n + 1)
    OBVIOUS
  <2>2. n + 1 < Power(Base, n + 1) /\ Power(Base, n + 1) \in Nat
    BY <2>1, BaseGrows
  <2>3. QED
    BY <2>1, <2>2
<1>2. wide \in SUBSET Nat /\ wide # {}
  BY <1>1
<1>3. Min(wide) \in wide /\ \A x \in wide : Min(wide) <= x
  BY <1>2, SmallestExists
<1>4. \E w \in 1..(n + 1) : Fits(w)
  <2> DEFINE w == Min(wide)
  <2>1. w \in 1..(n + 1) /\ n < Power(Base, w) /\ \A x \in wide : w <= x
    BY <1>3
  <2> HIDE DEF w
  <2>2. \A u \in 1..(w - 1) : Power(Base, u) <= n
    <3> SUFFICES ASSUME NEW u \in 1..(w - 1) PROVE Power(Base, u) <= n
      OBVIOUS
    <3>1. u \in 1..(n + 1) /\ ~(w <= u) /\ u \in Nat
      BY <2>1
    <3>2. u \notin wide
      BY <2>1, <3>1
    <3>3. Power(Base, u) \in Nat
      BY <3>1, BaseGrows
    <3>4. QED
      BY <3>1, <3>2, <3>3
  <2>3. QED
    BY <2>1, <2>2
<1>5. width \in 1..(n + 1) /\ Fits(width)
  BY <1>4
<1>6. NumberToText(n) = [i \in 1..width |-> Zero + ((n \div Power(Base, width - i)) % Base)]
  BY DEF NumberToText
<1> HIDE DEF width
<1>7. width \in Nat \ {0}
  BY <1>5
<1>8. SpellsNumber(NumberToText(n), n, width)
  BY <1>5, <1>6, Zenon DEF SpellsNumber
<1>9. QED
  BY <1>7, <1>8

\* The number of the first numerals of a text.
ValueParts(part, s) ==
    /\ part \in [0..Len(s) -> Nat] /\ part[0] = 0
    /\ \A j \in 1..Len(s) : part[j] = part[j - 1] * Base + (s[j] - Zero)

\* The fold of TextToNumber.
ValueFold(it, s) ==
    it = [P \in SUBSET DOMAIN s |->
             IF P = {} THEN 0 ELSE it[P \ {Max(P)}] * Base + (s[Max(P)] - Zero)]

\* TextToNumber is the value, on the whole text, of the function the fold chooses.
LEMMA ValueIsFold ==
    ASSUME NEW s
    PROVE  TextToNumber(s) = (CHOOSE it : ValueFold(it, s))[DOMAIN s]
  BY DEF TextToNumber, FoldLeft, MapThenFoldSet, ValueFold

\* The numerals of a token.
TokenNumerals == Zero..(Zero + Base - 1)

\* They are digits of the alphabet, and each has its value.
LEMMA NumeralsAreDigits ==
    /\ Zero \in Nat /\ TokenNumerals \in SUBSET Digits /\ Dot \notin TokenNumerals
    /\ \A c \in TokenNumerals : c - Zero \in Nat
    /\ \A v \in 0..(Base - 1) : Zero + v \in TokenNumerals /\ (Zero + v) - Zero = v
<1>1. Zero \in Nat /\ Base \in Nat \ {0} /\ Zero + Base <= Power(2, 3 * Unit)
  BY TokenAssumption
<1>2. PICK d \in Nat \ {0} : d = Power(2, 3 * Unit)
  <2>1. 3 * Unit \in Nat
    BY ByteRange
  <2>2. QED
    BY <2>1, PowersMultiply
<1>3. Digits = 0..(d - 1)
  BY <1>2 DEF Digits
<1>4. TokenNumerals \in SUBSET Digits
  BY <1>1, <1>2, <1>3 DEF TokenNumerals
<1>5. Dot \notin TokenNumerals
  BY <1>1 DEF TokenNumerals, Dot
<1>6. \A c \in TokenNumerals : c - Zero \in Nat
  BY <1>1 DEF TokenNumerals
<1>7. \A v \in 0..(Base - 1) : Zero + v \in TokenNumerals /\ (Zero + v) - Zero = v
  BY <1>1 DEF TokenNumerals
<1>8. QED
  BY <1>1, <1>4, <1>5, <1>6, <1>7

\* The equation of the fold has a solution.
LEMMA ValueFoldExists ==
    ASSUME NEW s \in Seq(TokenNumerals)
    PROVE  \E it : ValueFold(it, s)
<1>1. PICK n \in Nat : n = Len(s) /\ DOMAIN s = 1..n
  OBVIOUS
<1> DEFINE value == [i \in 1..n |-> s[i] - Zero]
           step == [x \in (1..n) \X Nat |-> x[2] * Base + value[x[1]]]
<1>2. value \in [1..n -> Nat] /\ \A i \in 1..n : value[i] = s[i] - Zero
  BY <1>1, NumeralsAreDigits
<1>3. Base \in Nat
  BY TokenAssumption
<1> HIDE DEF value
<1>4. step \in [(1..n) \X Nat -> Nat]
  <2>1. \A v \in Nat, c \in Nat : v * Base + c \in Nat
    BY <1>3
  <2>2. QED
    BY <1>2, <2>1
<1> HIDE DEF step
<1>5. PICK it : FoldEquation(it, Nat, n, 0, step)
  <2>1. 0 \in Nat
    OBVIOUS
  <2>2. QED
    BY <1>4, <2>1, FoldExists, Zenon
<1>6. ASSUME NEW P \in SUBSET (1..n)
      PROVE  it[P] = IF P = {} THEN 0 ELSE it[P \ {Max(P)}] * Base + (s[Max(P)] - Zero)
  <2>1. CASE P = {}
    BY <1>5, <2>1 DEF FoldEquation
  <2>2. CASE P # {}
    <3>1. Max(P) \in 1..n /\ P \ {Max(P)} \in SUBSET (1..n)
      <4>1. P \in SUBSET (0..n)
        OBVIOUS
      <4>2. Max(P) \in P
        BY <2>2, <4>1, LargestExists
      <4>3. QED
        BY <4>2
    <3>2. it[P \ {Max(P)}] \in Nat
      BY <1>5, <3>1 DEF FoldEquation
    <3>3. it[P] = step[<<Max(P), it[P \ {Max(P)}]>>]
      BY <1>5, <2>2 DEF FoldEquation
    <3>4. step[<<Max(P), it[P \ {Max(P)}]>>] = it[P \ {Max(P)}] * Base + value[Max(P)]
      BY <3>1, <3>2 DEF step
    <3>5. value[Max(P)] = s[Max(P)] - Zero
      BY <1>2, <3>1
    <3>6. it[P] = it[P \ {Max(P)}] * Base + (s[Max(P)] - Zero)
      BY <3>3, <3>4, <3>5, Zenon
    <3>7. QED
      BY <2>2, <3>6, Zenon
  <2>3. QED
    BY <2>1, <2>2
<1>7. it \in [SUBSET (1..n) -> Nat]
  BY <1>5 DEF FoldEquation
<1>8. ValueFold(it, s)
  BY <1>1, <1>6, <1>7 DEF ValueFold
<1>9. QED
  BY <1>8

\* What TextToNumber computes, numeral by numeral.
LEMMA ValueIs ==
    ASSUME NEW s \in Seq(TokenNumerals)
    PROVE  \E part : ValueParts(part, s) /\ TextToNumber(s) = part[Len(s)]
<1>1. PICK n \in Nat : n = Len(s) /\ DOMAIN s = 1..n
  OBVIOUS
<1> DEFINE it == CHOOSE it : ValueFold(it, s)
<1>2. ValueFold(it, s)
  BY ValueFoldExists
<1>3. TextToNumber(s) = it[1..n]
  BY <1>1, ValueIsFold
<1> HIDE DEF it
<1>4. it[1..0] = 0
  BY <1>1, <1>2 DEF ValueFold
<1>5. ASSUME NEW j \in 1..n PROVE it[1..j] = it[1..(j - 1)] * Base + (s[j] - Zero)
  <2>1. 1..j \in SUBSET (1..n) /\ 1..j # {} /\ (1..j) \ {j} = 1..(j - 1)
    OBVIOUS
  <2>2. Max(1..j) = j
    <3>1. 1..j \in SUBSET (1..(j - 1 + 1)) /\ j - 1 + 1 = j /\ j - 1 + 1 \in 1..j /\ j - 1 \in Nat
      OBVIOUS
    <3>2. QED
      BY <3>1, LastPlace
  <2>3. QED
    BY <1>1, <1>2, <2>1, <2>2 DEF ValueFold
<1>6. Base \in Nat /\ \A j \in 1..n : s[j] - Zero \in Nat
  BY <1>1, TokenAssumption, NumeralsAreDigits
<1>7. \A j \in 0..n : it[1..j] \in Nat
  <2> DEFINE Known == {j \in Nat : j <= n => it[1..j] \in Nat}
  <2>1. 0 \in Known
    BY <1>4
  <2>2. ASSUME NEW j \in Nat, j \in Known PROVE j + 1 \in Known
    <3> SUFFICES ASSUME j + 1 <= n PROVE it[1..(j + 1)] \in Nat
      OBVIOUS
    <3>1. it[1..j] \in Nat /\ j + 1 \in 1..n /\ j + 1 - 1 = j
      BY <2>2
    <3>2. it[1..(j + 1)] = it[1..j] * Base + (s[j + 1] - Zero)
      BY <1>5, <3>1
    <3>3. \A v \in Nat, c \in Nat : v * Base + c \in Nat
      BY <1>6
    <3>4. QED
      BY <1>6, <3>1, <3>2, <3>3
  <2> HIDE DEF Known
  <2>3. \A j \in Nat : j \in Known
    BY <2>1, <2>2, NumbersInduction
  <2>4. QED
    BY <2>3 DEF Known
<1> DEFINE part == [j \in 0..n |-> it[1..j]]
<1>8. part \in [0..n -> Nat] /\ part[0] = 0 /\ TextToNumber(s) = part[n]
  BY <1>3, <1>4, <1>7
<1>9. ASSUME NEW j \in 1..n PROVE part[j] = part[j - 1] * Base + (s[j] - Zero)
  <2>1. j \in 0..n /\ j - 1 \in 0..n
    OBVIOUS
  <2>2. part[j] = it[1..j] /\ part[j - 1] = it[1..(j - 1)]
    BY <2>1
  <2>3. QED
    BY <1>5, <2>2
<1> HIDE DEF part
<1>10. QED
  BY <1>1, <1>8, <1>9 DEF ValueParts

\* A number is spelled with numerals, and with one at least.
LEMMA NumberIsSpelled ==
    ASSUME NEW n \in Nat, NEW w \in Nat \ {0}, NEW s, SpellsNumber(s, n, w)
    PROVE  /\ s \in Seq(TokenNumerals) /\ Len(s) = w /\ IsNumber(s)
           /\ \A i \in 1..w : s[i] - Zero = (n \div Power(Base, w - i)) % Base
<1> DEFINE v(i) == (n \div Power(Base, w - i)) % Base
<1>1. ASSUME NEW i \in 1..w PROVE v(i) \in 0..(Base - 1)
  <2>1. w - i \in Nat
    OBVIOUS
  <2>2. PICK p \in Nat \ {0} : p = Power(Base, w - i) /\ Base \in Nat \ {0}
    BY <2>1, BaseGrows
  <2>3. (n \div p) \in Nat
    BY <2>2, Division
  <2>4. ((n \div p) % Base) \in 0..(Base - 1)
    BY <2>2, <2>3, Division
  <2>5. QED
    BY <2>2, <2>4, Zenon
<1>2. s = [i \in 1..w |-> Zero + v(i)]
  BY Zenon DEF SpellsNumber
<1>3. \A i \in 1..w : s[i] = Zero + v(i)
  BY <1>2, Zenon
<1> HIDE DEF v
<1>4. \A i \in 1..w : Zero + v(i) \in TokenNumerals /\ (Zero + v(i)) - Zero = v(i)
  BY <1>1, NumeralsAreDigits
<1>5. s \in [1..w -> TokenNumerals]
  BY <1>2, <1>4
<1>6. s \in Seq(TokenNumerals) /\ Len(s) = w /\ DOMAIN s = 1..w
  BY <1>5
<1>7. s # <<>>
  BY <1>6
<1>8. IsNumber(s)
  BY <1>5, <1>6, <1>7 DEF IsNumber, TokenNumerals
<1>9. \A i \in 1..w : s[i] - Zero = v(i)
  BY <1>3, <1>4
<1>10. QED
  BY <1>6, <1>8, <1>9 DEF v

\* A number comes back from its spelling.
LEMMA NumberComesBack ==
    ASSUME NEW n \in Nat
    PROVE  /\ NumberToText(n) \in Seq(TokenNumerals) /\ IsNumber(NumberToText(n))
           /\ TextToNumber(NumberToText(n)) = n
<1> DEFINE s == NumberToText(n)
<1>1. PICK w \in Nat \ {0} : SpellsNumber(s, n, w)
  BY NumberHasWidth
<1> HIDE DEF s
<1>2. s \in Seq(TokenNumerals) /\ Len(s) = w /\ IsNumber(s)
  BY <1>1, NumberIsSpelled
<1>3. \A i \in 1..w : s[i] - Zero = (n \div Power(Base, w - i)) % Base
  BY <1>1, NumberIsSpelled
<1>4. PICK part : ValueParts(part, s) /\ TextToNumber(s) = part[w]
  BY <1>2, ValueIs
<1>5. part[0] = 0 /\ \A j \in 1..w : part[j] = part[j - 1] * Base + (s[j] - Zero)
  BY <1>2, <1>4 DEF ValueParts
<1> DEFINE Q(k) == n \div Power(Base, k)
           Good == {j \in Nat : j <= w => part[j] = Q(w - j)}
<1>6. ASSUME NEW k \in Nat PROVE Q(k) \in Nat /\ Q(k + 1) * Base + (Q(k) % Base) = Q(k)
  <2>1. PICK p \in Nat \ {0} : p = Power(Base, k) /\ Base \in Nat \ {0}
                               /\ Power(Base, k + 1) = p * Base
    BY BaseGrows
  <2>2. (n \div p) \in Nat /\ (n \div (p * Base)) = ((n \div p) \div Base)
    BY <2>1, QuotientTwice
  <2>3. PICK q \in Nat : q = n \div p
    BY <2>2
  <2>4. q = (q \div Base) * Base + (q % Base)
    BY <2>1, Division
  <2>5. Q(k) = q /\ Q(k + 1) = q \div Base
    BY <2>1, <2>2, <2>3, Zenon
  <2> HIDE DEF Q
  <2>6. QED
    BY <2>4, <2>5, Zenon
<1>7. Q(w) = 0 /\ Q(0) = n
  <2>1. n < Power(Base, w) /\ Power(Base, w) \in Nat \ {0}
    BY <1>1, BaseGrows DEF SpellsNumber
  <2>2. Q(w) = 0
    BY <2>1
  <2>3. Power(Base, 0) = 1
    <3>1. Base \in Nat
      BY TokenAssumption
    <3>2. QED
      BY <3>1, PowerNext
  <2>4. n \div 1 = n
    OBVIOUS
  <2>5. QED
    BY <2>2, <2>3, <2>4, Zenon
<1>8. \A i \in 1..w : s[i] - Zero = Q(w - i) % Base
  BY <1>3
<1> HIDE DEF Q
<1>9. 0 \in Good
  <2>1. w - 0 = w
    OBVIOUS
  <2>2. QED
    BY <1>5, <1>7, <2>1
<1>10. ASSUME NEW j \in Nat, j \in Good PROVE j + 1 \in Good
  <2> SUFFICES ASSUME j + 1 <= w PROVE part[j + 1] = Q(w - (j + 1))
    OBVIOUS
  <2>1. PICK k \in Nat : k = w - (j + 1) /\ w - j = k + 1
    OBVIOUS
  <2>2. j + 1 \in 1..w /\ (j + 1) - 1 = j
    OBVIOUS
  <2>3. part[j] = Q(k + 1)
    BY <1>10, <2>1
  <2>4. part[j + 1] = part[j] * Base + (s[j + 1] - Zero)
    BY <1>5, <2>2
  <2>5. s[j + 1] - Zero = Q(k) % Base
    BY <1>8, <2>1, <2>2
  <2>6. part[j + 1] = Q(k + 1) * Base + (Q(k) % Base)
    BY <2>3, <2>4, <2>5, Zenon
  <2>7. Q(k + 1) * Base + (Q(k) % Base) = Q(k)
    BY <1>6
  <2>8. QED
    BY <2>1, <2>6, <2>7, Zenon
<1>11. w \in Good
  <2> HIDE DEF Good
  <2>1. QED
    BY <1>9, <1>10, NumbersInduction
<1>12. part[w] = Q(0)
  <2>1. w - w = 0 /\ w <= w
    OBVIOUS
  <2>2. QED
    BY <1>11, <2>1
<1>13. TextToNumber(s) = n
  BY <1>4, <1>7, <1>12, Zenon
<1>14. QED
  BY <1>2, <1>13 DEF s

-----------------------------------------------------------------------------
(* The fields of a token *)

\* Characters without a dot, and what follows them after a dot.
Field(x) == x \in Seq(Chars) /\ \A i \in 1..Len(x) : x[i] # Dot
Dotted(x, y) == x \o <<Dot>> \o y

\* Two texts with a dot in between.
LEMMA DottedIs ==
    ASSUME NEW x \in Seq(Chars), NEW y \in Seq(Chars)
    PROVE  /\ Dotted(x, y) \in Seq(Chars) /\ Len(Dotted(x, y)) = (Len(x) + 1) + Len(y)
           /\ \A i \in 1..Len(x) : Dotted(x, y)[i] = x[i]
           /\ Dotted(x, y)[Len(x) + 1] = Dot
           /\ \A i \in 1..Len(y) : Dotted(x, y)[(Len(x) + 1) + i] = y[i]
<1> DEFINE dot == <<Dot>>
           xd == x \o dot
           t == xd \o y
<1>1. PICK m \in Nat : m = Len(x)
  OBVIOUS
<1>2. PICK n \in Nat : n = Len(y)
  OBVIOUS
<1>3. PICK one \in Nat : one = 1 /\ Len(dot) = one
  OBVIOUS
<1>4. dot \in Seq(Chars) /\ dot[1] = Dot
  BY DEF Chars
<1> HIDE DEF dot
<1>5. /\ xd \in Seq(Chars) /\ Len(xd) = m + one
      /\ \A i \in 1..m : xd[i] = x[i]
      /\ \A i \in 1..one : xd[m + i] = dot[i]
  <2>1. /\ x \in Seq(Chars) /\ dot \in Seq(Chars) /\ Len(x) = m /\ Len(dot) = one
        /\ m \in Nat /\ one \in Nat
    BY <1>1, <1>3, <1>4
  <2>2. xd \in Seq(Chars)
    BY ONLY <2>1
  <2>3. Len(xd) = m + one
    BY ONLY <2>1
  <2>4. \A i \in 1..m : xd[i] = x[i]
    BY ONLY <2>1
  <2>5. \A i \in 1..one : xd[m + i] = dot[i]
    BY ONLY <2>1
  <2>6. QED
    BY <2>2, <2>3, <2>4, <2>5
<1> HIDE DEF xd
<1>6. PICK k \in Nat : k = m + 1 /\ k = m + one
  BY <1>3
<1>7. /\ t \in Seq(Chars) /\ Len(t) = k + n
      /\ \A i \in 1..k : t[i] = xd[i]
      /\ \A i \in 1..n : t[k + i] = y[i]
  <2>1. /\ xd \in Seq(Chars) /\ y \in Seq(Chars) /\ Len(xd) = k /\ Len(y) = n
        /\ k \in Nat /\ n \in Nat
    BY <1>2, <1>5, <1>6
  <2>2. t \in Seq(Chars)
    BY ONLY <2>1
  <2>3. Len(t) = k + n
    BY ONLY <2>1
  <2>4. \A i \in 1..k : t[i] = xd[i]
    BY ONLY <2>1
  <2>5. \A i \in 1..n : t[k + i] = y[i]
    BY ONLY <2>1
  <2>6. QED
    BY <2>2, <2>3, <2>4, <2>5
<1> HIDE DEF t
<1>8. t[k] = Dot
  <2>1. 1 \in 1..one /\ k \in 1..k /\ k = m + 1
    BY <1>3, <1>6
  <2>2. xd[m + 1] = dot[1]
    BY <1>5, <2>1
  <2>3. QED
    BY <1>4, <1>7, <2>1, <2>2
<1>9. \A i \in 1..m : t[i] = x[i]
  <2>1. \A i \in 1..m : i \in 1..k
    BY <1>6
  <2>2. QED
    BY <1>5, <1>7, <2>1
<1>10. Dotted(x, y) = t
  BY Zenon DEF Dotted, t, xd, dot
<1>11. QED
  BY <1>1, <1>2, <1>6, <1>7, <1>8, <1>9, <1>10, Zenon

\* A text is cut at its first dot.
LEMMA CutAtDot ==
    ASSUME NEW x, Field(x), NEW y \in Seq(Chars)
    PROVE  /\ Before(Dotted(x, y), Find(Dotted(x, y), Dot)) = x
           /\ After(Dotted(x, y), Find(Dotted(x, y), Dot)) = y
<1> DEFINE t == Dotted(x, y)
<1>1. x \in Seq(Chars) /\ \A i \in 1..Len(x) : x[i] # Dot
  BY DEF Field
<1>2. PICK m \in Nat : m = Len(x)
  BY <1>1
<1>3. PICK n \in Nat : n = Len(y)
  OBVIOUS
<1>4. /\ t \in Seq(Chars) /\ Len(t) = (m + 1) + n
      /\ \A i \in 1..m : t[i] = x[i]
      /\ t[m + 1] = Dot
      /\ \A i \in 1..n : t[(m + 1) + i] = y[i]
  BY <1>1, <1>2, <1>3, DottedIs
<1> HIDE DEF t
<1>5. Find(t, Dot) = m + 1
  <2>1. m + 1 \in 1..Len(t) /\ (m + 1) - 1 = m
    BY <1>4
  <2>2. \A j \in 1..((m + 1) - 1) : t[j] # Dot
    BY <1>1, <1>2, <1>4, <2>1
  <2>3. QED
    BY <1>4, <2>1, <2>2, FindsFirst
<1>6. SubSeq(t, 1, m) = x
  <2>1. /\ SubSeq(t, 1, m) \in Seq(Chars) /\ Len(SubSeq(t, 1, m)) = m
        /\ \A i \in 1..m : SubSeq(t, 1, m)[i] = t[i]
    BY <1>4
  <2>2. \A i \in 1..m : SubSeq(t, 1, m)[i] = x[i]
    BY <1>4, <2>1
  <2> DEFINE cut == SubSeq(t, 1, m)
  <2> HIDE DEF cut
  <2>3. cut \in Seq(Chars) /\ Len(cut) = m /\ \A i \in 1..m : cut[i] = x[i]
    BY <2>1, <2>2 DEF cut
  <2>4. cut = x
    BY <1>1, <1>2, <2>3
  <2>5. QED
    BY <2>4 DEF cut
<1>7. SubSeq(t, (m + 1) + 1, (m + 1) + n) = y
  <2> DEFINE cut == SubSeq(t, (m + 1) + 1, (m + 1) + n)
  <2>1. PICK a \in Nat, b \in Nat : a = m + 1 /\ b = a + n
    OBVIOUS
  <2>2. a <= b /\ b <= Len(t)
    BY <1>4, <2>1
  <2>3. cut = SubSeq(t, a + 1, b)
    BY <2>1
  <2>4. cut \in Seq(Chars) /\ Len(cut) = n
    <3>1. SubSeq(t, a + 1, b) \in Seq(Chars) /\ Len(SubSeq(t, a + 1, b)) = b - a
      BY <1>4, <2>2, Rejoined, Zenon
    <3>2. b - a = n
      BY <2>1
    <3>3. QED
      BY <2>3, <3>1, <3>2, Zenon
  <2>5. \A i \in 1..n : cut[i] = t[a + i]
    BY <1>4, <2>1, <2>3
  <2> HIDE DEF cut
  <2>6. \A i \in 1..n : cut[i] = y[i]
    BY <1>4, <2>1, <2>5
  <2>7. cut = y
    BY <1>3, <2>4, <2>6
  <2>8. QED
    BY <2>7 DEF cut
<1>8. (m + 1) - 1 = m
  OBVIOUS
<1>9. Before(t, Find(t, Dot)) = x
  BY <1>5, <1>6, <1>8, Zenon DEF Before
<1>10. After(t, Find(t, Dot)) = y
  BY <1>4, <1>5, <1>7, Zenon DEF After
<1>11. QED
  BY <1>9, <1>10 DEF t

\* There is one way to cut a text.
LEMMA OneCut ==
    ASSUME NEW x, Field(x), NEW y \in Seq(Chars), NEW u, Field(u), NEW v \in Seq(Chars),
           Dotted(x, y) = Dotted(u, v)
    PROVE  x = u /\ y = v
<1>1. /\ Before(Dotted(x, y), Find(Dotted(x, y), Dot)) = x
      /\ After(Dotted(x, y), Find(Dotted(x, y), Dot)) = y
  BY CutAtDot
<1>2. /\ Before(Dotted(u, v), Find(Dotted(u, v), Dot)) = u
      /\ After(Dotted(u, v), Find(Dotted(u, v), Dot)) = v
  BY CutAtDot
<1>3. QED
  BY <1>1, <1>2, Zenon

\* What is cut off before the first dot has none.
LEMMA FirstIsField ==
    ASSUME NEW t \in Seq(Chars)
    PROVE  Field(Before(t, Find(t, Dot))) /\ After(t, Find(t, Dot)) \in Seq(Chars)
<1>1. PICK f \in Nat : f = Find(t, Dot) /\ f <= Len(t)
                       /\ (f # 0 => \A i \in 1..(f - 1) : t[i] # Dot)
  <2>1. /\ Find(t, Dot) \in 0..Len(t)
        /\ Find(t, Dot) # 0 => \A i \in 1..(Find(t, Dot) - 1) : t[i] # Dot
    BY FindIs
  <2>2. QED
    BY <2>1
<1> DEFINE x == SubSeq(t, 1, f - 1)
<1>2. x \in Seq(Chars)
  BY <1>1
<1>3. CASE f = 0
  <2>1. Len(x) = 0
    BY <1>3
  <2> HIDE DEF x
  <2>2. \A i \in 1..Len(x) : x[i] # Dot
    BY <2>1
  <2>3. Field(x)
    BY <1>2, <2>2 DEF Field
  <2>4. After(t, f) \in Seq(Chars)
    BY <1>1 DEF After
  <2>5. QED
    BY <1>1, <2>3, <2>4, Zenon DEF Before, x
<1>4. CASE f # 0
  <2>1. PICK k \in Nat : k = f - 1 /\ k <= Len(t)
    BY <1>1, <1>4
  <2>2. Len(SubSeq(t, 1, k)) = k /\ \A i \in 1..k : SubSeq(t, 1, k)[i] = t[i]
    BY <2>1
  <2>3. Len(x) = k /\ \A i \in 1..k : x[i] = t[i]
    BY <2>1, <2>2
  <2> HIDE DEF x
  <2>4. \A i \in 1..Len(x) : x[i] # Dot
    BY <1>1, <1>4, <2>1, <2>3
  <2>5. Field(x)
    BY <1>2, <2>4 DEF Field
  <2>6. After(t, f) \in Seq(Chars)
    BY <1>1 DEF After
  <2>7. QED
    BY <1>1, <2>5, <2>6, Zenon DEF Before, x
<1>5. QED
  BY <1>3, <1>4

\* A field has no dot, and dots add up.
LEMMA DotsAre ==
    ASSUME NEW x, Field(x), NEW y \in Seq(Chars)
    PROVE  Occurrences(x, Dot) = 0 /\ Occurrences(Dotted(x, y), Dot) = 1 + Occurrences(y, Dot)
<1> DEFINE dot == <<Dot>>
<1>1. x \in Seq(Chars) /\ \A i \in 1..Len(x) : x[i] # Dot
  BY DEF Field
<1>2. Occurrences(x, Dot) = 0
  <2>1. {i \in DOMAIN x : x[i] = Dot} = {}
    BY <1>1
  <2>2. QED
    BY <2>1, FS_EmptySet DEF Occurrences
<1>3. dot \in Seq(Chars)
  BY DEF Chars
<1>4. Occurrences(dot, Dot) = 1
  <2>1. {i \in DOMAIN dot : dot[i] = Dot} = {1}
    OBVIOUS
  <2>2. Cardinality({1}) = 1
    BY FS_Singleton
  <2>3. QED
    BY <2>1, <2>2, Zenon DEF Occurrences
<1> HIDE DEF dot
<1>5. x \o dot \in Seq(Chars)
  BY <1>1, <1>3
<1>6. Occurrences(x \o dot, Dot) = Occurrences(x, Dot) + Occurrences(dot, Dot)
  BY <1>1, <1>3, OccurrencesJoined
<1>7. Occurrences((x \o dot) \o y, Dot) = Occurrences(x \o dot, Dot) + Occurrences(y, Dot)
  BY <1>5, OccurrencesJoined
<1>8. Occurrences(y, Dot) \in Nat
  BY OccurrencesAreNatural
<1>9. Dotted(x, y) = (x \o dot) \o y
  BY Zenon DEF Dotted, dot
<1>10. QED
  BY <1>2, <1>4, <1>6, <1>7, <1>8, <1>9

\* Dotted texts may be dotted from either end.
LEMMA DottedEitherWay ==
    ASSUME NEW x \in Seq(Chars), NEW y \in Seq(Chars), NEW z \in Seq(Chars)
    PROVE  Dotted(Dotted(x, y), z) = Dotted(x, Dotted(y, z))
<1> DEFINE dot == <<Dot>>
<1>1. dot \in Seq(Chars)
  BY DEF Chars
<1> HIDE DEF dot
<1>2. x \o dot \in Seq(Chars) /\ y \o dot \in Seq(Chars)
  BY <1>1
<1>3. (((x \o dot) \o y) \o dot) \o z = ((x \o dot) \o (y \o dot)) \o z
  BY SMTT(30), <1>1, <1>2, ConcatAssociative
<1>4. ((x \o dot) \o (y \o dot)) \o z = (x \o dot) \o ((y \o dot) \o z)
  <2> DEFINE p == x \o dot
             q == y \o dot
  <2>1. p \in Seq(Chars) /\ q \in Seq(Chars)
    BY <1>2
  <2> HIDE DEF p, q
  <2>2. (p \o q) \o z = p \o (q \o z)
    BY SMTT(30), <2>1, ConcatAssociative
  <2>3. QED
    BY <2>2, Zenon DEF p, q
<1>5. QED
  BY <1>3, <1>4, Zenon DEF Dotted, dot

\* Digits of the alphabet make a field.
LEMMA DigitsAreField ==
    ASSUME NEW x \in Seq(Digits)
    PROVE  Field(x)
<1>1. Dot \notin Digits /\ Digits \in SUBSET Chars
  BY DEF Digits, Dot, Chars
<1>2. x \in Seq(Chars) /\ \A i \in 1..Len(x) : x[i] \in Digits
  BY <1>1
<1>3. QED
  BY <1>1, <1>2 DEF Field

\* A number has no dot.
LEMMA NumberIsField ==
    ASSUME NEW x \in Seq(Chars), IsNumber(x)
    PROVE  Field(x)
<1>1. \A i \in 1..Len(x) : x[i] \in TokenNumerals
  BY DEF IsNumber, TokenNumerals
<1>2. QED
  BY <1>1, NumeralsAreDigits DEF Field

\* The three first fields and what follows them.
LEMMA FourFields ==
    ASSUME NEW b, Field(b), NEW e, Field(e), NEW d, Field(d), NEW g, Field(g)
    PROVE  Parts(Dotted(b, Dotted(e, Dotted(d, g)))) = <<b, e, d, g>>
<1> DEFINE t3 == Dotted(d, g)
           t2 == Dotted(e, t3)
           t1 == Dotted(b, t2)
           field(rest) == Before(rest, Find(rest, Dot))
           next(rest) == After(rest, Find(rest, Dot))
<1>1. b \in Seq(Chars) /\ e \in Seq(Chars) /\ d \in Seq(Chars) /\ g \in Seq(Chars)
  BY DEF Field
<1>2. t3 \in Seq(Chars)
  BY <1>1, DottedIs
<1>3. field(t3) = d /\ next(t3) = g
  BY <1>1, CutAtDot
<1>4. Occurrences(t3, Dot) = 1
  <2>1. Occurrences(t3, Dot) = 1 + Occurrences(g, Dot) /\ Occurrences(g, Dot) = 0
    BY <1>1, DotsAre
  <2>2. QED
    BY <2>1
<1> HIDE DEF t3
<1>5. t2 \in Seq(Chars)
  BY <1>1, <1>2, DottedIs
<1>6. field(t2) = e /\ next(t2) = t3
  BY <1>2, CutAtDot
<1>7. Occurrences(t2, Dot) = 2
  <2>1. Occurrences(t2, Dot) = 1 + Occurrences(t3, Dot)
    BY <1>2, DotsAre
  <2>2. QED
    BY <1>4, <2>1
<1> HIDE DEF t2
<1>8. field(t1) = b /\ next(t1) = t2
  BY <1>5, CutAtDot
<1>9. Occurrences(t1, Dot) = 3
  <2>1. Occurrences(t1, Dot) = 1 + Occurrences(t2, Dot)
    BY <1>5, DotsAre
  <2>2. QED
    BY <1>7, <2>1
<1> HIDE DEF t1
<1>10. Parts(t1) = <<field(t1), field(next(t1)), field(next(next(t1))), next(next(next(t1)))>>
  BY <1>9, Zenon DEF Parts
<1>11. Parts(t1) = <<b, e, d, g>>
  BY <1>3, <1>6, <1>8, <1>10, Zenon
<1>12. QED
  BY <1>11, Zenon DEF t1, t2, t3

\* A text with fields before its first three dots: its parts.
LEMMA PartsAre ==
    ASSUME NEW token \in Seq(Chars), Parts(token) # <<>>
    PROVE  /\ Field(Parts(token)[1])
           /\ \A k \in 1..4 : Parts(token)[k] \in Seq(Chars)
<1> DEFINE field(rest) == Before(rest, Find(rest, Dot))
           next(rest) == After(rest, Find(rest, Dot))
<1>1. \A t \in Seq(Chars) : Field(field(t)) /\ next(t) \in Seq(Chars)
  BY FirstIsField
<1>2. Parts(token) = <<field(token), field(next(token)), field(next(next(token))),
                       next(next(next(token)))>>
  BY Zenon DEF Parts
<1> HIDE DEF field, next
<1>3. next(token) \in Seq(Chars) /\ next(next(token)) \in Seq(Chars)
      /\ next(next(next(token))) \in Seq(Chars)
  BY <1>1, Zenon
<1> DEFINE x == field(token)
           y == field(next(token))
           z == field(next(next(token)))
           w == next(next(next(token)))
<1>4. Field(x) /\ Field(y) /\ Field(z) /\ w \in Seq(Chars)
  BY <1>1, <1>3, Zenon
<1>5. x \in Seq(Chars) /\ y \in Seq(Chars) /\ z \in Seq(Chars)
  BY <1>4, Zenon DEF Field
<1> HIDE DEF x, y, z, w
<1>6. Parts(token) = <<x, y, z, w>>
  BY <1>2 DEF x, y, z, w
<1>7. <<x, y, z, w>>[1] = x /\ \A k \in 1..4 : <<x, y, z, w>>[k] \in Seq(Chars)
  BY <1>4, <1>5
<1>8. QED
  BY <1>4, <1>6, <1>7, Zenon

\* The token of a challenge is genuine, and whatever other token has its signature
\* is the same challenge (challenge.cpp:118-163): the same id, expiry and difficulty.
THEOREM TokenIsOneChallenge ==
    ASSUME NEW id \in Seq(Bytes), NEW expires \in Nat, NEW difficulty \in Nat,
           NEW signature \in Seq(Bytes), NEW c, c = Issue(id, expires, difficulty, signature)
    PROVE  /\ c.token \in Seq(Chars) /\ Genuine(c.token, c)
           /\ \A token \in Seq(Chars) :
                 Genuine(token, c) => Accepted(token) = <<id, expires, difficulty>>
<1> DEFINE b == B64urlEncode(id)
           e == NumberToText(expires)
           d == NumberToText(difficulty)
           g == B64urlEncode(signature)
           payload == Dotted(b, Dotted(e, d))
           signed == Dotted(b, Dotted(e, Dotted(d, g)))
<1>1. \A s \in Seq(Bytes) : B64urlEncode(s) \in Seq(Digits) /\ B64urlDecode(B64urlEncode(s)) = s
  <2> SUFFICES ASSUME NEW s \in Seq(Bytes)
               PROVE  B64urlEncode(s) \in Seq(Digits) /\ B64urlDecode(B64urlEncode(s)) = s
    OBVIOUS
  <2>1. PICK bits, rest : Decodes(B64urlEncode(s), s, bits, rest)
    BY EncodedDecodes
  <2>2. QED
    BY <2>1, DecodesTo, Zenon DEF Decodes
<1>2. /\ e \in Seq(TokenNumerals) /\ IsNumber(e) /\ TextToNumber(e) = expires
      /\ d \in Seq(TokenNumerals) /\ IsNumber(d) /\ TextToNumber(d) = difficulty
  BY NumberComesBack
<1>3. b \in Seq(Digits) /\ g \in Seq(Digits) /\ B64urlDecode(b) = id /\ B64urlDecode(g) = signature
  BY <1>1
<1>4. c.payload = Payload(id, expires, difficulty) /\ c.signature = signature
      /\ c.token = Payload(id, expires, difficulty) \o <<Dot>> \o g
  BY DEF Issue
<1>5. Payload(id, expires, difficulty) = Dotted(Dotted(b, e), d)
  BY Zenon DEF Payload, Dotted
<1> HIDE DEF b, e, d, g
<1>6. e \in Seq(Digits) /\ d \in Seq(Digits)
  BY <1>2, NumeralsAreDigits
<1>7. Field(b) /\ Field(e) /\ Field(d) /\ Field(g)
  BY <1>3, <1>6, DigitsAreField
<1>8. b \in Seq(Chars) /\ e \in Seq(Chars) /\ d \in Seq(Chars) /\ g \in Seq(Chars)
  BY <1>7, Zenon DEF Field
<1>9. Dotted(Dotted(b, e), d) = payload
  BY <1>8, DottedEitherWay
<1>10. Dotted(e, d) \in Seq(Chars) /\ Dotted(d, g) \in Seq(Chars)
  BY <1>8, DottedIs
<1>11. Dotted(payload, g) = signed
  <2>1. Dotted(payload, g) = Dotted(b, Dotted(Dotted(e, d), g))
    BY <1>8, <1>10, DottedEitherWay
  <2>2. Dotted(Dotted(e, d), g) = Dotted(e, Dotted(d, g))
    BY <1>8, DottedEitherWay
  <2>3. QED
    BY <2>1, <2>2, Zenon
<1>12. signed \in Seq(Chars)
  <2>1. Dotted(e, Dotted(d, g)) \in Seq(Chars)
    BY <1>8, <1>10, DottedIs
  <2>2. QED
    BY <1>8, <2>1, DottedIs
<1>13. c.payload = payload /\ c.token = signed
  <2>1. c.payload = payload
    BY <1>4, <1>5, <1>9, Zenon
  <2>2. c.token = Dotted(c.payload, g)
    BY <1>4, Zenon DEF Dotted
  <2>3. QED
    BY <1>11, <2>1, <2>2, Zenon
<1>14. \A parts : SignedPart(parts, c) = Dotted(Dotted(parts[1], parts[2]), parts[3])
  BY Zenon DEF SignedPart, Dotted
<1>15. Genuine(signed, c)
  <2>1. Parts(signed) = <<b, e, d, g>>
    BY <1>7, FourFields
  <2> DEFINE four == <<b, e, d, g>>
  <2>2. four[1] = b /\ four[2] = e /\ four[3] = d /\ four[4] = g /\ four # <<>>
    OBVIOUS
  <2> HIDE DEF four
  <2>3. SignedPart(four, c) = c.payload
    BY <1>9, <1>13, <1>14, <2>2, Zenon
  <2>4. WellFormed(four)
    <3>1. B64urlDecode(b) # Malformed /\ B64urlDecode(g) # Malformed
      BY <1>3, BytesAreDecoded
    <3>2. QED
      BY <1>2, <2>2, <3>1, Zenon DEF WellFormed
  <2>5. B64urlDecode(four[4]) = c.signature
    BY <1>3, <1>4, <2>2, Zenon
  <2>6. Parts(signed) = four
    BY <2>1 DEF four
  <2>7. QED
    BY <2>3, <2>4, <2>5, <2>6, Zenon DEF Genuine
<1>16. ASSUME NEW token \in Seq(Chars), Genuine(token, c)
       PROVE  Accepted(token) = <<id, expires, difficulty>>
  <2> DEFINE parts == Parts(token)
             x == parts[1]
             y == parts[2]
             z == parts[3]
  <2>1. parts # <<>> /\ IsNumber(y) /\ IsNumber(z) /\ SignedPart(parts, c) = c.payload
    BY <1>16, Zenon DEF Genuine, WellFormed
  <2>2. Field(x) /\ x \in Seq(Chars) /\ y \in Seq(Chars) /\ z \in Seq(Chars)
    BY <2>1, PartsAre
  <2>3. Field(y)
    BY <2>1, <2>2, NumberIsField
  <2>4. Dotted(Dotted(x, y), z) = payload
    BY <1>13, <1>14, <2>1, Zenon
  <2>5. Dotted(Dotted(x, y), z) = Dotted(x, Dotted(y, z))
    BY <2>2, DottedEitherWay
  <2>6. Dotted(y, z) \in Seq(Chars)
    BY <2>2, DottedIs
  <2> HIDE DEF x, y, z, parts
  <2>7. x = b /\ Dotted(y, z) = Dotted(e, d)
    <3>1. Dotted(x, Dotted(y, z)) = Dotted(b, Dotted(e, d))
      BY <2>4, <2>5, Zenon
    <3>2. QED
      BY <1>7, <1>10, <2>2, <2>6, <3>1, OneCut
  <2>8. y = e /\ z = d
    BY <1>7, <1>8, <2>2, <2>3, <2>7, OneCut
  <2>9. Accepted(token) = <<B64urlDecode(x), TextToNumber(y), TextToNumber(z)>>
    BY Zenon DEF Accepted, parts, x, y, z
  <2>10. QED
    BY <1>2, <1>3, <2>7, <2>8, <2>9, Zenon
<1>17. QED
  BY <1>12, <1>13, <1>15, <1>16, Zenon

-----------------------------------------------------------------------------
(* The tokens of the runs *)

\* A digest, and an id.
LEMMA BytesAreText ==
    ASSUME TextTyped, subject = "bytes"
    PROVE  text \in Seq(Bytes)
  BY Zenon DEF TextTyped, Units

\* sha256.cpp:53-64: for digests of every length, the zero bits that are counted are
\* the work that was done.
THEOREM WorkIsAlwaysMeasured == Spec => []ZeroBitsMeasureWork
<1>1. TextTyped => ZeroBitsMeasureWork
  <2>1. SUFFICES ASSUME TextTyped, subject = "bytes" PROVE MeasuresWork(text)
    BY Zenon DEF ZeroBitsMeasureWork
  <2>2. QED
    BY <2>1, BytesAreText, WorkIsMeasured, Zenon
<1>2. QED
  BY <1>1, TextsTyped, PTL

\* challenge.cpp:20-66: ids and signatures of every length survive base64url.
THEOREM BytesAlwaysSurvive == Spec => []BytesSurvive
<1>1. TextTyped => BytesSurvive
  <2>1. SUFFICES ASSUME TextTyped, subject = "bytes" PROVE SurvivesBase64(text)
    BY Zenon DEF BytesSurvive
  <2>2. QED
    BY <2>1, BytesAreText, BytesComeBack, Zenon
<1>2. QED
  BY <1>1, TextsTyped, PTL

\* The token one edit away is one of characters.
LEMMA EditsAreTokens ==
    ASSUME NEW token \in Seq(Chars)
    PROVE  Edits(token) \in SUBSET Seq(Chars)
<1>1. PICK n \in Nat : n = Len(token) /\ DOMAIN token = 1..n /\ token \in [1..n -> Chars]
  OBVIOUS
<1>2. ASSUME NEW i \in 1..n, NEW c \in Chars PROVE ReplaceAt(token, i, c) \in Seq(Chars)
  BY <1>1 DEF ReplaceAt
<1>3. \A i \in 1..n : /\ SubSeq(token, 1, i - 1) \in Seq(Chars)
                      /\ SubSeq(token, i, n) \in Seq(Chars)
                      /\ SubSeq(token, i + 1, n) \in Seq(Chars)
  BY <1>1
<1>4. ASSUME NEW i \in 1..n PROVE RemoveAt(token, i) \in Seq(Chars)
  BY <1>1, <1>3 DEF RemoveAt
<1>5. ASSUME NEW i \in 1..n, NEW c \in Chars PROVE InsertAt(token, i, c) \in Seq(Chars)
  <2> DEFINE x == SubSeq(token, 1, i - 1)
             y == <<c>>
             z == SubSeq(token, i, n)
  <2>1. x \in Seq(Chars) /\ y \in Seq(Chars) /\ z \in Seq(Chars)
    BY <1>3
  <2> HIDE DEF x, y, z
  <2>2. x \o y \o z \in Seq(Chars)
    BY <2>1
  <2>3. QED
    BY <1>1, <2>2, Zenon DEF InsertAt, x, y, z
<1> DEFINE changed == {ReplaceAt(token, i, c) : i \in DOMAIN token, c \in Chars}
           removed == {RemoveAt(token, i) : i \in DOMAIN token}
           longer == {InsertAt(token, i, c) : i \in DOMAIN token, c \in Chars}
<1>6. changed \in SUBSET Seq(Chars)
  BY <1>1, <1>2
<1>7. removed \in SUBSET Seq(Chars)
  BY <1>1, <1>4
<1>8. longer \in SUBSET Seq(Chars)
  BY <1>1, <1>5
<1>9. Edits(token) = changed \cup removed \cup longer
  BY DEF Edits
<1> HIDE DEF changed, removed, longer
<1>10. QED
  BY <1>6, <1>7, <1>8, <1>9

\* challenge.cpp:136-163 and replay.h:16: for ids of every length, other spellings of
\* a token do not make another challenge of it.
THEOREM SpellingsAreAlwaysOne == Spec => []SpellingsAreOneChallenge
<1>1. TextTyped => SpellingsAreOneChallenge
  <2>1. SUFFICES ASSUME TextTyped, subject = "bytes" PROVE OneChallenge(text)
    BY Zenon DEF SpellingsAreOneChallenge
  <2>2. text \in Seq(Bytes)
    BY <2>1, BytesAreText
  <2>3. 9 \in Bytes
    <3>1. 2 \in Nat /\ 2 \in Nat \ {0} /\ 4 \in Nat /\ 4 * Unit \in Nat /\ 4 <= 4 * Unit
      BY ByteRange
    <3>2. Power(2, 4) <= Power(2, 4 * Unit)
      BY <3>1, PowerMonotone
    <3>3. Power(2, 4) = 16
      <4>1. /\ 0 + 1 = 1 /\ 1 + 1 = 2 /\ 2 + 1 = 3 /\ 3 + 1 = 4
            /\ 1 \in Nat /\ 2 \in Nat /\ 3 \in Nat
        OBVIOUS
      <4>2. Power(2, 0) = 1 /\ \A n \in Nat : Power(2, n + 1) = 2 * Power(2, n)
        BY <3>1, PowerNext
      <4>3. Power(2, 1) = 2
        BY <4>1, <4>2
      <4>4. Power(2, 2) = 4
        BY <4>1, <4>2, <4>3
      <4>5. Power(2, 3) = 8
        BY <4>1, <4>2, <4>4
      <4>6. QED
        BY <4>1, <4>2, <4>5
    <3>4. QED
      BY <3>2, <3>3, ByteRange
  <2> DEFINE sig == <<9>>
             c == Issue(text, 3, 2, sig)
  <2>4. sig \in Seq(Bytes)
    BY <2>3
  <2>5. 3 \in Nat /\ 2 \in Nat
    OBVIOUS
  <2> HIDE DEF sig
  <2>6. /\ c.token \in Seq(Chars) /\ Genuine(c.token, c)
        /\ \A token \in Seq(Chars) : Genuine(token, c) => Accepted(token) = <<text, 3, 2>>
    BY <2>2, <2>4, <2>5, TokenIsOneChallenge
  <2>7. c.id = text /\ c.expires = 3 /\ c.difficulty = 2
    BY DEF Issue
  <2>8. Edits(c.token) \cup {c.token} \in SUBSET Seq(Chars)
    BY <2>6, EditsAreTokens
  <2> HIDE DEF c
  <2>9. Genuine(c.token, c)
        /\ \A token \in Edits(c.token) \cup {c.token} :
              Genuine(token, c) => Accepted(token) = <<c.id, c.expires, c.difficulty>>
    BY <2>6, <2>7, <2>8, Zenon
  <2>10. QED
    BY <2>9, Zenon DEF OneChallenge, c, sig
<1>2. QED
  BY <1>1, TextsTyped, PTL

=============================================================================
