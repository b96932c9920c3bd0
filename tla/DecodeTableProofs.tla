-------------------------- MODULE DecodeTableProofs --------------------------
(***************************************************************************)
(* The lookup table of b64url_decode comes out right for any number of     *)
(* workers that fill it in at the same time, and for any alphabet.         *)
(***************************************************************************)
EXTENDS DecodeTable, TLAPS

\* A clear that is through with the one character that is not in the alphabet has
\* left it right, since nobody else writes anything else there.
Cleared == \A w \in Workers : stage[w] = "clear" /\ Letters \notin todo[w] =>
                                  rev[Letters] = NotInAlphabet

IInv == TypeOK /\ Cleared /\ Pending

\* The static table is empty and nobody relies on it.
LEMMA InitIInv == Init => IInv
<1> SUFFICES ASSUME Init PROVE IInv
    OBVIOUS
<1> USE DecodeTableAssumption
<1>1. TypeOK
    <2>1. 0 \in Chars /\ 0 \in -1..Letters /\ 0 \in 0..Letters
        BY DEF Chars
    <2>2. rev \in [Chars -> -1..Letters] /\ init \in BOOLEAN
        BY <2>1 DEF Init
    <2>3. stage \in [Workers -> Stages]
        BY DEF Init, Stages
    <2>4. /\ char \in [Workers -> Chars]
          /\ todo \in [Workers -> SUBSET Chars]
          /\ next \in [Workers -> 0..Letters]
          /\ value \in [Workers -> -1..Letters]
        BY <2>1 DEF Init
    <2> QED BY <2>2, <2>3, <2>4 DEF TypeOK
<1>2. Pending
    BY DEF Init, Pending
<1>3. Cleared
    BY DEF Init, Cleared
<1> QED BY <1>1, <1>2, <1>3 DEF IInv

\* A step keeps the types: the loop never writes past the alphabet.
LEMMA TypeStep == TypeOK /\ [Next]_vars => TypeOK'
<1> SUFFICES ASSUME TypeOK, [Next]_vars PROVE TypeOK'
    OBVIOUS
<1> USE DecodeTableAssumption DEF TypeOK, Stages, Chars
<1>1. ASSUME NEW w \in Workers, NEW c \in Chars, Call(w, c) PROVE TypeOK'
    BY <1>1 DEF Call
<1>2. ASSUME NEW w \in Workers, Check(w) PROVE TypeOK'
    BY <1>2 DEF Check, Goto, SizeOfRev
<1>3. ASSUME NEW w \in Workers, Clear(w) PROVE TypeOK'
    <2>1. PICK c \in todo[w] : /\ rev' = [rev EXCEPT ![c] = NotInAlphabet]
                               /\ todo' = [todo EXCEPT ![w] = todo[w] \ {c}]
        BY <1>3 DEF Clear
    <2>2. rev' \in [Chars -> -1..Letters]
        BY <2>1 DEF NotInAlphabet
    <2>3. todo' \in [Workers -> SUBSET Chars]
        BY <2>1
    <2>4. stage' \in [Workers -> Stages]
        BY <1>3 DEF Clear, Goto
    <2> QED BY <1>3, <2>2, <2>3, <2>4 DEF Clear
<1>4. ASSUME NEW w \in Workers, ClearEnds(w) PROVE TypeOK'
    BY <1>4 DEF ClearEnds, Goto
<1>5. ASSUME NEW w \in Workers, Fill(w) PROVE TypeOK'
    <2>1. next[w] \in 0..(Letters - 1)
        BY <1>5 DEF Fill, Filled
    <2>2. next[w] + 1 \in 0..Letters /\ next[w] \in -1..Letters
        BY <2>1
    <2>3. rev' \in [Chars -> -1..Letters]
        BY <1>5, <2>2 DEF Fill
    <2>4. next' \in [Workers -> 0..Letters]
        BY <1>5, <2>2 DEF Fill
    <2>5. stage' \in [Workers -> Stages]
        BY <1>5 DEF Fill, Goto
    <2> QED BY <1>5, <2>3, <2>4, <2>5 DEF Fill
<1>6. ASSUME NEW w \in Workers, FillEnds(w) PROVE TypeOK'
    BY <1>6 DEF FillEnds, Goto
<1>7. ASSUME NEW w \in Workers, Publish(w) PROVE TypeOK'
    BY <1>7 DEF Publish, Goto
<1>8. ASSUME NEW w \in Workers, Read(w) PROVE TypeOK'
    BY <1>8 DEF Read, Goto
<1>9. CASE UNCHANGED vars
    BY <1>9 DEF vars
<1> QED BY <1>1, <1>2, <1>3, <1>4, <1>5, <1>6, <1>7, <1>8, <1>9 DEF Next, Step

\* A fill is of a letter, and it is right.
LEMMA FillsLetter ==
    ASSUME TypeOK, NEW w \in Workers, Fill(w)
    PROVE  /\ stage[w] = "fill" /\ stage' = stage /\ init' = init
           /\ next[w] \in Alphabet /\ next[w] # Letters
           /\ rev' = [rev EXCEPT ![next[w]] = next[w]]
           /\ next' = [next EXCEPT ![w] = next[w] + 1]
    BY DecodeTableAssumption DEF TypeOK, Fill, Goto, Filled, Alphabet

\* A step keeps Cleared.
LEMMA ClearedStep == IInv /\ [Next]_vars => Cleared'
<1> SUFFICES ASSUME IInv, [Next]_vars PROVE Cleared'
    OBVIOUS
<1> USE DecodeTableAssumption DEF IInv, TypeOK, Cleared, Stages
<1>1. ASSUME NEW w \in Workers, NEW c \in Chars, Call(w, c) PROVE Cleared'
    BY <1>1 DEF Call
<1>2. ASSUME NEW w \in Workers, Check(w) PROVE Cleared'
    BY <1>2 DEF Check, Goto, SizeOfRev, Chars
<1>3. ASSUME NEW w \in Workers, Clear(w) PROVE Cleared'
    <2>1. PICK c \in todo[w] : /\ rev' = [rev EXCEPT ![c] = NotInAlphabet]
                               /\ todo' = [todo EXCEPT ![w] = todo[w] \ {c}]
        BY <1>3 DEF Clear
    <2>2. Letters \in Chars /\ stage' = stage
        BY <1>3 DEF Chars, Clear, Goto
    <2>3. rev[Letters] = NotInAlphabet => rev'[Letters] = NotInAlphabet
        BY <2>1, <2>2
    <2> QED BY <2>1, <2>2, <2>3
<1>4. ASSUME NEW w \in Workers, ClearEnds(w) PROVE Cleared'
    BY <1>4 DEF ClearEnds, Goto
<1>5. ASSUME NEW w \in Workers, Fill(w) PROVE Cleared'
    <2>1. Letters \in Chars /\ todo' = todo
        BY <1>5 DEF Chars, Fill
    <2> QED BY <1>5, <2>1, FillsLetter
<1>6. ASSUME NEW w \in Workers, FillEnds(w) PROVE Cleared'
    BY <1>6 DEF FillEnds, Goto
<1>7. ASSUME NEW w \in Workers, Publish(w) PROVE Cleared'
    BY <1>7 DEF Publish, Goto
<1>8. ASSUME NEW w \in Workers, Read(w) PROVE Cleared'
    BY <1>8 DEF Read, Goto
<1>9. CASE UNCHANGED vars
    BY <1>9 DEF vars
<1> QED BY <1>1, <1>2, <1>3, <1>4, <1>5, <1>6, <1>7, <1>8, <1>9 DEF Next, Step

\* The entry c is right, or some worker owes it.
Owed(c) ==
    \/ rev[c] = Decoded(c)
    \/ c \in Alphabet /\ \E w \in Workers :
          stage[w] = "clear" \/ (stage[w] = "fill" /\ next[w] <= c)

\* A step keeps Pending.  A clear owes every letter, and so does its worker when
\* it begins to fill; a fill pays the letter it owes; a worker that is through
\* owes none.
LEMMA PendingStep == IInv /\ [Next]_vars => Pending'
<1> SUFFICES ASSUME IInv, [Next]_vars PROVE Pending'
    OBVIOUS
<1> USE DecodeTableAssumption DEF IInv, TypeOK, Stages
<1>1. ASSUME NEW w \in Workers, NEW c \in Chars, Call(w, c) PROVE Pending'
    BY <1>1 DEF Call, Pending
<1>2. ASSUME NEW w \in Workers, Check(w) PROVE Pending'
    BY <1>2 DEF Check, Goto, Pending
<1>3. ASSUME NEW w \in Workers, Clear(w) PROVE Pending'
    <2>1. PICK d \in todo[w] : rev' = [rev EXCEPT ![d] = NotInAlphabet]
        BY <1>3 DEF Clear
    <2>2. stage[w] = "clear" /\ stage' = stage /\ init' = init /\ next' = next
        BY <1>3 DEF Clear, Goto
    <2>3. ASSUME NEW c \in Chars, Owed(c) PROVE Owed(c)'
        <3>1. CASE c \in Alphabet
            BY <2>2, <3>1 DEF Owed
        <3>2. CASE c \notin Alphabet
            BY <2>1, <2>3, <3>2 DEF Owed, Decoded
        <3> QED BY <3>1, <3>2
    <2> QED BY <2>2, <2>3 DEF Pending, Owed
<1>4. ASSUME NEW w \in Workers, ClearEnds(w) PROVE Pending'
    <2>1. /\ stage[w] = "clear" /\ todo[w] = {} /\ rev' = rev
          /\ stage' = [stage EXCEPT ![w] = "fill"] /\ next' = [next EXCEPT ![w] = 0]
        BY <1>4 DEF ClearEnds, Goto
    <2>2. ASSUME NEW c \in Chars PROVE Owed(c)'
        <3>1. CASE c \in Alphabet
            <4>1. stage'[w] = "fill" /\ next'[w] <= c
                BY <2>1, <3>1 DEF Alphabet
            <4> QED BY <3>1, <4>1 DEF Owed
        <3>2. CASE c \notin Alphabet
            <4>1. c = Letters
                BY <3>2 DEF Chars, Alphabet
            <4> QED BY <2>1, <3>2, <4>1 DEF Cleared, Owed, Decoded
        <3> QED BY <3>1, <3>2
    <2> QED BY <2>2 DEF Pending, Owed
<1>5. ASSUME NEW w \in Workers, Fill(w) PROVE Pending'
    <2>1. /\ stage[w] = "fill" /\ stage' = stage /\ init' = init
          /\ next[w] \in Alphabet
          /\ rev' = [rev EXCEPT ![next[w]] = next[w]]
          /\ next' = [next EXCEPT ![w] = next[w] + 1]
        BY <1>5, FillsLetter
    <2>2. ASSUME NEW c \in Chars, Owed(c) PROVE Owed(c)'
        <3>1. CASE c = next[w]
            BY <2>1, <3>1 DEF Decoded, Chars, Owed
        <3>2. CASE c # next[w] /\ rev[c] = Decoded(c)
            BY <2>1, <3>2 DEF Owed
        <3>3. CASE c # next[w] /\ rev[c] # Decoded(c)
            <4>1. c \in Alphabet
                BY <2>2, <3>3 DEF Owed
            <4>2. PICK v \in Workers : stage[v] = "clear" \/ (stage[v] = "fill" /\ next[v] <= c)
                BY <2>2, <3>3 DEF Owed
            <4>3. next[v] <= c => next'[v] <= c
                BY <2>1, <3>3, <4>1 DEF Alphabet
            <4> QED BY <2>1, <4>1, <4>2, <4>3 DEF Owed
        <3> QED BY <3>1, <3>2, <3>3
    <2> QED BY <2>1, <2>2 DEF Pending, Owed
<1>6. ASSUME NEW w \in Workers, FillEnds(w) PROVE Pending'
    BY <1>6 DEF FillEnds, Goto, Filled, Alphabet, Pending
<1>7. ASSUME NEW w \in Workers, Publish(w) PROVE Pending'
    BY <1>7 DEF Publish, Goto, Pending
<1>8. ASSUME NEW w \in Workers, Read(w) PROVE Pending'
    BY <1>8 DEF Read, Goto, Pending
<1>9. CASE UNCHANGED vars
    BY <1>9 DEF vars, Pending
<1> QED BY <1>1, <1>2, <1>3, <1>4, <1>5, <1>6, <1>7, <1>8, <1>9 DEF Next, Step

\* The invariant, in every behaviour.
THEOREM Invariance == Spec => []IInv
<1>1. IInv /\ [Next]_vars => IInv'
    BY TypeStep, ClearedStep, PendingStep DEF IInv
<1> QED BY InitIInv, <1>1, PTL DEF Spec

\* An entry that is not right is a letter some worker has yet to fill in
\* (challenge.cpp:48-52).
THEOREM WrongEntriesArePending == Spec => []Pending
    BY Invariance, PTL DEF IInv

\* Several first calls of b64url_decode at once leave the table right.
THEOREM TableComesOutRight == Spec => []TableSettles
<1>1. IInv => TableSettles
    BY DEF IInv, Pending, TableSettles
<1> QED BY Invariance, <1>1, PTL
=============================================================================
