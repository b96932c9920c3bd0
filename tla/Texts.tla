-------------------------------- MODULE Texts --------------------------------
(***************************************************************************)
(* What the text functions of the program have in common.  A text is a     *)
(* sequence of units; a unit stands for a character, or for a run of them  *)
(* that no function takes apart.                                           *)
(***************************************************************************)
EXTENDS Integers, SequencesExt, FiniteSetsExt

Blank == " "

\* trim of admin_parse.cpp, admin_route.cpp, config.cpp and server.cpp.
Trim(s) ==
    LET from == SelectInSeq(s, LAMBDA c : c # Blank)
    IN  IF from = 0 THEN <<>> ELSE SubSeq(s, from, SelectLastInSeq(s, LAMBDA c : c # Blank))

\* find(unit), 0 for npos.
Find(s, unit) == SelectInSeq(s, LAMBDA c : c = unit)

\* What comes before and after a position.
Before(s, i) == SubSeq(s, 1, i - 1)
After(s, i) == SubSeq(s, i + 1, Len(s))

Occurrences(s, unit) == Cardinality({i \in DOMAIN s : s[i] = unit})
=============================================================================
