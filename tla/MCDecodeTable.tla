--------------------------- MODULE MCDecodeTable ----------------------------
(* Instances of DecodeTable for TLC. *)
EXTENDS DecodeTable, TLC

\* Workers are interchangeable.
Symmetry == Permutations(Workers)
=============================================================================
