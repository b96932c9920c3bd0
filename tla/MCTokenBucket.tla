--------------------------- MODULE MCTokenBucket ----------------------------
(* Instances of TokenBucket for TLC. *)
EXTENDS TokenBucket, TLC

\* Workers and keys are interchangeable.
Symmetry == Permutations(Workers) \cup Permutations(Keys)
=============================================================================
