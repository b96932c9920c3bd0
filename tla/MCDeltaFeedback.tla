-------------------------- MODULE MCDeltaFeedback ---------------------------
(* Instances of DeltaFeedback for TLC. *)
EXTENDS DeltaFeedback, TLC

\* Workers, ticket ids, challenges and contacts are interchangeable: no action
\* and no property of a run that uses this set names one of them.
Symmetry ==
    Permutations(Workers) \cup Permutations(TicketIds)
        \cup Permutations(Challenges) \cup Permutations(Contacts)
=============================================================================
