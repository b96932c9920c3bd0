---------------------------- MODULE MCTicketPage ----------------------------
(* Instances of TicketPage for TLC. *)
EXTENDS TicketPage, TLC

\* Sound for the safety properties: no action tells tickets, or requests, apart.
Symmetry == Permutations(TicketIds) \cup Permutations(Slots)
=============================================================================
