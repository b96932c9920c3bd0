------------------------------- MODULE MCInputs -------------------------------
(* An instance of Inputs for TLC. *)
EXTENDS Inputs

MCLengths == [admin |-> 6, field |-> 4, address |-> 5, bytes |-> 3, value |-> 5, secret |-> 3, days |-> 4]

\* The limits of the page, one below and one above them.
MCLimits == {[message |-> m, name |-> n] : m \in {2, 3, 4}, n \in {1, 2, 3}}
=============================================================================
