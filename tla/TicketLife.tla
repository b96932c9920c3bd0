----------------------------- MODULE TicketLife -----------------------------
(***************************************************************************)
(* What the program promises about a ticket, with no word on threads,      *)
(* statements or restarts: a conversation that only grows, a turn that     *)
(* goes to the visitor only after the admin spoke, an admin who is silent  *)
(* once it is closed, and an end that takes the whole conversation along.  *)
(*                                                                         *)
(* A visitor may be heard after the close: the reply was accepted before   *)
(* it (the status is checked several statements before the append).        *)
(***************************************************************************)
EXTENDS Integers

CONSTANT TicketIds

VARIABLES
    phase,  \* phase[t]: "none", "awaiting_admin", "awaiting_visitor" or "closed"
    log     \* log[t]: the conversation, a set of [n |-> number, by |-> speaker]

lifeVars == <<phase, log>>

OpenPhases == {"awaiting_admin", "awaiting_visitor"}
Speakers == {"visitor", "admin"}

LifeInit ==
    /\ phase = [t \in TicketIds |-> "none"]
    /\ log = [t \in TicketIds |-> {}]

OpenTicket(t) ==
    /\ phase[t] = "none"
    /\ phase' = [phase EXCEPT ![t] = "awaiting_admin"]
    /\ UNCHANGED log

\* One entry is added at the end of one conversation.
Say(t, speaker) ==
    /\ \E e \in log'[t] :
          /\ e.by = speaker
          /\ \A u \in TicketIds : \A f \in log[u] : f.n < e.n
          /\ log' = [log EXCEPT ![t] = @ \cup {e}]
    /\ UNCHANGED phase

VisitorSays(t) == phase[t] # "none" /\ Say(t, "visitor")

AdminSays(t) == phase[t] \in OpenPhases /\ Say(t, "admin")

\* The turn goes to the other side only if this side has spoken.
PassTurn(t, turn, speaker) ==
    /\ phase[t] \in OpenPhases
    /\ \E e \in log[t] : e.by = speaker
    /\ phase' = [phase EXCEPT ![t] = turn]
    /\ UNCHANGED log

Close(t) ==
    /\ phase[t] \in OpenPhases
    /\ phase' = [phase EXCEPT ![t] = "closed"]
    /\ UNCHANGED log

Drop(gone) ==
    /\ phase' = [t \in TicketIds |-> IF t \in gone THEN "none" ELSE phase[t]]
    /\ log' = [t \in TicketIds |-> IF t \in gone THEN {} ELSE log[t]]

LifeNext ==
    \/ \E t \in TicketIds :
          \/ OpenTicket(t) \/ VisitorSays(t) \/ AdminSays(t) \/ Close(t)
          \/ PassTurn(t, "awaiting_visitor", "admin") \/ PassTurn(t, "awaiting_admin", "visitor")
    \/ \E gone \in SUBSET TicketIds : Drop(gone)

LifeSpec == LifeInit /\ [][LifeNext]_lifeVars
=============================================================================
