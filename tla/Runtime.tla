------------------------------- MODULE Runtime -------------------------------
(***************************************************************************)
(* What the threads of the running server share besides the database: the  *)
(* clock, the process itself, the OwnerHandle (dc/sender.h) and the Delta  *)
(* Chat core behind DcSender (dc/sender.cpp).                              *)
(*                                                                         *)
(* The core is external.  Of what it does the model keeps that a send to   *)
(* the owner may fail, that one that succeeds has a fresh message id which *)
(* survives restarts, and that the admin keeps every notification.         *)
(***************************************************************************)
EXTENDS Database

CONSTANTS
    MaxClock,  \* bound: the clock stops here
    MaxDc      \* bound: sends beyond this id fail

ASSUME RuntimeAssumption == MaxClock \in Nat /\ MaxDc \in Nat

VARIABLES
    clock,    \* unix time, in units the configuration chooses
    running,  \* the --run process is up
    owner,    \* OwnerHandle::contact_id, None for 0
    outbox,   \* notifications the admin holds
    lastDc    \* last message id of the Delta Chat core

runtimeVars == <<clock, running, owner, outbox, lastDc>>

Notification == [dc : Nat \ {0}, ticket : TicketIds, quote : Nat]

RuntimeTypeOK ==
    /\ clock \in Nat
    /\ running \in BOOLEAN
    /\ owner \in Contacts \cup {None}
    /\ outbox \subseteq Notification
    /\ lastDc \in Nat

RuntimeInit ==
    /\ clock = 1
    /\ running = TRUE
    /\ owner = None
    /\ outbox = {}
    /\ lastDc = 0

\* DcSender::send_to_owner when the core takes the message.
SendToOwner(ticket, quote) ==
    /\ owner # None
    /\ lastDc < MaxDc
    /\ lastDc' = lastDc + 1
    /\ outbox' = outbox \cup {[dc |-> lastDc + 1, ticket |-> ticket, quote |-> quote]}

\* DcSender::send_to_owner without an owner, a chat or a message id.
SendToOwnerFails == UNCHANGED <<lastDc, outbox>>

Tick ==
    /\ clock < MaxClock
    /\ clock' = clock + 1
=============================================================================
