-------------------------------- MODULE Bot ---------------------------------
(***************************************************************************)
(* The admin's side: the event loop of the bot thread (dc/bot.cpp) with    *)
(* the registration of the owner, the routing of the admin's messages and  *)
(* the blocking of strangers.                                              *)
(*                                                                         *)
(* There is one bot thread and it finishes a message before it takes the   *)
(* next, but its statements interleave with those of the workers and of    *)
(* the purge.  An exception in it is not caught: it ends the process.      *)
(***************************************************************************)
EXTENDS Runtime

INSTANCE AdminRoute

VARIABLES
    bot,           \* the message the bot thread is handling
    blocked,       \* contacts blocked in the Delta Chat core
    firstContact   \* history: who wrote first since there was no owner

botVars == <<bot, blocked, firstContact>>

BotStages == {"idle", "persist", "get", "close", "append", "status"}

\* quoted is history: the ticket of the notification the admin quoted.
BotState == [stage : BotStages, kind : {"reply", "close", "none"},
             ticket : TicketIds \cup {None}, quoted : TicketIds \cup {None}, when : Nat]

BotIdle == [stage |-> "idle", kind |-> "none", ticket |-> None, quoted |-> None, when |-> 0]

BotTypeOK ==
    /\ bot \in BotState
    /\ blocked \subseteq Contacts
    /\ firstContact \in Contacts \cup {None}

BotInit ==
    /\ bot = BotIdle
    /\ blocked = {}
    /\ firstContact = None

BotAt(stage) == running /\ bot.stage = stage

\* Mutant of ClaimOwner: state.set is forgotten.
ClaimOwnerInMemory(from) ==
    /\ BotAt("idle")
    /\ owner = None
    /\ from \notin blocked
    /\ owner' = from
    /\ firstContact' = IF firstContact = None THEN from ELSE firstContact
    /\ UNCHANGED <<bot, blocked, dbVars, clock, running, outbox, lastDc>>

\* First contact wins: the handle is stored first, the database second.
ClaimOwner(from) ==
    /\ BotAt("idle")
    /\ owner = None
    /\ from \notin blocked
    /\ owner' = from
    /\ firstContact' = IF firstContact = None THEN from ELSE firstContact
    /\ bot' = [BotIdle EXCEPT !.stage = "persist"]
    /\ UNCHANGED <<blocked, dbVars, clock, running, outbox, lastDc>>

\* impl_->state.set("owner_contact_id", std::to_string(from)).
PersistOwner ==
    /\ BotAt("persist")
    /\ StateSet(owner)
    /\ bot' = BotIdle
    /\ UNCHANGED <<blocked, firstContact, runtimeVars>>

\* Mutant of Stranger: the comparison with the owner is lost.
AnyContact(from) == owner # None

\* Whom the loop neither registers nor listens to.
Stranger(from) == owner \notin {None, from}

\* A contact that is not the owner is blocked and hears nothing more.
BlockStranger(from) ==
    /\ BotAt("idle")
    /\ Stranger(from)
    /\ from \notin blocked
    /\ blocked' = blocked \cup {from}
    /\ UNCHANGED <<bot, firstContact, dbVars, runtimeVars>>

\* What the lookup of a quoted message may answer: the ticket of some row that
\* carries the id, or nothing where no row does.
Resolutions(dc) == IF TicketsByDcMsgId(dc) = {} THEN {None} ELSE TicketsByDcMsgId(dc)

\* The admin types the id of a ticket some notification named.
KnownIds == {n.ticket : n \in outbox}

\* The owner's message is routed; without a ticket, or with nothing to say, the
\* bot only answers with a hint and no state changes.
Handle(route, quoted) ==
    /\ BotAt("idle")
    /\ owner # None
    /\ route.ticket # None
    /\ route.body # "empty"
    /\ bot' = [stage |-> "get", kind |-> route.kind, ticket |-> route.ticket,
               quoted |-> quoted, when |-> 0]
    /\ UNCHANGED <<blocked, firstContact, dbVars, runtimeVars>>

\* The admin quotes notification n, from a device whose quote the core resolves
\* to the message id (synced) or from one of which only the quoted text arrives.
AdminQuotes(n, synced, typed, remainder) ==
    \E resolved \in IF synced THEN Resolutions(n.dc) ELSE {None} :
        Handle(RouteAdminMessage(resolved, typed, remainder, n.ticket),
               IF typed = None THEN n.ticket ELSE None)

\* The admin starts a message with an [ID] and quotes nothing.
AdminTypes(typed, remainder) == Handle(RouteAdminMessage(None, typed, remainder, None), None)

\* Mutant of AfterLookUp: the turn is passed and the append forgotten.
AfterLookUpNoAppend(kind) == IF kind = "close" THEN "close" ELSE "status"

AfterLookUp(kind) == IF kind = "close" THEN "close" ELSE "append"

\* Mutant of Answerable: the check for a closed ticket is left out.
AnswerableIfLive(t) == Live(t)

\* The ticket is found and not closed.
Answerable(t) == Open(t)

\* tickets.get, the answers "not found" and "closed", and the clock.
LookUpTicket ==
    /\ BotAt("get")
    /\ bot' = IF Answerable(bot.ticket)
              THEN [bot EXCEPT !.stage = AfterLookUp(bot.kind), !.when = clock]
              ELSE BotIdle
    /\ UNCHANGED <<blocked, firstContact, dbVars, runtimeVars>>

\* tickets.close.
CloseTicket ==
    /\ BotAt("close")
    /\ TicketClose(bot.ticket, bot.when)
    /\ bot' = BotIdle
    /\ UNCHANGED <<blocked, firstContact, runtimeVars>>

\* messages.append of the admin's reply.
AppendAdmin ==
    /\ BotAt("append")
    /\ MessageInsert(bot.ticket, "admin", bot.when)
    /\ bot' = [bot EXCEPT !.stage = "status"]
    /\ UNCHANGED <<blocked, firstContact, runtimeVars>>

\* The same, when the purge took the ticket since the lookup: the foreign key
\* fails, nothing catches the exception in this thread and std::terminate ends
\* the process.
AppendAdminThrows == BotAt("append") /\ ~Live(bot.ticket)

\* tickets.set_status(..., AwaitingVisitor).
PassToVisitor ==
    /\ BotAt("status")
    /\ TicketSetStatus(bot.ticket, "awaiting_visitor")
    /\ bot' = BotIdle
    /\ UNCHANGED <<blocked, firstContact, runtimeVars>>

\* A step of a message that is being handled.
BotWork == PersistOwner \/ LookUpTicket \/ CloseTicket \/ AppendAdmin \/ PassToVisitor
=============================================================================
