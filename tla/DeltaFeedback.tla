--------------------------- MODULE DeltaFeedback ----------------------------
(***************************************************************************)
(* The whole program (main.cpp): the worker threads of the HTTP server     *)
(* (Service), the bot thread (Bot) and the purge thread over one database  *)
(* connection, with crashes and restarts of the process and with           *)
(* --reset-admin, which the operator runs while the server is down.        *)
(***************************************************************************)
EXTENDS Service, Bot

CONSTANTS
    Retention,    \* closed_ticket_retention_days
    PurgePeriod,  \* the hour the purge thread sleeps
    MaxMessages,  \* bound: nobody starts to write beyond this many messages
    MaxCrashes,   \* bound on crashes of the process
    MaxResets     \* bound on --reset-admin

ASSUME DeltaFeedbackAssumption ==
    /\ Retention \in Nat
    /\ PurgePeriod \in Nat
    /\ MaxMessages \in Nat
    /\ MaxCrashes \in Nat
    /\ MaxResets \in Nat

VARIABLES
    purge,    \* the purge thread: stage, and the time it last looked at the clock
    reset,    \* the --reset-admin process: "idle", or the table it deletes next
    crashes,
    resets

processVars == <<purge, reset, crashes, resets>>
vars == <<dbVars, runtimeVars, serviceVars, botVars, processVars>>

TypeOK ==
    /\ DatabaseTypeOK
    /\ RuntimeTypeOK
    /\ ServiceTypeOK
    /\ BotTypeOK
    /\ purge \in [stage : {"sleep", "tickets", "replay"}, now : Nat]
    /\ reset \in {"idle", "tickets", "replay"}
    /\ crashes \in Nat
    /\ resets \in Nat

Init ==
    /\ DatabaseInit
    /\ RuntimeInit
    /\ ServiceInit
    /\ BotInit
    /\ purge = [stage |-> "sleep", now |-> 1]
    /\ reset = "idle"
    /\ crashes = 0
    /\ resets = 0

-----------------------------------------------------------------------------
(* The purge thread *)

\* The sleep is over, and the clock is read once for both deletes.
PurgeWake ==
    /\ running
    /\ purge.stage = "sleep"
    /\ clock >= purge.now + PurgePeriod
    /\ purge' = [stage |-> "tickets", now |-> clock]
    /\ UNCHANGED <<dbVars, runtimeVars, serviceVars, botVars, reset, crashes, resets>>

PurgeTickets ==
    /\ running
    /\ purge.stage = "tickets"
    /\ TicketPurgeInactive(purge.now - Retention)
    /\ purge' = [purge EXCEPT !.stage = "replay"]
    /\ UNCHANGED <<runtimeVars, serviceVars, botVars, reset, crashes, resets>>

PurgeChallenges ==
    /\ running
    /\ purge.stage = "replay"
    /\ ReplayPurge(purge.now)
    /\ purge' = [purge EXCEPT !.stage = "sleep"]
    /\ UNCHANGED <<runtimeVars, serviceVars, botVars, reset, crashes, resets>>

PurgeStep == PurgeWake \/ PurgeTickets \/ PurgeChallenges

-----------------------------------------------------------------------------
(* The process *)

\* Everything the process kept in memory is gone; the files, the Delta Chat
\* core's included, are not.
ProcessEnds ==
    /\ running' = FALSE
    /\ owner' = None
    /\ work' = [w \in Workers |-> Idle]
    /\ bot' = BotIdle
    /\ purge' = [stage |-> "sleep", now |-> 0]
    /\ changes' = 0
    /\ lastRowid' = 0
    /\ UNCHANGED <<tickets, messages, lastMessageId, replay, storedOwner, clock, outbox, lastDc,
                   issued, drawn, told, accepted, blocked, firstContact, reset, resets>>

\* A power cut, a kill, or the _Exit(0) of the signal handler.
Crash ==
    /\ running
    /\ crashes < MaxCrashes
    /\ crashes' = crashes + 1
    /\ ProcessEnds

\* The bot thread dies of an uncaught exception and takes the process along.
Terminate ==
    /\ AppendAdminThrows
    /\ ProcessEnds
    /\ UNCHANGED crashes

\* Mutant of RestoredOwner: the constructor does not read the state table.
NoRestoredOwner == None

RestoredOwner == storedOwner

\* cmd_run: the bot's constructor restores the owner, and the purge thread
\* begins with its sleep.
Boot ==
    /\ ~running
    /\ reset = "idle"
    /\ running' = TRUE
    /\ owner' = RestoredOwner
    /\ purge' = [purge EXCEPT !.now = clock]
    /\ UNCHANGED <<dbVars, clock, outbox, lastDc, serviceVars, botVars, reset, crashes, resets>>

-----------------------------------------------------------------------------
(* --reset-admin: Bot::reset_owner_in_db, three statements of a connection *)
(* of its own and no transaction around them.  The next server may find    *)
(* any part of them done.                                                  *)

ResetOwner ==
    /\ ~running
    /\ reset = "idle"
    /\ resets < MaxResets
    /\ resets' = resets + 1
    /\ reset' = "tickets"
    /\ storedOwner' = None
    /\ firstContact' = None
    /\ UNCHANGED <<tickets, messages, lastMessageId, replay, connection, runtimeVars,
                   serviceVars, bot, blocked, purge, crashes>>

ResetTickets ==
    /\ reset = "tickets"
    /\ reset' = "replay"
    /\ DropTickets(TicketIds)
    /\ UNCHANGED <<lastMessageId, replay, storedOwner, connection, runtimeVars, serviceVars,
                   botVars, purge, crashes, resets>>

\* A solved challenge may be used anew from here on.
ResetChallenges ==
    /\ reset = "replay"
    /\ reset' = "idle"
    /\ replay' = [c \in Challenges |-> NoReplay]
    /\ accepted' = [c \in Challenges |-> 0]
    /\ UNCHANGED <<tickets, messages, lastMessageId, storedOwner, connection, runtimeVars,
                   issued, work, drawn, told, botVars, purge, crashes, resets>>

\* The process is killed between two of its statements, or a signal ends it
\* (main.cpp:326, signal_handler): what it has not deleted stays.
ResetKilled ==
    /\ reset # "idle"
    /\ reset' = "idle"
    /\ UNCHANGED <<dbVars, runtimeVars, serviceVars, botVars, purge, crashes, resets>>

ResetStep == ResetOwner \/ ResetTickets \/ ResetChallenges \/ ResetKilled

-----------------------------------------------------------------------------
(* The composition *)

\* Room for one message of everyone who may still write one, and an id for
\* every ticket that may still be opened.
HasRoom ==
    lastMessageId + Cardinality({w \in Workers : work[w] # Idle})
                  + (IF bot = BotIdle THEN 0 ELSE 1) < MaxMessages

HasIds ==
    Cardinality(drawn) + Cardinality({w \in Workers : work[w].kind = "submit"})
        < Cardinality(TicketIds)

VisitorStep ==
    /\ \/ \E c \in Challenges : IssueChallenge(c)
       \/ HasRoom /\ HasIds /\ \E w \in Workers, c \in Challenges : SubmitNew(w, c)
       \/ HasRoom /\ \E w \in Workers, t \in TicketIds, c \in Challenges : SubmitReply(w, t, c)
       \/ \E w \in Workers : RequestStep(w)
    /\ UNCHANGED <<botVars, processVars>>

BotStep ==
    /\ \/ \E from \in Contacts : ClaimOwner(from) \/ BlockStranger(from)
       \/ /\ \E remainder \in Remainders, typed \in KnownIds \cup {None} :
               \/ AdminTypes(typed, remainder)
               \/ \E n \in outbox, synced \in BOOLEAN : AdminQuotes(n, synced, typed, remainder)
          /\ bot'.kind = "close" \/ HasRoom
       \/ BotWork
    /\ UNCHANGED <<serviceVars, processVars>>

Pass == Tick /\ UNCHANGED <<running, owner, outbox, lastDc, dbVars, serviceVars, botVars, processVars>>

\* An idle server waits for the next request; what it refuses changes nothing.
Wait == running /\ bot = BotIdle /\ (\A w \in Workers : work[w] = Idle) /\ UNCHANGED vars

Next ==
    \/ VisitorStep \/ BotStep \/ PurgeStep
    \/ Crash \/ Terminate \/ Boot \/ ResetStep
    \/ Pass \/ Wait

Spec == Init /\ [][Next]_vars

\* The threads of a running server are scheduled, time passes, systemd brings
\* the server back after a failure, and a reset comes to an end, its own or
\* another.  Nothing is assumed of visitors, of the admin or of the Delta Chat
\* core.
Fairness ==
    /\ \A w \in Workers : WF_vars(RequestStep(w) /\ UNCHANGED <<botVars, processVars>>)
    /\ WF_vars((BotWork /\ UNCHANGED <<serviceVars, processVars>>) \/ Terminate)
    /\ WF_vars(PurgeStep)
    /\ WF_vars(Pass)
    /\ WF_vars(Boot)
    /\ WF_vars(ResetTickets \/ ResetChallenges \/ ResetKilled)

FairSpec == Spec /\ Fairness

-----------------------------------------------------------------------------
(* Properties of the composition *)

\* The program implements TicketLife: a ticket's phase is its status, and its
\* log is its rows (queries.h, and every handler that writes them).
Life == INSTANCE TicketLife WITH
    phase <- [t \in TicketIds |-> tickets[t].status],
    log <- [t \in TicketIds |-> {[n |-> m.id, by |-> m.sender] : m \in MessagesOf(t)}]

TicketLife == Life!LifeSpec

\* Every thread sees the owner that the next restart will restore, except
\* while the bot is between the two stores of bot.cpp:246-247.
OwnerInStep == running /\ bot.stage # "persist" => owner = storedOwner

\* Once stored, the admin is replaced only by --reset-admin: no restart and no
\* message of a stranger makes room for another one.
AdminNeverReplaced ==
    [][storedOwner # None => storedOwner' = storedOwner \/ reset' = "tickets"]_storedOwner

\* The bot never blocks the contact it serves, nor the one it will serve after
\* a restart.
OwnerNeverBlocked == {owner, storedOwner} \cap blocked = {}

\* README.md:18: outside of a reset a ticket goes only when nothing happened in
\* it for the whole retention, however long ago the purge read its clock.
PurgeOnlyInactive ==
    [][\A t \in TicketIds : Live(t) /\ ~Live(t)' /\ reset = "idle" =>
            LET events == {tickets[t].created, tickets[t].closed}
                              \cup {m.created : m \in MessagesOf(t)}
            IN  \A e \in events : e + Retention < clock]_vars

\* A reply the admin sends by quoting a notification is for the ticket of that
\* notification (messages.h:26-30).
QuotedReplyReachesItsTicket ==
    bot.quoted # None => bot.ticket = bot.quoted

\* A visitor may follow up only when it is the visitor's turn
\* (service.cpp:180-181, and the tests ReplyRequiresAwaitingVisitor and
\* ReplyRejectsClosed).
VisitorWaitsForTurn ==
    [][\A m \in messages' :
            /\ m.id > lastMessageId
            /\ m.sender = "visitor"
            /\ \E n \in MessagesOf(m.ticket) : n.sender = "visitor"
            => tickets[m.ticket].status = "awaiting_visitor"]_messages

\* Where nobody stops the server it stays up: a ticket that is deleted under
\* the admin's reply is answered with a hint (bot.cpp:79-82).
ServiceStaysUp == crashes = 0 => running

\* README.md:16-17: the first contact to message the bot becomes admin.
FirstContactIsAdmin == storedOwner # None => storedOwner = firstContact

\* bot.cpp:286: all tickets are dropped, "per spec, no carry-over".  A contact who
\* becomes admin finds no tickets of the one before.  Refuted where the reset is
\* killed after its first statement.
NoCarryOver ==
    [][storedOwner = None /\ storedOwner' # None => \A t \in TicketIds : ~Live(t)]_storedOwner

\* Nothing happened in t after a time that leaves the purge a whole period
\* before the clock stops.
Expiring(t) ==
    /\ Live(t)
    /\ ~(\E m \in MessagesOf(t) : m.created + Retention + PurgePeriod > MaxClock)
    /\ tickets[t].created + Retention + PurgePeriod <= MaxClock
    /\ tickets[t].closed + Retention + PurgePeriod <= MaxClock

\* The purge thread will wake once more before the clock stops.
PurgeToCome == running /\ purge.now + PurgePeriod <= MaxClock

\* An abandoned ticket is deleted, whichever side abandoned it, unless someone
\* speaks again or the process goes down: each start begins with the sleep.
InactiveTicketsPurged ==
    \A t \in TicketIds : Expiring(t) /\ PurgeToCome ~> ~Expiring(t) \/ ~running

\* service.cpp:150-151: a ticket whose notification could not be sent still
\* comes to the admin's knowledge once the bot can send again.
UnsentTicketRecoverable ==
    \A t \in TicketIds : MessagesOf(t) # {} ~> (\E n \in outbox : n.ticket = t) \/ ~Live(t)
=============================================================================
