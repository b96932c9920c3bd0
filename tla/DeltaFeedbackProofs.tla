------------------------- MODULE DeltaFeedbackProofs -------------------------
(***************************************************************************)
(* Theorems about the whole program, for any number of workers, tickets,   *)
(* challenges and contacts, any retention and any bounds.                  *)
(*                                                                         *)
(* IInv is inductive.  TypeOK alone is not: the type of a row an action    *)
(* writes depends on the ticket or challenge of the handler that writes    *)
(* it, which RequestsWellFormed and BotWellFormed tie to its stage.        *)
(***************************************************************************)
EXTENDS DeltaFeedback, HandlerProofs

IInv == TypeOK /\ ReferentialIntegrity /\ RequestsWellFormed /\ BotWellFormed

Goal == IInv' /\ ClosedRowsStay

-----------------------------------------------------------------------------

LEMMA InitIInv == Init => IInv
<1> SUFFICES ASSUME Init PROVE IInv
  OBVIOUS
<1> USE DEF Init
<1>1. DatabaseTypeOK /\ ReferentialIntegrity
  BY DEF DatabaseInit, DatabaseTypeOK, ReferentialIntegrity, TicketRow, Statuses, NoTicket,
         ReplayRow, NoReplay
<1>2. RuntimeTypeOK
  BY DEF RuntimeInit, RuntimeTypeOK
<1>3. ServiceTypeOK /\ RequestsWellFormed
  BY IdleIsRequest DEF ServiceInit, ServiceTypeOK, RequestsWellFormed
<1>4. BotTypeOK /\ BotWellFormed
  BY BotIdleIsState DEF BotInit, BotTypeOK, BotWellFormed
<1>5. QED
  BY <1>1, <1>2, <1>3, <1>4 DEF IInv, TypeOK

LEMMA VisitorStepSafe ==
    ASSUME IInv, VisitorStep
    PROVE  Goal
<1>1. ServiceInv
  BY DEF IInv, TypeOK, ServiceInv, DatabaseInv
<1>2. ServiceGoal
  BY <1>1, IssueChallengeSafe, SubmitNewSafe, SubmitReplySafe, RequestStepSafe
     DEF VisitorStep
<1>3. UNCHANGED <<bot, blocked, firstContact, purge, reset, crashes, resets>>
  BY DEF VisitorStep, botVars, processVars
<1>4. BotTypeOK' /\ BotWellFormed'
  BY <1>3 DEF IInv, TypeOK, BotTypeOK, BotWellFormed
<1>5. QED
  BY <1>2, <1>3, <1>4 DEF Goal, IInv, TypeOK, ServiceGoal, ServiceInv, DatabaseInv

LEMMA BotStepSafe ==
    ASSUME IInv, BotStep
    PROVE  Goal
<1>1. BotInv
  BY DEF IInv, TypeOK, BotInv, DatabaseInv
<1>2. KnownIds \subseteq TicketIds
  BY DEF IInv, TypeOK, RuntimeTypeOK, KnownIds, Notification
<1>3. BotGoal
  BY <1>1, <1>2, ClaimOwnerSafe, BlockStrangerSafe, AdminTypesSafe, AdminQuotesSafe,
     BotWorkSafe DEF BotStep
<1>4. UNCHANGED <<issued, work, drawn, told, accepted, purge, reset, crashes, resets>>
  BY DEF BotStep, serviceVars, processVars
<1>5. ServiceTypeOK' /\ RequestsWellFormed'
  BY <1>4 DEF IInv, TypeOK, ServiceTypeOK, RequestsWellFormed
<1>6. QED
  BY <1>3, <1>4, <1>5 DEF Goal, IInv, TypeOK, BotGoal, BotInv, DatabaseInv

\* What a step that leaves a component's variables alone keeps of it.
LEMMA ServiceUntouched ==
    ASSUME IInv, UNCHANGED serviceVars
    PROVE  ServiceTypeOK' /\ RequestsWellFormed'
  BY DEF IInv, TypeOK, ServiceTypeOK, RequestsWellFormed, serviceVars

LEMMA BotUntouched ==
    ASSUME IInv, UNCHANGED botVars
    PROVE  BotTypeOK' /\ BotWellFormed'
  BY DEF IInv, TypeOK, BotTypeOK, BotWellFormed, botVars

LEMMA RuntimeUntouched ==
    ASSUME IInv, UNCHANGED runtimeVars
    PROVE  RuntimeTypeOK'
  BY DEF IInv, TypeOK, RuntimeTypeOK, runtimeVars

LEMMA PurgeStepSafe ==
    ASSUME IInv, PurgeStep
    PROVE  Goal
<1> USE DEF PurgeStep, PurgeWake, PurgeTickets, PurgeChallenges
<1>1. DatabaseInv /\ purge \in [stage : {"sleep", "tickets", "replay"}, now : Nat]
  BY DEF IInv, TypeOK, DatabaseInv
<1>2. DatabaseInv' /\ ClosedRowsStay
  <2>1. purge.now - Retention \in Int /\ purge.now \in Nat
    BY <1>1, DeltaFeedbackAssumption
  <2>2. QED
    BY <1>1, <2>1, TablesUntouched, TicketPurgeInactiveSafe, ReplayPurgeSafe
<1>3. RuntimeTypeOK' /\ ServiceTypeOK' /\ RequestsWellFormed' /\ BotTypeOK' /\ BotWellFormed'
  BY RuntimeUntouched, ServiceUntouched, BotUntouched
<1>4. purge' \in [stage : {"sleep", "tickets", "replay"}, now : Nat]
  BY <1>1 DEF IInv, TypeOK, RuntimeTypeOK
<1>5. UNCHANGED <<reset, crashes, resets>>
  OBVIOUS
<1>6. QED
  BY <1>2, <1>3, <1>4, <1>5 DEF Goal, IInv, TypeOK, DatabaseInv

\* The end of the process, for whatever reason.
LEMMA ProcessEndsSafe ==
    ASSUME IInv, ProcessEnds, crashes' \in Nat
    PROVE  Goal
<1> USE DEF ProcessEnds
<1>1. DatabaseInv' /\ ClosedRowsStay
  BY OtherTablesSafe DEF IInv, TypeOK, DatabaseInv, DatabaseTypeOK
<1>2. RuntimeTypeOK'
  BY DEF IInv, TypeOK, RuntimeTypeOK
<1>3. ServiceTypeOK' /\ RequestsWellFormed'
  BY IdleIsRequest DEF IInv, TypeOK, ServiceTypeOK, RequestsWellFormed
<1>4. BotTypeOK' /\ BotWellFormed'
  BY BotIdleIsState DEF IInv, TypeOK, BotTypeOK, BotWellFormed
<1>5. QED
  BY <1>1, <1>2, <1>3, <1>4 DEF Goal, IInv, TypeOK, DatabaseInv

LEMMA BootSafe ==
    ASSUME IInv, Boot
    PROVE  Goal
<1> USE DEF Boot, RestoredOwner
<1>1. DatabaseInv' /\ ClosedRowsStay
  BY TablesUntouched DEF IInv, TypeOK, DatabaseInv
<1>2. RuntimeTypeOK'
  BY DEF IInv, TypeOK, RuntimeTypeOK, DatabaseTypeOK
<1>3. ServiceTypeOK' /\ RequestsWellFormed' /\ BotTypeOK' /\ BotWellFormed'
  BY ServiceUntouched, BotUntouched
<1>4. purge' \in [stage : {"sleep", "tickets", "replay"}, now : Nat]
  BY DEF IInv, TypeOK, RuntimeTypeOK
<1>5. QED
  BY <1>1, <1>2, <1>3, <1>4 DEF Goal, IInv, TypeOK, DatabaseInv

LEMMA ResetStepSafe ==
    ASSUME IInv, ResetStep
    PROVE  Goal
<1>1. CASE ResetOwner
  <2> USE <1>1 DEF ResetOwner
  <2>1. DatabaseInv' /\ ClosedRowsStay
    BY OtherTablesSafe DEF IInv, TypeOK, DatabaseInv, DatabaseTypeOK, connection
  <2>2. RuntimeTypeOK' /\ ServiceTypeOK' /\ RequestsWellFormed'
    BY RuntimeUntouched, ServiceUntouched
  <2>3. BotTypeOK' /\ BotWellFormed'
    BY DEF IInv, TypeOK, BotTypeOK, BotWellFormed
  <2>4. QED
    BY <2>1, <2>2, <2>3 DEF Goal, IInv, TypeOK, DatabaseInv
<1>2. CASE ResetTickets
  <2> USE <1>2 DEF ResetTickets
  <2>1. DatabaseInv' /\ ClosedRowsStay
    BY DropTicketsSafe DEF IInv, TypeOK, DatabaseInv, DatabaseTypeOK, connection
  <2>2. RuntimeTypeOK' /\ ServiceTypeOK' /\ RequestsWellFormed' /\ BotTypeOK' /\ BotWellFormed'
    BY RuntimeUntouched, ServiceUntouched, BotUntouched
  <2>3. QED
    BY <2>1, <2>2 DEF Goal, IInv, TypeOK, DatabaseInv
<1>3. CASE ResetChallenges
  <2> USE <1>3 DEF ResetChallenges
  <2>1. replay' \in [Challenges -> ReplayRow]
    BY DEF NoReplay, ReplayRow
  <2>2. DatabaseInv' /\ ClosedRowsStay
    BY <2>1, OtherTablesSafe DEF IInv, TypeOK, DatabaseInv, DatabaseTypeOK, connection
  <2>3. RuntimeTypeOK' /\ BotTypeOK' /\ BotWellFormed'
    BY RuntimeUntouched, BotUntouched
  <2>4. ServiceTypeOK' /\ RequestsWellFormed'
    BY DEF IInv, TypeOK, ServiceTypeOK, RequestsWellFormed
  <2>5. QED
    BY <2>2, <2>3, <2>4 DEF Goal, IInv, TypeOK, DatabaseInv
<1>4. CASE ResetKilled
  <2> USE <1>4 DEF ResetKilled
  <2>1. DatabaseInv' /\ ClosedRowsStay
    BY TablesUntouched DEF IInv, TypeOK, DatabaseInv
  <2>2. RuntimeTypeOK' /\ ServiceTypeOK' /\ RequestsWellFormed' /\ BotTypeOK' /\ BotWellFormed'
    BY <2>1, RuntimeUntouched, ServiceUntouched, BotUntouched
  <2>3. QED
    BY <2>1, <2>2 DEF Goal, IInv, TypeOK, DatabaseInv
<1>5. QED
  BY <1>1, <1>2, <1>3, <1>4 DEF ResetStep

LEMMA PassSafe ==
    ASSUME IInv, Pass
    PROVE  Goal
<1> USE DEF Pass, Tick
<1>1. DatabaseInv' /\ ClosedRowsStay
  BY TablesUntouched DEF IInv, TypeOK, DatabaseInv
<1>2. RuntimeTypeOK'
  BY DEF IInv, TypeOK, RuntimeTypeOK
<1>3. ServiceTypeOK' /\ RequestsWellFormed' /\ BotTypeOK' /\ BotWellFormed'
  BY ServiceUntouched, BotUntouched
<1>4. QED
  BY <1>1, <1>2, <1>3 DEF Goal, IInv, TypeOK, DatabaseInv, processVars

LEMMA StutterSafe ==
    ASSUME IInv, UNCHANGED vars
    PROVE  Goal
<1> USE DEF vars
<1>1. DatabaseInv' /\ ClosedRowsStay
  BY TablesUntouched DEF IInv, TypeOK, DatabaseInv
<1>2. RuntimeTypeOK' /\ ServiceTypeOK' /\ RequestsWellFormed' /\ BotTypeOK' /\ BotWellFormed'
  BY RuntimeUntouched, ServiceUntouched, BotUntouched
<1>3. QED
  BY <1>1, <1>2 DEF Goal, IInv, TypeOK, DatabaseInv, processVars

\* One step of the program, whoever takes it.
LEMMA NextSafe ==
    ASSUME IInv, [Next]_vars
    PROVE  Goal
<1>1. CASE VisitorStep
  BY <1>1, VisitorStepSafe
<1>2. CASE BotStep
  BY <1>2, BotStepSafe
<1>3. CASE PurgeStep
  BY <1>3, PurgeStepSafe
<1>4. CASE Crash \/ Terminate
  BY <1>4, ProcessEndsSafe DEF Crash, Terminate, IInv, TypeOK
<1>5. CASE Boot
  BY <1>5, BootSafe
<1>6. CASE ResetStep
  BY <1>6, ResetStepSafe
<1>7. CASE Pass
  BY <1>7, PassSafe
<1>8. CASE Wait \/ UNCHANGED vars
  BY <1>8, StutterSafe DEF Wait
<1>9. QED
  BY <1>1, <1>2, <1>3, <1>4, <1>5, <1>6, <1>7, <1>8 DEF Next

-----------------------------------------------------------------------------

\* The inductive invariant holds in every reachable state.
THEOREM Invariance == Spec => []IInv
<1>1. Init => IInv
  BY InitIInv
<1>2. IInv /\ [Next]_vars => IInv'
  BY NextSafe DEF Goal
<1>3. QED
  BY <1>1, <1>2, PTL DEF Spec

\* Every variable keeps its type: in particular no statement ever binds a
\* ticket or a challenge that its handler does not have.
THEOREM TypeCorrectness == Spec => []TypeOK
<1>1. IInv => TypeOK
  BY DEF IInv
<1>2. QED
  BY <1>1, Invariance, PTL

\* No message outlives its ticket, however the appends of the handlers
\* interleave with the purge and with --reset-admin.
THEOREM MessagesBelongToTickets == Spec => []ReferentialIntegrity
<1>1. IInv => ReferentialIntegrity
  BY DEF IInv
<1>2. QED
  BY <1>1, Invariance, PTL

\* A ticket the admin closed stays closed until it is deleted: a reply in
\* flight, of a visitor or of the admin, never reopens it.
THEOREM ClosedStaysClosed == Spec => ClosedIsFinal
<1>1. IInv /\ [Next]_vars =>
          [\A t \in TicketIds : tickets[t].status = "closed" =>
                tickets'[t] \in {tickets[t], NoTicket}]_tickets
  BY NextSafe DEF Goal, ClosedRowsStay
<1>2. QED
  BY <1>1, Invariance, PTL DEF Spec, ClosedIsFinal

-----------------------------------------------------------------------------
(* The owner *)

\* A contact is about to be stored only where none is, and what memory and
\* database hold is never a blocked contact.
OwnerInv ==
    /\ OwnerInStep
    /\ OwnerNeverBlocked
    /\ bot.stage = "persist" => storedOwner = None

OwnerGoal ==
    /\ OwnerInv'
    /\ storedOwner # None => storedOwner' = storedOwner \/ reset' = "tickets"

ownerVars == <<running, owner, storedOwner, bot, blocked>>

\* A step that touches none of it keeps it.
LEMMA OwnerUntouched ==
    ASSUME OwnerInv, UNCHANGED ownerVars
    PROVE  OwnerGoal
  BY DEF OwnerGoal, OwnerInv, OwnerInStep, OwnerNeverBlocked, ownerVars

LEMMA VisitorsLeaveOwner ==
    ASSUME VisitorStep
    PROVE  UNCHANGED ownerVars
<1> USE DEF ownerVars, dbVars, runtimeVars, connection
<1>1. ASSUME NEW w \in Workers, RequestStep(w)
      PROVE  UNCHANGED <<running, owner, storedOwner>>
  <2>1. CASE ClaimChallenge(w)
    BY <2>1 DEF ClaimChallenge, ReplayInsert
  <2>2. CASE JudgeClaim(w) \/ ReadQuote(w) \/ ReadRowid(w)
    BY <2>2 DEF JudgeClaim, ReadQuote, ReadRowid
  <2>3. CASE \E t \in TicketIds : InsertTicket(w, t) \/ InsertTicketCollides(w, t)
    BY <2>3 DEF InsertTicket, InsertTicketCollides, TicketInsert, TicketInsertFails
  <2>4. CASE AppendVisitor(w)
    BY <2>4 DEF AppendVisitor, MessageInsert, MessageInsertFails
  <2>5. CASE PassToAdmin(w)
    BY <2>5 DEF PassToAdmin, TicketSetStatus
  <2>6. CASE Notify(w)
    BY <2>6 DEF Notify
  <2>7. CASE BindNotification(w)
    BY <2>7 DEF BindNotification, MessageSetDcMsgId
  <2>8. QED
    BY <1>1, <2>1, <2>2, <2>3, <2>4, <2>5, <2>6, <2>7 DEF RequestStep
<1>2. UNCHANGED <<running, owner, storedOwner>>
  BY <1>1 DEF VisitorStep, IssueChallenge, SubmitNew, SubmitReply
<1>3. UNCHANGED <<bot, blocked>>
  BY DEF VisitorStep, botVars
<1>4. QED
  BY <1>2, <1>3

\* No other contact becomes the owner, is stored or blocked by mistake.
LEMMA BotKeepsOwner ==
    ASSUME IInv, OwnerInv, BotStep
    PROVE  OwnerGoal
<1> USE DEF OwnerGoal, OwnerInv, OwnerInStep, OwnerNeverBlocked, BotAt
<1>1. None \notin blocked
  BY DatabaseAssumption DEF IInv, TypeOK, BotTypeOK
<1>2. ASSUME NEW from \in Contacts, ClaimOwner(from)
      PROVE  OwnerGoal
  BY <1>1, <1>2 DEF ClaimOwner, dbVars
<1>3. ASSUME NEW from \in Contacts, BlockStranger(from)
      PROVE  OwnerGoal
  BY <1>3 DEF BlockStranger, Stranger, dbVars, runtimeVars
<1>4. ASSUME NEW route, NEW quoted, Handle(route, quoted)
      PROVE  OwnerGoal
  BY <1>4 DEF Handle, dbVars, runtimeVars
<1>5. CASE PersistOwner
  BY <1>5 DEF PersistOwner, StateSet, BotIdle, runtimeVars
<1>6. CASE LookUpTicket
  BY <1>6 DEF LookUpTicket, AfterLookUp, BotIdle, dbVars, runtimeVars
<1>7. CASE CloseTicket
  BY <1>7 DEF CloseTicket, TicketClose, BotIdle, runtimeVars
<1>8. CASE AppendAdmin
  BY <1>8 DEF AppendAdmin, MessageInsert, runtimeVars, IInv, TypeOK, BotTypeOK, BotState
<1>9. CASE PassToVisitor
  BY <1>9 DEF PassToVisitor, TicketSetStatus, BotIdle, runtimeVars
<1>10. QED
  BY <1>2, <1>3, <1>4, <1>5, <1>6, <1>7, <1>8, <1>9 DEF BotStep, BotWork, AdminTypes, AdminQuotes

LEMMA OwnerStep ==
    ASSUME IInv, OwnerInv, [Next]_vars
    PROVE  OwnerGoal
<1> USE DEF dbVars, runtimeVars, botVars, connection
<1>1. CASE VisitorStep
  BY <1>1, VisitorsLeaveOwner, OwnerUntouched
<1>2. CASE BotStep
  BY <1>2, BotKeepsOwner
<1>3. CASE PurgeStep
  BY <1>3, OwnerUntouched DEF PurgeStep, PurgeWake, PurgeTickets, PurgeChallenges,
     TicketPurgeInactive, ReplayPurge, ownerVars
<1>4. CASE Crash \/ Terminate
  BY <1>4, DatabaseAssumption DEF Crash, Terminate, ProcessEnds, BotIdle, OwnerGoal, OwnerInv,
     OwnerInStep, OwnerNeverBlocked, IInv, TypeOK, BotTypeOK
<1>5. CASE Boot
  BY <1>5 DEF Boot, RestoredOwner, OwnerGoal, OwnerInv, OwnerInStep, OwnerNeverBlocked
<1>6. CASE ResetStep
  <2>1. CASE ResetOwner
    BY <2>1, DatabaseAssumption DEF ResetOwner, OwnerGoal, OwnerInv, OwnerInStep,
       OwnerNeverBlocked, IInv, TypeOK, BotTypeOK
  <2>2. CASE ResetTickets \/ ResetChallenges \/ ResetKilled
    BY <2>2, OwnerUntouched DEF ResetTickets, ResetChallenges, ResetKilled, dbVars, runtimeVars,
       botVars, ownerVars
  <2>3. QED
    BY <1>6, <2>1, <2>2 DEF ResetStep
<1>7. CASE Pass \/ Wait \/ UNCHANGED vars
  BY <1>7, OwnerUntouched DEF Pass, Wait, vars, ownerVars
<1>8. QED
  BY <1>1, <1>2, <1>3, <1>4, <1>5, <1>6, <1>7 DEF Next

\* The owner is kept in step, in every behaviour.
LEMMA OwnerInvariance == Spec => [](IInv /\ OwnerInv)
<1>1. Init => IInv /\ OwnerInv
  BY InitIInv DEF Init, DatabaseInit, RuntimeInit, BotInit, BotIdle, OwnerInv, OwnerInStep,
     OwnerNeverBlocked
<1>2. IInv /\ OwnerInv /\ [Next]_vars => (IInv /\ OwnerInv)'
  BY NextSafe, OwnerStep DEF Goal, OwnerGoal
<1>3. QED
  BY <1>1, <1>2, PTL DEF Spec

\* What the threads of the server hold for the admin is what a restart will
\* restore, but for the window between the two stores of bot.cpp:246-247.
THEOREM MemoryAgreesWithDatabase == Spec => []OwnerInStep
<1>1. OwnerInv => OwnerInStep
  BY DEF OwnerInv
<1>2. QED
  BY <1>1, OwnerInvariance, PTL

\* The bot never blocks the admin, the one of now or the one of the next start.
THEOREM AdminIsHeard == Spec => []OwnerNeverBlocked
<1>1. OwnerInv => OwnerNeverBlocked
  BY DEF OwnerInv
<1>2. QED
  BY <1>1, OwnerInvariance, PTL

\* An admin who is stored stays the admin until --reset-admin, through any
\* number of crashes and whoever writes to the bot.
THEOREM AdminStays == Spec => AdminNeverReplaced
<1>1. IInv /\ OwnerInv /\ [Next]_vars =>
          [storedOwner # None => storedOwner' = storedOwner \/ reset' = "tickets"]_storedOwner
  BY OwnerStep DEF OwnerGoal
<1>2. QED
  BY <1>1, OwnerInvariance, PTL DEF Spec, AdminNeverReplaced

-----------------------------------------------------------------------------
(* The conversation *)

\* What a step may do to the tables of tickets and messages and to the ids
\* drawn, and which handler does it.
TablesKept == UNCHANGED <<tickets, messages, lastMessageId, drawn>>

Opened ==
    \E t \in TicketIds \ drawn :
        TicketInsert(t, clock) /\ drawn' = drawn \cup {t}

VisitorWrote ==
    \E w \in Workers :
        /\ At(w, "append") /\ drawn' = drawn
        /\ MessageInsert(work[w].ticket, "visitor", work[w].when)

AdminWrote ==
    /\ BotAt("append") /\ drawn' = drawn
    /\ MessageInsert(bot.ticket, "admin", bot.when)

Passed ==
    /\ drawn' = drawn
    /\ \/ \E w \in Workers : At(w, "status") /\ TicketSetStatus(work[w].ticket, "awaiting_admin")
       \/ BotAt("status") /\ TicketSetStatus(bot.ticket, "awaiting_visitor")

Bound ==
    \E w \in Workers :
        At(w, "bind") /\ MessageSetDcMsgId(work[w].row, work[w].dc) /\ drawn' = drawn

Closed == BotAt("close") /\ TicketClose(bot.ticket, bot.when) /\ drawn' = drawn

Dropped ==
    /\ PurgeTickets \/ ResetTickets
    /\ drawn' = drawn /\ lastMessageId' = lastMessageId
    /\ \E gone \in SUBSET TicketIds : DropTickets(gone)

\* Nothing else happens to them.
LEMMA TableSteps ==
    ASSUME IInv, [Next]_vars
    PROVE  \/ TablesKept \/ Opened \/ VisitorWrote \/ AdminWrote
           \/ Passed \/ Bound \/ Closed \/ Dropped
<1> USE DEF TablesKept, dbVars, serviceVars
<1>1. ASSUME NEW w \in Workers, RequestStep(w)
      PROVE  TablesKept \/ Opened \/ VisitorWrote \/ Passed \/ Bound
  <2>1. CASE ClaimChallenge(w)
    BY <2>1 DEF ClaimChallenge, ReplayInsert
  <2>2. CASE JudgeClaim(w) \/ ReadQuote(w) \/ ReadRowid(w)
    BY <2>2 DEF JudgeClaim, ReadQuote, ReadRowid
  <2>3. CASE \E t \in TicketIds : InsertTicket(w, t)
    BY <2>3 DEF InsertTicket, Opened
  <2>4. CASE \E t \in TicketIds : InsertTicketCollides(w, t)
    BY <2>4 DEF InsertTicketCollides, TicketInsertFails
  <2>5. CASE AppendVisitor(w)
    BY <2>5 DEF AppendVisitor, MessageInsertFails, VisitorWrote
  <2>6. CASE PassToAdmin(w)
    BY <2>6 DEF PassToAdmin, Passed
  <2>7. CASE Notify(w)
    BY <2>7 DEF Notify
  <2>8. CASE BindNotification(w)
    BY <2>8 DEF BindNotification, Bound
  <2>9. QED
    BY <1>1, <2>1, <2>2, <2>3, <2>4, <2>5, <2>6, <2>7, <2>8 DEF RequestStep
<1>2. CASE VisitorStep
  BY <1>1, <1>2 DEF VisitorStep, IssueChallenge, SubmitNew, SubmitReply
<1>3. CASE BotStep
  <2>1. drawn' = drawn
    BY <1>3 DEF BotStep
  <2>2. CASE BotWork
    BY <2>1, <2>2 DEF BotWork, PersistOwner, StateSet, LookUpTicket, CloseTicket, AppendAdmin,
       PassToVisitor, Closed, AdminWrote, Passed
  <2>3. QED
    BY <1>3, <2>1, <2>2 DEF BotStep, ClaimOwner, BlockStranger, AdminTypes, AdminQuotes, Handle
<1>4. CASE PurgeStep
  <2>1. CASE PurgeTickets
    BY <2>1 DEF PurgeTickets, TicketPurgeInactive, Dropped
  <2>2. CASE PurgeWake \/ PurgeChallenges
    BY <2>2 DEF PurgeWake, PurgeChallenges, ReplayPurge
  <2>3. QED
    BY <1>4, <2>1, <2>2 DEF PurgeStep
<1>5. CASE Crash \/ Terminate
  BY <1>5 DEF Crash, Terminate, ProcessEnds
<1>6. CASE ResetStep
  <2>1. CASE ResetTickets
    BY <2>1 DEF ResetTickets, Dropped
  <2>2. CASE ResetOwner \/ ResetChallenges \/ ResetKilled
    BY <2>2 DEF ResetOwner, ResetChallenges, ResetKilled, dbVars
  <2>3. QED
    BY <1>6, <2>1, <2>2 DEF ResetStep
<1>7. CASE Boot \/ Pass \/ Wait \/ UNCHANGED vars
  BY <1>7 DEF Boot, Pass, Wait, vars
<1>8. QED
  BY <1>2, <1>3, <1>4, <1>5, <1>6, <1>7 DEF Next

\* Tickets in which the visitor, or the admin, has written, or that are gone for
\* good: an id is not drawn twice.
VisitorSpoke ==
    {t \in drawn : Live(t) => \E m \in messages : m.ticket = t /\ m.sender = "visitor"}
AdminSpoke ==
    {t \in drawn : Live(t) => \E m \in messages : m.ticket = t /\ m.sender = "admin"}
Notified == {n.ticket : n \in outbox}

\* A request has written before it passes the turn, and sent before it binds.
RequestsTalk ==
    \A w \in Workers :
        /\ work[w].ticket \in drawn \cup {None}
        /\ work[w].stage \in {"rowid", "status", "send", "bind"} => work[w].ticket \in VisitorSpoke
        /\ work[w].stage = "bind" => work[w].ticket \in Notified

TalkInv ==
    /\ \A t \in TicketIds : Live(t) => t \in drawn
    /\ \A m \in messages : m.id <= lastMessageId
    /\ told \subseteq VisitorSpoke \cap Notified
    /\ RequestsTalk
    /\ bot.stage = "status" => bot.ticket \in AdminSpoke
    /\ bot.stage = "append" => tickets[bot.ticket].status # "closed"
    /\ \A t \in TicketIds : tickets[t].status = "awaiting_visitor" => t \in AdminSpoke

\* What was said stays said as long as the ticket lives.
LEMMA SpeechStays ==
    ASSUME IInv, TalkInv, [Next]_vars
    PROVE  /\ drawn \subseteq drawn'
           /\ VisitorSpoke \subseteq VisitorSpoke'
           /\ AdminSpoke \subseteq AdminSpoke'
<1> USE DEF VisitorSpoke, AdminSpoke, Live
<1>0. /\ tickets \in [TicketIds -> TicketRow] /\ messages \subseteq MessageRow
      /\ drawn \subseteq TicketIds
  BY DEF IInv, TypeOK, DatabaseTypeOK, ServiceTypeOK
<1>1. CASE TablesKept
  BY <1>1 DEF TablesKept
<1>2. CASE Opened
  BY <1>0, <1>2 DEF Opened, TicketInsert
<1>3. CASE VisitorWrote \/ AdminWrote
  BY <1>3 DEF VisitorWrote, AdminWrote, MessageInsert
<1>4. CASE Passed \/ Closed
  BY <1>0, <1>4 DEF Passed, Closed, TicketSetStatus, TicketClose, Open, OpenStatuses, TicketRow
<1>5. CASE Bound
  <2>1. \A m \in messages : \E n \in messages' : n.ticket = m.ticket /\ n.sender = m.sender
    BY <1>5, RowsKeepTheirAuthors DEF Bound, IInv, TypeOK
  <2>2. QED
    BY <1>5, <2>1 DEF Bound, MessageSetDcMsgId
<1>6. CASE Dropped
  BY <1>0, <1>6 DEF Dropped, DropTickets, NoTicket, MessageRow
<1>7. QED
  BY <1>1, <1>2, <1>3, <1>4, <1>5, <1>6, TableSteps

\* The admin keeps every notification.
LEMMA NotificationsStay ==
    ASSUME [Next]_vars
    PROVE  Notified \subseteq Notified'
<1>1. outbox \subseteq outbox'
  <2>1. ASSUME NEW w \in Workers, RequestStep(w)
        PROVE  outbox \subseteq outbox'
    BY <2>1 DEF RequestStep, ClaimChallenge, JudgeClaim, InsertTicket, InsertTicketCollides,
       ReadQuote, AppendVisitor, ReadRowid, PassToAdmin, Notify, SendToOwner, SendToOwnerFails,
       BindNotification, runtimeVars
  <2>2. CASE VisitorStep
    BY <2>1, <2>2 DEF VisitorStep, IssueChallenge, SubmitNew, SubmitReply, runtimeVars
  <2>3. CASE BotStep
    BY <2>3 DEF BotStep, BotWork, ClaimOwner, BlockStranger, AdminTypes, AdminQuotes, Handle,
       PersistOwner, LookUpTicket, CloseTicket, AppendAdmin, PassToVisitor, runtimeVars
  <2>4. CASE PurgeStep \/ Crash \/ Terminate \/ Boot \/ ResetStep
    BY <2>4 DEF PurgeStep, PurgeWake, PurgeTickets, PurgeChallenges, Crash, Terminate,
       ProcessEnds, Boot, ResetStep, ResetKilled, ResetOwner, ResetTickets, ResetChallenges, runtimeVars
  <2>5. CASE Pass \/ Wait \/ UNCHANGED vars
    BY <2>5 DEF Pass, Wait, vars, runtimeVars
  <2>6. QED
    BY <2>2, <2>3, <2>4, <2>5 DEF Next
<1>2. QED
  BY <1>1 DEF Notified

\* One request goes on, the others keep what they have.
LEMMA OneRequestTalks ==
    ASSUME IInv, TalkInv, [Next]_vars, NEW w \in Workers, NEW r,
           work' = [work EXCEPT ![w] = r],
           r.ticket \in drawn' \cup {None},
           r.stage \in {"rowid", "status", "send", "bind"} => r.ticket \in VisitorSpoke',
           r.stage = "bind" => r.ticket \in Notified'
    PROVE  RequestsTalk'
<1>1. work \in [Workers -> Request]
  BY DEF IInv, TypeOK, ServiceTypeOK
<1>2. QED
  BY <1>1, SpeechStays, NotificationsStay DEF TalkInv, RequestsTalk

LEMMA NobodyTalks ==
    ASSUME IInv, TalkInv, [Next]_vars, work' = work \/ work' = [w \in Workers |-> Idle]
    PROVE  RequestsTalk'
  BY SpeechStays, NotificationsStay DEF TalkInv, RequestsTalk, Idle

LEMMA RequestTalks ==
    ASSUME IInv, TalkInv, [Next]_vars, NEW w \in Workers, RequestStep(w)
    PROVE  RequestsTalk'
<1> DEFINE q == work[w]
<1>0. /\ q \in Request /\ work \in [Workers -> Request]
      /\ q.ticket \in drawn' \cup {None}
      /\ q.stage \in {"rowid", "status", "send", "bind"} => q.ticket \in VisitorSpoke'
      /\ q.stage = "bind" => q.ticket \in Notified'
  BY SpeechStays, NotificationsStay DEF TalkInv, RequestsTalk, IInv, TypeOK, ServiceTypeOK
<1>1. CASE Finish(w)
  BY <1>1, OneRequestTalks DEF Finish, Idle
<1>2. CASE ClaimChallenge(w)
  <2>1. work' = [work EXCEPT ![w] = [q EXCEPT !.stage = "changes"]]
    BY <1>2 DEF ClaimChallenge, Goto
  <2>2. QED
    BY <1>0, <2>1, OneRequestTalks DEF Request
<1>3. CASE JudgeClaim(w) /\ ~Finish(w)
  <2> DEFINE r == [q EXCEPT !.stage = AfterClaim(q.kind), !.challenge = None, !.when = clock]
  <2>1. work' = [work EXCEPT ![w] = r]
    BY <1>0, <1>3 DEF JudgeClaim, Refuse, Request
  <2>2. r.ticket = q.ticket /\ r.stage \in {"insert", "quote"}
    BY <1>0 DEF Request, AfterClaim
  <2> HIDE DEF r
  <2>3. QED
    BY <1>0, <2>1, <2>2, OneRequestTalks
<1>4. ASSUME NEW t \in TicketIds, InsertTicket(w, t)
      PROVE  RequestsTalk'
  <2> DEFINE r == [q EXCEPT !.stage = "append", !.ticket = t, !.when = clock]
  <2>1. work' = [work EXCEPT ![w] = r]
    BY <1>0, <1>4 DEF InsertTicket, Request
  <2>2. r.ticket \in drawn' /\ r.stage = "append"
    BY <1>0, <1>4 DEF InsertTicket, Request
  <2> HIDE DEF r
  <2>3. QED
    BY <2>1, <2>2, OneRequestTalks
<1>5. CASE ReadQuote(w)
  <2>1. PICK x : work' = [work EXCEPT ![w].stage = "append", ![w].quote = QuoteOrZero(x)]
    BY <1>5 DEF ReadQuote
  <2> DEFINE r == [q EXCEPT !.stage = "append", !.quote = QuoteOrZero(x)]
  <2>2. work' = [work EXCEPT ![w] = r]
    BY <1>0, <2>1 DEF Request
  <2>3. r.ticket = q.ticket /\ r.stage = "append"
    BY <1>0 DEF Request
  <2> HIDE DEF r
  <2>4. QED
    BY <1>0, <2>2, <2>3, OneRequestTalks
<1>6. CASE AppendVisitor(w) /\ ~Finish(w)
  <2> DEFINE r == [q EXCEPT !.stage = "rowid"]
  <2>1. work' = [work EXCEPT ![w] = r]
    BY <1>6 DEF AppendVisitor, Goto
  <2>2. r.ticket = q.ticket /\ r.stage = "rowid"
    BY <1>0 DEF Request
  <2>3. MessageInsert(q.ticket, "visitor", q.when) /\ drawn' = drawn /\ q.ticket \in TicketIds
    BY <1>6 DEF AppendVisitor, At, IInv, RequestsWellFormed
  <2>4. q.ticket \in VisitorSpoke'
    BY <2>3, InsertedIsThere DEF VisitorSpoke, TalkInv
  <2> HIDE DEF r
  <2>5. QED
    BY <1>0, <2>1, <2>2, <2>4, OneRequestTalks
<1>7. CASE ReadRowid(w)
  <2> DEFINE next == IF q.kind = "reply" THEN "status" ELSE "send"
             r == [q EXCEPT !.row = lastRowid, !.stage = next]
  <2>1. work' = [work EXCEPT ![w] = r]
    BY <1>0, <1>7 DEF ReadRowid, Request
  <2>2. r.ticket = q.ticket /\ r.stage \in {"status", "send"} /\ q.stage = "rowid"
    BY <1>0, <1>7 DEF Request, ReadRowid, At
  <2> HIDE DEF r
  <2>3. QED
    BY <1>0, <2>1, <2>2, OneRequestTalks
<1>8. CASE PassToAdmin(w)
  <2> DEFINE r == [q EXCEPT !.stage = "send"]
  <2>1. work' = [work EXCEPT ![w] = r]
    BY <1>8 DEF PassToAdmin, Goto
  <2>2. r.ticket = q.ticket /\ r.stage = "send" /\ q.stage = "status"
    BY <1>0, <1>8 DEF Request, PassToAdmin, At
  <2> HIDE DEF r
  <2>3. QED
    BY <1>0, <2>1, <2>2, OneRequestTalks
<1>9. CASE Notify(w) /\ ~Finish(w)
  <2> DEFINE r == [q EXCEPT !.stage = "bind", !.dc = lastDc']
  <2>1. work' = [work EXCEPT ![w] = r] /\ SendToOwner(q.ticket, q.quote)
    BY <1>0, <1>9 DEF Notify, SendFailed, Request
  <2>2. r.ticket = q.ticket /\ r.stage = "bind" /\ q.stage = "send"
    BY <1>0, <1>9 DEF Request, Notify, At
  <2>3. q.ticket \in Notified'
    <3> DEFINE n == [dc |-> lastDc + 1, ticket |-> q.ticket, quote |-> q.quote]
    <3>1. n \in outbox' /\ n.ticket = q.ticket
      BY <2>1 DEF SendToOwner
    <3> HIDE DEF n
    <3>2. QED
      BY <3>1 DEF Notified
  <2> HIDE DEF r
  <2>4. QED
    BY <1>0, <2>1, <2>2, <2>3, OneRequestTalks
<1>10. QED
  BY <1>1, <1>2, <1>3, <1>4, <1>5, <1>6, <1>7, <1>8, <1>9
     DEF RequestStep, InsertTicketCollides, BindNotification

LEMMA RequestsStayInTalk ==
    ASSUME IInv, TalkInv, [Next]_vars
    PROVE  RequestsTalk'
<1>1. CASE VisitorStep
  <2>1. CASE \E c \in Challenges : IssueChallenge(c)
    BY <2>1, NobodyTalks DEF IssueChallenge
  <2>2. ASSUME NEW w \in Workers, NEW c \in Challenges, SubmitNew(w, c)
        PROVE  RequestsTalk'
    <3> DEFINE r == [Idle EXCEPT !.stage = "consume", !.kind = "submit", !.challenge = c]
    <3>1. r.ticket = None /\ r.stage = "consume" /\ work' = [work EXCEPT ![w] = r]
      BY <2>2 DEF SubmitNew, Idle
    <3> HIDE DEF r
    <3>2. QED
      BY <3>1, OneRequestTalks
  <2>3. ASSUME NEW w \in Workers, NEW t \in TicketIds, NEW c \in Challenges,
               SubmitReply(w, t, c)
        PROVE  RequestsTalk'
    <3> DEFINE r == [Idle EXCEPT !.stage = "consume", !.kind = "reply", !.ticket = t,
                                 !.challenge = c]
    <3>1. r.ticket = t /\ r.stage = "consume" /\ work' = [work EXCEPT ![w] = r]
      BY <2>3 DEF SubmitReply, Idle
    <3>2. t \in drawn'
      BY <2>3, SpeechStays DEF SubmitReply, TalkInv, VisitorSpoke
    <3> HIDE DEF r
    <3>3. QED
      BY <3>1, <3>2, OneRequestTalks
  <2>4. QED
    BY <1>1, <2>1, <2>2, <2>3, RequestTalks DEF VisitorStep
<1>2. CASE BotStep
  BY <1>2, NobodyTalks DEF BotStep, serviceVars
<1>3. CASE PurgeStep \/ Crash \/ Terminate \/ Boot \/ ResetStep
  BY <1>3, NobodyTalks DEF PurgeStep, PurgeWake, PurgeTickets, PurgeChallenges, Crash, Terminate,
     ProcessEnds, Boot, ResetStep, ResetKilled, ResetOwner, ResetTickets, ResetChallenges, serviceVars
<1>4. CASE Pass \/ Wait \/ UNCHANGED vars
  BY <1>4, NobodyTalks DEF Pass, Wait, vars, serviceVars
<1>5. QED
  BY <1>1, <1>2, <1>3, <1>4 DEF Next

\* The rows of both tables keep to the ids drawn and to their numbering, and
\* only a ticket in which the admin spoke waits for the visitor.
LEMMA TablesStayInTalk ==
    ASSUME IInv, TalkInv, [Next]_vars
    PROVE  /\ \A t \in TicketIds : Live(t)' => t \in drawn'
           /\ \A m \in messages' : m.id <= lastMessageId'
           /\ \A t \in TicketIds : tickets'[t].status = "awaiting_visitor" => t \in AdminSpoke'
<1> USE DEF TalkInv, Live
<1>0. /\ tickets \in [TicketIds -> TicketRow] /\ messages \subseteq MessageRow
      /\ lastMessageId \in Nat /\ drawn \subseteq TicketIds
      /\ drawn \subseteq drawn' /\ AdminSpoke \subseteq AdminSpoke'
  BY SpeechStays DEF IInv, TypeOK, DatabaseTypeOK, ServiceTypeOK
<1>1. CASE TablesKept
  BY <1>0, <1>1 DEF TablesKept
<1>2. CASE Opened
  BY <1>0, <1>2 DEF Opened, TicketInsert
<1>3. CASE VisitorWrote \/ AdminWrote
  BY <1>0, <1>3 DEF VisitorWrote, AdminWrote, MessageInsert, MessageRow
<1>4. CASE Passed
  <2>1. /\ messages' = messages /\ lastMessageId' = lastMessageId /\ drawn' = drawn
        /\ \E t : /\ tickets' \in {tickets, [tickets EXCEPT ![t].status = "awaiting_admin"]}
                  \/ /\ t \in AdminSpoke
                     /\ tickets' \in {tickets, [tickets EXCEPT ![t].status = "awaiting_visitor"]}
    BY <1>4 DEF Passed, BotAt, TicketSetStatus
  <2>2. \A t \in TicketIds : Live(t)' => Live(t)
    BY <1>0, <1>4 DEF Passed, TicketSetStatus, Open, OpenStatuses, TicketRow
  <2>3. QED
    BY <1>0, <2>1, <2>2 DEF TicketRow
<1>5. CASE Bound
  <2>1. PICK w \in Workers : MessageSetDcMsgId(work[w].row, work[w].dc) /\ drawn' = drawn
    BY <1>5 DEF Bound
  <2>2. \A n \in messages' : \E m \in messages : n.id = m.id
    BY <2>1, RowsKeepTheirAuthors DEF IInv, TypeOK
  <2>3. tickets' = tickets /\ lastMessageId' = lastMessageId
    BY <2>1 DEF MessageSetDcMsgId
  <2>4. QED
    BY <1>0, <2>1, <2>2, <2>3
<1>6. CASE Closed
  BY <1>0, <1>6 DEF Closed, TicketClose, Open, OpenStatuses, TicketRow
<1>7. CASE Dropped
  BY <1>0, <1>7 DEF Dropped, DropTickets, NoTicket
<1>8. QED
  BY <1>1, <1>2, <1>3, <1>4, <1>5, <1>6, <1>7, TableSteps

\* A visitor is told only when the notification is bound.
LEMMA ToldStep ==
    ASSUME [Next]_vars
    PROVE  \/ told' = told
           \/ \E w \in Workers : At(w, "bind") /\ told' = told \cup {work[w].ticket}
<1>1. CASE VisitorStep
  BY <1>1 DEF VisitorStep, IssueChallenge, SubmitNew, SubmitReply, RequestStep, ClaimChallenge,
     JudgeClaim, InsertTicket, InsertTicketCollides, ReadQuote, AppendVisitor, ReadRowid,
     PassToAdmin, Notify, BindNotification
<1>2. CASE BotStep \/ PurgeStep \/ Crash \/ Terminate \/ Boot \/ ResetStep
  BY <1>2 DEF BotStep, PurgeStep, PurgeWake, PurgeTickets, PurgeChallenges, Crash, Terminate,
     ProcessEnds, Boot, ResetStep, ResetKilled, ResetOwner, ResetTickets, ResetChallenges, serviceVars
<1>3. CASE Pass \/ Wait \/ UNCHANGED vars
  BY <1>3 DEF Pass, Wait, vars, serviceVars
<1>4. QED
  BY <1>1, <1>2, <1>3 DEF Next

\* The bot passes the turn of a ticket in which the admin has just written.
LEMMA BotTalks ==
    ASSUME IInv, TalkInv, [Next]_vars
    PROVE  bot'.stage = "status" => bot'.ticket \in AdminSpoke'
<1>0. /\ bot \in BotState /\ AdminSpoke \subseteq AdminSpoke'
      /\ bot.stage = "status" => bot.ticket \in AdminSpoke
  BY SpeechStays DEF IInv, TypeOK, BotTypeOK, TalkInv
<1>1. CASE BotStep
  <2>1. CASE AppendAdmin
    <3>1. MessageInsert(bot.ticket, "admin", bot.when) /\ drawn' = drawn
      BY <1>1, <2>1 DEF AppendAdmin, BotStep, serviceVars
    <3>2. bot.ticket \in TicketIds
      BY <2>1 DEF AppendAdmin, BotAt, IInv, BotWellFormed
    <3>3. bot.ticket \in AdminSpoke'
      BY <3>1, <3>2, InsertedIsThere DEF AdminSpoke, TalkInv
    <3>4. QED
      BY <1>0, <2>1, <3>3 DEF AppendAdmin, BotState
  <2>2. CASE PersistOwner \/ CloseTicket \/ PassToVisitor
    BY <2>2 DEF PersistOwner, CloseTicket, PassToVisitor, BotIdle
  <2>3. CASE LookUpTicket
    BY <1>0, <2>3 DEF LookUpTicket, AfterLookUp, BotIdle, BotState
  <2>4. CASE \E from \in Contacts : ClaimOwner(from) \/ BlockStranger(from)
    BY <1>0, <2>4 DEF ClaimOwner, BotIdle, BlockStranger
  <2>5. ASSUME NEW route, NEW quoted, Handle(route, quoted)
        PROVE  bot'.stage = "get"
    BY <2>5 DEF Handle
  <2>6. QED
    BY <1>1, <2>1, <2>2, <2>3, <2>4, <2>5 DEF BotStep, BotWork, AdminTypes, AdminQuotes
<1>2. CASE VisitorStep \/ PurgeStep \/ Crash \/ Terminate \/ Boot \/ ResetStep
  BY <1>0, <1>2 DEF VisitorStep, PurgeStep, PurgeWake, PurgeTickets, PurgeChallenges, Crash,
     Terminate, ProcessEnds, BotIdle, Boot, ResetStep, ResetKilled, ResetOwner, ResetTickets, ResetChallenges,
     botVars
<1>3. CASE Pass \/ Wait \/ UNCHANGED vars
  BY <1>0, <1>3 DEF Pass, Wait, vars, botVars
<1>4. QED
  BY <1>1, <1>2, <1>3 DEF Next

\* What the bot looked up is not closed behind its back: nobody else closes.
LEMMA BotAnswersOpen ==
    ASSUME IInv, TalkInv, [Next]_vars
    PROVE  bot'.stage = "append" => tickets'[bot'.ticket].status # "closed"
<1>0. /\ bot \in BotState /\ tickets \in [TicketIds -> TicketRow]
      /\ bot.stage = "append" => bot.ticket \in TicketIds /\ tickets[bot.ticket].status # "closed"
  BY DEF IInv, TypeOK, BotTypeOK, DatabaseTypeOK, TalkInv, BotWellFormed
<1>1. bot' = bot \/ LookUpTicket \/ bot'.stage # "append"
  <2>1. CASE BotStep
    <3>1. CASE PersistOwner \/ CloseTicket \/ PassToVisitor
      BY <3>1 DEF PersistOwner, CloseTicket, PassToVisitor, BotIdle
    <3>2. CASE AppendAdmin
      BY <1>0, <3>2 DEF AppendAdmin, BotState
    <3>3. CASE \E from \in Contacts : ClaimOwner(from) \/ BlockStranger(from)
      BY <3>3 DEF ClaimOwner, BotIdle, BlockStranger
    <3>4. ASSUME NEW route, NEW quoted, Handle(route, quoted)
          PROVE  bot'.stage = "get"
      BY <3>4 DEF Handle
    <3>5. QED
      BY <2>1, <3>1, <3>2, <3>3, <3>4 DEF BotStep, BotWork, AdminTypes, AdminQuotes
  <2>2. CASE VisitorStep \/ PurgeStep \/ Crash \/ Terminate \/ Boot \/ ResetStep
    BY <2>2 DEF VisitorStep, PurgeStep, PurgeWake, PurgeTickets, PurgeChallenges, Crash,
       Terminate, ProcessEnds, BotIdle, Boot, ResetStep, ResetKilled, ResetOwner, ResetTickets,
       ResetChallenges, botVars
  <2>3. CASE Pass \/ Wait \/ UNCHANGED vars
    BY <2>3 DEF Pass, Wait, vars, botVars
  <2>4. QED
    BY <2>1, <2>2, <2>3 DEF Next
<1>2. CASE LookUpTicket
  BY <1>0, <1>2 DEF LookUpTicket, BotIdle, BotState, Answerable, Open, OpenStatuses, dbVars
<1>3. CASE bot.stage = "append" /\ bot' = bot
  <2> DEFINE t == bot.ticket
  <2>1. t \in TicketIds /\ tickets[t].status # "closed"
    BY <1>0, <1>3
  <2> SUFFICES tickets'[t].status # "closed"
    BY <1>3
  <2> HIDE DEF t
  <2>2. CASE TablesKept \/ VisitorWrote \/ AdminWrote \/ Bound
    BY <2>1, <2>2 DEF TablesKept, VisitorWrote, AdminWrote, Bound, MessageInsert, MessageSetDcMsgId
  <2>3. CASE Opened
    BY <1>0, <2>1, <2>3 DEF Opened, TicketInsert
  <2>4. CASE Passed
    <3>1. \E u, status : /\ status \in OpenStatuses
                         /\ tickets' \in {tickets, [tickets EXCEPT ![u].status = status]}
      BY <2>4 DEF Passed, TicketSetStatus, OpenStatuses
    <3>2. QED
      BY <1>0, <2>1, <3>1 DEF OpenStatuses, TicketRow
  <2>5. CASE Dropped
    BY <1>0, <2>1, <2>5 DEF Dropped, DropTickets, NoTicket
  <2>6. ~Closed
    BY <1>3 DEF Closed, BotAt
  <2>7. QED
    BY <2>2, <2>3, <2>4, <2>5, <2>6, TableSteps
<1>4. QED
  BY <1>1, <1>2, <1>3

LEMMA TalkStep ==
    ASSUME IInv, TalkInv, [Next]_vars
    PROVE  TalkInv'
<1>1. told' \subseteq VisitorSpoke' \cap Notified'
  <2>1. told' \subseteq VisitorSpoke \cap Notified
    BY ToldStep DEF TalkInv, RequestsTalk, At
  <2>2. QED
    BY <2>1, SpeechStays, NotificationsStay
<1>2. QED
  BY <1>1, TablesStayInTalk, RequestsStayInTalk, BotTalks, BotAnswersOpen DEF TalkInv, Live

LEMMA InitTalk == Init => TalkInv
  BY DEF Init, DatabaseInit, ServiceInit, BotInit, BotIdle, Idle, NoTicket, TalkInv,
     RequestsTalk, Live

LEMMA TalkInvariance == Spec => [](IInv /\ TalkInv)
<1>1. Init => IInv /\ TalkInv
  BY InitIInv, InitTalk
<1>2. IInv /\ TalkInv /\ [Next]_vars => (IInv /\ TalkInv)'
  BY NextSafe, TalkStep DEF Goal
<1>3. QED
  BY <1>1, <1>2, PTL DEF Spec

\* The visitor is asked to answer only where the admin has written, although the
\* message and the status are two statements and the purge runs between them.
THEOREM VisitorIsAskedAfterAdmin == Spec => []AdminSpokeFirst
<1>1. IInv /\ TalkInv => AdminSpokeFirst
  BY DEF TalkInv, AdminSpoke, Live, AdminSpokeFirst, MessagesOf
<1>2. QED
  BY <1>1, TalkInvariance, PTL

\* Who was answered Ok has reached the admin.
THEOREM OkIsNotified == Spec => []OkMeansAdminNotified
<1>1. IInv /\ TalkInv => OkMeansAdminNotified
  BY DEF TalkInv, VisitorSpoke, Notified, OkMeansAdminNotified, MessagesOf
<1>2. QED
  BY <1>1, TalkInvariance, PTL

-----------------------------------------------------------------------------
(* The abstract specification *)

\* The variables of TicketLife.
Phase == [t \in TicketIds |-> tickets[t].status]
Log == [t \in TicketIds |-> {[n |-> m.id, by |-> m.sender] : m \in MessagesOf(t)}]

\* What is in a log.
LEMMA LogEntries ==
    ASSUME NEW t \in TicketIds, NEW e
    PROVE  e \in Log[t] <=> \E m \in messages : m.ticket = t /\ e = [n |-> m.id, by |-> m.sender]
  BY DEF Log, MessagesOf

LEMMA SaidIsLogged ==
    ASSUME NEW t \in TicketIds, NEW m \in messages, m.ticket = t
    PROVE  \E e \in Log[t] : e.by = m.sender
<1> DEFINE e == [n |-> m.id, by |-> m.sender]
<1>1. e \in Log[t] /\ e.by = m.sender
  BY DEF Log, MessagesOf
<1> HIDE DEF e
<1>2. QED
  BY <1>1

\* A message that is inserted is said in its ticket, after all that was said.
LEMMA InsertSays ==
    ASSUME IInv, TalkInv, NEW t \in TicketIds, NEW sender \in {"visitor", "admin"}, NEW now,
           MessageInsert(t, sender, now)
    PROVE  Life!Say(t, sender) /\ Phase[t] # "none"
<1> DEFINE row == [id |-> lastMessageId + 1, ticket |-> t, sender |-> sender,
                   created |-> now, dc |-> 0]
           e == [n |-> lastMessageId + 1, by |-> sender]
<1>1. /\ messages' = messages \cup {row} /\ tickets' = tickets /\ Live(t)
      /\ row.ticket = t /\ e = [n |-> row.id, by |-> row.sender]
  BY DEF MessageInsert
<1>2. e.n = lastMessageId + 1 /\ e.by = sender
  OBVIOUS
<1> HIDE DEF row, e
<1>3. Log' = [Log EXCEPT ![t] = @ \cup {e}]
  <2>1. ASSUME NEW u \in TicketIds
        PROVE  Log'[u] = IF u = t THEN Log[u] \cup {e} ELSE Log[u]
    BY <1>1 DEF Log, MessagesOf
  <2>2. QED
    BY <2>1 DEF Log
<1>4. \A u \in TicketIds : \A f \in Log[u] : f.n < e.n
  <2>1. ASSUME NEW m \in messages PROVE m.id < e.n
    BY <1>2 DEF TalkInv, IInv, TypeOK, DatabaseTypeOK, MessageRow
  <2>2. QED
    BY <2>1, LogEntries
<1>5. e \in Log'[t]
  BY <1>3 DEF Log
<1>6. Phase' = Phase /\ Phase[t] # "none"
  BY <1>1 DEF Phase, Live
<1>7. QED
  BY <1>2, <1>3, <1>4, <1>5, <1>6 DEF Life!Say, Log, Phase

\* Every step of the program is one of TicketLife or leaves the tickets alone.
LEMMA LifeStep ==
    ASSUME IInv, TalkInv, [Next]_vars
    PROVE  Life!LifeNext \/ (Phase' = Phase /\ Log' = Log)
<1>0. /\ tickets \in [TicketIds -> TicketRow] /\ messages \subseteq MessageRow
      /\ drawn \subseteq TicketIds
  BY DEF IInv, TypeOK, DatabaseTypeOK, ServiceTypeOK
<1>1. CASE TablesKept
  BY <1>1 DEF TablesKept, Phase, Log, MessagesOf
<1>2. CASE Opened
  <2>1. PICK t \in TicketIds : TicketInsert(t, clock)
    BY <1>2 DEF Opened
  <2>2. Phase[t] = "none" /\ Phase' = [Phase EXCEPT ![t] = "awaiting_admin"] /\ Log' = Log
    BY <1>0, <2>1 DEF TicketInsert, Phase, Log, MessagesOf, Live
  <2>3. QED
    BY <2>2 DEF Life!LifeNext, Life!OpenTicket, Phase, Log
<1>3. CASE VisitorWrote
  <2>1. PICK w \in Workers :
            At(w, "append") /\ MessageInsert(work[w].ticket, "visitor", work[w].when)
    BY <1>3 DEF VisitorWrote
  <2>2. work[w].ticket \in TicketIds
    BY <2>1 DEF At, IInv, RequestsWellFormed
  <2>3. QED
    BY <2>1, <2>2, InsertSays DEF Life!LifeNext, Life!VisitorSays, Phase
<1>4. CASE AdminWrote
  <2>1. BotAt("append") /\ MessageInsert(bot.ticket, "admin", bot.when)
    BY <1>4 DEF AdminWrote
  <2>2. bot.ticket \in TicketIds
    BY <2>1 DEF BotAt, IInv, BotWellFormed
  <2>3. Phase[bot.ticket] # "closed"
    BY <2>1, <2>2 DEF BotAt, TalkInv, Phase
  <2>4. Phase[bot.ticket] \in OpenStatuses
    BY <1>0, <2>1, <2>2, <2>3, InsertSays DEF Phase, TicketRow, Statuses, OpenStatuses
  <2>5. QED
    BY <2>1, <2>2, <2>4, InsertSays
       DEF Life!LifeNext, Life!AdminSays, Life!OpenPhases, OpenStatuses, Phase
<1>5. CASE Passed
  <2>1. messages' = messages /\ Log' = Log
    BY <1>5 DEF Passed, TicketSetStatus, Log, MessagesOf
  <2>2. ASSUME NEW t \in TicketIds, NEW status, TicketSetStatus(t, status)
        PROVE  \/ Phase' = Phase
               \/ /\ Phase[t] \in OpenStatuses /\ Live(t)
                  /\ Phase' = [Phase EXCEPT ![t] = status]
    BY <1>0, <2>2 DEF TicketSetStatus, Phase, Open, OpenStatuses, Live, TicketRow
  <2>3. ASSUME NEW w \in Workers, At(w, "status"),
               TicketSetStatus(work[w].ticket, "awaiting_admin")
        PROVE  Life!LifeNext \/ Phase' = Phase
    <3> DEFINE t == work[w].ticket
    <3>1. t \in VisitorSpoke /\ t \in TicketIds
      BY <2>3 DEF At, TalkInv, RequestsTalk, IInv, RequestsWellFormed
    <3>2. Live(t) => \E e \in Log[t] : e.by = "visitor"
      BY <3>1, SaidIsLogged DEF VisitorSpoke
    <3> HIDE DEF t
    <3>3. QED
      BY <2>1, <2>2, <2>3, <3>1, <3>2
         DEF Life!LifeNext, Life!PassTurn, Life!OpenPhases, OpenStatuses, Phase, Log, t
  <2>4. ASSUME BotAt("status"), TicketSetStatus(bot.ticket, "awaiting_visitor")
        PROVE  Life!LifeNext \/ Phase' = Phase
    <3>1. bot.ticket \in AdminSpoke /\ bot.ticket \in TicketIds
      BY <2>4 DEF BotAt, TalkInv, IInv, BotWellFormed
    <3>2. Live(bot.ticket) => \E e \in Log[bot.ticket] : e.by = "admin"
      BY <3>1, SaidIsLogged DEF AdminSpoke
    <3>3. QED
      BY <2>1, <2>2, <2>4, <3>1, <3>2
         DEF Life!LifeNext, Life!PassTurn, Life!OpenPhases, OpenStatuses, Phase, Log
  <2>5. QED
    BY <1>5, <2>1, <2>3, <2>4 DEF Passed
<1>6. CASE Bound
  <2>1. PICK w \in Workers : MessageSetDcMsgId(work[w].row, work[w].dc)
    BY <1>6 DEF Bound
  <2>2. tickets' = tickets
    BY <2>1 DEF MessageSetDcMsgId
  <2>3. ASSUME NEW t \in TicketIds
        PROVE  Log'[t] = Log[t]
    BY <2>1, RowsKeepTheirAuthors DEF Log, MessagesOf, IInv, TypeOK
  <2>4. QED
    BY <2>2, <2>3 DEF Phase, Log
<1>7. CASE Closed
  <2>1. bot.ticket \in TicketIds /\ TicketClose(bot.ticket, bot.when)
    BY <1>7 DEF Closed, BotAt, IInv, BotWellFormed
  <2>2. \/ Phase' = Phase
        \/ /\ Phase[bot.ticket] \in OpenStatuses
           /\ Phase' = [Phase EXCEPT ![bot.ticket] = "closed"]
    BY <1>0, <2>1 DEF TicketClose, Phase, Open, TicketRow
  <2>3. Log' = Log
    BY <2>1 DEF TicketClose, Log, MessagesOf
  <2>4. QED
    BY <2>1, <2>2, <2>3 DEF Life!LifeNext, Life!Close, Life!OpenPhases, OpenStatuses, Phase, Log
<1>8. CASE Dropped
  <2>1. PICK gone \in SUBSET TicketIds : DropTickets(gone)
    BY <1>8 DEF Dropped
  <2>2. Phase' = [t \in TicketIds |-> IF t \in gone THEN "none" ELSE Phase[t]]
    BY <1>0, <2>1 DEF DropTickets, Phase, NoTicket
  <2>3. ASSUME NEW t \in TicketIds
        PROVE  Log'[t] = IF t \in gone THEN {} ELSE Log[t]
    BY <1>0, <2>1 DEF DropTickets, Log, MessagesOf, MessageRow
  <2>4. Log' = [t \in TicketIds |-> IF t \in gone THEN {} ELSE Log[t]]
    BY <2>3 DEF Log
  <2>5. QED
    BY <2>2, <2>4 DEF Life!LifeNext, Life!Drop, Phase, Log
<1>9. QED
  BY <1>1, <1>2, <1>3, <1>4, <1>5, <1>6, <1>7, <1>8, TableSteps

\* The program implements TicketLife: whatever threads, crashes and resets do,
\* a ticket lives as the abstract specification says.
THEOREM ImplementsTicketLife == Spec => TicketLife
<1>1. Init => Life!LifeInit
  BY DEF Init, DatabaseInit, NoTicket, MessagesOf, Life!LifeInit
<1>2. IInv /\ TalkInv /\ [Next]_vars => [Life!LifeNext]_(Life!lifeVars)
  BY LifeStep DEF Life!lifeVars, Phase, Log
<1>3. QED
  BY <1>1, <1>2, TalkInvariance, PTL DEF Spec, TicketLife, Life!LifeSpec

-----------------------------------------------------------------------------
(* The notifications *)

\* Rows are told apart by their ids, and the Delta Chat id a request is about
\* to bind is one no row and no other request has.
BindInv ==
    /\ \A m, n \in messages : m.id = n.id => m = n
    /\ \A m \in messages : m.dc <= lastDc
    /\ \A w \in Workers : work[w].stage = "bind" =>
          /\ work[w].dc \in 1..lastDc
          /\ \A m \in messages : m.dc # work[w].dc
          /\ \A v \in Workers : work[v].stage = "bind" /\ work[v].dc = work[w].dc => v = w
    /\ DcMsgIdsUnique

\* No request comes to its bind.
NoneToBind ==
    \A w \in Workers : work'[w].stage = "bind" => work[w].stage = "bind" /\ work'[w].dc = work[w].dc

OtherDcStep ==
    /\ lastDc' = lastDc /\ NoneToBind
    /\ messages' \subseteq messages \/ VisitorWrote \/ AdminWrote

\* Which steps deal with the ids.
LEMMA DcSteps ==
    ASSUME IInv, [Next]_vars
    PROVE  OtherDcStep \/ \E w \in Workers : BindNotification(w) \/ (Notify(w) /\ ~Finish(w))
<1> USE DEF OtherDcStep, NoneToBind
<1>0. work \in [Workers -> Request]
  BY DEF IInv, TypeOK, ServiceTypeOK
<1>1. ASSUME NEW w \in Workers, RequestStep(w), ~BindNotification(w), Notify(w) => Finish(w)
      PROVE  OtherDcStep
  <2>1. \/ Finish(w)
        \/ \E stage \in Stages \ {"bind"} : work'[w].stage = stage /\ \A v \in Workers \ {w} : work'[v] = work[v]
    <3> USE <1>0 DEF Goto, Request, Stages
    <3>1. CASE ClaimChallenge(w) \/ AppendVisitor(w) \/ PassToAdmin(w)
      BY <3>1 DEF ClaimChallenge, AppendVisitor, PassToAdmin
    <3>2. CASE JudgeClaim(w)
      BY <3>2 DEF JudgeClaim, Refuse, AfterClaim
    <3>3. CASE \E t \in TicketIds : InsertTicket(w, t) \/ InsertTicketCollides(w, t)
      BY <3>3 DEF InsertTicket, InsertTicketCollides
    <3>4. CASE ReadQuote(w) \/ ReadRowid(w)
      BY <3>4 DEF ReadQuote, ReadRowid
    <3>5. QED
      BY <1>1, <3>1, <3>2, <3>3, <3>4 DEF RequestStep
  <2>2. NoneToBind
    BY <1>0, <2>1 DEF Finish, Idle
  <2>3. lastDc' = lastDc
    <3>1. CASE Notify(w)
      <4>1. work'[w].stage = "idle"
        BY <1>0, <1>1, <3>1 DEF Finish, Idle
      <4>2. work'[w].stage = "bind" \/ SendToOwnerFails
        BY <1>0, <3>1 DEF Notify, Request
      <4>3. QED
        BY <4>1, <4>2 DEF SendToOwnerFails
    <3>2. QED
      BY <1>1, <3>1 DEF RequestStep, ClaimChallenge, JudgeClaim, InsertTicket,
         InsertTicketCollides, ReadQuote, AppendVisitor, ReadRowid, PassToAdmin, runtimeVars
  <2>4. messages' \subseteq messages \/ VisitorWrote
    BY <1>1 DEF RequestStep, ClaimChallenge, ReplayInsert, JudgeClaim, InsertTicket, TicketInsert,
       InsertTicketCollides, TicketInsertFails, ReadQuote, AppendVisitor, MessageInsertFails,
       VisitorWrote, ReadRowid, PassToAdmin, TicketSetStatus, Notify, dbVars
  <2>5. QED
    BY <2>2, <2>3, <2>4
<1>2. CASE VisitorStep
  <2>1. CASE \E c \in Challenges : IssueChallenge(c)
    BY <2>1 DEF IssueChallenge, dbVars, runtimeVars
  <2>2. ASSUME NEW w \in Workers, NEW t, NEW c, SubmitNew(w, c) \/ SubmitReply(w, t, c)
        PROVE  OtherDcStep
    BY <1>0, <2>2 DEF SubmitNew, SubmitReply, Idle, dbVars, runtimeVars
  <2>3. QED
    BY <1>1, <1>2, <2>1, <2>2 DEF VisitorStep
<1>3. CASE BotStep
  <2>1. work' = work /\ drawn' = drawn
    BY <1>3 DEF BotStep, serviceVars
  <2>2. ASSUME NEW from \in Contacts, ClaimOwner(from) \/ BlockStranger(from)
        PROVE  lastDc' = lastDc /\ messages' = messages
    BY <2>2 DEF ClaimOwner, BlockStranger, dbVars, runtimeVars
  <2>3. ASSUME NEW route, NEW quoted, Handle(route, quoted)
        PROVE  lastDc' = lastDc /\ messages' = messages
    BY <2>3 DEF Handle, dbVars, runtimeVars
  <2>4. CASE BotWork
    BY <2>1, <2>4 DEF BotWork, PersistOwner, StateSet, LookUpTicket, CloseTicket, TicketClose,
       AppendAdmin, AdminWrote, PassToVisitor, TicketSetStatus, dbVars, runtimeVars
  <2>5. QED
    BY <1>3, <2>1, <2>2, <2>3, <2>4 DEF BotStep, AdminTypes, AdminQuotes
<1>4. CASE PurgeStep
  BY <1>4 DEF PurgeStep, PurgeWake, PurgeTickets, TicketPurgeInactive, DropTickets, PurgeChallenges,
     ReplayPurge, dbVars, runtimeVars, serviceVars
<1>5. CASE Crash \/ Terminate \/ Boot
  BY <1>5 DEF Crash, Terminate, ProcessEnds, Idle, Boot, dbVars, serviceVars
<1>6. CASE ResetStep
  BY <1>6 DEF ResetStep, ResetKilled, ResetOwner, ResetTickets, DropTickets, ResetChallenges, dbVars,
     runtimeVars, serviceVars
<1>7. CASE Pass \/ Wait \/ UNCHANGED vars
  BY <1>7 DEF Pass, Wait, vars, dbVars, runtimeVars, serviceVars
<1>8. QED
  BY <1>2, <1>3, <1>4, <1>5, <1>6, <1>7 DEF Next

\* The ids stay apart: a fresh one is larger than all there are, and a bind
\* that hits the wrong row takes it to one row only.
LEMMA BindStep ==
    ASSUME IInv, TalkInv, BindInv, [Next]_vars
    PROVE  BindInv'
<1> USE DEF BindInv, DcMsgIdsUnique
<1>0. /\ messages \subseteq MessageRow /\ lastMessageId \in Nat /\ lastDc \in Nat
      /\ work \in [Workers -> Request]
      /\ \A m \in messages : m.id <= lastMessageId
  BY DEF IInv, TypeOK, DatabaseTypeOK, RuntimeTypeOK, ServiceTypeOK, TalkInv
<1>1. CASE OtherDcStep
  <2>1. CASE messages' \subseteq messages
    BY <1>0, <1>1, <2>1 DEF OtherDcStep, NoneToBind
  <2>2. CASE VisitorWrote \/ AdminWrote
    <3>1. PICK row : /\ messages' = messages \cup {row}
                     /\ row.id = lastMessageId + 1 /\ row.dc = 0
      BY <2>2, InsertedIsThere DEF VisitorWrote, AdminWrote
    <3>2. \A m \in messages : m.id # row.id
      BY <1>0, <3>1 DEF MessageRow
    <3>3. QED
      BY <1>0, <1>1, <3>1, <3>2 DEF OtherDcStep, NoneToBind
  <2>3. QED
    BY <1>1, <2>1, <2>2 DEF OtherDcStep
<1>2. ASSUME NEW w \in Workers, BindNotification(w)
      PROVE  BindInv'
  <2> DEFINE row == work[w].row
             dc == work[w].dc
             bound(m) == IF m.id = row THEN [m EXCEPT !.dc = dc] ELSE m
  <2>1. /\ messages' = {bound(m) : m \in messages} /\ lastDc' = lastDc
        /\ work' = [work EXCEPT ![w] = Idle] /\ work[w].stage = "bind"
    BY <1>2 DEF BindNotification, At, MessageSetDcMsgId, RowsWithId, Finish, runtimeVars
  <2>2. ASSUME NEW m \in messages
        PROVE  /\ bound(m).id = m.id
               /\ bound(m).dc = IF m.id = row THEN dc ELSE m.dc
    BY <1>0 DEF MessageRow
  <2>3. dc \in 1..lastDc /\ \A m \in messages : m.dc # dc
    BY <2>1
  <2>4. ASSUME NEW v \in Workers, work'[v].stage = "bind"
        PROVE  v # w /\ work'[v] = work[v] /\ work[v].dc # dc
    BY <1>0, <2>1, <2>4 DEF Idle
  <2> HIDE DEF bound, row, dc
  <2>5. \A m, n \in messages' : (m.id = n.id => m = n) /\ (m.dc = n.dc /\ m.dc # 0 => m = n)
    BY <2>1, <2>2, <2>3
  <2>6. \A m \in messages' : m.dc <= lastDc' /\ m.dc \in {dc} \cup {n.dc : n \in messages}
    BY <2>1, <2>2, <2>3
  <2>7. QED
    BY <2>1, <2>4, <2>5, <2>6
<1>3. ASSUME NEW w \in Workers, Notify(w), ~Finish(w)
      PROVE  BindInv'
  <2> DEFINE r == [work[w] EXCEPT !.stage = "bind", !.dc = lastDc']
  <2>1. messages' = messages /\ lastDc' = lastDc + 1 /\ work' = [work EXCEPT ![w] = r]
    BY <1>0, <1>3 DEF Notify, SendToOwner, SendFailed, dbVars, Request
  <2>2. r.stage = "bind" /\ r.dc = lastDc + 1
    BY <1>0, <2>1 DEF Request
  <2> HIDE DEF r
  <2>3. \A m \in messages : m.dc < lastDc + 1
    BY <1>0 DEF MessageRow
  <2>4. ASSUME NEW v \in Workers, work'[v].stage = "bind"
        PROVE  \/ v = w /\ work'[v].dc = lastDc + 1
               \/ v # w /\ work'[v] = work[v] /\ work[v].stage = "bind" /\ work[v].dc \in 1..lastDc
    BY <1>0, <2>1, <2>2, <2>4
  <2>5. ASSUME NEW v \in Workers, work'[v].stage = "bind"
        PROVE  /\ work'[v].dc \in 1..lastDc'
               /\ \A m \in messages' : m.dc # work'[v].dc
               /\ \A u \in Workers : work'[u].stage = "bind" /\ work'[u].dc = work'[v].dc => u = v
    BY <1>0, <2>1, <2>3, <2>4, <2>5
  <2>6. \A m \in messages' : m.dc <= lastDc'
    BY <1>0, <2>1 DEF MessageRow
  <2>7. QED
    BY <2>1, <2>5, <2>6
<1>4. QED
  BY <1>1, <1>2, <1>3, DcSteps

LEMMA BindInvariance == Spec => [](IInv /\ TalkInv /\ BindInv)
<1>1. Init => IInv /\ TalkInv /\ BindInv
  BY InitIInv, InitTalk DEF Init, DatabaseInit, ServiceInit, Idle, BindInv, DcMsgIdsUnique
<1>2. IInv /\ TalkInv /\ BindInv /\ [Next]_vars => (IInv /\ TalkInv /\ BindInv)'
  BY NextSafe, TalkStep, BindStep DEF Goal
<1>3. QED
  BY <1>1, <1>2, PTL DEF Spec

\* A message the admin quotes belongs to one row, although the column is not
\* unique and a notification may be bound to the row of another.
THEOREM QuotesHaveOneAnswer == Spec => []DcMsgIdsUnique
<1>1. BindInv => DcMsgIdsUnique
  BY DEF BindInv
<1>2. QED
  BY <1>1, BindInvariance, PTL

-----------------------------------------------------------------------------
(* Time *)

\* A process that is down works on nothing, a reset runs while it is down, and
\* what the purge thread takes for the time is not ahead of it.
ProcessInv ==
    /\ purge.now <= clock
    /\ ~running => \A w \in Workers : work[w] = Idle
    /\ reset # "idle" => ~running

\* Requests and the bot leave the process alone, and work while it runs.
LEMMA HandlersRun ==
    ASSUME VisitorStep \/ BotStep
    PROVE  running /\ UNCHANGED <<clock, running, purge, reset>>
<1>1. ASSUME NEW w \in Workers, RequestStep(w)
      PROVE  running /\ UNCHANGED <<clock, running>>
  BY <1>1 DEF RequestStep, At, ClaimChallenge, JudgeClaim, InsertTicket, InsertTicketCollides,
     ReadQuote, AppendVisitor, ReadRowid, PassToAdmin, Notify, BindNotification, runtimeVars
<1>2. CASE VisitorStep
  BY <1>1, <1>2 DEF VisitorStep, IssueChallenge, SubmitNew, SubmitReply, At, runtimeVars, processVars
<1>3. CASE BotStep
  <2>1. ASSUME NEW route, NEW quoted, Handle(route, quoted)
        PROVE  running /\ UNCHANGED <<clock, running>>
    BY <2>1 DEF Handle, BotAt, runtimeVars
  <2>2. ASSUME NEW from, ClaimOwner(from) \/ BlockStranger(from)
        PROVE  running /\ UNCHANGED <<clock, running>>
    BY <2>2 DEF ClaimOwner, BlockStranger, BotAt, runtimeVars
  <2>3. ASSUME BotWork
        PROVE  running /\ UNCHANGED <<clock, running>>
    BY <2>3 DEF BotWork, BotAt, PersistOwner, LookUpTicket, CloseTicket, AppendAdmin,
       PassToVisitor, runtimeVars
  <2>4. QED
    BY <1>3, <2>1, <2>2, <2>3 DEF BotStep, AdminTypes, AdminQuotes, processVars
<1>4. QED
  BY <1>2, <1>3

LEMMA ProcessStep ==
    ASSUME IInv, ProcessInv, [Next]_vars
    PROVE  ProcessInv' /\ clock <= clock'
<1> USE DEF ProcessInv
<1>0. clock \in Nat /\ purge.now \in Nat /\ purge \in [stage : {"sleep", "tickets", "replay"}, now : Nat]
  BY DEF IInv, TypeOK, RuntimeTypeOK
<1>1. CASE VisitorStep \/ BotStep
  BY <1>0, <1>1, HandlersRun
<1>2. CASE PurgeStep
  BY <1>0, <1>2 DEF PurgeStep, PurgeWake, PurgeTickets, PurgeChallenges, runtimeVars, serviceVars
<1>3. CASE Crash \/ Terminate
  BY <1>0, <1>3 DEF Crash, Terminate, ProcessEnds
<1>4. CASE Boot
  BY <1>0, <1>4 DEF Boot, serviceVars
<1>5. CASE ResetStep
  BY <1>0, <1>5 DEF ResetStep, ResetKilled, ResetOwner, ResetTickets, ResetChallenges, runtimeVars, serviceVars
<1>6. CASE Pass
  BY <1>0, <1>6 DEF Pass, Tick, processVars, serviceVars
<1>7. CASE Wait \/ UNCHANGED vars
  BY <1>0, <1>7 DEF Wait, vars, runtimeVars, serviceVars, processVars
<1>8. QED
  BY <1>1, <1>2, <1>3, <1>4, <1>5, <1>6, <1>7 DEF Next

\* No message is older than its ticket, nor will be one that is being written.
AgeInv ==
    /\ \A t \in TicketIds : tickets[t].created <= clock
    /\ \A m \in messages : tickets[m.ticket].created <= m.created
    /\ \A w \in Workers : work[w].stage \in {"quote", "append"} /\ work[w].ticket \in drawn =>
          tickets[work[w].ticket].created <= work[w].when
    /\ bot.stage = "append" =>
          bot.ticket \in drawn /\ tickets[bot.ticket].created <= bot.when

\* A ticket never gets younger, and a new one is born now.
LEMMA BirthsStay ==
    ASSUME IInv, TalkInv, [Next]_vars
    PROVE  /\ \A t \in drawn : tickets'[t].created <= tickets[t].created
           /\ \A t \in TicketIds :
                tickets'[t].created <= tickets[t].created \/ tickets'[t].created <= clock
<1>0. /\ tickets \in [TicketIds -> TicketRow] /\ drawn \subseteq TicketIds
      /\ \A t \in TicketIds : tickets[t].created \in Nat
      /\ clock \in Nat
  BY DEF IInv, TypeOK, DatabaseTypeOK, ServiceTypeOK, RuntimeTypeOK, TicketRow
<1>1. CASE tickets' = tickets
  BY <1>0, <1>1
<1>2. CASE Opened
  BY <1>0, <1>2 DEF Opened, TicketInsert
<1>3. ASSUME NEW u, NEW status, TicketSetStatus(u, status)
      PROVE  \A t \in TicketIds : tickets'[t].created = tickets[t].created
  BY <1>0, <1>3 DEF TicketSetStatus, TicketRow
<1>4. ASSUME NEW u, NEW now, TicketClose(u, now)
      PROVE  \A t \in TicketIds : tickets'[t].created = tickets[t].created
  BY <1>0, <1>4 DEF TicketClose, TicketRow
<1>5. CASE Passed \/ Closed
  <2>1. \A t \in TicketIds : tickets'[t].created = tickets[t].created
    BY <1>3, <1>4, <1>5 DEF Passed, Closed
  <2>2. QED
    BY <1>0, <2>1
<1>6. CASE Dropped
  BY <1>0, <1>6 DEF Dropped, DropTickets, NoTicket
<1>7. QED
  BY <1>1, <1>2, <1>5, <1>6, TableSteps
     DEF TablesKept, VisitorWrote, AdminWrote, Bound, MessageInsert, MessageSetDcMsgId

\* A message keeps its ticket and its time.
LEMMA MessagesAge ==
    ASSUME IInv, TalkInv, AgeInv, [Next]_vars
    PROVE  \A m \in messages' : tickets'[m.ticket].created <= m.created
<1>0. /\ tickets \in [TicketIds -> TicketRow] /\ tickets' \in [TicketIds -> TicketRow]
      /\ messages \subseteq MessageRow
      /\ \A t \in TicketIds : tickets[t].created \in Nat /\ tickets'[t].created \in Nat
  BY NextSafe DEF Goal, IInv, TypeOK, DatabaseTypeOK, TicketRow
<1>1. \A m \in messages : m.ticket \in drawn
  BY <1>0 DEF TalkInv, IInv, ReferentialIntegrity, MessageRow
<1>2. ASSUME NEW m \in messages
      PROVE  tickets'[m.ticket].created <= m.created
  <2>1. m.ticket \in TicketIds /\ m.created \in Nat
    BY <1>0 DEF MessageRow
  <2>2. /\ tickets'[m.ticket].created <= tickets[m.ticket].created
        /\ tickets[m.ticket].created <= m.created
    BY <1>1, BirthsStay DEF AgeInv
  <2>3. QED
    BY <1>0, <2>1, <2>2
<1>3. CASE messages' \subseteq messages
  BY <1>2, <1>3
<1>4. CASE Bound
  <2>1. PICK w \in Workers : MessageSetDcMsgId(work[w].row, work[w].dc)
    BY <1>4 DEF Bound
  <2> DEFINE bound(m) == IF m \in RowsWithId(work[w].row) THEN [m EXCEPT !.dc = work[w].dc] ELSE m
  <2>2. messages' = {bound(m) : m \in messages}
    BY <2>1 DEF MessageSetDcMsgId
  <2>3. \A m \in messages : bound(m).ticket = m.ticket /\ bound(m).created = m.created
    BY <1>0 DEF MessageRow
  <2> HIDE DEF bound
  <2>4. QED
    BY <1>2, <2>2, <2>3
<1>5. ASSUME NEW t, NEW sender, NEW now, MessageInsert(t, sender, now),
             t \in drawn => tickets[t].created <= now,
             t \in TicketIds
      PROVE  \A m \in messages' : tickets'[m.ticket].created <= m.created
  <2>1. PICK row : messages' = messages \cup {row} /\ row.ticket = t /\ row.created = now
    BY <1>5, InsertedIsThere
  <2>2. tickets' = tickets /\ t \in drawn
    BY <1>5 DEF MessageInsert, TalkInv
  <2>3. QED
    BY <1>2, <1>5, <2>1, <2>2
<1>6. CASE VisitorWrote
  <2>1. PICK w \in Workers : At(w, "append") /\ MessageInsert(work[w].ticket, "visitor", work[w].when)
    BY <1>6 DEF VisitorWrote
  <2>2. work[w].ticket \in TicketIds
    BY <2>1 DEF At, IInv, RequestsWellFormed
  <2>3. work[w].ticket \in drawn => tickets[work[w].ticket].created <= work[w].when
    BY <2>1 DEF At, AgeInv
  <2>4. QED
    BY <1>5, <2>1, <2>2, <2>3
<1>7. CASE AdminWrote
  <2>1. MessageInsert(bot.ticket, "admin", bot.when) /\ bot.stage = "append"
    BY <1>7 DEF AdminWrote, BotAt
  <2>2. bot.ticket \in TicketIds
    BY <2>1 DEF IInv, BotWellFormed
  <2>3. bot.ticket \in drawn => tickets[bot.ticket].created <= bot.when
    BY <2>1 DEF AgeInv
  <2>4. QED
    BY <1>5, <2>1, <2>2, <2>3
<1>8. QED
  BY <1>3, <1>4, <1>6, <1>7, TableSteps
     DEF TablesKept, Opened, TicketInsert, Passed, TicketSetStatus, Closed, TicketClose, Dropped, DropTickets

\* What a request or the bot is going to write is not older than its ticket.
RequestsAge ==
    \A w \in Workers : work[w].stage \in {"quote", "append"} /\ work[w].ticket \in drawn =>
        tickets[work[w].ticket].created <= work[w].when

LEMMA RequestAges ==
    ASSUME IInv, TalkInv, AgeInv, [Next]_vars, NEW w \in Workers, RequestStep(w)
    PROVE  RequestsAge'
<1> DEFINE q == work[w]
<1>0. /\ work \in [Workers -> Request] /\ drawn \subseteq TicketIds /\ None \notin TicketIds
      /\ clock \in Nat
      /\ \A t \in TicketIds : tickets[t].created \in Nat /\ tickets'[t].created \in Nat
      /\ \A v \in Workers : work[v].when \in Nat /\ work[v].ticket \in drawn \cup {None}
  BY NextSafe, DatabaseAssumption
     DEF Goal, IInv, TypeOK, DatabaseTypeOK, ServiceTypeOK, RuntimeTypeOK, TicketRow, Request,
         TalkInv, RequestsTalk
<1>1. ASSUME NEW v \in Workers, work[v].stage \in {"quote", "append"}, work[v].ticket \in drawn'
      PROVE  tickets'[work[v].ticket].created <= work[v].when
  <2>1. work[v].ticket \in drawn
    <3>1. drawn' \subseteq TicketIds
      BY NextSafe DEF Goal, IInv, TypeOK, ServiceTypeOK
    <3>2. QED
      BY <1>0, <1>1, <3>1
  <2>2. /\ tickets'[work[v].ticket].created <= tickets[work[v].ticket].created
        /\ tickets[work[v].ticket].created <= work[v].when
    BY <1>1, <2>1, BirthsStay DEF AgeInv
  <2>3. QED
    BY <1>0, <2>1, <2>2
<1>2. ASSUME NEW r, work' = [work EXCEPT ![w] = r],
             r.stage \in {"quote", "append"} /\ r.ticket \in drawn' =>
                 tickets'[r.ticket].created <= r.when
      PROVE  RequestsAge'
  BY <1>0, <1>1, <1>2 DEF RequestsAge
<1>3. CASE Finish(w)
  BY <1>2, <1>3 DEF Finish, Idle
<1>4. CASE ClaimChallenge(w) \/ PassToAdmin(w) \/ (AppendVisitor(w) /\ ~Finish(w))
  <2>1. PICK stage \in {"changes", "send", "rowid"} : work' = [work EXCEPT ![w] = [q EXCEPT !.stage = stage]]
    BY <1>4 DEF ClaimChallenge, PassToAdmin, AppendVisitor, Goto
  <2>2. QED
    BY <1>0, <1>2, <2>1 DEF Request
<1>5. CASE JudgeClaim(w) /\ ~Finish(w)
  <2> DEFINE r == [q EXCEPT !.stage = AfterClaim(q.kind), !.challenge = None, !.when = clock]
  <2>1. work' = [work EXCEPT ![w] = r] /\ tickets' = tickets /\ drawn' = drawn
    BY <1>5 DEF JudgeClaim, Refuse, dbVars
  <2>2. r.ticket = q.ticket /\ r.when = clock
    BY <1>0 DEF Request
  <2> HIDE DEF r
  <2>3. r.ticket \in drawn => tickets[r.ticket].created <= clock
    BY <1>0, <2>2 DEF AgeInv
  <2>4. QED
    BY <1>2, <2>1, <2>2, <2>3
<1>6. CASE \E t \in TicketIds : InsertTicket(w, t)
  <2>1. PICK t \in TicketIds : InsertTicket(w, t)
    BY <1>6
  <2> DEFINE r == [q EXCEPT !.stage = "append", !.ticket = t, !.when = clock]
  <2>2. work' = [work EXCEPT ![w] = r]
    BY <2>1 DEF InsertTicket
  <2>3. r.ticket = t /\ r.when = clock
    BY <1>0 DEF Request
  <2>4. tickets'[t].created = clock
    BY <2>1 DEF InsertTicket, TicketInsert, IInv, TypeOK, DatabaseTypeOK
  <2> HIDE DEF r
  <2>5. tickets'[r.ticket].created <= r.when
    BY <1>0, <2>3, <2>4
  <2>6. QED
    BY <1>2, <2>2, <2>5
<1>7. CASE ReadQuote(w)
  <2>1. PICK n : work' = [work EXCEPT ![w] = [q EXCEPT !.stage = "append", !.quote = n]]
    BY <1>7 DEF ReadQuote
  <2> DEFINE r == [q EXCEPT !.stage = "append", !.quote = n]
  <2>2. r.ticket = q.ticket /\ r.when = q.when /\ q.stage = "quote"
    BY <1>0, <1>7 DEF Request, ReadQuote, At
  <2>3. work' = [work EXCEPT ![w] = r]
    BY <2>1
  <2> HIDE DEF r
  <2>4. QED
    BY <1>1, <1>2, <2>2, <2>3
<1>8. CASE ReadRowid(w)
  <2>1. PICK stage \in {"status", "send"} : work' = [work EXCEPT ![w] = [q EXCEPT !.row = lastRowid, !.stage = stage]]
    BY <1>8 DEF ReadRowid
  <2>2. QED
    BY <1>0, <1>2, <2>1 DEF Request
<1>9. CASE Notify(w) /\ ~Finish(w)
  <2>1. work' = [work EXCEPT ![w] = [q EXCEPT !.stage = "bind", !.dc = lastDc']]
    BY <1>9 DEF Notify, SendFailed
  <2>2. QED
    BY <1>0, <1>2, <2>1 DEF Request
<1>10. QED
  BY <1>3, <1>4, <1>5, <1>6, <1>7, <1>8, <1>9 DEF RequestStep, InsertTicketCollides, BindNotification

LEMMA AgeStep ==
    ASSUME IInv, TalkInv, ProcessInv, AgeInv, [Next]_vars
    PROVE  AgeInv'
<1>0. /\ drawn \subseteq TicketIds /\ None \notin TicketIds
      /\ clock \in Nat /\ clock' \in Nat /\ clock <= clock' /\ bot.when \in Nat
      /\ \A t \in TicketIds : tickets[t].created \in Nat /\ tickets'[t].created \in Nat
      /\ \A w \in Workers : work[w].when \in Nat
  BY NextSafe, ProcessStep, DatabaseAssumption
     DEF Goal, IInv, TypeOK, DatabaseTypeOK, ServiceTypeOK, RuntimeTypeOK, BotTypeOK, BotState,
         TicketRow, Request
<1>1. \A t \in TicketIds : tickets'[t].created <= clock'
  BY <1>0, BirthsStay DEF AgeInv
<1>2. RequestsAge'
  <2>1. CASE \E w \in Workers : RequestStep(w)
    BY <2>1, RequestAges
  <2>2. ASSUME NEW w \in Workers, work'[w] = work[w], drawn' = drawn,
               work'[w].stage \in {"quote", "append"}, work'[w].ticket \in drawn'
        PROVE  tickets'[work'[w].ticket].created <= work'[w].when
    <3>1. /\ tickets'[work[w].ticket].created <= tickets[work[w].ticket].created
          /\ tickets[work[w].ticket].created <= work[w].when
      BY <2>2, BirthsStay DEF AgeInv
    <3>2. QED
      BY <1>0, <2>2, <3>1
  <2>3. CASE drawn' = drawn /\ \A w \in Workers : work'[w] = work[w] \/ work'[w].stage \in {"idle", "consume"}
    BY <2>2, <2>3 DEF RequestsAge
  <2>4. ASSUME NEW w \in Workers, NEW t, NEW c, SubmitNew(w, c) \/ SubmitReply(w, t, c)
        PROVE  drawn' = drawn /\ \A v \in Workers : work'[v] = work[v] \/ work'[v].stage = "consume"
    BY <2>4 DEF SubmitNew, SubmitReply, Idle, IInv, TypeOK, ServiceTypeOK
  <2>5. CASE VisitorStep
    BY <2>1, <2>3, <2>4, <2>5 DEF VisitorStep, IssueChallenge
  <2>6. CASE BotStep \/ PurgeStep \/ Pass \/ Wait \/ UNCHANGED vars
    BY <2>3, <2>6 DEF BotStep, PurgeStep, PurgeWake, PurgeTickets, PurgeChallenges, Pass, Wait, vars, serviceVars
  <2>7. CASE Crash \/ Terminate \/ Boot \/ ResetStep
    BY <2>3, <2>7 DEF Crash, Terminate, ProcessEnds, Boot, ResetStep, ResetKilled, ResetOwner, ResetTickets,
       ResetChallenges, serviceVars, Idle
  <2>8. QED
    BY <2>5, <2>6, <2>7 DEF Next
<1>3. bot'.stage = "append" => bot'.ticket \in drawn' /\ tickets'[bot'.ticket].created <= bot'.when
  <2>1. CASE bot' = bot
    <3>1. SUFFICES ASSUME bot.stage = "append"
                   PROVE  bot.ticket \in drawn' /\ tickets'[bot.ticket].created <= bot.when
      BY <2>1
    <3>2. bot.ticket \in drawn /\ tickets[bot.ticket].created <= bot.when
      BY <3>1 DEF AgeInv
    <3>3. bot.ticket \in drawn' /\ tickets'[bot.ticket].created <= tickets[bot.ticket].created
      BY <3>2, BirthsStay, SpeechStays
    <3>4. QED
      BY <1>0, <3>2, <3>3
  <2>2. CASE bot'.stage # "append"
    BY <2>2
  <2>3. CASE LookUpTicket /\ Answerable(bot.ticket) /\ drawn' = drawn
    <3>1. bot'.ticket = bot.ticket /\ bot'.when = clock /\ tickets' = tickets
      BY <2>3 DEF LookUpTicket, dbVars, IInv, TypeOK, BotTypeOK, BotState
    <3>2. bot.ticket \in TicketIds
      BY <2>3 DEF LookUpTicket, BotAt, IInv, BotWellFormed
    <3>3. bot.ticket \in drawn
      BY <2>3, <3>2 DEF Answerable, Open, OpenStatuses, Live, TalkInv
    <3>4. QED
      BY <2>3, <3>1, <3>2, <3>3 DEF AgeInv
  <2>4. CASE BotStep
    <3>1. ASSUME NEW from, ClaimOwner(from) \/ BlockStranger(from)
          PROVE  bot' = bot \/ bot'.stage # "append"
      BY <3>1 DEF ClaimOwner, BlockStranger, BotIdle
    <3>2. ASSUME NEW route, NEW quoted, Handle(route, quoted)
          PROVE  bot'.stage # "append"
      BY <3>2 DEF Handle
    <3>3. CASE PersistOwner \/ CloseTicket \/ AppendAdmin \/ PassToVisitor
      BY <2>2, <3>3 DEF PersistOwner, CloseTicket, AppendAdmin, PassToVisitor, BotIdle,
         IInv, TypeOK, BotTypeOK, BotState
    <3>4. CASE LookUpTicket
      BY <2>2, <2>3, <2>4, <3>4 DEF LookUpTicket, BotIdle, BotStep, serviceVars
    <3>5. QED
      BY <2>1, <2>2, <2>4, <3>1, <3>2, <3>3, <3>4 DEF BotStep, BotWork, AdminTypes, AdminQuotes
  <2>5. QED
    BY <2>1, <2>2, <2>4 DEF Next, VisitorStep, PurgeStep, PurgeWake, PurgeTickets, PurgeChallenges,
       Crash, Terminate, ProcessEnds, BotIdle, Boot, ResetStep, ResetKilled, ResetOwner, ResetTickets,
       ResetChallenges, Pass, Wait, vars, botVars
<1>4. QED
  BY <1>1, <1>2, <1>3, MessagesAge DEF AgeInv, RequestsAge

LEMMA InitAge == Init => ProcessInv /\ AgeInv
  BY DEF Init, DatabaseInit, RuntimeInit, ServiceInit, BotInit, ProcessInv, AgeInv, NoTicket,
     BotIdle, Idle

LEMMA AgeInvariance == Spec => [](IInv /\ TalkInv /\ ProcessInv /\ AgeInv)
<1>1. Init => IInv /\ TalkInv /\ ProcessInv /\ AgeInv
  BY InitIInv, InitTalk, InitAge
<1>2. IInv /\ TalkInv /\ ProcessInv /\ AgeInv /\ [Next]_vars
          => (IInv /\ TalkInv /\ ProcessInv /\ AgeInv)'
  BY NextSafe, TalkStep, ProcessStep, AgeStep DEF Goal
<1>3. QED
  BY <1>1, <1>2, PTL DEF Spec

\* What the purge takes, and when.
QuietFor(t) ==
    /\ Live(t) /\ ~Live(t)' /\ reset = "idle"
    => \A e \in {tickets[t].created, tickets[t].closed} \cup {m.created : m \in MessagesOf(t)} :
          e + Retention < clock

LEMMA DropsAreLate ==
    ASSUME IInv, TalkInv, ProcessInv, AgeInv, [Next]_vars, NEW t \in TicketIds
    PROVE  QuietFor(t)
<1> SUFFICES ASSUME Live(t), ~Live(t)', reset = "idle"
             PROVE  \A e \in {tickets[t].created, tickets[t].closed} \cup {m.created : m \in MessagesOf(t)} :
                        e + Retention < clock
  BY DEF QuietFor
<1>0. /\ tickets \in [TicketIds -> TicketRow] /\ messages \subseteq MessageRow
      /\ purge.now \in Nat /\ clock \in Nat /\ purge.now <= clock /\ Retention \in Nat
      /\ tickets[t].created \in Nat /\ tickets[t].closed \in Nat
  BY DeltaFeedbackAssumption
     DEF IInv, TypeOK, DatabaseTypeOK, RuntimeTypeOK, TicketRow, ProcessInv
<1>1. TicketPurgeInactive(purge.now - Retention)
  <2>1. Dropped
    <3>1. CASE tickets' = tickets
      BY <3>1 DEF Live
    <3>2. CASE Opened
      BY <1>0, <3>2 DEF Opened, TicketInsert, Live
    <3>3. ASSUME NEW u, NEW status \in {"awaiting_admin", "awaiting_visitor"}, TicketSetStatus(u, status)
          PROVE  FALSE
      BY <1>0, <3>3 DEF TicketSetStatus, Live, TicketRow
    <3>4. ASSUME NEW u, NEW now, TicketClose(u, now)
          PROVE  FALSE
      BY <1>0, <3>4 DEF TicketClose, Live, TicketRow
    <3>5. QED
      BY <3>1, <3>2, <3>3, <3>4, TableSteps
         DEF TablesKept, VisitorWrote, AdminWrote, Bound, MessageInsert, MessageSetDcMsgId, Passed, Closed
  <2>2. QED
    BY <2>1 DEF Dropped, PurgeTickets, ResetTickets
<1>2. Inactive(t, purge.now - Retention)
  BY <1>0, <1>1 DEF TicketPurgeInactive, DropTickets, Live
<1>3. tickets[t].closed + Retention < clock
  BY <1>0, <1>2 DEF Inactive
<1>4. ASSUME NEW m \in MessagesOf(t)
      PROVE  m.created + Retention < clock
  <2>1. m \in messages /\ m.created \in Nat /\ m.created < purge.now - Retention
    BY <1>0, <1>2, <1>4 DEF Inactive, MessagesOf, MessageRow
  <2>2. QED
    BY <1>0, <2>1
<1>5. tickets[t].created + Retention < clock
  <2>1. CASE MessagesOf(t) = {}
    BY <1>0, <1>2, <2>1 DEF Inactive
  <2>2. ASSUME NEW m \in MessagesOf(t)
        PROVE  tickets[t].created + Retention < clock
    <3>1. m.created \in Nat /\ tickets[t].created <= m.created
      BY <1>0, <2>2 DEF AgeInv, MessagesOf, MessageRow
    <3>2. QED
      BY <1>0, <1>4, <2>2, <3>1
  <2>3. QED
    BY <2>1, <2>2
<1>6. QED
  BY <1>3, <1>4, <1>5

\* Outside of a reset a ticket goes only when nothing happened in it for the
\* whole retention, however long ago the purge thread read its clock
\* (README.md:18, main.cpp:297-311, queries.h:76-81).
THEOREM PurgesAreLate == Spec => PurgeOnlyInactive
<1> DEFINE P == \A t \in TicketIds : QuietFor(t)
<1>1. IInv /\ TalkInv /\ ProcessInv /\ AgeInv /\ [Next]_vars => P
  BY DropsAreLate
<1>2. P => (\A t \in TicketIds : Live(t) /\ ~Live(t)' /\ reset = "idle" =>
            LET events == {tickets[t].created, tickets[t].closed}
                              \cup {m.created : m \in MessagesOf(t)}
            IN  \A e \in events : e + Retention < clock)
  BY DEF QuietFor
<1> HIDE DEF P
<1>3. QED
  BY <1>1, <1>2, AgeInvariance, PTL DEF Spec, PurgeOnlyInactive

-----------------------------------------------------------------------------
(* The challenges *)

\* A challenge that cannot be claimed again: its row is there, or it is dead.
Remembered == {c \in Challenges : issued[c] # 0 /\ (Consumed(c) \/ issued[c] < clock)}

\* Rows outlive the challenges they stand for, and who is about to be told
\* that a claim succeeded has left a row.
ClaimInv ==
    /\ \A c \in Challenges :
          /\ issued[c] <= clock + ChallengeTTL
          /\ Consumed(c) => issued[c] # 0 /\ issued[c] <= replay[c].expires
          /\ accepted[c] > 0 => c \in Remembered
    /\ \A w \in Workers :
          /\ work[w].stage = "consume" => issued[work[w].challenge] # 0
          /\ work[w].stage = "changes" => work[w].challenge \in Remembered

\* Steps that deal with no challenge.
OtherClaimStep ==
    /\ UNCHANGED <<issued, replay, accepted>>
    /\ \A w \in Workers : work'[w].stage \in {"consume", "changes"} => work'[w] = work[w]

ChallengeStep ==
    \/ \E c \in Challenges : IssueChallenge(c)
    \/ \E w \in Workers, c \in Challenges : SubmitNew(w, c)
    \/ \E w \in Workers, t \in TicketIds, c \in Challenges : SubmitReply(w, t, c)
    \/ \E w \in Workers : ClaimChallenge(w) \/ JudgeClaim(w)
    \/ PurgeChallenges \/ ResetChallenges

LEMMA ChallengeSteps ==
    ASSUME IInv, [Next]_vars
    PROVE  OtherClaimStep \/ ChallengeStep
<1> USE DEF OtherClaimStep, ChallengeStep
<1>0. work \in [Workers -> Request]
  BY DEF IInv, TypeOK, ServiceTypeOK
<1>1. ASSUME NEW w \in Workers, RequestStep(w), ~ClaimChallenge(w), ~JudgeClaim(w)
      PROVE  OtherClaimStep
  <2>1. UNCHANGED <<issued, replay, accepted>>
    BY <1>1 DEF RequestStep, InsertTicket, TicketInsert, InsertTicketCollides, TicketInsertFails,
       ReadQuote, AppendVisitor, MessageInsert, MessageInsertFails, ReadRowid, PassToAdmin,
       TicketSetStatus, Notify, BindNotification, MessageSetDcMsgId, dbVars
  <2>2. \A v \in Workers : work'[v].stage \in {"consume", "changes"} => work'[v] = work[v]
    <3> DEFINE q == work[w]
    <3>0. q \in Request
      BY <1>0
    <3>1. ASSUME NEW r, work' = [work EXCEPT ![w] = r], r.stage \notin {"consume", "changes"}
          PROVE  \A v \in Workers : work'[v].stage \in {"consume", "changes"} => work'[v] = work[v]
      BY <1>0, <3>1
    <3>2. CASE Finish(w)
      BY <3>1, <3>2 DEF Finish, Idle
    <3>3. CASE \E t \in TicketIds : InsertTicket(w, t)
      <4>1. PICK t : work' = [work EXCEPT ![w] = [q EXCEPT !.stage = "append", !.ticket = t, !.when = clock]]
        BY <3>3 DEF InsertTicket
      <4>2. QED
        BY <3>0, <3>1, <4>1 DEF Request
    <3>4. CASE ReadQuote(w)
      <4>1. PICK n : work' = [work EXCEPT ![w] = [q EXCEPT !.stage = "append", !.quote = n]]
        BY <3>4 DEF ReadQuote
      <4>2. QED
        BY <3>0, <3>1, <4>1 DEF Request
    <3>5. CASE (AppendVisitor(w) \/ PassToAdmin(w)) /\ ~Finish(w)
      <4>1. PICK stage \in {"rowid", "send"} : work' = [work EXCEPT ![w] = [q EXCEPT !.stage = stage]]
        BY <3>5 DEF AppendVisitor, PassToAdmin, Goto
      <4>2. QED
        BY <3>0, <3>1, <4>1 DEF Request
    <3>6. CASE ReadRowid(w)
      <4>1. PICK stage \in {"status", "send"} :
                work' = [work EXCEPT ![w] = [q EXCEPT !.row = lastRowid, !.stage = stage]]
        BY <3>6 DEF ReadRowid
      <4>2. QED
        BY <3>0, <3>1, <4>1 DEF Request
    <3>7. CASE Notify(w) /\ ~Finish(w)
      <4>1. work' = [work EXCEPT ![w] = [q EXCEPT !.stage = "bind", !.dc = lastDc']]
        BY <3>7 DEF Notify, SendFailed
      <4>2. QED
        BY <3>0, <3>1, <4>1 DEF Request
    <3>8. QED
      BY <1>1, <3>2, <3>3, <3>4, <3>5, <3>6, <3>7 DEF RequestStep, InsertTicketCollides, BindNotification
  <2>3. QED
    BY <2>1, <2>2
<1>2. CASE VisitorStep
  BY <1>1, <1>2 DEF VisitorStep
<1>3. CASE BotStep
  <2>1. UNCHANGED <<issued, accepted, work>>
    BY <1>3 DEF BotStep, serviceVars
  <2>2. replay' = replay
    <3>1. CASE BotWork
      BY <3>1 DEF BotWork, PersistOwner, StateSet, LookUpTicket, CloseTicket, TicketClose,
         AppendAdmin, MessageInsert, PassToVisitor, TicketSetStatus, dbVars
    <3>2. QED
      BY <1>3, <3>1 DEF BotStep, ClaimOwner, BlockStranger, AdminTypes, AdminQuotes, Handle, dbVars
  <2>3. QED
    BY <2>1, <2>2
<1>4. CASE PurgeStep
  BY <1>4 DEF PurgeStep, PurgeWake, PurgeTickets, TicketPurgeInactive, dbVars, serviceVars
<1>5. CASE Crash \/ Terminate
  BY <1>5 DEF Crash, Terminate, ProcessEnds, Idle
<1>6. CASE ResetStep
  BY <1>6 DEF ResetStep, ResetKilled, ResetOwner, ResetTickets, dbVars, serviceVars
<1>7. CASE Boot \/ Pass \/ Wait \/ UNCHANGED vars
  BY <1>7 DEF Boot, Pass, Wait, vars, dbVars, serviceVars
<1>8. QED
  BY <1>2, <1>3, <1>4, <1>5, <1>6, <1>7 DEF Next

\* What is remembered stays so while rows only come, or go when the challenge
\* is dead.
LEMMA RememberedStays ==
    ASSUME IInv, ProcessInv, ClaimInv, [Next]_vars, NEW c \in Challenges,
           issued'[c] = issued[c], replay'[c] = replay[c]
    PROVE  c \in Remembered => c \in Remembered'
<1>1. clock \in Nat /\ clock' \in Nat /\ clock <= clock' /\ issued[c] \in Nat
  BY NextSafe, ProcessStep DEF Goal, IInv, TypeOK, RuntimeTypeOK, ServiceTypeOK
<1>2. QED
  BY <1>1 DEF Remembered, Consumed

LEMMA ClaimStep ==
    ASSUME ChallengeTTL <= ReplayTTL, IInv, ProcessInv, ClaimInv, [Next]_vars
    PROVE  ClaimInv'
<1>0. /\ issued \in [Challenges -> Nat] /\ replay \in [Challenges -> ReplayRow]
      /\ accepted \in [Challenges -> 0..2] /\ work \in [Workers -> Request]
      /\ clock \in Nat /\ clock' \in Nat /\ clock <= clock' /\ purge.now \in Nat /\ purge.now <= clock
      /\ ChallengeTTL \in Nat /\ ReplayTTL \in Nat
      /\ \A w \in Workers : work[w].stage \in {"consume", "changes"} => work[w].challenge \in Challenges
  BY NextSafe, ProcessStep, ServiceAssumption
     DEF Goal, IInv, TypeOK, DatabaseTypeOK, ServiceTypeOK, RuntimeTypeOK, ProcessInv, RequestsWellFormed
<1>1. CASE OtherClaimStep
  <2>1. \A c \in Challenges : c \in Remembered => c \in Remembered'
    BY <1>1, RememberedStays DEF OtherClaimStep
  <2>2. QED
    BY <1>0, <1>1, <2>1 DEF OtherClaimStep, ClaimInv, Consumed
<1>2. ASSUME NEW c \in Challenges, IssueChallenge(c)
      PROVE  ClaimInv'
  <2>1. /\ issued' = [issued EXCEPT ![c] = clock + ChallengeTTL] /\ issued[c] = 0
        /\ UNCHANGED <<replay, accepted, work, clock>>
    BY <1>2 DEF IssueChallenge, dbVars, runtimeVars
  <2>2. c \notin Remembered /\ ~Consumed(c)
    BY <2>1 DEF ClaimInv, Remembered
  <2>3. \A d \in Challenges \ {c} : d \in Remembered => d \in Remembered'
    BY <1>0, <2>1, RememberedStays
  <2>4. \A d \in Challenges : issued[d] # 0 => issued'[d] # 0 /\ d # c
    BY <1>0, <2>1
  <2>5. ASSUME NEW d \in Challenges
        PROVE  /\ issued'[d] <= clock' + ChallengeTTL
               /\ Consumed(d)' => issued'[d] # 0 /\ issued'[d] <= replay'[d].expires
               /\ accepted'[d] > 0 => d \in Remembered'
    BY <1>0, <2>1, <2>2, <2>3 DEF ClaimInv, Consumed
  <2>6. QED
    BY <1>0, <2>1, <2>2, <2>3, <2>4, <2>5 DEF ClaimInv
<1>3. ASSUME NEW w \in Workers, NEW c \in Challenges, NEW t, SubmitNew(w, c) \/ SubmitReply(w, t, c)
      PROVE  ClaimInv'
  <2>1. /\ UNCHANGED <<issued, replay, accepted, clock>> /\ issued[c] # 0
        /\ \A v \in Workers \ {w} : work'[v] = work[v]
        /\ work'[w].stage = "consume" /\ work'[w].challenge = c
    BY <1>0, <1>3 DEF SubmitNew, SubmitReply, Valid, Idle, dbVars, runtimeVars
  <2>2. \A d \in Challenges : d \in Remembered => d \in Remembered'
    BY <2>1, RememberedStays
  <2>3. QED
    BY <1>0, <2>1, <2>2 DEF ClaimInv, Consumed
<1>4. ASSUME NEW w \in Workers, ClaimChallenge(w)
      PROVE  ClaimInv'
  <2>0. PICK c \in Challenges : c = work[w].challenge
    BY <1>0, <1>4 DEF ClaimChallenge, At
  <2> DEFINE rowid == NextRowid({replay[d].rowid : d \in Challenges})
  <2>1. /\ UNCHANGED <<issued, accepted, clock>> /\ issued[c] # 0
        /\ \A v \in Workers \ {w} : work'[v] = work[v]
        /\ work'[w].stage = "changes" /\ work'[w].challenge = c
    BY <1>0, <1>4, <2>0 DEF ClaimChallenge, At, Goto, ClaimInv, Request, runtimeVars
  <2>2. replay' = IF Consumed(c) THEN replay
                  ELSE [replay EXCEPT ![c] = [rowid |-> rowid, expires |-> clock + ReplayTTL]]
    BY <1>4, <2>0 DEF ClaimChallenge, ReplayInsert
  <2>3. rowid # 0
    <3>1. {replay[d].rowid : d \in Challenges} \in SUBSET Nat
      BY <1>0 DEF ReplayRow
    <3>2. QED
      BY <3>1, NextRowidType
  <2> HIDE DEF rowid
  <2>4. Consumed(c)' /\ issued[c] <= replay'[c].expires
    BY <1>0, <2>1, <2>2, <2>3 DEF ClaimInv, Consumed
  <2>5. c \in Remembered'
    BY <2>1, <2>4 DEF Remembered, Consumed
  <2>6. \A d \in Challenges \ {c} : replay'[d] = replay[d]
    BY <1>0, <2>1, <2>2
  <2>7. \A d \in Challenges : d \in Remembered => d \in Remembered'
    BY <2>1, <2>5, <2>6, RememberedStays
  <2>8. ASSUME NEW d \in Challenges
        PROVE  /\ issued'[d] <= clock' + ChallengeTTL
               /\ Consumed(d)' => issued'[d] # 0 /\ issued'[d] <= replay'[d].expires
               /\ accepted'[d] > 0 => d \in Remembered'
    BY <2>1, <2>4, <2>6, <2>7 DEF ClaimInv, Consumed
  <2>9. QED
    BY <1>0, <2>1, <2>5, <2>7, <2>8 DEF ClaimInv
<1>5. ASSUME NEW w \in Workers, JudgeClaim(w)
      PROVE  ClaimInv'
  <2> DEFINE c == work[w].challenge
  <2>1. /\ UNCHANGED <<issued, replay, clock>> /\ c \in Remembered
        /\ \A v \in Workers : work'[v] = work[v] \/ work'[v].stage \notin {"consume", "changes"}
        /\ \A d \in Challenges \ {c} : accepted'[d] = accepted[d]
    <3>1. UNCHANGED <<issued, replay, clock>> /\ c \in Remembered
      BY <1>5 DEF JudgeClaim, At, ClaimInv, dbVars, runtimeVars
    <3>2. work' = [work EXCEPT ![w] = Idle] \/ \E stage \in {"insert", "quote"} :
              work' = [work EXCEPT ![w] = [work[w] EXCEPT !.stage = stage, !.challenge = None, !.when = clock]]
      BY <1>5 DEF JudgeClaim, Refuse, Finish, AfterClaim
    <3>3. ASSUME NEW v \in Workers
          PROVE  work'[v] = work[v] \/ work'[v].stage \notin {"consume", "changes"}
      <4>1. CASE v = w
        <5>1. work[w] \in Request
          BY <1>0
        <5>2. CASE work' = [work EXCEPT ![w] = Idle]
          BY <1>0, <4>1, <5>2 DEF Idle
        <5>3. ASSUME NEW stage \in {"insert", "quote"},
                     work' = [work EXCEPT ![w] = [work[w] EXCEPT !.stage = stage, !.challenge = None, !.when = clock]]
              PROVE  work'[w].stage = stage
          BY <1>0, <5>1, <5>3 DEF Request
        <5>4. QED
          BY <3>2, <4>1, <5>2, <5>3
      <4>2. CASE v # w
        BY <1>0, <3>2, <4>2
      <4>3. QED
        BY <4>1, <4>2
    <3>4. \A d \in Challenges \ {c} : accepted'[d] = accepted[d]
      BY <1>0, <1>5 DEF JudgeClaim
    <3>5. QED
      BY <3>1, <3>3, <3>4
  <2>2. \A d \in Challenges : d \in Remembered => d \in Remembered'
    BY <2>1, RememberedStays
  <2> HIDE DEF c
  <2>3. QED
    BY <1>0, <2>1, <2>2 DEF ClaimInv, Consumed
<1>6. CASE PurgeChallenges
  <2>1. /\ UNCHANGED <<issued, accepted, work, clock>>
        /\ \A d \in Challenges : replay'[d] = IF Expired(d, purge.now) THEN NoReplay ELSE replay[d]
    BY <1>6 DEF PurgeChallenges, ReplayPurge, runtimeVars, serviceVars
  <2>2. ASSUME NEW d \in Challenges, d \in Remembered
        PROVE  d \in Remembered'
    <3>1. CASE Expired(d, purge.now)
      <4>1. issued[d] <= replay[d].expires /\ replay[d].expires < purge.now
        BY <3>1 DEF Expired, ClaimInv
      <4>2. issued[d] \in Nat /\ replay[d].expires \in Nat
        BY <1>0 DEF ReplayRow
      <4>3. issued[d] < clock
        BY <1>0, <4>1, <4>2
      <4>4. QED
        BY <2>1, <2>2, <4>3 DEF Remembered
    <3>2. CASE ~Expired(d, purge.now)
      BY <2>1, <2>2, <3>2, RememberedStays
    <3>3. QED
      BY <3>1, <3>2
  <2>3. \A d \in Challenges : Consumed(d)' => Consumed(d) /\ replay'[d] = replay[d]
    BY <2>1 DEF Consumed, NoReplay
  <2>4. QED
    BY <1>0, <2>1, <2>2, <2>3 DEF ClaimInv
<1>7. CASE ResetChallenges
  <2>1. /\ UNCHANGED <<issued, work, clock>>
        /\ \A d \in Challenges : ~Consumed(d)' /\ accepted'[d] = 0
        /\ \A w \in Workers : work[w] = Idle
    BY <1>7 DEF ResetChallenges, Consumed, NoReplay, runtimeVars, ProcessInv
  <2>2. QED
    BY <1>0, <2>1 DEF ClaimInv, Idle
<1>8. QED
  BY <1>1, <1>2, <1>3, <1>4, <1>5, <1>6, <1>7, ChallengeSteps DEF ChallengeStep

\* A challenge that bought a request and is still valid has its row, so it
\* buys no second one: the replay memory outlives the challenges, provided
\* the hour try_consume is given is not shorter than their lifetime
\* (service.cpp:111 and 194, pow_challenge_ttl_seconds).
THEOREM ChallengesAreRemembered ==
    ASSUME ChallengeTTL <= ReplayTTL
    PROVE  Spec => []ReplayMemory
<1>1. Init => IInv /\ ProcessInv /\ ClaimInv
  BY InitIInv, InitAge, ServiceAssumption
     DEF Init, DatabaseInit, RuntimeInit, ServiceInit, ClaimInv, Consumed, NoReplay, Idle
<1>2. IInv /\ ProcessInv /\ ClaimInv /\ [Next]_vars => (IInv /\ ProcessInv /\ ClaimInv)'
  BY NextSafe, ProcessStep, ClaimStep DEF Goal
<1>3. IInv /\ ProcessInv /\ ClaimInv => ReplayMemory
  BY DEF IInv, TypeOK, ServiceTypeOK, RuntimeTypeOK, ClaimInv, Remembered, ReplayMemory, Valid
<1>4. QED
  BY <1>1, <1>2, <1>3, PTL DEF Spec
=============================================================================
