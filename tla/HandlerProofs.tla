---------------------------- MODULE HandlerProofs ----------------------------
(***************************************************************************)
(* Every step of a request and of the bot thread keeps the tables in       *)
(* order, its own state well typed, and what is under way equipped with    *)
(* what its next statement binds: one lemma per action of Service.tla and  *)
(* of Bot.tla.  They rest on what one SQL statement of Database.tla does   *)
(* to the tables, whoever runs it and whatever ran before: it keeps their  *)
(* types and the referential integrity, and leaves closed rows as they are *)
(* or deletes them.                                                        *)
(***************************************************************************)
EXTENDS Service, Bot, FiniteSetTheorems, TLAPS

-----------------------------------------------------------------------------
(* The statements *)

\* What holds between any two statements.
DatabaseInv == DatabaseTypeOK /\ ReferentialIntegrity

\* The step property behind ClosedIsFinal.
ClosedRowsStay ==
    \A t \in TicketIds : tickets[t].status = "closed" => tickets'[t] \in {tickets[t], NoTicket}

-----------------------------------------------------------------------------

\* The rowid SQLite picks is a positive number.
LEMMA NextRowidType ==
    ASSUME NEW S \in SUBSET Nat
    PROVE  NextRowid(S) \in Nat \ {0}
<1>1. CASE \E r \in S : \A s \in S : s <= r
  <2> DEFINE largest == CHOOSE r \in S : \A s \in S : s <= r
  <2>1. largest \in S
    BY <1>1
  <2>2. NextRowid(S) = 1 + largest
    BY <1>1 DEF NextRowid
  <2> HIDE DEF largest
  <2>3. QED
    BY <2>1, <2>2
<1>2. CASE ~(\E r \in S : \A s \in S : s <= r)
  BY <1>2 DEF NextRowid
<1>3. QED
  BY <1>1, <1>2

\* Deleting tickets together with their messages keeps both tables in order.
LEMMA DropTicketsSafe ==
    ASSUME DatabaseInv, NEW gone \in SUBSET TicketIds, DropTickets(gone)
    PROVE  /\ tickets' \in [TicketIds -> TicketRow]
           /\ messages' \subseteq MessageRow
           /\ ReferentialIntegrity'
           /\ ClosedRowsStay
<1> USE DEF DatabaseInv, DatabaseTypeOK, DropTickets, NoTicket
<1>1. tickets' \in [TicketIds -> TicketRow]
  BY DEF TicketRow, Statuses
<1>2. messages' \subseteq MessageRow
  OBVIOUS
<1>3. ReferentialIntegrity'
  <2> SUFFICES ASSUME NEW m \in messages' PROVE Live(m.ticket)'
    BY DEF ReferentialIntegrity
  <2>1. m \in messages /\ m.ticket \in TicketIds \ gone
    BY DEF MessageRow
  <2>2. tickets'[m.ticket] = tickets[m.ticket]
    BY <2>1
  <2>3. QED
    BY <2>1, <2>2 DEF ReferentialIntegrity, Live
<1>4. ClosedRowsStay
  BY DEF ClosedRowsStay
<1>5. QED
  BY <1>1, <1>2, <1>3, <1>4

\* The status and closing time of an open row may change; it stays a row.
LEMMA RowUpdateSafe ==
    ASSUME DatabaseInv, NEW t \in TicketIds, NEW row \in TicketRow,
           ~(tickets[t].status = "closed"), row.status # "none",
           tickets' = [tickets EXCEPT ![t] = row], UNCHANGED messages
    PROVE  /\ tickets' \in [TicketIds -> TicketRow]
           /\ ReferentialIntegrity'
           /\ ClosedRowsStay
<1> USE DEF DatabaseInv, DatabaseTypeOK
<1>1. tickets' \in [TicketIds -> TicketRow]
  OBVIOUS
<1>2. \A u \in TicketIds : Live(u) => Live(u)'
  BY DEF Live
<1>3. ReferentialIntegrity'
  <2> SUFFICES ASSUME NEW m \in messages PROVE Live(m.ticket)'
    BY DEF ReferentialIntegrity
  <2>1. m.ticket \in TicketIds
    BY DEF MessageRow
  <2>2. QED
    BY <1>2, <2>1 DEF ReferentialIntegrity
<1>4. ClosedRowsStay
  BY DEF ClosedRowsStay
<1>5. QED
  BY <1>1, <1>3, <1>4

\* A statement that leaves tickets and messages alone.
LEMMA OtherTablesSafe ==
    ASSUME DatabaseInv, UNCHANGED <<tickets, messages>>
    PROVE  /\ tickets' \in [TicketIds -> TicketRow]
           /\ messages' \subseteq MessageRow
           /\ ReferentialIntegrity'
           /\ ClosedRowsStay
  BY DEF DatabaseInv, DatabaseTypeOK, ReferentialIntegrity, Live, ClosedRowsStay

-----------------------------------------------------------------------------
(* The statements of the server *)

\* Each statement keeps DatabaseInv and ClosedRowsStay (queries.h:61-119).
LEMMA TicketInsertSafe ==
    ASSUME DatabaseInv, NEW t \in TicketIds, NEW now \in Nat, TicketInsert(t, now)
    PROVE  DatabaseInv' /\ ClosedRowsStay
<1> DEFINE rowid == NextRowid({tickets[u].rowid : u \in TicketIds})
           row == [status |-> "awaiting_admin", created |-> now, closed |-> 0, rowid |-> rowid]
<1>1. rowid \in Nat \ {0}
  <2>1. {tickets[u].rowid : u \in TicketIds} \in SUBSET Nat
    BY DEF DatabaseInv, DatabaseTypeOK, TicketRow
  <2>2. QED
    BY <2>1, NextRowidType
<1>2. tickets' = [tickets EXCEPT ![t] = row] /\ changes' = 1 /\ lastRowid' = rowid
  BY DEF TicketInsert
<1>3. UNCHANGED <<messages, lastMessageId, replay, storedOwner>> /\ tickets[t].status = "none"
  BY DEF TicketInsert, Live
<1> HIDE DEF rowid
<1>4. row \in TicketRow /\ row.status # "none"
  BY <1>1 DEF TicketRow, Statuses
<1> HIDE DEF row
<1>5. tickets' \in [TicketIds -> TicketRow] /\ ReferentialIntegrity' /\ ClosedRowsStay
  BY <1>2, <1>3, <1>4, RowUpdateSafe
<1>6. QED
  BY <1>1, <1>2, <1>3, <1>5 DEF DatabaseInv, DatabaseTypeOK

LEMMA TicketInsertFailsSafe ==
    ASSUME DatabaseInv, NEW t \in TicketIds, TicketInsertFails(t)
    PROVE  DatabaseInv' /\ ClosedRowsStay
  BY OtherTablesSafe DEF TicketInsertFails, DatabaseInv, DatabaseTypeOK

LEMMA TicketSetStatusSafe ==
    ASSUME DatabaseInv, NEW t \in TicketIds, NEW status \in OpenStatuses,
           TicketSetStatus(t, status)
    PROVE  DatabaseInv' /\ ClosedRowsStay
<1> USE DEF TicketSetStatus
<1>1. CASE Open(t)
  <2> DEFINE row == [tickets[t] EXCEPT !.status = status]
  <2>1. row \in TicketRow /\ row.status # "none" /\ tickets[t].status # "closed"
    BY <1>1 DEF DatabaseInv, DatabaseTypeOK, TicketRow, Statuses, OpenStatuses, Open
  <2>2. tickets' = [tickets EXCEPT ![t] = row]
    BY <1>1
  <2> HIDE DEF row
  <2>3. tickets' \in [TicketIds -> TicketRow] /\ ReferentialIntegrity' /\ ClosedRowsStay
    BY <2>1, <2>2, RowUpdateSafe
  <2>4. QED
    BY <1>1, <2>3 DEF DatabaseInv, DatabaseTypeOK
<1>2. CASE ~Open(t)
  BY <1>2, OtherTablesSafe DEF DatabaseInv, DatabaseTypeOK
<1>3. QED
  BY <1>1, <1>2

LEMMA TicketCloseSafe ==
    ASSUME DatabaseInv, NEW t \in TicketIds, NEW now \in Nat, TicketClose(t, now)
    PROVE  DatabaseInv' /\ ClosedRowsStay
<1> USE DEF TicketClose
<1>1. CASE Open(t)
  <2> DEFINE row == [tickets[t] EXCEPT !.status = "closed", !.closed = now]
  <2>1. row \in TicketRow /\ row.status # "none" /\ tickets[t].status # "closed"
    BY <1>1 DEF DatabaseInv, DatabaseTypeOK, TicketRow, Statuses, OpenStatuses, Open
  <2>2. tickets' = [tickets EXCEPT ![t] = row]
    BY <1>1 DEF DatabaseInv, DatabaseTypeOK, TicketRow
  <2> HIDE DEF row
  <2>3. tickets' \in [TicketIds -> TicketRow] /\ ReferentialIntegrity' /\ ClosedRowsStay
    BY <2>1, <2>2, RowUpdateSafe
  <2>4. QED
    BY <1>1, <2>3 DEF DatabaseInv, DatabaseTypeOK
<1>2. CASE ~Open(t)
  BY <1>2, OtherTablesSafe DEF DatabaseInv, DatabaseTypeOK
<1>3. QED
  BY <1>1, <1>2

LEMMA TicketPurgeInactiveSafe ==
    ASSUME DatabaseInv, NEW cutoff \in Int, TicketPurgeInactive(cutoff)
    PROVE  DatabaseInv' /\ ClosedRowsStay
<1> DEFINE gone == {t \in TicketIds : Inactive(t, cutoff)}
<1>1. DropTickets(gone) /\ changes' = Cardinality(gone)
  BY DEF TicketPurgeInactive
<1>2. UNCHANGED <<lastMessageId, replay, storedOwner, lastRowid>>
  BY DEF TicketPurgeInactive
<1>3. changes' \in Nat
  BY <1>1, FS_Subset, FS_CardinalityType, DatabaseAssumption
<1>4. gone \in SUBSET TicketIds
  OBVIOUS
<1> HIDE DEF gone
<1>5. QED
  BY <1>1, <1>2, <1>3, <1>4, DropTicketsSafe DEF DatabaseInv, DatabaseTypeOK

LEMMA MessageInsertSafe ==
    ASSUME DatabaseInv, NEW t \in TicketIds, NEW sender \in {"visitor", "admin"},
           NEW now \in Nat, MessageInsert(t, sender, now)
    PROVE  DatabaseInv' /\ ClosedRowsStay
<1> USE DEF MessageInsert, DatabaseInv, DatabaseTypeOK
<1>1. messages' \subseteq MessageRow
  BY DEF MessageRow
<1>2. ReferentialIntegrity'
  BY DEF ReferentialIntegrity, Live
<1>3. ClosedRowsStay
  BY DEF ClosedRowsStay
<1>4. QED
  BY <1>1, <1>2, <1>3

\* An insert adds one row, the last one, to a ticket that is there.
LEMMA InsertedIsThere ==
    ASSUME NEW t, NEW sender, NEW now, MessageInsert(t, sender, now)
    PROVE  /\ Live(t)
           /\ \E row : /\ messages' = messages \cup {row}
                       /\ row.id = lastMessageId + 1 /\ row.ticket = t /\ row.sender = sender
                       /\ row.created = now /\ row.dc = 0
<1> DEFINE row == [id |-> lastMessageId + 1, ticket |-> t, sender |-> sender,
                   created |-> now, dc |-> 0]
<1>1. Live(t) /\ messages' = messages \cup {row}
  BY DEF MessageInsert
<1>2. /\ row.id = lastMessageId + 1 /\ row.ticket = t /\ row.sender = sender
      /\ row.created = now /\ row.dc = 0
  OBVIOUS
<1> HIDE DEF row
<1>3. QED
  BY <1>1, <1>2

LEMMA MessageInsertFailsSafe ==
    ASSUME DatabaseInv, NEW t \in TicketIds, MessageInsertFails(t)
    PROVE  DatabaseInv' /\ ClosedRowsStay
  BY OtherTablesSafe DEF MessageInsertFails, DatabaseInv, DatabaseTypeOK

LEMMA MessageSetDcMsgIdSafe ==
    ASSUME DatabaseInv, NEW row \in Nat, NEW dc \in Nat, MessageSetDcMsgId(row, dc)
    PROVE  DatabaseInv' /\ ClosedRowsStay
<1> USE DEF MessageSetDcMsgId, DatabaseInv, DatabaseTypeOK
<1>1. messages' \subseteq MessageRow
  BY DEF MessageRow
<1>2. \A m \in messages' : \E n \in messages : m.ticket = n.ticket
  BY DEF MessageRow
<1>3. ReferentialIntegrity'
  BY <1>2 DEF ReferentialIntegrity, Live
<1>4. ClosedRowsStay
  BY DEF ClosedRowsStay
<1>5. QED
  BY <1>1, <1>3, <1>4

\* Binding a Delta Chat id changes nothing else of any row.
LEMMA RowsKeepTheirAuthors ==
    ASSUME DatabaseTypeOK, NEW row, NEW dc, MessageSetDcMsgId(row, dc)
    PROVE  /\ \A m \in messages : \E n \in messages' :
                  n.id = m.id /\ n.ticket = m.ticket /\ n.sender = m.sender
           /\ \A n \in messages' : \E m \in messages :
                  n.id = m.id /\ n.ticket = m.ticket /\ n.sender = m.sender
<1> DEFINE bound(m) == IF m \in RowsWithId(row) THEN [m EXCEPT !.dc = dc] ELSE m
<1>1. messages' = {bound(m) : m \in messages}
  BY DEF MessageSetDcMsgId
<1>2. ASSUME NEW m \in messages
      PROVE  /\ bound(m).id = m.id /\ bound(m).ticket = m.ticket
             /\ bound(m).sender = m.sender
  BY DEF DatabaseTypeOK, MessageRow
<1> HIDE DEF bound
<1>3. QED
  BY <1>1, <1>2

LEMMA ReplayInsertSafe ==
    ASSUME DatabaseInv, NEW c \in Challenges, NEW expires \in Nat, ReplayInsert(c, expires)
    PROVE  DatabaseInv' /\ ClosedRowsStay
<1> DEFINE rowid == NextRowid({replay[d].rowid : d \in Challenges})
<1>1. rowid \in Nat \ {0}
  <2>1. {replay[d].rowid : d \in Challenges} \in SUBSET Nat
    BY DEF DatabaseInv, DatabaseTypeOK, ReplayRow
  <2>2. QED
    BY <2>1, NextRowidType
<1>2. /\ replay' \in {replay, [replay EXCEPT ![c] = [rowid |-> rowid, expires |-> expires]]}
      /\ changes' \in {0, 1}
      /\ lastRowid' \in {lastRowid, rowid}
      /\ UNCHANGED <<tickets, messages, lastMessageId, storedOwner>>
  BY DEF ReplayInsert
<1> HIDE DEF rowid
<1>3. replay' \in [Challenges -> ReplayRow] /\ lastRowid' \in Nat
  BY <1>1, <1>2 DEF DatabaseInv, DatabaseTypeOK, ReplayRow
<1>4. QED
  BY <1>2, <1>3, OtherTablesSafe DEF DatabaseInv, DatabaseTypeOK

LEMMA ReplayPurgeSafe ==
    ASSUME DatabaseInv, NEW now \in Nat, ReplayPurge(now)
    PROVE  DatabaseInv' /\ ClosedRowsStay
<1> DEFINE gone == {c \in Challenges : Expired(c, now)}
<1>1. /\ replay' = [c \in Challenges |-> IF c \in gone THEN NoReplay ELSE replay[c]]
      /\ changes' = Cardinality(gone)
      /\ UNCHANGED <<tickets, messages, lastMessageId, storedOwner, lastRowid>>
  BY DEF ReplayPurge
<1>2. changes' \in Nat
  BY <1>1, FS_Subset, FS_CardinalityType, DatabaseAssumption
<1> HIDE DEF gone
<1>3. replay' \in [Challenges -> ReplayRow]
  BY <1>1 DEF DatabaseInv, DatabaseTypeOK, ReplayRow, NoReplay
<1>4. QED
  BY <1>1, <1>2, <1>3, OtherTablesSafe DEF DatabaseInv, DatabaseTypeOK

LEMMA StateSetSafe ==
    ASSUME DatabaseInv, NEW contact \in Contacts \cup {None}, StateSet(contact)
    PROVE  DatabaseInv' /\ ClosedRowsStay
  BY OtherTablesSafe DEF StateSet, DatabaseInv, DatabaseTypeOK

-----------------------------------------------------------------------------
(* The visitor's side *)

\* A request knows its challenge until it is judged, and its ticket from the
\* moment the ticket exists.
RequestsWellFormed ==
    \A w \in Workers :
        /\ work[w].stage \in {"consume", "changes"} => work[w].challenge \in Challenges
        /\ work[w].stage \in {"quote", "append", "rowid", "status", "send", "bind"} =>
                work[w].ticket \in TicketIds
        /\ work[w].stage # "idle" /\ work[w].kind # "submit" => work[w].ticket \in TicketIds

ServiceInv == DatabaseInv /\ RuntimeTypeOK /\ ServiceTypeOK /\ RequestsWellFormed

ServiceGoal == ServiceInv' /\ ClosedRowsStay

\* A step that leaves the tables alone leaves their invariant alone.
LEMMA TablesUntouched ==
    ASSUME DatabaseInv, UNCHANGED dbVars
    PROVE  DatabaseInv' /\ ClosedRowsStay
  BY OtherTablesSafe DEF dbVars, connection, DatabaseInv, DatabaseTypeOK

\* A request record with other fields is still one, and the others stay.
LEMMA OneRequestChanges ==
    ASSUME ServiceTypeOK, RequestsWellFormed, NEW w \in Workers, NEW r \in Request,
           work' = [work EXCEPT ![w] = r],
           r.stage \in {"consume", "changes"} => r.challenge \in Challenges,
           r.stage \in {"quote", "append", "rowid", "status", "send", "bind"} =>
                r.ticket \in TicketIds,
           r.stage # "idle" /\ r.kind # "submit" => r.ticket \in TicketIds
    PROVE  work' \in [Workers -> Request] /\ RequestsWellFormed'
<1>1. work' \in [Workers -> Request]
  BY DEF ServiceTypeOK
<1>2. RequestsWellFormed'
  BY DEF ServiceTypeOK, RequestsWellFormed
<1>3. QED
  BY <1>1, <1>2

LEMMA IdleIsRequest == Idle \in Request /\ Idle.stage = "idle"
  BY DEF Idle, Request, Stages

\* A request that ends makes its worker idle.
LEMMA FinishSafe ==
    ASSUME ServiceTypeOK, RequestsWellFormed, NEW w \in Workers, Finish(w)
    PROVE  work' \in [Workers -> Request] /\ RequestsWellFormed'
  BY OneRequestChanges, IdleIsRequest DEF Finish

-----------------------------------------------------------------------------

LEMMA IssueChallengeSafe ==
    ASSUME ServiceInv, NEW c \in Challenges, IssueChallenge(c)
    PROVE  ServiceGoal
<1> USE DEF IssueChallenge
<1>1. DatabaseInv' /\ ClosedRowsStay
  BY TablesUntouched DEF ServiceInv
<1>2. RuntimeTypeOK'
  BY DEF ServiceInv, RuntimeTypeOK, runtimeVars
<1>3. ServiceTypeOK' /\ RequestsWellFormed'
  BY ServiceAssumption DEF ServiceInv, ServiceTypeOK, RuntimeTypeOK, RequestsWellFormed
<1>4. QED
  BY <1>1, <1>2, <1>3 DEF ServiceGoal, ServiceInv

LEMMA SubmitNewSafe ==
    ASSUME ServiceInv, NEW w \in Workers, NEW c \in Challenges, SubmitNew(w, c)
    PROVE  ServiceGoal
<1> DEFINE r == [Idle EXCEPT !.stage = "consume", !.kind = "submit", !.challenge = c]
<1>1. DatabaseInv' /\ ClosedRowsStay
  BY TablesUntouched DEF ServiceInv, SubmitNew
<1>2. RuntimeTypeOK'
  BY DEF ServiceInv, RuntimeTypeOK, runtimeVars, SubmitNew
<1>3. r \in Request /\ r.stage = "consume" /\ r.kind = "submit" /\ r.challenge \in Challenges
  BY DEF Idle, Request, Stages
<1>4. work' = [work EXCEPT ![w] = r]
  BY DEF SubmitNew
<1> HIDE DEF r
<1>5. work' \in [Workers -> Request] /\ RequestsWellFormed'
  BY <1>3, <1>4, OneRequestChanges DEF ServiceInv
<1>6. QED
  BY <1>1, <1>2, <1>5 DEF ServiceGoal, ServiceInv, ServiceTypeOK, SubmitNew

LEMMA SubmitReplySafe ==
    ASSUME ServiceInv, NEW w \in Workers, NEW t \in TicketIds, NEW c \in Challenges,
           SubmitReply(w, t, c)
    PROVE  ServiceGoal
<1> DEFINE r == [Idle EXCEPT !.stage = "consume", !.kind = "reply", !.ticket = t,
                             !.challenge = c]
<1>1. DatabaseInv' /\ ClosedRowsStay
  BY TablesUntouched DEF ServiceInv, SubmitReply
<1>2. RuntimeTypeOK'
  BY DEF ServiceInv, RuntimeTypeOK, runtimeVars, SubmitReply
<1>3. /\ r \in Request /\ r.stage = "consume" /\ r.challenge \in Challenges
      /\ r.ticket \in TicketIds
  BY DEF Idle, Request, Stages
<1>4. work' = [work EXCEPT ![w] = r]
  BY DEF SubmitReply
<1> HIDE DEF r
<1>5. work' \in [Workers -> Request] /\ RequestsWellFormed'
  BY <1>3, <1>4, OneRequestChanges DEF ServiceInv
<1>6. QED
  BY <1>1, <1>2, <1>5 DEF ServiceGoal, ServiceInv, ServiceTypeOK, SubmitReply

LEMMA ClaimChallengeSafe ==
    ASSUME ServiceInv, NEW w \in Workers, ClaimChallenge(w)
    PROVE  ServiceGoal
<1> DEFINE r == [work[w] EXCEPT !.stage = "changes"]
<1>1. work[w] \in Request /\ work[w].stage = "consume" /\ work[w].challenge \in Challenges
  BY DEF ServiceInv, ServiceTypeOK, RequestsWellFormed, ClaimChallenge, At
<1>2. DatabaseInv' /\ ClosedRowsStay
  <2>1. clock + ReplayTTL \in Nat
    BY ServiceAssumption DEF ServiceInv, RuntimeTypeOK
  <2>2. QED
    BY <1>1, <2>1, ReplayInsertSafe DEF ServiceInv, ClaimChallenge
<1>3. RuntimeTypeOK'
  BY DEF ServiceInv, RuntimeTypeOK, runtimeVars, ClaimChallenge
<1>4. /\ r \in Request /\ r.stage = "changes" /\ r.challenge \in Challenges
      /\ r.kind # "submit" => r.ticket \in TicketIds
  BY <1>1 DEF Request, Stages, ServiceInv, RequestsWellFormed
<1>5. work' = [work EXCEPT ![w] = r]
  BY DEF ClaimChallenge, Goto
<1> HIDE DEF r
<1>6. work' \in [Workers -> Request] /\ RequestsWellFormed'
  BY <1>4, <1>5, OneRequestChanges DEF ServiceInv
<1>7. QED
  BY <1>2, <1>3, <1>6 DEF ServiceGoal, ServiceInv, ServiceTypeOK, ClaimChallenge

LEMMA JudgeClaimSafe ==
    ASSUME ServiceInv, NEW w \in Workers, JudgeClaim(w)
    PROVE  ServiceGoal
<1> DEFINE r == [work[w] EXCEPT !.stage = AfterClaim(work[w].kind), !.challenge = None,
                                !.when = clock]
<1>1. /\ work[w] \in Request /\ work[w].stage = "changes" /\ work[w].challenge \in Challenges
      /\ work[w].kind # "submit" => work[w].ticket \in TicketIds
  BY DEF ServiceInv, ServiceTypeOK, RequestsWellFormed, JudgeClaim, At
<1>2. DatabaseInv' /\ ClosedRowsStay
  BY TablesUntouched DEF ServiceInv, JudgeClaim
<1>3. RuntimeTypeOK'
  BY DEF ServiceInv, RuntimeTypeOK, runtimeVars, JudgeClaim
<1>4. accepted' \in [Challenges -> 0..2]
  BY <1>1 DEF JudgeClaim, ServiceInv, ServiceTypeOK
<1>5. /\ r \in Request /\ r.stage \in {"insert", "quote"}
      /\ r.stage = "quote" => r.ticket \in TicketIds
      /\ r.kind # "submit" => r.ticket \in TicketIds
  BY <1>1 DEF Request, Stages, AfterClaim, ServiceInv, RuntimeTypeOK
<1>6. Finish(w) \/ work' = [work EXCEPT ![w] = r]
  BY <1>1 DEF JudgeClaim, Refuse, ServiceInv, ServiceTypeOK, Request
<1> HIDE DEF r
<1>7. work' \in [Workers -> Request] /\ RequestsWellFormed'
  BY <1>5, <1>6, OneRequestChanges, FinishSafe DEF ServiceInv
<1>8. QED
  BY <1>2, <1>3, <1>4, <1>7 DEF ServiceGoal, ServiceInv, ServiceTypeOK, JudgeClaim

LEMMA InsertTicketSafe ==
    ASSUME ServiceInv, NEW w \in Workers, NEW t \in TicketIds, InsertTicket(w, t)
    PROVE  ServiceGoal
<1> DEFINE r == [work[w] EXCEPT !.stage = "append", !.ticket = t, !.when = clock]
<1>1. work[w] \in Request /\ clock \in Nat
  BY DEF ServiceInv, ServiceTypeOK, RuntimeTypeOK
<1>2. DatabaseInv' /\ ClosedRowsStay
  BY <1>1, TicketInsertSafe DEF ServiceInv, InsertTicket
<1>3. RuntimeTypeOK'
  BY DEF ServiceInv, RuntimeTypeOK, runtimeVars, InsertTicket
<1>4. r \in Request /\ r.stage = "append" /\ r.ticket \in TicketIds
  BY <1>1 DEF Request, Stages
<1>5. work' = [work EXCEPT ![w] = r]
  BY <1>1 DEF InsertTicket, ServiceInv, ServiceTypeOK, Request
<1> HIDE DEF r
<1>6. work' \in [Workers -> Request] /\ RequestsWellFormed'
  BY <1>4, <1>5, OneRequestChanges DEF ServiceInv
<1>7. QED
  BY <1>2, <1>3, <1>6 DEF ServiceGoal, ServiceInv, ServiceTypeOK, InsertTicket

LEMMA InsertTicketCollidesSafe ==
    ASSUME ServiceInv, NEW w \in Workers, NEW t \in TicketIds, InsertTicketCollides(w, t)
    PROVE  ServiceGoal
<1>1. DatabaseInv' /\ ClosedRowsStay
  BY TicketInsertFailsSafe DEF ServiceInv, InsertTicketCollides
<1>2. RuntimeTypeOK'
  BY DEF ServiceInv, RuntimeTypeOK, runtimeVars, InsertTicketCollides
<1>3. work' \in [Workers -> Request] /\ RequestsWellFormed'
  BY FinishSafe DEF ServiceInv, InsertTicketCollides
<1>4. QED
  BY <1>1, <1>2, <1>3 DEF ServiceGoal, ServiceInv, ServiceTypeOK, InsertTicketCollides

LEMMA ReadQuoteSafe ==
    ASSUME ServiceInv, NEW w \in Workers, ReadQuote(w)
    PROVE  ServiceGoal
<1>1. work[w] \in Request /\ work[w].ticket \in TicketIds
  BY DEF ServiceInv, ServiceTypeOK, RequestsWellFormed, ReadQuote, At
<1>2. DatabaseInv' /\ ClosedRowsStay
  BY TablesUntouched DEF ServiceInv, ReadQuote
<1>3. RuntimeTypeOK'
  BY DEF ServiceInv, RuntimeTypeOK, runtimeVars, ReadQuote
<1>4. work' \in [Workers -> Request] /\ RequestsWellFormed'
  <2>1. PICK q \in {None} \cup {m.dc : m \in messages} :
            work' = [work EXCEPT ![w].stage = "append", ![w].quote = QuoteOrZero(q)]
    BY DEF ReadQuote
  <2> DEFINE r == [work[w] EXCEPT !.stage = "append", !.quote = QuoteOrZero(q)]
  <2>2. QuoteOrZero(q) \in Nat
    BY DEF QuoteOrZero, ServiceInv, DatabaseInv, DatabaseTypeOK, MessageRow
  <2>3. r \in Request /\ r.stage = "append" /\ r.ticket \in TicketIds
    BY <1>1, <2>2 DEF Request, Stages
  <2>4. work' = [work EXCEPT ![w] = r]
    BY <1>1, <2>1 DEF ServiceInv, ServiceTypeOK, Request
  <2> HIDE DEF r
  <2>5. QED
    BY <2>3, <2>4, OneRequestChanges DEF ServiceInv
<1>5. QED
  BY <1>2, <1>3, <1>4 DEF ServiceGoal, ServiceInv, ServiceTypeOK, ReadQuote

LEMMA AppendVisitorSafe ==
    ASSUME ServiceInv, NEW w \in Workers, AppendVisitor(w)
    PROVE  ServiceGoal
<1> DEFINE r == [work[w] EXCEPT !.stage = "rowid"]
<1>1. work[w] \in Request /\ work[w].ticket \in TicketIds /\ work[w].when \in Nat
  BY DEF ServiceInv, ServiceTypeOK, RequestsWellFormed, AppendVisitor, At, Request
<1>2. DatabaseInv' /\ ClosedRowsStay
  BY <1>1, MessageInsertSafe, MessageInsertFailsSafe DEF ServiceInv, AppendVisitor
<1>3. RuntimeTypeOK'
  BY DEF ServiceInv, RuntimeTypeOK, runtimeVars, AppendVisitor
<1>4. r \in Request /\ r.stage = "rowid" /\ r.ticket \in TicketIds
  BY <1>1 DEF Request, Stages
<1>5. Finish(w) \/ work' = [work EXCEPT ![w] = r]
  BY DEF AppendVisitor, Goto
<1> HIDE DEF r
<1>6. work' \in [Workers -> Request] /\ RequestsWellFormed'
  BY <1>4, <1>5, OneRequestChanges, FinishSafe DEF ServiceInv
<1>7. QED
  BY <1>2, <1>3, <1>6 DEF ServiceGoal, ServiceInv, ServiceTypeOK, AppendVisitor

LEMMA ReadRowidSafe ==
    ASSUME ServiceInv, NEW w \in Workers, ReadRowid(w)
    PROVE  ServiceGoal
<1> DEFINE next == IF work[w].kind = "reply" THEN "status" ELSE "send"
           r == [work[w] EXCEPT !.row = lastRowid, !.stage = next]
<1>1. work[w] \in Request /\ work[w].ticket \in TicketIds /\ lastRowid \in Nat
  BY DEF ServiceInv, ServiceTypeOK, RequestsWellFormed, ReadRowid, At, DatabaseInv,
         DatabaseTypeOK
<1>2. DatabaseInv' /\ ClosedRowsStay
  BY TablesUntouched DEF ServiceInv, ReadRowid
<1>3. RuntimeTypeOK'
  BY DEF ServiceInv, RuntimeTypeOK, runtimeVars, ReadRowid
<1>4. r \in Request /\ r.stage \in {"status", "send"} /\ r.ticket \in TicketIds
  BY <1>1 DEF Request, Stages
<1>5. work' = [work EXCEPT ![w] = r]
  BY <1>1 DEF ReadRowid, ServiceInv, ServiceTypeOK, Request
<1> HIDE DEF r
<1>6. work' \in [Workers -> Request] /\ RequestsWellFormed'
  BY <1>4, <1>5, OneRequestChanges DEF ServiceInv
<1>7. QED
  BY <1>2, <1>3, <1>6 DEF ServiceGoal, ServiceInv, ServiceTypeOK, ReadRowid

LEMMA PassToAdminSafe ==
    ASSUME ServiceInv, NEW w \in Workers, PassToAdmin(w)
    PROVE  ServiceGoal
<1> DEFINE r == [work[w] EXCEPT !.stage = "send"]
<1>1. work[w] \in Request /\ work[w].ticket \in TicketIds
  BY DEF ServiceInv, ServiceTypeOK, RequestsWellFormed, PassToAdmin, At
<1>2. DatabaseInv' /\ ClosedRowsStay
  BY <1>1, TicketSetStatusSafe DEF ServiceInv, PassToAdmin, OpenStatuses
<1>3. RuntimeTypeOK'
  BY DEF ServiceInv, RuntimeTypeOK, runtimeVars, PassToAdmin
<1>4. r \in Request /\ r.stage = "send" /\ r.ticket \in TicketIds
  BY <1>1 DEF Request, Stages
<1>5. work' = [work EXCEPT ![w] = r]
  BY DEF PassToAdmin, Goto
<1> HIDE DEF r
<1>6. work' \in [Workers -> Request] /\ RequestsWellFormed'
  BY <1>4, <1>5, OneRequestChanges DEF ServiceInv
<1>7. QED
  BY <1>2, <1>3, <1>6 DEF ServiceGoal, ServiceInv, ServiceTypeOK, PassToAdmin

LEMMA NotifySafe ==
    ASSUME ServiceInv, NEW w \in Workers, Notify(w)
    PROVE  ServiceGoal
<1> DEFINE r == [work[w] EXCEPT !.stage = "bind", !.dc = lastDc']
<1>1. work[w] \in Request /\ work[w].ticket \in TicketIds /\ work[w].quote \in Nat
  BY DEF ServiceInv, ServiceTypeOK, RequestsWellFormed, Notify, At, Request
<1>2. DatabaseInv' /\ ClosedRowsStay
  BY TablesUntouched DEF ServiceInv, Notify
<1>3. RuntimeTypeOK'
  BY <1>1 DEF ServiceInv, RuntimeTypeOK, Notify, SendToOwner, SendToOwnerFails, Notification
<1>4. r \in Request /\ r.stage = "bind" /\ r.ticket \in TicketIds
  BY <1>1, <1>3 DEF Request, Stages, RuntimeTypeOK
<1>5. Finish(w) \/ work' = [work EXCEPT ![w] = r]
  BY <1>1 DEF Notify, SendFailed, ServiceInv, ServiceTypeOK, Request
<1> HIDE DEF r
<1>6. work' \in [Workers -> Request] /\ RequestsWellFormed'
  BY <1>4, <1>5, OneRequestChanges, FinishSafe DEF ServiceInv
<1>7. QED
  BY <1>2, <1>3, <1>6 DEF ServiceGoal, ServiceInv, ServiceTypeOK, Notify

LEMMA BindNotificationSafe ==
    ASSUME ServiceInv, NEW w \in Workers, BindNotification(w)
    PROVE  ServiceGoal
<1>1. /\ work[w] \in Request /\ work[w].ticket \in TicketIds
      /\ work[w].row \in Nat /\ work[w].dc \in Nat
  BY DEF ServiceInv, ServiceTypeOK, RequestsWellFormed, BindNotification, At, Request
<1>2. DatabaseInv' /\ ClosedRowsStay
  BY <1>1, MessageSetDcMsgIdSafe DEF ServiceInv, BindNotification
<1>3. RuntimeTypeOK'
  BY DEF ServiceInv, RuntimeTypeOK, runtimeVars, BindNotification
<1>4. work' \in [Workers -> Request] /\ RequestsWellFormed'
  BY FinishSafe DEF ServiceInv, BindNotification
<1>5. QED
  BY <1>1, <1>2, <1>3, <1>4 DEF ServiceGoal, ServiceInv, ServiceTypeOK, BindNotification

\* Any step of a request under way.
LEMMA RequestStepSafe ==
    ASSUME ServiceInv, NEW w \in Workers, RequestStep(w)
    PROVE  ServiceGoal
  BY ClaimChallengeSafe, JudgeClaimSafe, InsertTicketSafe, InsertTicketCollidesSafe,
     ReadQuoteSafe, AppendVisitorSafe, ReadRowidSafe, PassToAdminSafe, NotifySafe,
     BindNotificationSafe DEF RequestStep
-----------------------------------------------------------------------------
(* The bot *)

\* A message that is being handled, other than a registration, has a ticket.
BotWellFormed == bot.stage \in {"get", "close", "append", "status"} => bot.ticket \in TicketIds

BotInv == DatabaseInv /\ RuntimeTypeOK /\ BotTypeOK /\ BotWellFormed

BotGoal == BotInv' /\ ClosedRowsStay

LEMMA BotIdleIsState == BotIdle \in BotState /\ BotIdle.stage = "idle"
  BY DEF BotIdle, BotState, BotStages

\* The router answers with a ticket of one of its three sources, or with none.
LEMMA RouteType ==
    ASSUME NEW resolved \in TicketIds \cup {None}, NEW typed \in TicketIds \cup {None},
           NEW inQuote \in TicketIds \cup {None}, NEW remainder \in Remainders
    PROVE  LET route == RouteAdminMessage(resolved, typed, remainder, inQuote)
           IN  /\ route.ticket \in TicketIds \cup {None}
               /\ route.kind \in {"reply", "close", "none"}
  BY DEF RouteAdminMessage, MakeKind, NoTicketId

\* Every ticket a quoted message can resolve to is a ticket id.
LEMMA ResolutionsType ==
    ASSUME DatabaseTypeOK, NEW dc
    PROVE  Resolutions(dc) \subseteq TicketIds \cup {None}
  BY DEF DatabaseTypeOK, Resolutions, TicketsByDcMsgId, MessageRow

-----------------------------------------------------------------------------

LEMMA ClaimOwnerSafe ==
    ASSUME BotInv, NEW from \in Contacts, ClaimOwner(from)
    PROVE  BotGoal
<1>1. DatabaseInv' /\ ClosedRowsStay
  BY TablesUntouched DEF BotInv, ClaimOwner
<1>2. RuntimeTypeOK'
  BY DEF BotInv, RuntimeTypeOK, ClaimOwner
<1>3. BotTypeOK' /\ BotWellFormed'
  BY DEF BotInv, BotTypeOK, BotWellFormed, BotState, BotStages, BotIdle, ClaimOwner
<1>4. QED
  BY <1>1, <1>2, <1>3 DEF BotGoal, BotInv

LEMMA PersistOwnerSafe ==
    ASSUME BotInv, PersistOwner
    PROVE  BotGoal
<1>1. DatabaseInv' /\ ClosedRowsStay
  BY StateSetSafe DEF BotInv, RuntimeTypeOK, PersistOwner
<1>2. RuntimeTypeOK'
  BY DEF BotInv, RuntimeTypeOK, runtimeVars, PersistOwner
<1>3. BotTypeOK' /\ BotWellFormed'
  BY BotIdleIsState DEF BotInv, BotTypeOK, BotWellFormed, PersistOwner
<1>4. QED
  BY <1>1, <1>2, <1>3 DEF BotGoal, BotInv

LEMMA BlockStrangerSafe ==
    ASSUME BotInv, NEW from \in Contacts, BlockStranger(from)
    PROVE  BotGoal
<1>1. DatabaseInv' /\ ClosedRowsStay
  BY TablesUntouched DEF BotInv, BlockStranger
<1>2. RuntimeTypeOK'
  BY DEF BotInv, RuntimeTypeOK, runtimeVars, BlockStranger
<1>3. BotTypeOK' /\ BotWellFormed'
  BY DEF BotInv, BotTypeOK, BotWellFormed, BlockStranger
<1>4. QED
  BY <1>1, <1>2, <1>3 DEF BotGoal, BotInv

\* A routed message keeps everything, whatever the admin quoted or typed.
LEMMA HandleSafe ==
    ASSUME BotInv, NEW route, route.ticket \in TicketIds \cup {None},
           route.kind \in {"reply", "close", "none"},
           NEW quoted \in TicketIds \cup {None}, Handle(route, quoted)
    PROVE  BotGoal
<1>1. DatabaseInv' /\ ClosedRowsStay
  BY TablesUntouched DEF BotInv, Handle
<1>2. RuntimeTypeOK'
  BY DEF BotInv, RuntimeTypeOK, runtimeVars, Handle
<1>3. BotTypeOK' /\ BotWellFormed'
  BY DEF BotInv, BotTypeOK, BotWellFormed, BotState, BotStages, Handle
<1>4. QED
  BY <1>1, <1>2, <1>3 DEF BotGoal, BotInv

LEMMA AdminQuotesSafe ==
    ASSUME BotInv, NEW n \in outbox, NEW synced \in BOOLEAN,
           NEW typed \in TicketIds \cup {None}, NEW remainder \in Remainders,
           AdminQuotes(n, synced, typed, remainder)
    PROVE  BotGoal
<1>1. n.ticket \in TicketIds
  BY DEF BotInv, RuntimeTypeOK, Notification
<1>2. PICK resolved \in IF synced THEN Resolutions(n.dc) ELSE {None} :
          Handle(RouteAdminMessage(resolved, typed, remainder, n.ticket),
                 IF typed = None THEN n.ticket ELSE None)
  BY DEF AdminQuotes
<1>3. resolved \in TicketIds \cup {None}
  BY ResolutionsType DEF BotInv, DatabaseInv
<1> DEFINE route == RouteAdminMessage(resolved, typed, remainder, n.ticket)
           quoted == IF typed = None THEN n.ticket ELSE None
<1>4. /\ route.ticket \in TicketIds \cup {None}
      /\ route.kind \in {"reply", "close", "none"}
  BY <1>1, <1>3, RouteType
<1>5. quoted \in TicketIds \cup {None} /\ Handle(route, quoted)
  BY <1>1, <1>2
<1> HIDE DEF route, quoted
<1>6. QED
  BY <1>4, <1>5, HandleSafe

LEMMA AdminTypesSafe ==
    ASSUME BotInv, NEW typed \in TicketIds \cup {None}, NEW remainder \in Remainders,
           AdminTypes(typed, remainder)
    PROVE  BotGoal
<1> DEFINE route == RouteAdminMessage(None, typed, remainder, None)
<1>1. /\ route.ticket \in TicketIds \cup {None}
      /\ route.kind \in {"reply", "close", "none"}
  BY RouteType
<1>2. Handle(route, None)
  BY DEF AdminTypes
<1> HIDE DEF route
<1>3. QED
  BY <1>1, <1>2, HandleSafe

LEMMA LookUpTicketSafe ==
    ASSUME BotInv, LookUpTicket
    PROVE  BotGoal
<1>1. DatabaseInv' /\ ClosedRowsStay
  BY TablesUntouched DEF BotInv, LookUpTicket
<1>2. RuntimeTypeOK'
  BY DEF BotInv, RuntimeTypeOK, runtimeVars, LookUpTicket
<1>3. BotTypeOK' /\ BotWellFormed'
  BY BotIdleIsState
     DEF BotInv, BotTypeOK, BotWellFormed, BotState, BotStages, RuntimeTypeOK, LookUpTicket,
         BotAt, AfterLookUp
<1>4. QED
  BY <1>1, <1>2, <1>3 DEF BotGoal, BotInv

LEMMA CloseTicketSafe ==
    ASSUME BotInv, CloseTicket
    PROVE  BotGoal
<1>1. bot.ticket \in TicketIds /\ bot.when \in Nat
  BY DEF BotInv, BotWellFormed, BotTypeOK, BotState, CloseTicket, BotAt
<1>2. DatabaseInv' /\ ClosedRowsStay
  BY <1>1, TicketCloseSafe DEF BotInv, CloseTicket
<1>3. RuntimeTypeOK'
  BY DEF BotInv, RuntimeTypeOK, runtimeVars, CloseTicket
<1>4. BotTypeOK' /\ BotWellFormed'
  BY BotIdleIsState DEF BotInv, BotTypeOK, BotWellFormed, CloseTicket
<1>5. QED
  BY <1>2, <1>3, <1>4 DEF BotGoal, BotInv

LEMMA AppendAdminSafe ==
    ASSUME BotInv, AppendAdmin
    PROVE  BotGoal
<1>1. bot.ticket \in TicketIds /\ bot.when \in Nat
  BY DEF BotInv, BotWellFormed, BotTypeOK, BotState, AppendAdmin, BotAt
<1>2. DatabaseInv' /\ ClosedRowsStay
  BY <1>1, MessageInsertSafe DEF BotInv, AppendAdmin
<1>3. RuntimeTypeOK'
  BY DEF BotInv, RuntimeTypeOK, runtimeVars, AppendAdmin
<1>4. BotTypeOK' /\ BotWellFormed'
  BY <1>1 DEF BotInv, BotTypeOK, BotWellFormed, BotState, BotStages, AppendAdmin
<1>5. QED
  BY <1>2, <1>3, <1>4 DEF BotGoal, BotInv

LEMMA PassToVisitorSafe ==
    ASSUME BotInv, PassToVisitor
    PROVE  BotGoal
<1>1. bot.ticket \in TicketIds
  BY DEF BotInv, BotWellFormed, PassToVisitor, BotAt
<1>2. DatabaseInv' /\ ClosedRowsStay
  BY <1>1, TicketSetStatusSafe DEF BotInv, PassToVisitor, OpenStatuses
<1>3. RuntimeTypeOK'
  BY DEF BotInv, RuntimeTypeOK, runtimeVars, PassToVisitor
<1>4. BotTypeOK' /\ BotWellFormed'
  BY BotIdleIsState DEF BotInv, BotTypeOK, BotWellFormed, PassToVisitor
<1>5. QED
  BY <1>2, <1>3, <1>4 DEF BotGoal, BotInv

\* Any step of a message that is being handled.
LEMMA BotWorkSafe ==
    ASSUME BotInv, BotWork
    PROVE  BotGoal
  BY PersistOwnerSafe, LookUpTicketSafe, CloseTicketSafe, AppendAdminSafe, PassToVisitorSafe
     DEF BotWork
=============================================================================
