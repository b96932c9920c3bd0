------------------------------ MODULE Database ------------------------------
(***************************************************************************)
(* The SQLite file of DeltaFeedback and the one connection through which   *)
(* every thread of the server reaches it (src/src/db).                     *)
(*                                                                         *)
(* There is one operator per SQL statement of queries.h.  A statement is   *)
(* atomic: the connection is serialized and runs in autocommit mode.       *)
(* Nothing larger is: sqlite3_changes and sqlite3_last_insert_rowid are    *)
(* registers of the connection, not of the caller, and a repository that   *)
(* reads one after its statement reads whatever the last statement of ANY  *)
(* thread left there.  The two registers are therefore variables.          *)
(*                                                                         *)
(* Names, bodies, locales, token hashes and addresses are left out; a      *)
(* ticket id and a challenge id are model values.  0 stands for SQL NULL   *)
(* in closed and dc, which is why the clock starts at 1.                   *)
(***************************************************************************)
EXTENDS Integers, FiniteSets

CONSTANTS
    TicketIds,   \* the ids make_ticket_id can draw
    Challenges,  \* the random ids of proof-of-work challenges
    Contacts,    \* Delta Chat contacts
    None         \* no ticket, no challenge, no contact

ASSUME DatabaseAssumption ==
    /\ IsFiniteSet(TicketIds)
    /\ IsFiniteSet(Challenges)
    /\ None \notin TicketIds \cup Challenges \cup Contacts

VARIABLES
    tickets,        \* table tickets; status "none" means there is no such row
    messages,       \* table messages, a set of rows
    lastMessageId,  \* sqlite_sequence of messages (AUTOINCREMENT)
    replay,         \* table pow_replay; rowid 0 means there is no such row
    storedOwner,    \* the state row owner_contact_id
    changes,        \* sqlite3_changes of the shared connection
    lastRowid       \* sqlite3_last_insert_rowid of the shared connection

connection == <<changes, lastRowid>>
dbVars == <<tickets, messages, lastMessageId, replay, storedOwner, connection>>

Statuses == {"awaiting_admin", "awaiting_visitor", "closed"}
OpenStatuses == {"awaiting_admin", "awaiting_visitor"}

NoTicket == [status |-> "none", created |-> 0, closed |-> 0, rowid |-> 0]
NoReplay == [rowid |-> 0, expires |-> 0]

TicketRow == [status : Statuses \cup {"none"}, created : Nat, closed : Nat, rowid : Nat]
MessageRow == [id : Nat \ {0}, ticket : TicketIds, sender : {"visitor", "admin"},
               created : Nat, dc : Nat]
ReplayRow == [rowid : Nat, expires : Nat]

DatabaseTypeOK ==
    /\ tickets \in [TicketIds -> TicketRow]
    /\ messages \subseteq MessageRow
    /\ lastMessageId \in Nat
    /\ replay \in [Challenges -> ReplayRow]
    /\ storedOwner \in Contacts \cup {None}
    /\ changes \in Nat
    /\ lastRowid \in Nat

DatabaseInit ==
    /\ tickets = [t \in TicketIds |-> NoTicket]
    /\ messages = {}
    /\ lastMessageId = 0
    /\ replay = [c \in Challenges |-> NoReplay]
    /\ storedOwner = None
    /\ changes = 0
    /\ lastRowid = 0

-----------------------------------------------------------------------------
(* Queries *)

Live(t) == tickets[t].status # "none"
Open(t) == tickets[t].status \in OpenStatuses
MessagesOf(t) == {m \in messages : m.ticket = t}
Consumed(c) == replay[c].rowid # 0

\* Mutant of Expired: expires_at <= ?1.
ExpiredOrExpiring(c, now) == Consumed(c) /\ replay[c].expires <= now

\* A row kReplayPurge deletes.
Expired(c, now) == Consumed(c) /\ replay[c].expires < now

\* SQLite gives a row without an INTEGER PRIMARY KEY the largest rowid plus one.
NextRowid(rowids) ==
    IF \E r \in rowids : \A s \in rowids : s <= r
    THEN 1 + (CHOOSE r \in rowids : \A s \in rowids : s <= r)
    ELSE 1

\* Mutant of Inactive: the subquery on messages is left out.
InactiveByCreation(t, cutoff) ==
    Live(t) /\ tickets[t].created < cutoff /\ tickets[t].closed < cutoff

\* Mutant of Inactive: only closed tickets expire, abandoned ones stay.
InactiveIfClosed(t, cutoff) ==
    tickets[t].status = "closed" /\ tickets[t].closed < cutoff

\* A row kTicketPurgeInactive deletes: created_at counts only where the ticket
\* has no message, closed_at always.
Inactive(t, cutoff) ==
    /\ Live(t)
    /\ \A m \in MessagesOf(t) : m.created < cutoff
    /\ MessagesOf(t) = {} => tickets[t].created < cutoff
    /\ tickets[t].closed < cutoff

\* kFindTicketByDcMsgId, LIMIT 1 without an order: any of these tickets.
TicketsByDcMsgId(dc) == {m.ticket : m \in {n \in messages : n.dc = dc}}

\* kLatestDcMsgIdForTicket: q is the id it finds, None where no row has one.
LatestDcMsgId(t, q) ==
    LET sent == {m \in MessagesOf(t) : m.dc # 0}
    IN  \/ sent = {} /\ q = None
        \/ \E m \in sent : q = m.dc /\ \A n \in sent : n.id <= m.id

-----------------------------------------------------------------------------
(* Statements of the server's connection *)

\* kTicketInsert with an id that has no row.
TicketInsert(t, now) ==
    LET rowid == NextRowid({tickets[u].rowid : u \in TicketIds})
    IN  /\ ~Live(t)
        /\ tickets' = [tickets EXCEPT ![t] = [status |-> "awaiting_admin", created |-> now,
                                              closed |-> 0, rowid |-> rowid]]
        /\ changes' = 1
        /\ lastRowid' = rowid
        /\ UNCHANGED <<messages, lastMessageId, replay, storedOwner>>

\* kTicketInsert with the id of an existing row: the PRIMARY KEY constraint
\* fails and Statement::step throws.
TicketInsertFails(t) ==
    /\ Live(t)
    /\ changes' = 0
    /\ UNCHANGED <<tickets, messages, lastMessageId, replay, storedOwner, lastRowid>>

\* Mutant of TicketSetStatus: no AND status != 'closed'.
TicketSetStatusUnguarded(t, status) ==
    /\ tickets' = IF Live(t) THEN [tickets EXCEPT ![t].status = status] ELSE tickets
    /\ changes' = IF Live(t) THEN 1 ELSE 0
    /\ UNCHANGED <<messages, lastMessageId, replay, storedOwner, lastRowid>>

\* kTicketSetStatus: a closed ticket is not touched.
TicketSetStatus(t, status) ==
    /\ tickets' = IF Open(t) THEN [tickets EXCEPT ![t].status = status] ELSE tickets
    /\ changes' = IF Open(t) THEN 1 ELSE 0
    /\ UNCHANGED <<messages, lastMessageId, replay, storedOwner, lastRowid>>

\* kTicketClose: the first close stands.
TicketClose(t, now) ==
    /\ tickets' = IF Open(t)
                  THEN [tickets EXCEPT ![t].status = "closed", ![t].closed = now]
                  ELSE tickets
    /\ changes' = IF Open(t) THEN 1 ELSE 0
    /\ UNCHANGED <<messages, lastMessageId, replay, storedOwner, lastRowid>>

\* Mutant of DropTickets: PRAGMA foreign_keys is off.
DropTicketsWithoutCascade(gone) ==
    /\ tickets' = [t \in TicketIds |-> IF t \in gone THEN NoTicket ELSE tickets[t]]
    /\ UNCHANGED messages

\* Rows deleted from tickets take their messages along (ON DELETE CASCADE).
DropTickets(gone) ==
    /\ tickets' = [t \in TicketIds |-> IF t \in gone THEN NoTicket ELSE tickets[t]]
    /\ messages' = {m \in messages : m.ticket \notin gone}

TicketPurgeInactive(cutoff) ==
    LET gone == {t \in TicketIds : Inactive(t, cutoff)}
    IN  /\ DropTickets(gone)
        /\ changes' = Cardinality(gone)
        /\ UNCHANGED <<lastMessageId, replay, storedOwner, lastRowid>>

\* kMessageInsert: dc_msg_id is NULL in every call of the server.
MessageInsert(t, sender, now) ==
    /\ Live(t)
    /\ messages' = messages \cup {[id |-> lastMessageId + 1, ticket |-> t, sender |-> sender,
                                   created |-> now, dc |-> 0]}
    /\ lastMessageId' = lastMessageId + 1
    /\ changes' = 1
    /\ lastRowid' = lastMessageId + 1
    /\ UNCHANGED <<tickets, replay, storedOwner>>

\* kMessageInsert for a ticket that is gone: the foreign key fails when the
\* statement ends, after the row had its id, and Statement::step throws.
MessageInsertFails(t) ==
    /\ ~Live(t)
    /\ changes' = 0
    /\ lastRowid' \in {lastRowid, lastMessageId + 1}
    /\ UNCHANGED <<tickets, messages, lastMessageId, replay, storedOwner>>

\* Mutant of RowsWithId: WHERE id >= ?1.
RowsFromId(row) == {m \in messages : m.id >= row}

RowsWithId(row) == {m \in messages : m.id = row}

\* kMessageSetDcMsgId: whatever row has that id, of whatever ticket.
MessageSetDcMsgId(row, dc) ==
    /\ messages' = {IF m \in RowsWithId(row) THEN [m EXCEPT !.dc = dc] ELSE m : m \in messages}
    /\ changes' = IF RowsWithId(row) = {} THEN 0 ELSE 1
    /\ UNCHANGED <<tickets, lastMessageId, replay, storedOwner, lastRowid>>

\* kReplayInsert, INSERT OR IGNORE.
ReplayInsert(c, expires) ==
    LET rowid == NextRowid({replay[d].rowid : d \in Challenges})
    IN  /\ replay' = IF Consumed(c) THEN replay
                     ELSE [replay EXCEPT ![c] = [rowid |-> rowid, expires |-> expires]]
        /\ changes' = IF Consumed(c) THEN 0 ELSE 1
        /\ lastRowid' = IF Consumed(c) THEN lastRowid ELSE rowid
        /\ UNCHANGED <<tickets, messages, lastMessageId, storedOwner>>

\* kReplayPurge.
ReplayPurge(now) ==
    LET gone == {c \in Challenges : Expired(c, now)}
    IN  /\ replay' = [c \in Challenges |-> IF c \in gone THEN NoReplay ELSE replay[c]]
        /\ changes' = Cardinality(gone)
        /\ UNCHANGED <<tickets, messages, lastMessageId, storedOwner, lastRowid>>

\* kStateSet of owner_contact_id, the only key the program writes.
StateSet(contact) ==
    /\ storedOwner' = contact
    /\ changes' = 1
    /\ lastRowid' = IF storedOwner = None THEN 1 ELSE lastRowid
    /\ UNCHANGED <<tickets, messages, lastMessageId, replay>>

-----------------------------------------------------------------------------
(* Properties of the tables *)

\* No message outlives its ticket, whatever a purge, a reset and a handler in
\* flight do in between (the foreign key and the cascade of queries.h).
ReferentialIntegrity == \A m \in messages : Live(m.ticket)

\* A row that waits for the visitor shows at least one message of the admin:
\* the visitor is never asked to answer silence.
AdminSpokeFirst ==
    \A t \in TicketIds : tickets[t].status = "awaiting_visitor" =>
        \E m \in MessagesOf(t) : m.sender = "admin"

\* Two messages never share a Delta Chat id, so a lookup by one has one answer
\* although the column is not UNIQUE and a row can be overwritten.
DcMsgIdsUnique ==
    \A m, n \in messages : m.dc = n.dc /\ m.dc # 0 => m = n

\* A closed ticket is final: its row stays as it is until it is deleted.
ClosedIsFinal ==
    [][\A t \in TicketIds : tickets[t].status = "closed" =>
            tickets'[t] \in {tickets[t], NoTicket}]_tickets
=============================================================================
