------------------------------- MODULE Service -------------------------------
(***************************************************************************)
(* The visitor's side: the challenge issuer (pow/challenge.cpp) and        *)
(* Service::submit_new / submit_reply (feedback/service.cpp) as the worker *)
(* threads of the HTTP server run them.                                    *)
(*                                                                         *)
(* A request is a sequence of steps, one for each statement it runs on the *)
(* shared connection, each read of a register of that connection and the   *)
(* send; between two of them any other thread may run.  A request that is  *)
(* refused before its first write changes nothing and has no step.         *)
(***************************************************************************)
EXTENDS Runtime

CONSTANTS
    Workers,       \* worker threads of the HTTP server
    ChallengeTTL,  \* pow_challenge_ttl_seconds
    ReplayTTL      \* the 3600 of try_consume's callers

ASSUME ServiceAssumption == ChallengeTTL \in Nat /\ ReplayTTL \in Nat

VARIABLES
    issued,    \* expiry signed into the token of a challenge, 0 if not issued
    work,      \* the request each worker is serving
    drawn,     \* history: every ticket id that ever was a row
    told,      \* tickets whose visitor was answered Ok and holds the read token
    accepted   \* history: how often try_consume said yes to a challenge, 2 for more than once

serviceVars == <<issued, work, drawn, told, accepted>>

Stages == {"idle", "consume", "changes", "insert", "quote", "append",
           "rowid", "status", "send", "bind"}

Request == [stage : Stages, kind : {"submit", "reply", "none"},
            ticket : TicketIds \cup {None}, challenge : Challenges \cup {None},
            when : Nat, quote : Nat, row : Nat, dc : Nat]

Idle == [stage |-> "idle", kind |-> "none", ticket |-> None, challenge |-> None,
         when |-> 0, quote |-> 0, row |-> 0, dc |-> 0]

ServiceTypeOK ==
    /\ issued \in [Challenges -> Nat]
    /\ work \in [Workers -> Request]
    /\ drawn \subseteq TicketIds
    /\ told \subseteq TicketIds
    /\ accepted \in [Challenges -> 0..2]

ServiceInit ==
    /\ issued = [c \in Challenges |-> 0]
    /\ work = [w \in Workers |-> Idle]
    /\ drawn = {}
    /\ told = {}
    /\ accepted = [c \in Challenges |-> 0]

-----------------------------------------------------------------------------

\* ChallengeIssuer::verify says Ok: signed by this issuer, with enough work,
\* and not expired.
Valid(c) == issued[c] # 0 /\ clock <= issued[c]

\* Where a request whose proof-of-work was accepted goes on.
AfterClaim(kind) == IF kind = "submit" THEN "insert" ELSE "quote"

At(w, stage) == running /\ work[w].stage = stage
Goto(w, stage) == work' = [work EXCEPT ![w].stage = stage]
Finish(w) == work' = [work EXCEPT ![w] = Idle]

\* GET /api/captcha: ChallengeIssuer::issue.
IssueChallenge(c) ==
    /\ running
    /\ issued[c] = 0
    /\ issued' = [issued EXCEPT ![c] = clock + ChallengeTTL]
    /\ UNCHANGED <<work, drawn, told, accepted, dbVars, runtimeVars>>

\* submit_new up to the replay claim.
SubmitNew(w, c) ==
    /\ At(w, "idle")
    /\ Valid(c)
    /\ work' = [work EXCEPT ![w] = [Idle EXCEPT !.stage = "consume", !.kind = "submit",
                                                !.challenge = c]]
    /\ UNCHANGED <<issued, drawn, told, accepted, dbVars, runtimeVars>>

\* submit_reply up to the replay claim: the ticket is read once, here.  Only the
\* visitor holds its read token, and only if submit_new answered Ok.
SubmitReply(w, t, c) ==
    /\ At(w, "idle")
    /\ t \in told
    /\ tickets[t].status = "awaiting_visitor"
    /\ Valid(c)
    /\ work' = [work EXCEPT ![w] = [Idle EXCEPT !.stage = "consume", !.kind = "reply",
                                                !.ticket = t, !.challenge = c]]
    /\ UNCHANGED <<issued, drawn, told, accepted, dbVars, runtimeVars>>

\* ReplayStore::try_consume, the insert.
ClaimChallenge(w) ==
    /\ At(w, "consume")
    /\ ReplayInsert(work[w].challenge, clock + ReplayTTL)
    /\ Goto(w, "changes")
    /\ UNCHANGED <<issued, drawn, told, accepted, runtimeVars>>

\* A request whose challenge is spent is answered with PowReplay.
Refuse(w) == Finish(w)

\* ReplayStore::try_consume, sqlite3_changes(db_) == 1, then the validation of
\* the fields and, for a new ticket, the owner check: the request goes on only
\* if all of them pass.
JudgeClaim(w) ==
    /\ At(w, "changes")
    /\ \/ /\ changes # 1
          /\ Refuse(w)
          /\ UNCHANGED accepted
       \/ /\ changes = 1
          /\ accepted' = [accepted EXCEPT ![work[w].challenge] = IF @ < 2 THEN @ + 1 ELSE 2]
          /\ \/ Finish(w)
             \/ /\ work[w].kind = "submit" => owner # None
                /\ work' = [work EXCEPT ![w].stage = AfterClaim(work[w].kind),
                                        ![w].challenge = None,
                                        ![w].when = clock]
    /\ UNCHANGED <<issued, drawn, told, dbVars, runtimeVars>>

\* TicketsRepo::insert_new with an id that was never used before.
InsertTicket(w, t) ==
    /\ At(w, "insert")
    /\ t \notin drawn
    /\ TicketInsert(t, clock)
    /\ drawn' = drawn \cup {t}
    /\ work' = [work EXCEPT ![w].stage = "append", ![w].ticket = t, ![w].when = clock]
    /\ UNCHANGED <<issued, told, accepted, runtimeVars>>

\* TicketsRepo::insert_new with the id of a ticket there is: the exception
\* becomes the HTTP server's 500.
InsertTicketCollides(w, t) ==
    /\ At(w, "insert")
    /\ TicketInsertFails(t)
    /\ Finish(w)
    /\ UNCHANGED <<issued, drawn, told, accepted, runtimeVars>>

\* Mutant of QuoteOrZero: the optional is dereferenced unseen.
QuoteUnwrapped(q) == q

\* .value_or(0): 0 is no quote.
QuoteOrZero(q) == IF q = None THEN 0 ELSE q

\* MessagesRepo::latest_dc_msg_id_for_ticket.
ReadQuote(w) ==
    /\ At(w, "quote")
    /\ \E q \in {None} \cup {m.dc : m \in messages} :
          /\ LatestDcMsgId(work[w].ticket, q)
          /\ work' = [work EXCEPT ![w].stage = "append", ![w].quote = QuoteOrZero(q)]
    /\ UNCHANGED <<issued, drawn, told, accepted, dbVars, runtimeVars>>

\* MessagesRepo::append, the insert.  A purge may have taken the ticket: then
\* the foreign key fails and the exception becomes a 500.
AppendVisitor(w) ==
    /\ At(w, "append")
    /\ \/ MessageInsert(work[w].ticket, "visitor", work[w].when) /\ Goto(w, "rowid")
       \/ MessageInsertFails(work[w].ticket) /\ Finish(w)
    /\ UNCHANGED <<issued, drawn, told, accepted, runtimeVars>>

\* MessagesRepo::append, return sqlite3_last_insert_rowid(db_).
ReadRowid(w) ==
    /\ At(w, "rowid")
    /\ work' = [work EXCEPT ![w].row = lastRowid,
                            ![w].stage = IF work[w].kind = "reply" THEN "status" ELSE "send"]
    /\ UNCHANGED <<issued, drawn, told, accepted, dbVars, runtimeVars>>

\* tickets_.set_status(in.ticket_id, AwaitingAdmin).
PassToAdmin(w) ==
    /\ At(w, "status")
    /\ TicketSetStatus(work[w].ticket, "awaiting_admin")
    /\ Goto(w, "send")
    /\ UNCHANGED <<issued, drawn, told, accepted, runtimeVars>>

\* Mutant of SendFailed: the result of the send is not looked at.
SendUnchecked(w) == Goto(w, "bind")

\* The admin has not been reached and the visitor is not given the token.
SendFailed(w) == Finish(w)

\* sender_.send_to_owner; a failure ends the request with SendFailed and
\* leaves the rows where they are.
Notify(w) ==
    /\ At(w, "send")
    /\ \/ /\ SendToOwner(work[w].ticket, work[w].quote)
          /\ work' = [work EXCEPT ![w].stage = "bind", ![w].dc = lastDc']
       \/ /\ SendToOwnerFails
          /\ SendFailed(w)
    /\ UNCHANGED <<issued, drawn, told, accepted, dbVars, clock, running, owner>>

\* messages_.set_dc_msg_id(row_id, *dc_msg_id), and the answer Ok.
BindNotification(w) ==
    /\ At(w, "bind")
    /\ MessageSetDcMsgId(work[w].row, work[w].dc)
    /\ told' = told \cup {work[w].ticket}
    /\ Finish(w)
    /\ UNCHANGED <<issued, drawn, accepted, runtimeVars>>

\* A step of a request that is under way.
RequestStep(w) ==
    \/ ClaimChallenge(w) \/ JudgeClaim(w)
    \/ \E t \in TicketIds : InsertTicket(w, t) \/ InsertTicketCollides(w, t)
    \/ ReadQuote(w) \/ AppendVisitor(w) \/ ReadRowid(w) \/ PassToAdmin(w)
    \/ Notify(w) \/ BindNotification(w)

-----------------------------------------------------------------------------
(* Properties of the visitor's side *)

\* replay.h:13-17: one solved challenge buys one request.
AcceptedOnce == \A c \in Challenges : accepted[c] <= 1

\* Who was answered Ok has written something the admin was sent: the ticket,
\* while it lives, holds the visitor's message, and the admin a notification.
OkMeansAdminNotified ==
    \A t \in told :
        /\ \E n \in outbox : n.ticket = t
        /\ Live(t) => \E m \in MessagesOf(t) : m.sender = "visitor"

\* An expired row is only ever dropped from pow_replay once the challenge it
\* remembers is dead too, so no challenge is both accepted and forgotten.
ReplayMemory ==
    \A c \in Challenges : accepted[c] > 0 /\ Valid(c) => Consumed(c)
=============================================================================
