----------------------------- MODULE TicketPage -----------------------------
(***************************************************************************)
(* The visitor's page (web/app.js) and the GET handler it polls            *)
(* (server/server.cpp).  The server behind the handler is TicketLife, the  *)
(* abstract specification of a ticket.                                     *)
(*                                                                         *)
(* A poll is four steps: the page sends it, the handler reads the ticket,  *)
(* the handler reads the messages, the answer arrives.  The page's timer   *)
(* does not wait for one poll before it sends the next, nor does a new     *)
(* ticket wait for the polls of the previous one: any number of them may   *)
(* be under way and be answered in any order.  What the page keeps between *)
(* events are the variables of the script.                                 *)
(***************************************************************************)
EXTENDS TicketLife, FiniteSets, FiniteSetsExt

CONSTANTS
    Slots,        \* bound: as many requests of the page may be under way at once
    None,         \* no ticket
    MaxEntries    \* bound on the messages of all tickets together

ASSUME TicketPageAssumption == None \notin TicketIds /\ MaxEntries \in Nat

VARIABLES
    saved,       \* localStorage: the ticket whose credentials are kept, or None
    stored,      \* the script's copy of them
    header,      \* the ticket whose id the page shows, None while it shows the form
    current,     \* currentTicket: the last answer with a body, and whose it was
    last,        \* lastMsgCount and lastStatus: the rendering they were taken from,
                 \* NoData as long as they are -1 and ''
    replyTo,     \* the ticket the reply form writes to, None while it is hidden
    timer,       \* the ticket setInterval polls, None when it is stopped
    requests,    \* the polls under way, and the reply
    given        \* tickets whose credentials the server handed out

pageVars == <<saved, stored, header, current, last, replyTo, timer>>
vars == <<lifeVars, pageVars, requests, given>>

Phases == {"none", "closed"} \cup OpenPhases

\* Nothing was rendered.
NoData == [ticket |-> None, status |-> "", log |-> {}]

\* A request: whose it is, the rendering whose count and status a poll says the
\* page has, and what the handler has found out so far.
Request(stage, t, have) ==
    [stage |-> stage, ticket |-> t, have |-> have, code |-> 0, phase |-> "none", log |-> {}]

Free == Request("free", None, NoData)

\* An answer of the handler; without a body it says nothing of the ticket.
Answered(t, code, status, messages) ==
    [stage |-> "answered", ticket |-> t, have |-> NoData,
     code |-> code, phase |-> status, log |-> messages]

Busy(r) == requests[r].stage # "free"

\* The button for a new ticket: the last rendering has shown or hidden it.
NewButton == current.status = "closed"

Init ==
    /\ LifeInit
    /\ saved = None /\ stored = None
    /\ header = None
    /\ current = NoData /\ last = NoData
    /\ replyTo = None
    /\ timer = None
    /\ requests = [r \in Slots |-> Free]
    /\ given = {}

-----------------------------------------------------------------------------
(* The page *)

\* fetch(url): have_count and have_status go along once something was rendered.
Poll(r, t, have) ==
    /\ ~Busy(r)
    /\ requests' = [requests EXCEPT ![r] = Request("sent", t, have)]

\* Mutant of Forget: there is no last rendering, not an empty one.
ForgetIntoNull == last' = None

\* A fresh view: the next poll asks for everything.
Forget == last' = NoData

\* showTicketView: the list, the form and the button of the last rendering stay.
ShowTicketView(t, r) ==
    /\ Forget
    /\ header' = t
    /\ timer' = t
    /\ Poll(r, t, last')

\* renderTicket.  An answer that is closed stops the timer, whosever it is.
Render(data, t) ==
    /\ last' = data
    /\ replyTo' = IF data.status = "awaiting_visitor" THEN t ELSE None
    /\ timer' = IF data.status = "closed" THEN None ELSE timer

\* onSubmit is answered Ok: the visitor's new ticket is in the database.  The
\* awaits before are no steps: the form stays in view and its button disabled
\* until the answer, and whatever else arrives meanwhile is a step of its own.
SubmitAnswered(t, r) ==
    /\ header = None
    /\ t \notin given
    /\ \E e \in log[t] : e.by = "visitor"
    /\ given' = given \cup {t}
    /\ saved' = t /\ stored' = t
    /\ ShowTicketView(t, r)
    /\ UNCHANGED <<lifeVars, current, replyTo>>

\* The timer fires, whatever polls are under way.
TimerFires(r) ==
    /\ timer # None
    /\ Poll(r, timer, last)
    /\ UNCHANGED <<lifeVars, pageVars, given>>

\* onReplySubmit, up to the await: the button is disabled until the answer.  The
\* form may still be that of the previous ticket.
SendReply(r) ==
    /\ header # None /\ replyTo # None
    /\ ~Busy(r)
    /\ \A s \in Slots : requests[s].stage # "reply"
    /\ requests' = [requests EXCEPT ![r] = Request("reply", replyTo, NoData)]
    /\ UNCHANGED <<lifeVars, pageVars, given>>

\* The answer to the reply: Ok polls at once, an error only raises an alert.
ReplyAnswered(r) ==
    /\ requests[r].stage = "reply"
    /\ requests' = [requests EXCEPT ![r] = Request("sent", @.ticket, last)]
    /\ UNCHANGED <<lifeVars, pageVars, given>>

\* newBtn is clicked.
NewTicket ==
    /\ header # None /\ NewButton
    /\ saved' = None
    /\ timer' = None
    /\ header' = None
    /\ UNCHANGED <<lifeVars, stored, current, last, replyTo, requests, given>>

\* langchange: refreshI18n renders the last answer again, as the stored ticket.
SwitchLanguage ==
    /\ current # NoData
    /\ Render(current, stored)
    /\ UNCHANGED <<lifeVars, saved, stored, header, current, requests, given>>

\* The page is loaded anew and starts from localStorage; the answers to the
\* requests of the old one go nowhere.
Reload ==
    /\ stored' = saved
    /\ current' = NoData /\ replyTo' = None
    /\ Forget
    /\ header' = saved
    /\ timer' = saved
    /\ \E r \in Slots :
          requests' = [s \in Slots |->
              IF s = r /\ saved # None THEN Request("sent", saved, NoData) ELSE Free]
    /\ UNCHANGED <<lifeVars, saved, given>>

\* Another tab of the site: its visitor is answered a new ticket, or it gives up
\* the one it shows.  Both tabs keep their credentials in the one localStorage.
OtherTab ==
    /\ \/ saved' = None /\ UNCHANGED given
       \/ \E t \in TicketIds \ given :
             /\ \E e \in log[t] : e.by = "visitor"
             /\ saved' = t
             /\ given' = given \cup {t}
    /\ UNCHANGED <<lifeVars, stored, header, current, last, replyTo, timer, requests>>

-----------------------------------------------------------------------------
(* The handler of GET /api/tickets/<id>, two statements *)

ReadTicket(r) ==
    LET t == requests[r].ticket
    IN  /\ requests[r].stage = "sent"
        /\ requests' = [requests EXCEPT ![r] =
              IF phase[t] = "none"
              THEN Answered(t, 404, "none", {})
              ELSE [@ EXCEPT !.stage = "read", !.phase = phase[t]]]
        /\ UNCHANGED <<lifeVars, pageVars, given>>

\* Mutants of Unchanged: the status is not compared, the count is not.
SameCount(q, messages) == Cardinality(q.have.log) = Cardinality(messages) /\ q.have # NoData
SameStatus(q, messages) == q.have.status = q.phase

\* The count and the status the client has are those there are.
Unchanged(q, messages) ==
    /\ Cardinality(q.have.log) = Cardinality(messages)
    /\ q.have.status = q.phase

ReadMessages(r) ==
    LET t == requests[r].ticket
    IN  /\ requests[r].stage = "read"
        /\ requests' = [requests EXCEPT ![r] =
              IF Unchanged(@, log[t])
              THEN Answered(t, 304, "none", {}) ELSE Answered(t, 200, @.phase, log[t])]
        /\ UNCHANGED <<lifeVars, pageVars, given>>

\* Mutant of HandlerStep: the messages are read before the ticket.
MessagesFirst(r) ==
    LET t == requests[r].ticket
    IN  /\ requests[r].stage \in {"sent", "read"}
        /\ requests' = [requests EXCEPT ![r] =
              IF @.stage = "sent" THEN [@ EXCEPT !.stage = "read", !.log = log[t]]
              ELSE Answered(t, 200, phase[t], @.log)]
        /\ UNCHANGED <<lifeVars, pageVars, given>>

HandlerStep(r) == ReadTicket(r) \/ ReadMessages(r)

-----------------------------------------------------------------------------
(* The answer *)

\* Mutant of Dismissed: every answer that is not ok ends the ticket view.
AnyRefusal == {304, 404}

\* The answers after which the page gives the ticket up.
Dismissed == {404}

Arrive(r, code) ==
    /\ requests[r].stage = "answered"
    /\ requests[r].code = code
    /\ requests' = [requests EXCEPT ![r] = Free]
    /\ UNCHANGED <<lifeVars, given>>

\* resp.status === 404: the credentials go, whosever the answer was.
NotFoundArrives(r) ==
    /\ \E code \in Dismissed : Arrive(r, code)
    /\ saved' = None
    /\ timer' = None
    /\ header' = None
    /\ UNCHANGED <<stored, current, last, replyTo>>

NotModifiedArrives(r) ==
    /\ 304 \notin Dismissed
    /\ Arrive(r, 304)
    /\ UNCHANGED pageVars

\* The page looks neither at whose answer it is nor at whether a later poll was
\* answered before.
TicketArrives(r) ==
    LET q == requests[r]
        data == [ticket |-> q.ticket, status |-> q.phase, log |-> q.log]
    IN  /\ Arrive(r, 200)
        /\ current' = data
        /\ Render(data, q.ticket)
        /\ UNCHANGED <<saved, stored, header>>

Answer(r) == NotFoundArrives(r) \/ NotModifiedArrives(r) \/ TicketArrives(r) \/ ReplyAnswered(r)

\* The network fails or the server refuses: the page keeps what it has.
PollLost(r) ==
    /\ Busy(r)
    /\ requests' = [requests EXCEPT ![r] = Free]
    /\ UNCHANGED <<lifeVars, pageVars, given>>

-----------------------------------------------------------------------------
(* The server: TicketLife, with one new entry after all others, and where the
   id of a ticket that was handed out is not drawn again (crypto random,
   service.cpp:94). *)

LastEntry == Max({0} \cup {e.n : e \in UNION {log[t] : t \in TicketIds}})

Hear(t, speaker) ==
    /\ LastEntry < MaxEntries
    /\ log' = [log EXCEPT ![t] = @ \cup {[n |-> LastEntry + 1, by |-> speaker]}]
    /\ UNCHANGED phase

ServerStep ==
    /\ \/ \E t \in TicketIds :
             \/ t \notin given /\ OpenTicket(t)
             \/ phase[t] # "none" /\ Hear(t, "visitor")
             \/ phase[t] \in OpenPhases /\ Hear(t, "admin")
             \/ PassTurn(t, "awaiting_visitor", "admin") \/ PassTurn(t, "awaiting_admin", "visitor")
             \/ Close(t)
       \/ \E gone \in SUBSET TicketIds : Drop(gone)
    /\ UNCHANGED <<pageVars, requests, given>>

PageStep ==
    \/ \E r \in Slots :
          TimerFires(r) \/ SendReply(r) \/ \E t \in TicketIds : SubmitAnswered(t, r)
    \/ NewTicket \/ SwitchLanguage \/ Reload \/ OtherTab

Next ==
    \/ ServerStep \/ PageStep
    \/ \E r \in Slots : HandlerStep(r) \/ Answer(r) \/ PollLost(r)

Spec == Init /\ [][Next]_vars

\* The handler runs, and what is answered arrives unless it is lost.  The interval
\* fires whatever else is under way: only the bound on polls makes it wait, hence
\* strong fairness.
Fairness ==
    /\ SF_vars(\E r \in Slots : TimerFires(r))
    /\ \A r \in Slots : WF_vars(HandlerStep(r) \/ Answer(r))

FairSpec == Spec /\ Fairness

-----------------------------------------------------------------------------
(* Properties *)

\* The page knows only tickets whose credentials were handed out, and what it
\* last rendered is the answer it keeps, if it rendered any since the view came
\* up (app.js:28-30).
PageTypeOK ==
    /\ {saved, stored, header, replyTo, timer, current.ticket}
           \subseteq given \cup {None}
    /\ given \subseteq TicketIds
    /\ last \in {NoData, current}
    /\ current.status \in Phases \cup {""}
    /\ \A r \in Slots : requests[r].code \in {0, 200, 304, 404}

\* Where the page asks the visitor to answer, it shows what the admin said, in
\* whatever order the polls are answered: the handler reads the status first
\* and the messages after it (server.cpp:307, 324), and the bot writes them the
\* other way round.
TurnIsShown ==
    current.status = "awaiting_visitor" /\ phase[current.ticket] # "none"
        => \E e \in current.log : e.by = "admin"

\* The page shows ticket t as it is.  One thing it may miss for good is a message
\* of the visitor's that is heard after the close.
Shows(t) ==
    /\ current.ticket = t
    /\ current.status = phase[t]
    /\ phase[t] # "closed" => current.log = log[t]

\* What the page last rendered is another ticket, with as many messages and the
\* same status as t: the handler takes that for t.
LooksLike(t) ==
    /\ last.ticket # t
    /\ last.status = phase[t]
    /\ Cardinality(last.log) = Cardinality(log[t])

Changes(t) == phase'[t] # phase[t] \/ log'[t] # log[t]

\* A poll comes to nothing: it is lost, or the page it was of is loaded anew.  An
\* answer "not modified" is no loss, nor is that of a reply.
PollFails ==
    \/ Reload
    \/ \E r \in Slots : PollLost(r) /\ requests[r].stage # "reply" /\ requests[r].code # 304

\* README.md:9-10: replies appear on the ticket page.  A ticket that the timer
\* polls is shown as it is again and again, whatever late answers come in
\* between, unless it keeps changing or polls keep failing; but for a page that
\* has rendered another ticket that looks the same.
PageCatchesUp ==
    \A t \in TicketIds :
        \/ []<>(timer = t /\ phase[t] # "none" => Shows(t) \/ LooksLike(t))
        \/ []<><<Changes(t) \/ PollFails>>_vars

\* The same for the ticket the page has in view.  Refuted: an answer "closed"
\* stops the timer, and an older answer that arrives after it is rendered over
\* it (app.js:177-178, 230-231) and stays.
PageFollowsTicket ==
    \A t \in TicketIds :
        \/ []<>(header = t /\ phase[t] # "none" => Shows(t))
        \/ []<><<Changes(t) \/ PollFails>>_vars

\* server.cpp:318-321: "Messages are append-only and never edited, so a count
\* match means no new content".  A poll that says what the page has of the
\* ticket it asks for is answered "not modified" only if that is all there is,
\* although the handler reads status and messages at different times.
NotModifiedIsTrue ==
    [][\A r \in Slots :
          LET q == requests[r]
          IN  q.stage = "read" /\ requests'[r].code = 304 /\ q.have.ticket = q.ticket
                  => q.have.log = log[q.ticket] /\ q.have.status = q.phase]_requests

\* A step of another tab.
Elsewhere == UNCHANGED <<stored, header, current, last, replyTo, timer, requests>>

\* service.h:33: the read token is handed out once.  This is all that takes the
\* one of an open ticket from the page: another tab of the site, which writes to
\* the same storage; an answer "not found" to a poll of another ticket, which
\* arrives late (app.js:169); and the button that another ticket's rendering has
\* left behind (app.js:134).
TokenKept ==
    [][\A t \in TicketIds : saved = t /\ saved' = None /\ phase[t] \in OpenPhases =>
          \/ Elsewhere
          \/ \E r \in Slots : requests[r].code = 404 /\ requests[r].ticket # t /\ ~Busy(r)'
          \/ NewButton /\ current.ticket # t]_saved

\* The same without what another ticket has left behind.  Refuted: an answer
\* "not found" clears the storage whosever it is.
TokenKeptFromOthers ==
    [][saved # None /\ saved' = None /\ phase[saved] \in OpenPhases => Elsewhere]_saved

\* What this page gives up is the token of the ticket it shows, and not one that
\* another tab has stored.  Refuted: clearStored asks nothing (app.js:303).
OtherTokenKept ==
    [][saved # None /\ saved' = None => Elsewhere \/ header = saved]_saved

\* app.js:222, "onReplySubmit(e, t)": the reply form writes to the ticket whose id
\* is shown above it.  Refuted: showTicketView leaves the old form in place.
RepliesGoWhereShown == header # None /\ replyTo # None => replyTo = header
=============================================================================
