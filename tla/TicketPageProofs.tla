--------------------------- MODULE TicketPageProofs ---------------------------
(***************************************************************************)
(* What the visitor's page shows and keeps, for any number of tickets,     *)
(* messages and requests under way, in whatever order they are answered.   *)
(*                                                                         *)
(* The invariant is about what an answer says: it was so once, and the     *)
(* ticket only went on from there unless it is gone for good.  That holds  *)
(* of what the page keeps, of what a poll says the page has and of what an *)
(* answer under way brings, whoever overtakes whom.                        *)
(***************************************************************************)
EXTENDS TicketPage, FiniteSetTheorems, WellFoundedInduction, TLAPS

-----------------------------------------------------------------------------
(* Conversations *)

Entry == [n : 1..MaxEntries, by : Speakers]

\* A number stands for one message.
Logs == {L \in SUBSET Entry : \A e, f \in L : e.n = f.n => e = f}

LEMMA LogsAreFinite ==
    ASSUME NEW L \in Logs
    PROVE  IsFiniteSet(L) /\ Cardinality(L) \in 0..MaxEntries
<1> DEFINE number == [e \in L |-> e.n]
<1>1. number \in Injection(L, 1..MaxEntries)
  BY DEF Logs, Entry, Injection, IsInjective
<1>2. IsFiniteSet(1..MaxEntries) /\ Cardinality(1..MaxEntries) = MaxEntries
  BY FS_Interval, TicketPageAssumption
<1>3. IsFiniteSet(L) /\ Cardinality(L) <= MaxEntries
  BY <1>1, <1>2, FS_Injection
<1>4. QED
  BY <1>3, FS_CardinalityType, TicketPageAssumption

\* A conversation that only grew and has as many messages is the same.
LEMMA SameCountSameLog ==
    ASSUME NEW L \in Logs, NEW M \in SUBSET L, Cardinality(L) = Cardinality(M)
    PROVE  L = M
  BY LogsAreFinite, FS_Subset

LEMMA EmptyLog == {} \in Logs /\ Cardinality({}) = 0
  BY FS_EmptySet DEF Logs

\* A bounded set of numbers has a largest one.
LEMMA LargestExists ==
    ASSUME NEW N \in Nat, NEW S \in SUBSET (0..N), S # {}
    PROVE  Max(S) \in S /\ \A x \in S : x <= Max(S)
<1> DEFINE T == {N - x : x \in S}
<1>0. \A x \in S : x \in Nat /\ N - x \in Nat
  OBVIOUS
<1>1. T \subseteq Nat /\ T # {}
  BY <1>0
<1>2. PICK y \in T : \A z \in T : ~(<<z, y>> \in OpToRel(<, Nat))
  BY <1>1, NatLessThanWellFounded, WFMin
<1>3. \A z \in T : ~(z < y)
  BY <1>1, <1>2 DEF OpToRel
<1>4. PICK x \in S : y = N - x
  BY <1>2
<1>5. \A z \in S : x >= z
  <2> TAKE z \in S
  <2>1. N - z \in T
    OBVIOUS
  <2>2. ~(N - z < N - x)
    BY <1>3, <1>4, <2>1
  <2>3. QED
    BY <1>0, <2>2
<1>6. QED
  BY <1>0, <1>5 DEF Max

-----------------------------------------------------------------------------
(* The invariant *)

Stages == {"free", "sent", "read", "reply", "answered"}
Codes == {0, 200, 304, 404}

\* What an answer with a body says.
Answers == [ticket : TicketIds \cup {None}, status : Phases \cup {""}, log : Logs]

PollRecord == [stage : Stages, ticket : TicketIds \cup {None}, have : Answers,
               code : Codes, phase : Phases, log : Logs]

Spoken(messages) == \E e \in messages : e.by = "admin"

\* d was said of a ticket of G, and the phases P and the logs L went on from there.
Real(d, G, P, L) ==
    \/ d = NoData
    \/ /\ d.ticket \in G
       /\ P[d.ticket] # "none" =>
             /\ d.log \subseteq L[d.ticket]
             /\ d.status = "closed" => P[d.ticket] = "closed"
             /\ d.status = "awaiting_visitor" => Spoken(d.log)

Body(q) == [ticket |-> q.ticket, status |-> q.phase, log |-> q.log]

\* What is known of a request at each of its stages.
RequestOK(q, G, P, L) ==
    /\ q.stage # "free" => q.ticket \in G
    /\ q.stage # "answered" => q.code = 0
    /\ Real(q.have, G, P, L)
    /\ q.stage = "read" /\ P[q.ticket] # "none" =>
          /\ q.phase = "closed" => P[q.ticket] = "closed"
          /\ q.phase = "awaiting_visitor" => Spoken(L[q.ticket])
    /\ q.stage = "answered" /\ q.code = 404 => P[q.ticket] = "none"
    /\ q.stage = "answered" /\ q.code = 200 => Real(Body(q), G, P, L)

LifeInv ==
    /\ phase \in [TicketIds -> Phases]
    /\ log \in [TicketIds -> Logs]
    /\ \A t \in TicketIds : phase[t] = "none" => log[t] = {}
    /\ \A t \in TicketIds : phase[t] = "awaiting_visitor" => Spoken(log[t])

\* The tickets the page may know of.
Known(G) == G \cup {None}

PageTypes ==
    /\ given \subseteq TicketIds
    /\ saved \in Known(given) /\ stored \in Known(given) /\ header \in Known(given)
    /\ replyTo \in Known(given) /\ timer \in Known(given)
    /\ current \in Answers
    /\ last \in {NoData, current}
    /\ requests \in [Slots -> PollRecord]

PageInv ==
    /\ LifeInv
    /\ PageTypes
    /\ Real(current, given, phase, log)
    /\ \A r \in Slots : RequestOK(requests[r], given, phase, log)

\* The tickets of G went on from P and L to P2 and L2.
GoneOn(G, P, L, P2, L2) ==
    \A t \in G : P2[t] # "none" =>
        P[t] # "none" /\ L[t] \subseteq L2[t] /\ (P[t] = "closed" => P2[t] = "closed")

LEMMA RealStays ==
    ASSUME NEW G, NEW G2, NEW P, NEW L, NEW P2, NEW L2, G \subseteq G2,
           GoneOn(G, P, L, P2, L2), NEW d, Real(d, G, P, L)
    PROVE  Real(d, G2, P2, L2)
<1>1. CASE d = NoData
  BY <1>1 DEF Real
<1>2. CASE d # NoData
  BY <1>2 DEF Real, GoneOn
<1>3. QED
  BY <1>1, <1>2

LEMMA RequestStays ==
    ASSUME NEW G, NEW G2, NEW P, NEW L, NEW P2, NEW L2, G \subseteq G2,
           GoneOn(G, P, L, P2, L2), NEW q, RequestOK(q, G, P, L),
           \A t \in G : P[t] # "none" /\ P2[t] # "none" /\ Spoken(L[t]) => Spoken(L2[t])
    PROVE  RequestOK(q, G2, P2, L2)
<1>1. Real(q.have, G2, P2, L2)
  BY RealStays DEF RequestOK
<1>2. q.stage = "answered" /\ q.code = 200 => Real(Body(q), G2, P2, L2)
  BY RealStays DEF RequestOK
<1>3. q.stage # "free" /\ P2[q.ticket] # "none" =>
         q.ticket \in G /\ P[q.ticket] # "none"
           /\ (P[q.ticket] = "closed" => P2[q.ticket] = "closed")
           /\ (Spoken(L[q.ticket]) => Spoken(L2[q.ticket]))
  BY DEF RequestOK, GoneOn
<1>4. q.stage = "read" /\ P2[q.ticket] # "none" =>
         /\ q.phase = "closed" => P2[q.ticket] = "closed"
         /\ q.phase = "awaiting_visitor" => Spoken(L2[q.ticket])
  BY <1>3 DEF RequestOK
<1>5. q.stage = "answered" /\ q.code = 404 => P2[q.ticket] = "none"
  BY <1>3 DEF RequestOK
<1>6. QED
  BY <1>1, <1>2, <1>4, <1>5 DEF RequestOK

LEMMA NothingMoved ==
    ASSUME NEW G, NEW P, NEW L
    PROVE  GoneOn(G, P, L, P, L)
  BY DEF GoneOn

LEMMA StagesAndCodes ==
    /\ "free" \in Stages /\ "sent" \in Stages /\ "read" \in Stages /\ "reply" \in Stages
    /\ "answered" \in Stages
    /\ 0 \in Codes /\ 200 \in Codes /\ 304 \in Codes /\ 404 \in Codes
    /\ "none" \in Phases
  BY DEF Stages, Codes, Phases

LEMMA NoDataTyped == NoData \in Answers /\ NoData.ticket = None /\ NoData.status = "" /\ NoData.log = {}
  BY EmptyLog DEF NoData, Answers

LEMMA AnswerMade ==
    ASSUME NEW t \in TicketIds, NEW code \in Codes, NEW status \in Phases, NEW messages \in Logs
    PROVE  Answered(t, code, status, messages) \in PollRecord
  BY NoDataTyped, StagesAndCodes DEF Answered, PollRecord

\* A request that was just made.
LEMMA RequestMade ==
    ASSUME NEW G \in SUBSET TicketIds, NEW P, NEW L, NEW t \in G, NEW have \in Answers,
           Real(have, G, P, L), NEW stage \in {"sent", "reply"}
    PROVE  Request(stage, t, have) \in PollRecord
             /\ RequestOK(Request(stage, t, have), G, P, L)
<1>1. Request(stage, t, have) \in PollRecord
  BY EmptyLog, StagesAndCodes DEF Request, PollRecord
<1>2. RequestOK(Request(stage, t, have), G, P, L)
  BY DEF Request, RequestOK
<1>3. QED
  BY <1>1, <1>2

LEMMA FreeTyped ==
    ASSUME NEW G, NEW P, NEW L
    PROVE  Free \in PollRecord /\ RequestOK(Free, G, P, L)
<1>1. Free \in PollRecord
  BY NoDataTyped, EmptyLog, StagesAndCodes DEF Free, Request, PollRecord
<1>2. RequestOK(Free, G, P, L)
  BY DEF Free, Request, RequestOK, Real
<1>3. QED
  BY <1>1, <1>2

LEMMA InitPage == Init => PageInv
<1> SUFFICES ASSUME Init PROVE PageInv
  OBVIOUS
<1>1. LifeInv
  BY EmptyLog DEF Init, LifeInit, LifeInv, Phases
<1>2. PageTypes
  BY NoDataTyped, FreeTyped DEF Init, PageTypes, Known
<1>3. Real(current, given, phase, log)
  BY DEF Init, Real
<1>4. \A r \in Slots : RequestOK(requests[r], given, phase, log)
  BY FreeTyped DEF Init
<1>5. QED
  BY <1>1, <1>2, <1>3, <1>4 DEF PageInv

\* One more message, after all there are.
LEMMA HearTyped ==
    ASSUME LifeInv, NEW t \in TicketIds, NEW speaker \in Speakers, Hear(t, speaker)
    PROVE  /\ log' \in [TicketIds -> Logs] /\ phase' = phase
           /\ \A u \in TicketIds : log[u] \subseteq log'[u]
           /\ \A u \in TicketIds \ {t} : log'[u] = log[u]
<1> DEFINE heard == UNION {log[u] : u \in TicketIds}
           numbers == {0} \cup {e.n : e \in heard}
           entry == [n |-> LastEntry + 1, by |-> speaker]
<1>1. \A u \in TicketIds : log[u] \in Logs /\ log[u] \subseteq heard
  BY DEF LifeInv
<1>2. \A e \in heard : e \in Entry
  BY <1>1 DEF Logs
<1>3. numbers \in SUBSET (0..MaxEntries) /\ numbers # {}
  BY <1>2, TicketPageAssumption DEF Entry
<1>4. LastEntry = Max(numbers)
  BY DEF LastEntry
<1> HIDE DEF numbers
<1>5. LastEntry \in numbers /\ \A x \in numbers : x <= LastEntry
  BY <1>3, <1>4, LargestExists, TicketPageAssumption
<1>6. LastEntry \in 0..MaxEntries /\ \A e \in heard : e.n <= LastEntry
  BY <1>3, <1>5 DEF numbers
<1>7. entry \in Entry /\ entry.n = LastEntry + 1
  BY <1>6, TicketPageAssumption DEF Hear, Entry
<1> HIDE DEF heard, entry
<1>8. log' = [log EXCEPT ![t] = @ \cup {entry}] /\ phase' = phase
  BY DEF Hear, entry
<1>9. log[t] \cup {entry} \in Logs
  <2>1. \A e \in log[t] : e \in Entry /\ e.n <= LastEntry
    BY <1>1, <1>2, <1>6
  <2>2. \A e, f \in log[t] : e.n = f.n => e = f
    BY <1>1 DEF Logs
  <2>3. \A e \in log[t] : e.n # entry.n
    BY <1>6, <1>7, <2>1 DEF Entry
  <2>4. QED
    BY <1>7, <2>1, <2>2, <2>3 DEF Logs
<1>10. QED
  BY <1>8, <1>9 DEF LifeInv

\* The server goes on from what it said of the tickets that were handed out, or
\* drops them for good.
LEMMA ServerGoesOn ==
    ASSUME LifeInv, given \subseteq TicketIds, ServerStep
    PROVE  /\ LifeInv'
           /\ GoneOn(given, phase, log, phase', log')
           /\ \A t \in given : phase'[t] # "none" /\ Spoken(log[t]) => Spoken(log'[t])
<1>1. CASE \E gone \in SUBSET TicketIds : Drop(gone)
  <2>1. PICK gone \in SUBSET TicketIds : Drop(gone)
    BY <1>1
  <2>2. LifeInv'
    BY <2>1, EmptyLog DEF LifeInv, Drop, Phases
  <2>3. \A t \in TicketIds : phase'[t] # "none" => phase'[t] = phase[t] /\ log'[t] = log[t]
    BY <2>1 DEF Drop, LifeInv
  <2>4. QED
    BY <2>2, <2>3 DEF GoneOn
<1>2. CASE \E t \in TicketIds : t \notin given /\ OpenTicket(t)
  <2>1. PICK t \in TicketIds : t \notin given /\ OpenTicket(t)
    BY <1>2
  <2>2. LifeInv'
    <3>1. phase' = [phase EXCEPT ![t] = "awaiting_admin"] /\ log' = log
      BY <2>1 DEF OpenTicket
    <3>2. "awaiting_admin" \in Phases
      BY DEF Phases, OpenPhases
    <3>3. QED
      BY <3>1, <3>2 DEF LifeInv
  <2>3. log' = log /\ \A u \in given : phase'[u] = phase[u]
    BY <2>1 DEF OpenTicket, LifeInv
  <2>4. QED
    BY <2>2, <2>3 DEF GoneOn
<1>3. CASE \E t \in TicketIds, speaker \in Speakers : phase[t] # "none" /\ Hear(t, speaker)
  <2>1. PICK t \in TicketIds, speaker \in Speakers : phase[t] # "none" /\ Hear(t, speaker)
    BY <1>3
  <2>2. /\ log' \in [TicketIds -> Logs] /\ phase' = phase
        /\ \A u \in TicketIds : log[u] \subseteq log'[u]
        /\ \A u \in TicketIds \ {t} : log'[u] = log[u]
    BY <2>1, HearTyped
  <2>3. \A u \in TicketIds : Spoken(log[u]) => Spoken(log'[u])
    BY <2>2 DEF Spoken
  <2>4. LifeInv'
    BY <2>1, <2>2, <2>3 DEF LifeInv
  <2>5. QED
    BY <2>2, <2>3, <2>4 DEF GoneOn
<1>4. CASE \E t \in TicketIds : \/ PassTurn(t, "awaiting_visitor", "admin")
                                \/ PassTurn(t, "awaiting_admin", "visitor")
                                \/ Close(t)
  <2>1. PICK t \in TicketIds : \/ PassTurn(t, "awaiting_visitor", "admin")
                               \/ PassTurn(t, "awaiting_admin", "visitor")
                               \/ Close(t)
    BY <1>4
  <2>2. PICK turn \in {"awaiting_visitor", "awaiting_admin", "closed"} :
           /\ phase' = [phase EXCEPT ![t] = turn] /\ log' = log
           /\ phase[t] \in OpenPhases
           /\ turn = "awaiting_visitor" => Spoken(log[t])
    BY <2>1 DEF PassTurn, Close, Spoken
  <2>3. LifeInv'
    BY <2>2 DEF LifeInv, Phases, OpenPhases
  <2>4. \A u \in TicketIds : phase'[u] = phase[u] \/ phase[u] \in OpenPhases
    BY <2>2 DEF LifeInv
  <2>5. QED
    BY <2>2, <2>3, <2>4 DEF GoneOn, OpenPhases
<1>5. QED
  BY <1>1, <1>2, <1>3, <1>4 DEF ServerStep, Speakers, OpenPhases

-----------------------------------------------------------------------------
(* The steps *)

\* A step that leaves the tickets alone, by what it does to the rest.
LEMMA QuietStep ==
    ASSUME PageInv, UNCHANGED lifeVars, PageTypes', given \subseteq given',
           Real(current, given', phase, log) => Real(current', given', phase, log),
           \A r \in Slots : \/ requests'[r] = requests[r]
                            \/ RequestOK(requests'[r], given', phase, log)
    PROVE  PageInv'
<1>1. phase' = phase /\ log' = log
  BY DEF lifeVars
<1>2. GoneOn(given, phase, log, phase, log)
  BY NothingMoved
<1>3. Real(current', given', phase', log')
  BY <1>1, <1>2, RealStays DEF PageInv
<1>4. \A r \in Slots : RequestOK(requests'[r], given', phase', log')
  BY <1>1, <1>2, RequestStays DEF PageInv
<1>5. LifeInv'
  BY <1>1 DEF PageInv, LifeInv
<1>6. QED
  BY <1>3, <1>4, <1>5 DEF PageInv

LEMMA Submitted ==
    ASSUME PageInv, NEW r \in Slots, NEW t \in TicketIds, SubmitAnswered(t, r)
    PROVE  PageInv'
<1> DEFINE q == Request("sent", t, NoData)
<1>1. /\ given' = given \cup {t} /\ saved' = t /\ stored' = t /\ header' = t /\ timer' = t
      /\ last' = NoData /\ requests' = [requests EXCEPT ![r] = q]
      /\ UNCHANGED <<lifeVars, current, replyTo>>
  BY DEF SubmitAnswered, ShowTicketView, Forget, Poll
<1>2. q \in PollRecord /\ RequestOK(q, given', phase, log)
  BY <1>1, RequestMade, NoDataTyped DEF Real, PageInv, PageTypes
<1> HIDE DEF q
<1>3. PageTypes'
  BY <1>1, <1>2 DEF PageInv, PageTypes, Known
<1>4. QED
  BY <1>1, <1>2, <1>3, QuietStep DEF PageInv, PageTypes

LEMMA LastTyped ==
    ASSUME PageInv
    PROVE  last \in Answers /\ Real(last, given, phase, log)
  BY NoDataTyped DEF PageInv, PageTypes, Real

LEMMA Fired ==
    ASSUME PageInv, NEW r \in Slots, TimerFires(r)
    PROVE  PageInv'
<1> DEFINE q == Request("sent", timer, last)
<1>1. /\ requests' = [requests EXCEPT ![r] = q] /\ timer \in given
      /\ UNCHANGED <<lifeVars, pageVars, given>>
  BY DEF TimerFires, Poll, PageInv, PageTypes, Known
<1>2. q \in PollRecord /\ RequestOK(q, given, phase, log)
  BY <1>1, RequestMade, LastTyped DEF PageInv, PageTypes
<1> HIDE DEF q
<1>3. PageTypes'
  BY <1>1, <1>2 DEF PageInv, PageTypes, pageVars
<1>4. QED
  BY <1>1, <1>2, <1>3, QuietStep DEF PageInv, PageTypes, pageVars

LEMMA ReplySent ==
    ASSUME PageInv, NEW r \in Slots, SendReply(r)
    PROVE  PageInv'
<1> DEFINE q == Request("reply", replyTo, NoData)
<1>1. /\ requests' = [requests EXCEPT ![r] = q] /\ replyTo \in given
      /\ UNCHANGED <<lifeVars, pageVars, given>>
  BY DEF SendReply, PageInv, PageTypes, Known
<1>2. q \in PollRecord /\ RequestOK(q, given, phase, log)
  BY <1>1, RequestMade, NoDataTyped DEF Real, PageInv, PageTypes
<1> HIDE DEF q
<1>3. PageTypes'
  BY <1>1, <1>2 DEF PageInv, PageTypes, pageVars
<1>4. QED
  BY <1>1, <1>2, <1>3, QuietStep DEF PageInv, PageTypes, pageVars

LEMMA ReplyEnded ==
    ASSUME PageInv, NEW r \in Slots, ReplyAnswered(r)
    PROVE  PageInv'
<1> DEFINE q == Request("sent", requests[r].ticket, last)
<1>1. /\ requests' = [requests EXCEPT ![r] = q] /\ requests[r].stage = "reply"
      /\ RequestOK(requests[r], given, phase, log)
      /\ UNCHANGED <<lifeVars, pageVars, given>>
  BY DEF ReplyAnswered, PageInv
<1>2. requests[r].ticket \in given
  BY <1>1 DEF RequestOK
<1>3. q \in PollRecord /\ RequestOK(q, given, phase, log)
  BY <1>2, RequestMade, LastTyped DEF PageInv, PageTypes
<1> HIDE DEF q
<1>4. PageTypes'
  BY <1>1, <1>3 DEF PageInv, PageTypes, pageVars
<1>5. QED
  BY <1>1, <1>3, <1>4, QuietStep DEF PageInv, PageTypes, pageVars

LEMMA GaveUp ==
    ASSUME PageInv, NewTicket
    PROVE  PageInv'
<1>1. /\ saved' = None /\ timer' = None /\ header' = None
      /\ UNCHANGED <<lifeVars, stored, current, last, replyTo, requests, given>>
  BY DEF NewTicket
<1>2. PageTypes'
  BY <1>1 DEF PageInv, PageTypes, Known
<1>3. QED
  BY <1>1, <1>2, QuietStep DEF PageInv, PageTypes

LEMMA Switched ==
    ASSUME PageInv, SwitchLanguage
    PROVE  PageInv'
<1>1. /\ last' = current /\ replyTo' \in {None, stored} /\ timer' \in {None, timer}
      /\ UNCHANGED <<lifeVars, saved, stored, header, current, requests, given>>
  BY DEF SwitchLanguage, Render
<1>2. PageTypes'
  BY <1>1 DEF PageInv, PageTypes, Known
<1>3. QED
  BY <1>1, <1>2, QuietStep DEF PageInv, PageTypes

LEMMA Reloaded ==
    ASSUME PageInv, Reload
    PROVE  PageInv'
<1>1. /\ stored' = saved /\ current' = NoData /\ replyTo' = None /\ last' = NoData
      /\ header' = saved /\ timer' = saved
      /\ UNCHANGED <<lifeVars, saved, given>>
  BY DEF Reload, Forget
<1>2. PICK r \in Slots : requests' = [s \in Slots |->
          IF s = r /\ saved # None THEN Request("sent", saved, NoData) ELSE Free]
  BY DEF Reload
<1>3. \A s \in Slots : requests'[s] \in PollRecord /\ RequestOK(requests'[s], given, phase, log)
  <2> TAKE s \in Slots
  <2>1. CASE s = r /\ saved # None
    <3>1. requests'[s] = Request("sent", saved, NoData)
      BY <1>2, <2>1
    <3>2. saved \in given /\ given \subseteq TicketIds
      BY <2>1 DEF PageInv, PageTypes, Known
    <3>3. QED
      BY <3>1, <3>2, RequestMade, NoDataTyped DEF Real
  <2>2. CASE ~(s = r /\ saved # None)
    BY <1>2, <2>2, FreeTyped
  <2>3. QED
    BY <2>1, <2>2
<1>4. requests' \in [Slots -> PollRecord]
  BY <1>2, <1>3
<1>5. PageTypes'
  BY <1>1, <1>4, NoDataTyped DEF PageInv, PageTypes, Known
<1>6. QED
  BY <1>1, <1>3, <1>5, QuietStep DEF PageInv, PageTypes, Real

LEMMA OtherTabStepped ==
    ASSUME PageInv, OtherTab
    PROVE  PageInv'
<1>1. /\ given \subseteq given' /\ given' \subseteq TicketIds /\ saved' \in Known(given')
      /\ UNCHANGED <<lifeVars, stored, header, current, last, replyTo, timer, requests>>
  BY DEF OtherTab, PageInv, PageTypes, Known
<1>2. PageTypes'
  BY <1>1 DEF PageInv, PageTypes, Known
<1>3. QED
  BY <1>1, <1>2, QuietStep DEF PageInv, PageTypes

\* What the first statement of the handler makes of a poll.
LEMMA TicketRead ==
    ASSUME PageInv, NEW r \in Slots, ReadTicket(r)
    PROVE  PageInv'
<1> DEFINE p == requests[r]
           gone == Answered(p.ticket, 404, "none", {})
           read == [p EXCEPT !.stage = "read", !.phase = phase[p.ticket]]
<1>1. /\ requests' = [requests EXCEPT ![r] = IF phase[p.ticket] = "none" THEN gone ELSE read]
      /\ p.stage = "sent" /\ p \in PollRecord
      /\ RequestOK(p, given, phase, log)
      /\ UNCHANGED <<lifeVars, pageVars, given>>
  BY DEF ReadTicket, PageInv, PageTypes
<1>2. p.ticket \in given /\ p.ticket \in TicketIds /\ phase[p.ticket] \in Phases /\ p.code = 0
      /\ Real(p.have, given, phase, log)
      /\ (phase[p.ticket] = "awaiting_visitor" => Spoken(log[p.ticket]))
  BY <1>1 DEF RequestOK, PageInv, PageTypes, LifeInv
<1> HIDE DEF p
<1>3. CASE phase[p.ticket] = "none"
  <2>1. gone \in PollRecord
    BY <1>2, AnswerMade, StagesAndCodes, EmptyLog
  <2>2. RequestOK(gone, given, phase, log)
    BY <1>2, <1>3 DEF RequestOK, Real, Answered
  <2>3. requests' = [requests EXCEPT ![r] = gone]
    BY <1>1, <1>3
  <2> HIDE DEF gone, read
  <2>4. PageTypes'
    BY <1>1, <2>1, <2>3 DEF PageInv, PageTypes, pageVars
  <2>5. QED
    BY <1>1, <2>2, <2>3, <2>4, QuietStep DEF PageInv, PageTypes, pageVars
<1>4. CASE phase[p.ticket] # "none"
  <2>1. read \in PollRecord
    BY <1>1, <1>2 DEF PollRecord, Stages
  <2>2. /\ read.stage = "read" /\ read.have = p.have /\ read.code = p.code
        /\ read.ticket = p.ticket /\ read.phase = phase[p.ticket]
    BY <1>1 DEF PollRecord
  <2>3. requests' = [requests EXCEPT ![r] = read]
    BY <1>1, <1>4
  <2> HIDE DEF gone, read
  <2>4. RequestOK(read, given, phase, log)
    BY <1>2, <1>4, <2>2 DEF RequestOK
  <2>5. PageTypes'
    BY <1>1, <2>1, <2>3 DEF PageInv, PageTypes, pageVars
  <2>6. QED
    BY <1>1, <2>3, <2>4, <2>5, QuietStep DEF PageInv, PageTypes, pageVars
<1>5. QED
  BY <1>3, <1>4

\* What the second makes of it.
LEMMA MessagesRead ==
    ASSUME PageInv, NEW r \in Slots, ReadMessages(r)
    PROVE  PageInv'
<1> DEFINE p == requests[r]
           same == Answered(p.ticket, 304, "none", {})
           full == Answered(p.ticket, 200, p.phase, log[p.ticket])
<1>1. /\ requests' = [requests EXCEPT ![r] = IF Unchanged(p, log[p.ticket]) THEN same ELSE full]
      /\ p.stage = "read" /\ p \in PollRecord
      /\ RequestOK(p, given, phase, log)
      /\ UNCHANGED <<lifeVars, pageVars, given>>
  BY DEF ReadMessages, PageInv, PageTypes
<1>2. /\ p.ticket \in given /\ p.ticket \in TicketIds /\ log[p.ticket] \in Logs
      /\ p.phase \in Phases
  BY <1>1 DEF RequestOK, PageInv, PageTypes, LifeInv, PollRecord
<1>3. phase[p.ticket] # "none" =>
         /\ p.phase = "closed" => phase[p.ticket] = "closed"
         /\ p.phase = "awaiting_visitor" => Spoken(log[p.ticket])
  BY <1>1 DEF RequestOK
<1> HIDE DEF p
<1>4. same \in PollRecord /\ full \in PollRecord
  BY <1>2, AnswerMade, StagesAndCodes, EmptyLog
<1>5. RequestOK(same, given, phase, log)
  BY <1>2 DEF RequestOK, Real, Answered
<1>6. RequestOK(full, given, phase, log)
  <2>1. /\ full.stage = "answered" /\ full.code = 200 /\ full.ticket = p.ticket
        /\ full.have = NoData /\ full.phase = p.phase /\ full.log = log[p.ticket]
    BY DEF Answered
  <2> HIDE DEF full
  <2>2. Real(Body(full), given, phase, log)
    BY <1>2, <1>3, <2>1 DEF Real, Body
  <2>3. QED
    BY <1>2, <2>1, <2>2 DEF RequestOK, Real
<1> HIDE DEF same, full
<1>7. PageTypes'
  BY <1>1, <1>4 DEF PageInv, PageTypes, pageVars
<1>8. QED
  BY <1>1, <1>5, <1>6, <1>7, QuietStep DEF PageInv, PageTypes, pageVars

\* An answer without a body, or none.
LEMMA Refused ==
    ASSUME PageInv, NEW r \in Slots, NotFoundArrives(r) \/ NotModifiedArrives(r) \/ PollLost(r)
    PROVE  PageInv'
<1>1. /\ requests' = [requests EXCEPT ![r] = Free]
      /\ saved' \in {saved, None} /\ timer' \in {timer, None} /\ header' \in {header, None}
      /\ UNCHANGED <<lifeVars, stored, current, last, replyTo, given>>
  BY DEF NotFoundArrives, NotModifiedArrives, PollLost, Arrive, pageVars
<1>2. Free \in PollRecord /\ RequestOK(Free, given, phase, log)
  BY FreeTyped
<1>3. PageTypes'
  BY <1>1, <1>2 DEF PageInv, PageTypes, Known
<1>4. QED
  BY <1>1, <1>2, <1>3, QuietStep DEF PageInv, PageTypes

LEMMA Arrived ==
    ASSUME PageInv, NEW r \in Slots, TicketArrives(r)
    PROVE  PageInv'
<1> DEFINE p == requests[r]
<1>1. /\ requests' = [requests EXCEPT ![r] = Free]
      /\ current' = Body(p) /\ last' = Body(p)
      /\ replyTo' \in {None, p.ticket} /\ timer' \in {None, timer}
      /\ UNCHANGED <<lifeVars, given, saved, stored, header>>
      /\ p.stage = "answered" /\ p.code = 200 /\ p \in PollRecord
      /\ RequestOK(p, given, phase, log)
  BY DEF TicketArrives, Arrive, Render, Body, PageInv, PageTypes
<1>2. p.ticket \in given /\ Real(Body(p), given, phase, log)
  BY <1>1 DEF RequestOK
<1> HIDE DEF p
<1>3. Body(p) \in Answers
  BY <1>1 DEF Body, Answers, PollRecord
<1>4. Free \in PollRecord /\ RequestOK(Free, given, phase, log)
  BY FreeTyped
<1>5. PageTypes'
  BY <1>1, <1>2, <1>3, <1>4 DEF PageInv, PageTypes, Known
<1>6. QED
  BY <1>1, <1>2, <1>4, <1>5, QuietStep DEF PageInv, PageTypes

LEMMA Served ==
    ASSUME PageInv, ServerStep
    PROVE  PageInv'
<1>1. UNCHANGED <<pageVars, requests, given>>
  BY DEF ServerStep
<1>2. /\ LifeInv'
      /\ GoneOn(given, phase, log, phase', log')
      /\ \A t \in given : phase'[t] # "none" /\ Spoken(log[t]) => Spoken(log'[t])
  BY ServerGoesOn DEF PageInv, PageTypes
<1>3. PageTypes'
  BY <1>1 DEF PageInv, PageTypes, pageVars
<1>4. Real(current', given', phase', log')
  BY <1>1, <1>2, RealStays DEF PageInv, pageVars
<1>5. \A r \in Slots : RequestOK(requests'[r], given', phase', log')
  BY <1>1, <1>2, RequestStays DEF PageInv
<1>6. QED
  BY <1>2, <1>3, <1>4, <1>5 DEF PageInv

LEMMA Stuttered ==
    ASSUME PageInv, UNCHANGED vars
    PROVE  PageInv'
<1>1. UNCHANGED <<phase, log, saved, stored, header, current, last, replyTo, timer, requests, given>>
  BY DEF vars, lifeVars, pageVars
<1>2. QED
  BY <1>1 DEF PageInv, LifeInv, PageTypes

LEMMA PageInvariant == Spec => []PageInv
<1>1. PageInv /\ [Next]_vars => PageInv'
  <2> SUFFICES ASSUME PageInv, [Next]_vars
               PROVE  PageInv'
    OBVIOUS
  <2>1. CASE PageStep
    BY <2>1, Fired, Submitted, ReplySent, GaveUp, Switched, Reloaded, OtherTabStepped
    DEF PageStep
  <2>2. CASE \E r \in Slots : HandlerStep(r) \/ Answer(r) \/ PollLost(r)
    BY <2>2, TicketRead, MessagesRead, Refused, Arrived, ReplyEnded DEF HandlerStep, Answer
  <2>3. QED
    BY <2>1, <2>2, Served, Stuttered DEF Next
<1>2. QED
  BY <1>1, InitPage, PTL DEF Spec

\* Of the steps, only the second statement of the handler answers a poll whose
\* ticket was read.
LEMMA OnlyMessagesAnswer ==
    ASSUME [Next]_vars, requests \in [Slots -> PollRecord], NEW r \in Slots,
           requests[r].stage = "read", requests[r].code = 0, requests'[r].code = 304
    PROVE  ReadMessages(r)
<1>1. requests'[r] # requests[r] /\ requests'[r] # Free
  BY DEF Free, Request
<1>2. \A s \in Slots : s # r /\ requests'[r] # requests[r] => \A q : requests' # [requests EXCEPT ![s] = q]
  OBVIOUS
<1>3. CASE ServerStep \/ UNCHANGED vars
  BY <1>1, <1>3 DEF ServerStep, vars
<1>4. CASE PageStep
  <2>1. CASE \E s \in Slots : TimerFires(s) \/ SendReply(s) \/ \E t \in TicketIds : SubmitAnswered(t, s)
    <3>1. \A stage, t, have : Request(stage, t, have).code = 0
      BY DEF Request
    <3>2. PICK s \in Slots : \/ requests' = [requests EXCEPT ![s] = Request("sent", timer, last)]
                             \/ requests' = [requests EXCEPT ![s] = Request("reply", replyTo, NoData)]
                             \/ \E t \in TicketIds :
                                   requests' = [requests EXCEPT ![s] = Request("sent", t, last')]
      BY <2>1 DEF TimerFires, SendReply, SubmitAnswered, ShowTicketView, Poll
    <3>3. requests'[r] = requests[r] \/ requests'[r].code = 0
      BY <3>1, <3>2
    <3>4. QED
      BY <1>1, <3>3
  <2>2. CASE NewTicket \/ SwitchLanguage \/ OtherTab
    BY <1>1, <2>2 DEF NewTicket, SwitchLanguage, OtherTab
  <2>3. CASE Reload
    <3>1. requests'[r] = Free \/ requests'[r] = Request("sent", saved, NoData)
      BY <2>3 DEF Reload
    <3>2. requests'[r].code = 0
      BY <3>1 DEF Free, Request
    <3>3. QED
      BY <3>2
  <2>4. QED
    BY <1>4, <2>1, <2>2, <2>3 DEF PageStep
<1>5. CASE \E s \in Slots : HandlerStep(s) \/ Answer(s) \/ PollLost(s)
  <2>1. PICK s \in Slots : HandlerStep(s) \/ Answer(s) \/ PollLost(s)
    BY <1>5
  <2>2. CASE s # r
    BY <1>1, <1>2, <2>1, <2>2 DEF HandlerStep, ReadTicket, ReadMessages, Answer, NotFoundArrives,
       NotModifiedArrives, TicketArrives, ReplyAnswered, Arrive, PollLost
  <2>3. CASE s = r
    BY <1>1, <2>1, <2>3 DEF HandlerStep, ReadTicket, Answer, NotFoundArrives,
       NotModifiedArrives, TicketArrives, ReplyAnswered, Arrive, PollLost
  <2>4. QED
    BY <2>2, <2>3
<1>6. QED
  BY <1>3, <1>4, <1>5 DEF Next

\* The steps that may take the token away.
LEMMA OnlyTheseClear ==
    ASSUME [Next]_vars
    PROVE  \/ OtherTab \/ NewTicket
           \/ \E r \in Slots : NotFoundArrives(r)
           \/ UNCHANGED saved \/ \E u \in TicketIds : saved' = u
<1>1. CASE ServerStep \/ UNCHANGED vars
  BY <1>1 DEF ServerStep, vars, pageVars
<1>2. CASE PageStep
  BY <1>2 DEF PageStep, TimerFires, SendReply, SubmitAnswered, SwitchLanguage, Reload, pageVars
<1>3. CASE \E r \in Slots : HandlerStep(r) \/ Answer(r) \/ PollLost(r)
  BY <1>3 DEF HandlerStep, ReadTicket, ReadMessages, Answer, NotModifiedArrives, TicketArrives,
     ReplyAnswered, PollLost, pageVars
<1>4. QED
  BY <1>1, <1>2, <1>3 DEF Next

-----------------------------------------------------------------------------
(* The theorems *)

\* web/app.js only ever keeps, shows, polls or writes to tickets whose credentials
\* the server handed out, and what it rendered last is the answer it keeps.
THEOREM PageTypeCorrect == Spec => []PageTypeOK
<1>1. PageInv => PageTypeOK
  <2> SUFFICES ASSUME PageInv PROVE PageTypeOK
    OBVIOUS
  <2>1. \A r \in Slots : requests[r].code \in {0, 200, 304, 404}
    BY DEF PageInv, PageTypes, PollRecord, Codes
  <2>2. current.status \in Phases \cup {""}
    BY DEF PageInv, PageTypes, Answers
  <2>3. current.ticket \in given \cup {None}
    BY NoDataTyped DEF PageInv, Real
  <2>4. last \in {NoData, current} /\ given \subseteq TicketIds
    BY DEF PageInv, PageTypes
  <2>5. {saved, stored, header, replyTo, timer, current.ticket} \subseteq given \cup {None}
    BY <2>3 DEF PageInv, PageTypes, Known
  <2>6. QED
    BY <2>1, <2>2, <2>4, <2>5 DEF PageTypeOK
<1>2. QED
  BY <1>1, PageInvariant, PTL

\* web/app.js:28-30: the answer the page keeps, and renders again when the language
\* changes, tells what was said in the ticket it is of, unless that is gone,
\* however late it came and however many polls were under way.
THEOREM RenderedIsReal ==
    Spec => [](current.ticket # None /\ phase[current.ticket] # "none"
                   => current.log \subseteq log[current.ticket])
<1>1. PageInv => (current.ticket # None /\ phase[current.ticket] # "none"
                     => current.log \subseteq log[current.ticket])
  BY NoDataTyped DEF PageInv, Real
<1>2. QED
  BY <1>1, PageInvariant, PTL

\* server.cpp:307-324 reads the status before the messages and bot.cpp appends
\* before it sets the status: where the page asks the visitor to answer, it shows
\* a message of the admin's, in whatever order polls are answered.
THEOREM TurnIsAlwaysShown == Spec => []TurnIsShown
<1>1. PageInv => TurnIsShown
  BY NoDataTyped DEF PageInv, Real, Spoken, TurnIsShown
<1>2. QED
  BY <1>1, PageInvariant, PTL

\* server.cpp:318-324: a poll that says what the page has of the ticket it asks for
\* is answered "not modified" only if that is all there is, though the client is
\* compared by a count and by a status that was read earlier.
THEOREM NotModifiedHolds == Spec => NotModifiedIsTrue
<1>1. PageInv /\ [Next]_vars =>
         \A r \in Slots :
            LET q == requests[r]
            IN  q.stage = "read" /\ requests'[r].code = 304 /\ q.have.ticket = q.ticket
                    => q.have.log = log[q.ticket] /\ q.have.status = q.phase
  <2> SUFFICES ASSUME PageInv, [Next]_vars, NEW r \in Slots,
                      requests[r].stage = "read", requests'[r].code = 304,
                      requests[r].have.ticket = requests[r].ticket
               PROVE  requests[r].have.log = log[requests[r].ticket]
                        /\ requests[r].have.status = requests[r].phase
    OBVIOUS
  <2> DEFINE q == requests[r]
  <2>1. q \in PollRecord /\ RequestOK(q, given, phase, log) /\ requests \in [Slots -> PollRecord]
    BY DEF PageInv, PageTypes
  <2>2. q.ticket \in given /\ q.ticket \in TicketIds /\ q.code = 0 /\ q.have \in Answers
    BY <2>1 DEF RequestOK, PageInv, PageTypes, PollRecord
  <2>3. ReadMessages(r)
    BY <2>1, <2>2, OnlyMessagesAnswer
  <2>4. Unchanged(q, log[q.ticket])
    <3>1. requests'[r] = IF Unchanged(q, log[q.ticket]) THEN Answered(q.ticket, 304, "none", {})
                         ELSE Answered(q.ticket, 200, q.phase, log[q.ticket])
      BY <2>1, <2>3 DEF ReadMessages
    <3>2. Answered(q.ticket, 200, q.phase, log[q.ticket]).code = 200
      BY DEF Answered
    <3>3. QED
      BY <3>1, <3>2
  <2>5. /\ Cardinality(q.have.log) = Cardinality(log[q.ticket])
        /\ q.have.status = q.phase
    BY <2>4 DEF Unchanged
  <2>6. log[q.ticket] \in Logs /\ q.have.log \in Logs
    BY <2>2 DEF PageInv, LifeInv, Answers
  <2>7. q.have # NoData
    BY <2>2, NoDataTyped, TicketPageAssumption
  <2>8. CASE phase[q.ticket] # "none"
    <3>1. q.have.log \subseteq log[q.ticket]
      BY <2>1, <2>7, <2>8 DEF RequestOK, Real
    <3>2. QED
      BY <2>5, <2>6, <3>1, SameCountSameLog
  <2>9. CASE phase[q.ticket] = "none"
    <3>1. log[q.ticket] = {}
      BY <2>2, <2>9 DEF PageInv, LifeInv
    <3>2. log[q.ticket] \subseteq q.have.log
      BY <3>1
    <3>3. QED
      BY <2>5, <2>6, <3>2, SameCountSameLog
  <2>10. QED
    BY <2>5, <2>8, <2>9
<1>2. QED
  BY <1>1, PageInvariant, PTL DEF Spec, NotModifiedIsTrue

\* web/app.js:169, 303: the token of an open ticket leaves the page's storage only
\* by another tab, by a late answer "not found" of another ticket, or by the
\* button that another ticket's rendering left in view, however polls overlap.
THEOREM TokenIsKept == Spec => TokenKept
<1>1. PageInv /\ [Next]_vars =>
         \A t \in TicketIds : saved = t /\ saved' = None /\ phase[t] \in OpenPhases =>
            \/ Elsewhere
            \/ \E r \in Slots : requests[r].code = 404 /\ requests[r].ticket # t /\ ~Busy(r)'
            \/ NewButton /\ current.ticket # t
  <2> SUFFICES ASSUME PageInv, [Next]_vars, NEW t \in TicketIds,
                      saved = t, saved' = None, phase[t] \in OpenPhases
               PROVE  \/ Elsewhere
                      \/ \E r \in Slots : requests[r].code = 404 /\ requests[r].ticket # t
                                            /\ ~Busy(r)'
                      \/ NewButton /\ current.ticket # t
    OBVIOUS
  <2>1. saved # None
    BY TicketPageAssumption
  <2>2. CASE OtherTab
    BY <2>2 DEF OtherTab, Elsewhere
  <2>3. CASE NewTicket
    <3>1. current.status = "closed" /\ Real(current, given, phase, log)
      BY <2>3 DEF NewTicket, NewButton, PageInv
    <3>2. current.ticket = t => phase[t] = "closed" \/ phase[t] = "none"
      BY <3>1, NoDataTyped DEF Real
    <3>3. QED
      BY <3>1, <3>2 DEF OpenPhases, NewButton
  <2>4. CASE \E r \in Slots : NotFoundArrives(r)
    <3>1. PICK r \in Slots : NotFoundArrives(r)
      BY <2>4
    <3>2. /\ requests[r].stage = "answered" /\ requests[r].code = 404
          /\ requests' = [requests EXCEPT ![r] = Free] /\ requests \in [Slots -> PollRecord]
          /\ RequestOK(requests[r], given, phase, log)
      BY <3>1 DEF NotFoundArrives, Dismissed, Arrive, PageInv, PageTypes
    <3>3. phase[requests[r].ticket] = "none"
      BY <3>2 DEF RequestOK
    <3>4. ~Busy(r)'
      BY <3>2 DEF Busy, Free, Request
    <3>5. QED
      BY <3>2, <3>3, <3>4 DEF OpenPhases
  <2>5. CASE UNCHANGED saved \/ \E u \in TicketIds : saved' = u
    BY <2>1, <2>5, TicketPageAssumption
  <2>6. QED
    BY <2>2, <2>3, <2>4, <2>5, OnlyTheseClear
<1>2. QED
  BY <1>1, PageInvariant, PTL DEF Spec, TokenKept
=============================================================================
