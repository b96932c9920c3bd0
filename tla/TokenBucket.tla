---------------------------- MODULE TokenBucket -----------------------------
(***************************************************************************)
(* The rate limiter of the HTTP server (server/ratelimit.cpp).  A worker   *)
(* reads the steady clock BEFORE it takes the mutex, so the lock is handed *)
(* over in an order that need not be that of the times, and the time since *)
(* the last refill may be negative.                                        *)
(*                                                                         *)
(* Tokens are counted in units so small that Rate and Cost are integers:   *)
(* one request costs Cost units and a clock tick brings Rate of them.      *)
(***************************************************************************)
EXTENDS Integers

CONSTANTS
    Workers,
    Keys,      \* visitor addresses
    Rate,      \* rate_
    Burst,     \* burst_
    Cost,      \* 1.0
    MaxClock   \* bound: the clock stops here

ASSUME TokenBucketAssumption ==
    /\ Rate \in Nat
    /\ Cost \in Nat \ {0}
    /\ Burst \in Nat /\ Burst >= Cost
    /\ MaxClock \in Nat

VARIABLES
    clock,    \* steady_clock, which is never 0
    buckets,  \* buckets_: tokens and the time of the last refill, 0 for no bucket
    asking,   \* per worker: the key it asks for and its "now", 0 while it does not
    granted,  \* history: units granted to a key
    opened    \* history: the "now" that opened a key's bucket

vars == <<clock, buckets, asking, granted, opened>>

TypeOK ==
    /\ clock \in Nat \ {0}
    /\ buckets \in [Keys -> [tokens : Int, last : Nat]]
    /\ asking \in [Workers -> [key : Keys, now : Nat]]
    /\ granted \in [Keys -> Nat]
    /\ opened \in [Keys -> Nat]

Init ==
    /\ clock = 1
    /\ buckets = [k \in Keys |-> [tokens |-> 0, last |-> 0]]
    /\ asking \in [Workers -> [key : Keys, now : {0}]]
    /\ granted = [k \in Keys |-> 0]
    /\ opened = [k \in Keys |-> 0]

Known(k) == buckets[k].last # 0

Tick ==
    /\ clock < MaxClock
    /\ clock' = clock + 1
    /\ UNCHANGED <<buckets, asking, granted, opened>>

\* auto now = steady_clock::now(), and the wait for the mutex.
ReadClock(w, k) ==
    /\ asking[w].now = 0
    /\ asking' = [asking EXCEPT ![w] = [key |-> k, now |-> clock]]
    /\ UNCHANGED <<clock, buckets, granted, opened>>

\* Mutant of Refilled: a time that lies back counts as time that has passed.
RefilledByDistance(b, now) ==
    LET gained == b.tokens + (IF now >= b.last THEN now - b.last ELSE b.last - now) * Rate
    IN  IF gained < Burst THEN gained ELSE Burst

\* std::min(burst_, b.tokens + dt * rate_)
Refilled(b, now) ==
    LET gained == b.tokens + (now - b.last) * Rate
    IN  IF gained < Burst THEN gained ELSE Burst

\* The body of allow, under the mutex.
Allow(w) ==
    LET k == asking[w].key
        now == asking[w].now
        tokens == IF Known(k) THEN Refilled(buckets[k], now) ELSE Burst
        paid == IF tokens >= Cost THEN Cost ELSE 0
    IN  /\ now # 0
        /\ buckets' = [buckets EXCEPT ![k] = [tokens |-> tokens - paid, last |-> now]]
        /\ granted' = [granted EXCEPT ![k] = @ + paid]
        /\ opened' = [opened EXCEPT ![k] = IF Known(k) THEN @ ELSE now]
        /\ asking' = [asking EXCEPT ![w].now = 0]
        /\ UNCHANGED clock

Next ==
    \/ Tick
    \/ \E w \in Workers : Allow(w) \/ \E k \in Keys : ReadClock(w, k)

Spec == Init /\ [][Next]_vars

-----------------------------------------------------------------------------

\* What the limits of server.cpp:196-198 promise: since its first request a key
\* was granted no more than the burst and what the elapsed time brought, however
\* the workers overtake each other on the way to the mutex.
AdmissionBound ==
    \A k \in Keys : Known(k) => granted[k] <= Burst + (clock - opened[k]) * Rate

\* The strengthening of AdmissionBound.  What overtaking takes away, it returns:
\* tokens and the time of the last refill only move together, but for the cap.
Ledger ==
    \A k \in Keys : Known(k) =>
        /\ buckets[k].tokens + granted[k] <= Burst + (buckets[k].last - opened[k]) * Rate
        /\ 0 <= buckets[k].tokens + (clock - buckets[k].last) * Rate
=============================================================================
