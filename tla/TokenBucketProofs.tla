------------------------- MODULE TokenBucketProofs --------------------------
(***************************************************************************)
(* Proofs about TokenBucket: the rate limit holds for every rate, burst,   *)
(* number of workers and order in which they take the mutex.               *)
(*                                                                         *)
(* AdmissionBound is not inductive: a worker that was overtaken sets the   *)
(* time of the last refill back, and the same stretch of time is credited  *)
(* anew.  Ledger is what makes it so: tokens plus grants never exceed what *)
(* the time up to the last refill brought, and no bucket owes more than    *)
(* the time since then returns.                                            *)
(***************************************************************************)
EXTENDS TokenBucket, TLAPS

\* A "now" lies in the past, and a key without a bucket was granted nothing.
Histories ==
    /\ \A w \in Workers : asking[w].now <= clock
    /\ \A k \in Keys : ~Known(k) => granted[k] = 0

IInv == TypeOK /\ Histories /\ Ledger

\* Multiplication distributes over adjacent stretches of time.
LEMMA Adjacent ==
    ASSUME NEW x \in Int, NEW y \in Int, NEW z \in Int, NEW r \in Int
    PROVE  (x - y) * r + (y - z) * r = (x - z) * r
  OBVIOUS

\* A product of naturals is not negative.
LEMMA Gain ==
    ASSUME NEW x \in Int, NEW y \in Int, NEW r \in Nat, x <= y
    PROVE  (y - x) * r \in Nat
  OBVIOUS

\* Refilled never gives more than the elapsed time brought; below that it is
\* the cap that cut it.
LEMMA RefilledValue ==
    ASSUME NEW b \in [tokens : Int, last : Nat], NEW now \in Nat
    PROVE  /\ Refilled(b, now) \in Int
           /\ Refilled(b, now) <= b.tokens + (now - b.last) * Rate
           /\ Refilled(b, now) \in {Burst, b.tokens + (now - b.last) * Rate}
<1>1. (now - b.last) * Rate \in Int
  BY TokenBucketAssumption
<1>2. QED
  BY <1>1, TokenBucketAssumption DEF Refilled

\* The ledger of one key over one refill and one payment.
LEMMA LedgerStep ==
    ASSUME NEW t \in Int, NEW l \in Int, NEW o \in Int, NEW g \in Int, NEW n \in Int,
           NEW c \in Int, NEW tokens \in Int, NEW paid \in Int,
           n <= c,
           t + g <= Burst + (l - o) * Rate,
           0 <= t + (c - l) * Rate,
           tokens <= t + (n - l) * Rate,
           tokens \in {Burst, t + (n - l) * Rate},
           paid = 0 \/ paid <= tokens
    PROVE  /\ (tokens - paid) + (g + paid) <= Burst + (n - o) * Rate
           /\ 0 <= (tokens - paid) + (c - n) * Rate
<1>1. (n - l) * Rate + (l - o) * Rate = (n - o) * Rate
  BY Adjacent, TokenBucketAssumption
<1>2. (c - n) * Rate + (n - l) * Rate = (c - l) * Rate
  BY Adjacent, TokenBucketAssumption
<1>3. (c - n) * Rate \in Nat
  BY Gain, TokenBucketAssumption
<1>4. /\ (n - l) * Rate \in Int /\ (l - o) * Rate \in Int /\ (n - o) * Rate \in Int
      /\ (c - l) * Rate \in Int
  BY TokenBucketAssumption
<1> DEFINE nl == (n - l) * Rate  lo == (l - o) * Rate  no == (n - o) * Rate
           cn == (c - n) * Rate  cl == (c - l) * Rate
<1>5. /\ nl \in Int /\ lo \in Int /\ no \in Int /\ cn \in Nat /\ cl \in Int
      /\ nl + lo = no /\ cn + nl = cl
      /\ t + g <= Burst + lo /\ 0 <= t + cl
      /\ tokens <= t + nl /\ tokens \in {Burst, t + nl}
  BY <1>1, <1>2, <1>3, <1>4
<1> HIDE DEF nl, lo, no, cn, cl
<1>6. tokens + g <= Burst + no /\ 0 <= tokens - paid + cn
  BY <1>5, TokenBucketAssumption
<1>7. QED
  BY <1>4, <1>6 DEF no, cn

-----------------------------------------------------------------------------

LEMMA InitSafe == Init => IInv
  BY TokenBucketAssumption DEF Init, IInv, TypeOK, Histories, Ledger, Known

LEMMA TickSafe ==
    ASSUME IInv, Tick
    PROVE  IInv'
<1>1. TypeOK' /\ Histories'
  BY DEF IInv, TypeOK, Histories, Tick, Known
<1>2. ASSUME NEW k \in Keys, Known(k)
      PROVE  0 <= buckets[k].tokens + ((clock + 1) - buckets[k].last) * Rate
  <2> DEFINE t == buckets[k].tokens  l == buckets[k].last
  <2>1. t \in Int /\ l \in Nat /\ clock \in Nat /\ 0 <= t + (clock - l) * Rate
    BY <1>2 DEF IInv, TypeOK, Ledger
  <2> HIDE DEF t, l
  <2>2. ((clock + 1) - clock) * Rate + (clock - l) * Rate = ((clock + 1) - l) * Rate
    BY <2>1, Adjacent, TokenBucketAssumption
  <2>3. ((clock + 1) - clock) * Rate \in Nat /\ (clock - l) * Rate \in Int
    BY <2>1, Gain, TokenBucketAssumption
  <2>4. 0 <= t + ((clock + 1) - l) * Rate
    BY <2>1, <2>2, <2>3
  <2>5. QED
    BY <2>4 DEF t, l
<1>3. Ledger'
  BY <1>2 DEF IInv, Ledger, Tick, Known
<1>4. QED
  BY <1>1, <1>3 DEF IInv

LEMMA ReadClockSafe ==
    ASSUME IInv, NEW w \in Workers, NEW k \in Keys, ReadClock(w, k)
    PROVE  IInv'
<1>1. TypeOK' /\ Histories'
  BY DEF IInv, TypeOK, Histories, ReadClock, Known
<1>2. Ledger'
  BY DEF IInv, Ledger, ReadClock, Known
<1>3. QED
  BY <1>1, <1>2 DEF IInv

LEMMA AllowSafe ==
    ASSUME IInv, NEW w \in Workers, Allow(w)
    PROVE  IInv'
<1> DEFINE k == asking[w].key
           now == asking[w].now
           tokens == IF Known(k) THEN Refilled(buckets[k], now) ELSE Burst
           paid == IF tokens >= Cost THEN Cost ELSE 0
<1>1. /\ k \in Keys /\ now \in Nat \ {0} /\ now <= clock
      /\ buckets[k] \in [tokens : Int, last : Nat]
      /\ granted[k] \in Nat /\ opened[k] \in Nat /\ clock \in Nat
  BY DEF IInv, TypeOK, Histories, Allow
<1>2. tokens \in Int
  BY <1>1, RefilledValue, TokenBucketAssumption
<1>3. paid \in Nat /\ (paid = 0 \/ paid <= tokens)
  BY <1>2, TokenBucketAssumption
<1>4. /\ buckets' = [buckets EXCEPT ![k] = [tokens |-> tokens - paid, last |-> now]]
      /\ granted' = [granted EXCEPT ![k] = @ + paid]
      /\ opened' = [opened EXCEPT ![k] = IF Known(k) THEN @ ELSE now]
      /\ asking' = [asking EXCEPT ![w].now = 0]
      /\ clock' = clock
  BY DEF Allow
<1>5. /\ (tokens - paid) + (granted[k] + paid)
             <= Burst + (now - (IF Known(k) THEN opened[k] ELSE now)) * Rate
      /\ 0 <= (tokens - paid) + (clock - now) * Rate
  <2>1. CASE Known(k)
    <3>1. /\ buckets[k].tokens + granted[k] <= Burst + (buckets[k].last - opened[k]) * Rate
          /\ 0 <= buckets[k].tokens + (clock - buckets[k].last) * Rate
      BY <1>1, <2>1 DEF IInv, Ledger
    <3>2. /\ tokens <= buckets[k].tokens + (now - buckets[k].last) * Rate
          /\ tokens \in {Burst, buckets[k].tokens + (now - buckets[k].last) * Rate}
      BY <1>1, <2>1, RefilledValue
    <3> DEFINE t == buckets[k].tokens  l == buckets[k].last  o == opened[k]  g == granted[k]
    <3>3. /\ t \in Int /\ l \in Int /\ o \in Int /\ g \in Int /\ now \in Int /\ clock \in Int
          /\ tokens \in Int /\ paid \in Int /\ now <= clock
          /\ paid = 0 \/ paid <= tokens
          /\ t + g <= Burst + (l - o) * Rate
          /\ 0 <= t + (clock - l) * Rate
          /\ tokens <= t + (now - l) * Rate
          /\ tokens \in {Burst, t + (now - l) * Rate}
      BY <1>1, <1>2, <1>3, <3>1, <3>2
    <3> HIDE DEF tokens, paid, now, k, t, l, o, g
    <3>4. /\ (tokens - paid) + (g + paid) <= Burst + (now - o) * Rate
          /\ 0 <= (tokens - paid) + (clock - now) * Rate
      BY <3>3, LedgerStep
    <3>5. QED
      BY <2>1, <3>4 DEF o, g
  <2>2. CASE ~Known(k)
    <3>1. granted[k] = 0 /\ tokens = Burst
      BY <1>1, <2>2 DEF IInv, Histories
    <3>2. (now - now) * Rate = 0 /\ (clock - now) * Rate \in Nat
      BY <1>1, Gain, TokenBucketAssumption
    <3> HIDE DEF tokens, paid, now, k
    <3>3. QED
      BY <1>1, <1>2, <1>3, <2>2, <3>1, <3>2, TokenBucketAssumption
  <2>3. QED
    BY <2>1, <2>2
<1> HIDE DEF tokens, paid, now, k
<1>6. TypeOK'
  BY <1>1, <1>2, <1>3, <1>4 DEF IInv, TypeOK
<1>7. Histories'
  BY <1>1, <1>4 DEF IInv, TypeOK, Histories, Known
<1>8. Ledger'
  <2> SUFFICES ASSUME NEW j \in Keys, Known(j)'
               PROVE  /\ buckets'[j].tokens + granted'[j]
                             <= Burst + (buckets'[j].last - opened'[j]) * Rate
                      /\ 0 <= buckets'[j].tokens + (clock' - buckets'[j].last) * Rate
    BY DEF Ledger
  <2>1. CASE j = k
    <3>1. /\ buckets'[j].tokens = tokens - paid /\ buckets'[j].last = now
          /\ granted'[j] = granted[k] + paid
          /\ opened'[j] = IF Known(k) THEN opened[k] ELSE now
      BY <1>1, <1>4, <2>1 DEF IInv, TypeOK
    <3>2. QED
      BY <1>4, <1>5, <3>1
  <2>2. CASE j # k
    <3>1. /\ buckets'[j] = buckets[j] /\ granted'[j] = granted[j] /\ opened'[j] = opened[j]
      BY <1>4, <2>2 DEF IInv, TypeOK
    <3>2. QED
      BY <1>4, <3>1 DEF IInv, Ledger, Known
  <2>3. QED
    BY <2>1, <2>2
<1>9. QED
  BY <1>6, <1>7, <1>8 DEF IInv

\* The ledger bounds the grants.
LEMMA LedgerBounds == IInv => AdmissionBound
<1> SUFFICES ASSUME IInv, NEW k \in Keys, Known(k)
             PROVE  granted[k] <= Burst + (clock - opened[k]) * Rate
  BY DEF AdmissionBound
<1> DEFINE t == buckets[k].tokens  l == buckets[k].last  o == opened[k]  g == granted[k]
<1>1. /\ t \in Int /\ l \in Nat /\ o \in Nat /\ g \in Nat /\ clock \in Nat
      /\ t + g <= Burst + (l - o) * Rate
      /\ 0 <= t + (clock - l) * Rate
  BY DEF IInv, TypeOK, Ledger
<1> HIDE DEF t, l, o, g
<1>2. (clock - l) * Rate + (l - o) * Rate = (clock - o) * Rate
  BY <1>1, Adjacent, TokenBucketAssumption
<1>3. (clock - l) * Rate \in Int /\ (l - o) * Rate \in Int
  BY <1>1, TokenBucketAssumption
<1>4. g <= Burst + (clock - o) * Rate
  BY <1>1, <1>2, <1>3, TokenBucketAssumption
<1>5. QED
  BY <1>4 DEF g, o

\* Ledger and the type invariant hold of every reachable state, whatever the
\* order in which the workers that read the clock take the mutex.
THEOREM LedgerHolds == Spec => []IInv
<1>1. Init => IInv
  BY InitSafe
<1>2. IInv /\ [Next]_vars => IInv'
  <2> SUFFICES ASSUME IInv, [Next]_vars
               PROVE  IInv'
    OBVIOUS
  <2>1. CASE Tick
    BY <2>1, TickSafe
  <2>2. ASSUME NEW w \in Workers, Allow(w)
        PROVE  IInv'
    BY <2>2, AllowSafe
  <2>3. ASSUME NEW w \in Workers, NEW k \in Keys, ReadClock(w, k)
        PROVE  IInv'
    BY <2>3, ReadClockSafe
  <2>4. CASE UNCHANGED vars
    BY <2>4 DEF vars, IInv, TypeOK, Histories, Ledger, Known
  <2>5. QED
    BY <2>1, <2>2, <2>3, <2>4 DEF Next
<1>3. QED
  BY <1>1, <1>2, PTL DEF Spec

\* The ledger of every address balances (ratelimit.cpp:9-25): no refill credits
\* a stretch of time twice, however the workers overtake each other.
THEOREM LedgerBalances == Spec => []Ledger
  BY LedgerHolds, PTL DEF IInv

\* The rate limit of ratelimit.cpp: no key is granted more than the burst and
\* what the elapsed time brought.
THEOREM RateLimited == Spec => []AdmissionBound
<1>1. IInv => AdmissionBound
  BY LedgerBounds
<1>2. QED
  BY <1>1, LedgerHolds, PTL
=============================================================================
