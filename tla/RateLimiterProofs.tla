------------------------- MODULE RateLimiterProofs -------------------------
(***************************************************************************)
(* Proofs about the rate limiter, for any number of threads, keys and      *)
(* restarts and any limit: what a key costs in memory is bounded, nobody   *)
(* is turned away without cause, and how far the limit can be overrun.     *)
(***************************************************************************)
EXTENDS RateLimiter, FiniteSetTheorems, SequenceTheorems, TLAPS

\* The strengthening: deques are sequences of past readings.
LimiterInv ==
    /\ clock \in 0..MaxTime
    /\ call = [t \in Threads |-> call[t]]
    /\ \A t \in Threads : call[t] # NULL => (call[t].key \in Keys /\ call[t].now \in 0..clock)
    /\ hits \in [Keys -> Seq(0..clock)]
    /\ \A k \in Keys : Len(hits[k]) <= MaxRequests

-----------------------------------------------------------------------------
\* Pruning takes readings away and adds none, however they are ordered.
LEMMA PruningShortens ==
  ASSUME NEW S, NEW deque \in Seq(S), NEW now
  PROVE  Pruned(deque, now) \in Seq(S) /\ Len(Pruned(deque, now)) <= Len(deque)
  <1> DEFINE popped == {i \in 1..Len(deque) : \A j \in 1..i : Expired(deque[j], now)}
             n      == Cardinality(popped)
  <1>1. Len(deque) \in Nat
    BY LenProperties
  <1>2. n \in Nat /\ n <= Len(deque)
    <2>1. IsFiniteSet(1..Len(deque)) /\ Cardinality(1..Len(deque)) = Len(deque)
      BY <1>1, FS_Interval
    <2>2. IsFiniteSet(popped) /\ Cardinality(popped) <= Len(deque)
      BY <2>1, FS_Subset
    <2> QED
      BY <2>2, FS_CardinalityType
  <1> HIDE DEF n
  <1>3. n + 1 \in 1..(Len(deque) + 1)
    BY <1>1, <1>2
  <1>4. SubSeq(deque, n + 1, Len(deque)) \in Seq(S)
        /\ Len(SubSeq(deque, n + 1, Len(deque))) <= Len(deque)
    BY <1>1, <1>2, <1>3, SubSeqProperties
  <1> QED
    BY <1>4 DEF Pruned, n

\* No key has been used.
LEMMA Initially == Init => LimiterInv
  BY EmptySeq, LimiterAssumption DEF Init, LimiterInv
-----------------------------------------------------------------------------
(* The steps.                                                              *)

\* A call that is in progress has a key and a reading of the past.
LEMMA InCall ==
  ASSUME LimiterInv, NEW t \in Threads, call[t] # NULL
  PROVE  /\ call[t].key \in Keys /\ call[t].now \in 0..clock
         /\ Pruned(hits[call[t].key], call[t].now) \in Seq(0..clock)
         /\ Len(Pruned(hits[call[t].key], call[t].now)) <= Len(hits[call[t].key])
  <1>1. call[t].key \in Keys /\ call[t].now \in 0..clock
    BY DEF LimiterInv
  <1>2. hits[call[t].key] \in Seq(0..clock)
    BY <1>1 DEF LimiterInv
  <1> QED
    BY <1>1, <1>2, PruningShortens

\* A thread reads the clock.
LEMMA ReadClockStep ==
  ASSUME LimiterInv, NEW t \in Threads, ReadClock(t)
  PROVE  LimiterInv'
  <1>1. PICK key \in Keys : call' = [call EXCEPT ![t] = [key |-> key, now |-> clock]]
    BY DEF ReadClock
  <1>2. UNCHANGED <<hits, clock>> /\ clock \in 0..clock
    BY LimiterAssumption DEF ReadClock, LimiterInv
  <1> QED
    BY <1>1, <1>2 DEF LimiterInv

\* A hit is added when there is room for it.
LEMMA AllowStep ==
  ASSUME LimiterInv, NEW t \in Threads, Allow(t)
  PROVE  LimiterInv'
  <1> DEFINE key  == call[t].key
             now  == call[t].now
             kept == Pruned(hits[key], now)
  <1>1. /\ call[t] # NULL /\ Len(kept) < MaxRequests
        /\ hits' = [hits EXCEPT ![key] = Append(kept, now)]
        /\ call' = [call EXCEPT ![t] = NULL] /\ UNCHANGED clock
    BY DEF Allow
  <1>2. key \in Keys /\ now \in 0..clock /\ kept \in Seq(0..clock)
    BY <1>1, InCall
  <1> HIDE DEF key, now, kept
  <1>3. Append(kept, now) \in Seq(0..clock) /\ Len(Append(kept, now)) <= MaxRequests
    BY <1>1, <1>2, AppendProperties, LenProperties, LimiterAssumption
  <1> QED
    BY <1>1, <1>2, <1>3 DEF LimiterInv

\* A denial only prunes.
LEMMA DenyStep ==
  ASSUME LimiterInv, NEW t \in Threads, Deny(t)
  PROVE  LimiterInv'
  <1> DEFINE key  == call[t].key
             kept == Pruned(hits[key], call[t].now)
  <1>1. /\ call[t] # NULL /\ hits' = [hits EXCEPT ![key] = kept]
        /\ call' = [call EXCEPT ![t] = NULL] /\ UNCHANGED clock
    BY DEF Deny
  <1>2. key \in Keys /\ kept \in Seq(0..clock) /\ Len(kept) <= Len(hits[key])
    BY <1>1, InCall
  <1>3. hits[key] \in Seq(0..clock) /\ Len(hits[key]) <= MaxRequests
    BY <1>2 DEF LimiterInv
  <1> HIDE DEF key, kept
  <1>4. Len(kept) <= MaxRequests
    BY <1>2, <1>3, LenProperties, LimiterAssumption
  <1> QED
    BY <1>1, <1>2, <1>4 DEF LimiterInv

\* Time makes no reading later, and a restart forgets them all.
LEMMA ProcessStep ==
  ASSUME LimiterInv, Tick \/ Restart \/ UNCHANGED vars
  PROVE  LimiterInv'
  <1>1. CASE Tick
    <2>1. 0..clock \subseteq 0..clock' /\ clock' \in 0..MaxTime
      BY <1>1, LimiterAssumption DEF Tick, LimiterInv
    <2>2. hits' \in [Keys -> Seq(0..clock')]
      BY <1>1, <2>1, SeqMonotonic DEF Tick, LimiterInv
    <2> QED
      BY <1>1, <2>1, <2>2 DEF Tick, LimiterInv
  <1>2. CASE Restart
    BY <1>2, EmptySeq, LimiterAssumption DEF Restart, LimiterInv
  <1>3. CASE UNCHANGED vars
    BY <1>3 DEF vars, LimiterInv
  <1> QED
    BY <1>1, <1>2, <1>3

-----------------------------------------------------------------------------
(* The theorem.                                                            *)

\* The invariant is inductive.
LEMMA LimiterInvariance == Spec => []LimiterInv
  <1>1. LimiterInv /\ [Next]_vars => LimiterInv'
    BY ReadClockStep, AllowStep, DenyStep, ProcessStep DEF Next
  <1> QED
    BY <1>1, Initially, PTL DEF Spec

\* However threads, readings and restarts interleave, a key's deque never
\* outgrows the limit.
THEOREM DequesAreBounded == Spec => []TypeOK
  <1>1. LimiterInv => TypeOK
    <2> SUFFICES ASSUME LimiterInv PROVE TypeOK
      OBVIOUS
    <2>1. \A k \in Keys : \A i \in 1..Len(hits[k]) : hits[k][i] \in 0..clock
      BY ElementOfSeq DEF LimiterInv
    <2> QED
      BY <2>1 DEF LimiterInv, TypeOK
  <1> QED
    BY <1>1, LimiterInvariance, PTL

-----------------------------------------------------------------------------
(* What pruning leaves.                                                    *)

\* How many numbers a span has.
LEMMA Span ==
  ASSUME NEW a \in Nat, NEW b \in Nat, a <= b + 1
  PROVE  IsFiniteSet(a..b) /\ Cardinality(a..b) = (b + 1) - a
  BY FS_Interval

\* Pruning takes away the readings in front of the first that has not expired.
LEMMA PrunedIsSuffix ==
  ASSUME NEW deque \in Seq(Nat), NEW now
  PROVE  \E n \in 0..Len(deque) :
           /\ Pruned(deque, now) = SubSeq(deque, n + 1, Len(deque))
           /\ \A j \in 1..n : Expired(deque[j], now)
           /\ (n < Len(deque)) => ~Expired(deque[n + 1], now)
  <1> DEFINE popped == {i \in 1..Len(deque) : \A j \in 1..i : Expired(deque[j], now)}
  <1>1. PICK n : n = Cardinality(popped)
    OBVIOUS
  <1>2. PICK len \in Nat : len = Len(deque)
    OBVIOUS
  <1>3. IsFiniteSet(popped) /\ n \in 0..Len(deque)
    <2>1. IsFiniteSet(1..len) /\ Cardinality(1..len) = len
      BY <1>2, Span
    <2>2. popped \in SUBSET (1..len)
      BY <1>2
    <2>3. IsFiniteSet(popped) /\ Cardinality(popped) <= len
      BY <2>1, <2>2, FS_Subset
    <2> QED
      BY <1>1, <1>2, <2>3, FS_CardinalityType
  <1>4. \A j \in 1..n : Expired(deque[j], now)
    <2> SUFFICES ASSUME NEW j \in 1..n, ~Expired(deque[j], now) PROVE FALSE
      OBVIOUS
    <2>1. popped \subseteq 1..(j - 1)
      BY <1>2
    <2>2. IsFiniteSet(1..(j - 1)) /\ Cardinality(1..(j - 1)) = j - 1
      <3>1. j - 1 \in Nat /\ 1 <= (j - 1) + 1 /\ ((j - 1) + 1) - 1 = j - 1
        BY <1>3
      <3> QED
        BY <3>1, Span
    <2>3. n <= j - 1
      BY <1>1, <2>1, <2>2, FS_Subset
    <2> QED
      BY <1>3, <2>3
  <1>5. (n < Len(deque)) => ~Expired(deque[n + 1], now)
    <2> SUFFICES ASSUME n < Len(deque), Expired(deque[n + 1], now) PROVE FALSE
      OBVIOUS
    <2>1. \A j \in 1..(n + 1) : j \in 1..n \/ j = n + 1
      BY <1>3
    <2>2. \A j \in 1..(n + 1) : Expired(deque[j], now)
      BY <1>4, <2>1
    <2>3. 1..(n + 1) \subseteq popped
      BY <1>2, <1>3, <2>2
    <2>4. Cardinality(1..(n + 1)) = n + 1
      <3>1. n + 1 \in Nat /\ 1 <= (n + 1) + 1 /\ ((n + 1) + 1) - 1 = n + 1
        BY <1>3
      <3> QED
        BY <3>1, Span
    <2>5. Cardinality(1..(n + 1)) <= Cardinality(popped)
      BY <1>3, <2>3, FS_Subset
    <2> QED
      BY <1>1, <1>3, <2>4, <2>5
  <1> QED
    BY <1>1, <1>3, <1>4, <1>5 DEF Pruned

\* What is left of a deque without its first n readings.
LEMMA Suffix ==
  ASSUME NEW deque \in Seq(Nat), NEW n \in 0..Len(deque)
  PROVE  /\ SubSeq(deque, n + 1, Len(deque)) \in Seq(Nat)
         /\ Len(SubSeq(deque, n + 1, Len(deque))) = Len(deque) - n
         /\ \A j \in 1..(Len(deque) - n) : SubSeq(deque, n + 1, Len(deque))[j] = deque[n + j]
  <1>1. Len(deque) \in Nat /\ n + 1 \in 1..(Len(deque) + 1)
    OBVIOUS
  <1>2. \A i \in (n + 1)..Len(deque) : deque[i] \in Nat
    BY <1>1
  <1>3. SubSeq(deque, n + 1, Len(deque)) \in Seq(Nat)
    BY <1>1, <1>2, SubSeqProperties
  <1>4. Len(SubSeq(deque, n + 1, Len(deque))) = Len(deque) - n
    BY <1>1, SubSeqProperties
  <1>5. \A j \in 1..(Len(deque) - n) : SubSeq(deque, n + 1, Len(deque))[j] = deque[n + j]
    <2> SUFFICES ASSUME NEW j \in 1..(Len(deque) - n)
                 PROVE  SubSeq(deque, n + 1, Len(deque))[j] = deque[n + j]
      OBVIOUS
    <2>1. j \in 1..(Len(deque) - (n + 1) + 1) /\ (n + 1) + j - 1 = n + j
      BY <1>1
    <2>2. SubSeq(deque, n + 1, Len(deque))[j] = deque[(n + 1) + j - 1]
      BY <1>1, <2>1, SubSeqProperties
    <2> QED
      BY <2>1, <2>2
  <1> QED
    BY <1>3, <1>4, <1>5

-----------------------------------------------------------------------------
(* What the deques hold.                                                   *)

\* A deque holds the last calls let through, whatever was pruned or denied.
HistoryInv == LimiterInv /\ AllowedInv /\ DequesInv /\ StartedInv

\* A call that is let through: what it finds and what it leaves.
Allows(t, key, now, n) ==
    /\ call[t] # NULL /\ key = call[t].key /\ now = call[t].now
    /\ key \in Keys /\ now \in 0..clock /\ n \in 0..Len(hits[key])
    /\ Len(hits[key]) - n < MaxRequests
    /\ \A j \in 1..n : Expired(hits[key][j], now)
    /\ (n < Len(hits[key])) => ~Expired(hits[key][n + 1], now)
    /\ allowed'[key] = Append(allowed[key], [now |-> now, at |-> clock])
    /\ Len(hits'[key]) = Len(hits[key]) - n + 1
    /\ \A j \in 1..(Len(hits[key]) - n) : hits'[key][j] = hits[key][n + j]
    /\ hits'[key][Len(hits[key]) - n + 1] = now
    /\ \A k \in Keys \ {key} : hits'[k] = hits[k] /\ allowed'[k] = allowed[k]

\* A call that is let through is one of those.
LEMMA AllowLeaves ==
  ASSUME HistoryInv, NEW t \in Threads, Allow(t)
  PROVE  \E key, now, n : Allows(t, key, now, n)
  <1>1. PICK key, now : key = call[t].key /\ now = call[t].now
    OBVIOUS
  <1>2. PICK kept : kept = Pruned(hits[key], now)
    OBVIOUS
  <1>3. /\ call[t] # NULL /\ Len(kept) < MaxRequests
        /\ hits' = [hits EXCEPT ![key] = Append(kept, now)]
        /\ allowed' = [allowed EXCEPT ![key] = Append(allowed[key], [now |-> now, at |-> clock])]
    BY <1>1, <1>2 DEF Allow
  <1>4. key \in Keys /\ now \in 0..clock /\ clock \in Nat
    BY <1>1, <1>3, LimiterAssumption DEF HistoryInv, LimiterInv
  <1>5. hits \in [Keys -> Seq(0..clock)] /\ hits[key] \in Seq(Nat)
    <2>1. hits[key] \in Seq(0..clock) /\ 0..clock \subseteq Nat
      BY <1>4 DEF HistoryInv, LimiterInv
    <2> QED
      BY <2>1, SeqMonotonic DEF HistoryInv, LimiterInv
  <1>6. PICK n \in 0..Len(hits[key]) :
          /\ kept = SubSeq(hits[key], n + 1, Len(hits[key]))
          /\ \A j \in 1..n : Expired(hits[key][j], now)
          /\ (n < Len(hits[key])) => ~Expired(hits[key][n + 1], now)
    BY <1>2, <1>5, PrunedIsSuffix
  <1>7. /\ kept \in Seq(Nat) /\ Len(kept) = Len(hits[key]) - n
        /\ \A j \in 1..(Len(hits[key]) - n) : kept[j] = hits[key][n + j]
    BY <1>5, <1>6, Suffix
  <1>8. /\ hits'[key] = Append(kept, now)
        /\ allowed'[key] = Append(allowed[key], [now |-> now, at |-> clock])
        /\ \A k \in Keys \ {key} : hits'[k] = hits[k] /\ allowed'[k] = allowed[k]
    BY <1>3, <1>4, <1>5 DEF HistoryInv, AllowedInv
  <1>9. /\ Len(hits'[key]) = Len(kept) + 1
        /\ \A j \in 1..Len(kept) : hits'[key][j] = kept[j]
        /\ hits'[key][Len(kept) + 1] = now
    <2>1. now \in Nat
      BY <1>4
    <2> QED
      BY <1>7, <1>8, <2>1, AppendProperties
  <1>11. Len(hits'[key]) = Len(hits[key]) - n + 1
    BY <1>7, <1>9
  <1>12. \A j \in 1..(Len(hits[key]) - n) : hits'[key][j] = hits[key][n + j]
    BY <1>7, <1>9
  <1>13. hits'[key][Len(hits[key]) - n + 1] = now
    BY <1>7, <1>9
  <1>14. Len(hits[key]) - n < MaxRequests
    BY <1>3, <1>7
  <1>15. Allows(t, key, now, n)
    BY <1>1, <1>3, <1>4, <1>6, <1>8, <1>11, <1>12, <1>13, <1>14 DEF Allows
  <1> QED
    BY <1>15

\* A denial changes no deque: there was nothing to prune.
LEMMA DenyPrunesNothing ==
  ASSUME HistoryInv, NEW t \in Threads, Deny(t)
  PROVE  hits' = hits
  <1>1. PICK key, now, kept : key = call[t].key /\ now = call[t].now /\ kept = Pruned(hits[key], now)
    OBVIOUS
  <1>2. call[t] # NULL /\ Len(kept) >= MaxRequests /\ hits' = [hits EXCEPT ![key] = kept]
    BY <1>1 DEF Deny
  <1>3. key \in Keys /\ hits \in [Keys -> Seq(0..clock)] /\ Len(hits[key]) <= MaxRequests /\ clock \in Nat
    BY <1>1, <1>2, LimiterAssumption DEF HistoryInv, LimiterInv
  <1>4. hits[key] \in Seq(Nat)
    <2>1. hits[key] \in Seq(0..clock) /\ 0..clock \subseteq Nat
      BY <1>3
    <2> QED
      BY <2>1, SeqMonotonic
  <1>5. PICK n \in 0..Len(hits[key]) : kept = SubSeq(hits[key], n + 1, Len(hits[key]))
    BY <1>1, <1>4, PrunedIsSuffix
  <1>6. Len(kept) = Len(hits[key]) - n
    BY <1>4, <1>5, Suffix
  <1>7. n = 0
    BY <1>2, <1>3, <1>4, <1>5, <1>6, LimiterAssumption
  <1>8. kept = hits[key]
    BY <1>4, <1>5, <1>7, SubSeqFull
  <1> QED
    BY <1>2, <1>3, <1>8

\* Its reading goes behind those the deque keeps, and behind the calls let through.
LEMMA AllowHistory ==
  ASSUME HistoryInv, NEW t \in Threads, Allow(t)
  PROVE  AllowedInv' /\ DequesInv' /\ StartedInv'
  <1>1. PICK key, now, n : Allows(t, key, now, n)
    BY AllowLeaves
  <1>2. /\ UNCHANGED <<clock, started>> /\ call' = [call EXCEPT ![t] = NULL]
        /\ allowed' = [allowed EXCEPT ![call[t].key] = Append(@, [now |-> call[t].now, at |-> clock])]
    BY DEF Allow
  <1>3. /\ key \in Keys /\ now \in Nat /\ now <= clock /\ clock \in Nat
        /\ allowed[key] \in Seq([now : Nat, at : Nat]) /\ Len(allowed[key]) \in Nat
        /\ hits[key] \in Seq(0..clock) /\ Len(hits[key]) \in Nat
    <2>1. key \in Keys /\ now \in 0..clock
      BY <1>1 DEF Allows
    <2>2. clock \in Nat /\ hits[key] \in Seq(0..clock)
      BY <2>1, LimiterAssumption DEF HistoryInv, LimiterInv
    <2>3. allowed[key] \in Seq([now : Nat, at : Nat])
      BY <2>1 DEF HistoryInv, AllowedInv
    <2> QED
      BY <2>1, <2>2, <2>3, LenProperties
  <1>4. PICK m, new : m = Len(allowed[key]) /\ new = [now |-> now, at |-> clock]
    OBVIOUS
  <1>5. /\ allowed'[key] \in Seq([now : Nat, at : Nat]) /\ Len(allowed'[key]) = m + 1
        /\ \A i \in 1..m : allowed'[key][i] = allowed[key][i]
        /\ allowed'[key][m + 1] = new
        /\ \A i \in 1..(m + 1) : i \in 1..m \/ i = m + 1
    <2>1. new \in [now : Nat, at : Nat] /\ allowed'[key] = Append(allowed[key], new)
      BY <1>1, <1>3, <1>4 DEF Allows
    <2> QED
      BY <1>3, <1>4, <2>1, AppendProperties
  <1>6. new.now = now /\ new.at = clock
    BY <1>4
  <1>7. AllowedInv'
    <2>1. allowed' = [k \in Keys |-> allowed'[k]]
      BY <1>2 DEF HistoryInv, AllowedInv
    <2>2. ASSUME NEW k \in Keys
          PROVE  /\ allowed'[k] \in Seq([now : Nat, at : Nat])
                 /\ \A i \in 1..Len(allowed'[k]) :
                      allowed'[k][i].now <= allowed'[k][i].at /\ allowed'[k][i].at <= clock'
                 /\ \A i, j \in 1..Len(allowed'[k]) :
                      (i < j) => (allowed'[k][i].at <= allowed'[k][j].at)
      <3>1. CASE k # key
        BY <1>1, <1>2, <3>1 DEF Allows, HistoryInv, AllowedInv
      <3>2. CASE k = key
        <4>1. \A i \in 1..m : allowed[key][i].now <= allowed[key][i].at /\ allowed[key][i].at <= clock
          BY <1>3, <1>4 DEF HistoryInv, AllowedInv
        <4>2. \A i, j \in 1..m : (i < j) => (allowed[key][i].at <= allowed[key][j].at)
          BY <1>3, <1>4 DEF HistoryInv, AllowedInv
        <4>3. \A i \in 1..(m + 1) :
                allowed'[key][i].now <= allowed'[key][i].at /\ allowed'[key][i].at <= clock
          <5> SUFFICES ASSUME NEW i \in 1..(m + 1)
                       PROVE  allowed'[key][i].now <= allowed'[key][i].at /\ allowed'[key][i].at <= clock
            OBVIOUS
          <5>1. CASE i \in 1..m
            BY <1>5, <4>1, <5>1
          <5>2. CASE i = m + 1
            BY <1>3, <1>5, <1>6, <5>2
          <5> QED
            BY <1>5, <5>1, <5>2
        <4>4. \A i, j \in 1..(m + 1) : (i < j) => (allowed'[key][i].at <= allowed'[key][j].at)
          <5> SUFFICES ASSUME NEW i \in 1..(m + 1), NEW j \in 1..(m + 1), i < j
                       PROVE  allowed'[key][i].at <= allowed'[key][j].at
            OBVIOUS
          <5>1. i \in 1..m
            BY <1>3, <1>4
          <5>2. CASE j \in 1..m
            BY <1>5, <4>2, <5>1, <5>2
          <5>3. CASE j = m + 1
            BY <1>5, <1>6, <4>1, <5>1, <5>3
          <5> QED
            BY <1>5, <5>2, <5>3
        <4>5. clock' = clock
          BY <1>2
        <4> QED
          BY <1>5, <3>2, <4>3, <4>4, <4>5
      <3> QED
        BY <3>1, <3>2
    <2> QED
      BY <2>1, <2>2 DEF AllowedInv
  <1>8. DequesInv'
    <2> SUFFICES ASSUME NEW k \in Keys
                 PROVE  /\ Gone(k)' \in Nat
                        /\ \A j \in 1..Len(hits'[k]) : hits'[k][j] = allowed'[k][Gone(k)' + j].now
      BY DEF DequesInv
    <2>1. CASE k # key
      <3>1. hits'[k] = hits[k] /\ allowed'[k] = allowed[k]
        BY <1>1, <2>1 DEF Allows
      <3> QED
        BY <3>1 DEF HistoryInv, DequesInv, Gone
    <2>2. CASE k = key
      <3>1. PICK g, h : g = Gone(key) /\ h = Len(hits[key])
        OBVIOUS
      <3>2. /\ g \in Nat /\ h \in Nat /\ m \in Nat /\ g = m - h /\ n \in 0..h
            /\ \A j \in 1..h : hits[key][j] = allowed[key][g + j].now
        BY <1>1, <1>3, <1>4, <3>1 DEF HistoryInv, DequesInv, Gone, Allows
      <3>3. Len(hits'[key]) = h - n + 1 /\ Gone(key)' = g + n
        BY <1>1, <1>5, <3>1, <3>2 DEF Allows, Gone
      <3>4. ASSUME NEW j \in 1..(h - n + 1) PROVE hits'[key][j] = allowed'[key][g + n + j].now
        <4>1. CASE j \in 1..(h - n)
          <5>1. hits'[key][j] = hits[key][n + j]
            BY <1>1, <3>1, <4>1 DEF Allows
          <5>2. n + j \in 1..h /\ g + (n + j) \in 1..m /\ g + (n + j) = g + n + j
            BY <3>2, <4>1
          <5> QED
            BY <1>5, <3>2, <5>1, <5>2
        <4>2. CASE j = h - n + 1
          <5>1. hits'[key][j] = now
            BY <1>1, <3>1, <4>2 DEF Allows
          <5>2. g + n + j = m + 1
            BY <3>2, <4>2
          <5> QED
            BY <1>5, <1>6, <5>1, <5>2
        <4> QED
          BY <3>2, <4>1, <4>2
      <3> QED
        BY <2>2, <3>2, <3>3, <3>4
    <2> QED
      BY <2>1, <2>2
  <1>9. StartedInv'
    BY <1>2 DEF HistoryInv, LimiterInv, StartedInv
  <1> QED
    BY <1>7, <1>8, <1>9

\* Each action keeps the invariant.
LEMMA HistoryStep ==
  ASSUME HistoryInv, [Next]_vars
  PROVE  HistoryInv'
  <1>1. LimiterInv'
    BY ReadClockStep, AllowStep, DenyStep, ProcessStep DEF HistoryInv, Next
  <1>2. clock \in Nat /\ call = [t \in Threads |-> call[t]]
    BY LimiterAssumption DEF HistoryInv, LimiterInv
  <1>3. ASSUME NEW t \in Threads, ReadClock(t) PROVE AllowedInv' /\ DequesInv' /\ StartedInv'
    <2>1. PICK key : call' = [call EXCEPT ![t] = [key |-> key, now |-> clock]]
      BY <1>3 DEF ReadClock
    <2>2. UNCHANGED <<hits, clock, allowed, started>>
      BY <1>3 DEF ReadClock
    <2>3. \A u \in Threads : call'[u] = call[u] \/ call'[u].now = clock
      BY <1>2, <2>1
    <2> QED
      BY <2>2, <2>3 DEF HistoryInv, AllowedInv, DequesInv, StartedInv, Gone
  <1>4. ASSUME NEW t \in Threads, Deny(t) PROVE AllowedInv' /\ DequesInv' /\ StartedInv'
    <2>1. hits' = hits /\ UNCHANGED <<clock, allowed, started>> /\ call' = [call EXCEPT ![t] = NULL]
      BY <1>4, DenyPrunesNothing DEF Deny
    <2> QED
      BY <1>2, <2>1 DEF HistoryInv, AllowedInv, DequesInv, StartedInv, Gone
  <1>5. CASE Tick
    <2>1. clock' = clock + 1 /\ UNCHANGED <<hits, call, allowed, started>>
      BY <1>5 DEF Tick
    <2>2. AllowedInv'
      <3>1. \A k \in Keys : \A i \in 1..Len(allowed[k]) : allowed[k][i].at \in Nat
        <4> SUFFICES ASSUME NEW k \in Keys, NEW i \in 1..Len(allowed[k]) PROVE allowed[k][i].at \in Nat
          OBVIOUS
        <4>1. allowed[k][i] \in [now : Nat, at : Nat]
          BY ElementOfSeq DEF HistoryInv, AllowedInv
        <4> QED
          BY <4>1
      <3>2. \A k \in Keys : \A i \in 1..Len(allowed[k]) : allowed[k][i].at <= clock'
        BY <1>2, <2>1, <3>1 DEF HistoryInv, AllowedInv
      <3> QED
        BY <2>1, <3>2 DEF HistoryInv, AllowedInv
    <2>3. StartedInv'
      <3>1. started[Len(started)] \in Nat
        BY DEF HistoryInv, StartedInv
      <3> QED
        BY <1>2, <2>1, <3>1 DEF HistoryInv, StartedInv
    <2>4. DequesInv'
      BY <2>1 DEF HistoryInv, DequesInv, Gone
    <2> QED
      BY <1>1, <2>2, <2>3, <2>4 DEF HistoryInv
  <1>6. CASE Restart
    <2>1. /\ hits' = [k \in Keys |-> <<>>] /\ call' = [t \in Threads |-> NULL]
          /\ started' = Append(started, clock) /\ UNCHANGED <<clock, allowed>>
      BY <1>6 DEF Restart
    <2>2. StartedInv'
      <3>1. started' \in Seq(Nat) /\ Len(started') = Len(started) + 1 /\ started'[Len(started) + 1] = clock
        BY <1>2, <2>1, AppendProperties DEF HistoryInv, StartedInv
      <3>2. started' # <<>>
        BY <3>1 DEF HistoryInv, StartedInv
      <3> QED
        BY <1>2, <2>1, <3>1, <3>2 DEF StartedInv
    <2>3. AllowedInv'
      BY <2>1 DEF HistoryInv, AllowedInv
    <2>4. DequesInv'
      <3> SUFFICES ASSUME NEW k \in Keys
                   PROVE  /\ Gone(k)' \in Nat
                          /\ \A j \in 1..Len(hits'[k]) : hits'[k][j] = allowed'[k][Gone(k)' + j].now
        BY DEF DequesInv
      <3>1. hits'[k] = <<>> /\ Len(hits'[k]) = 0
        BY <2>1
      <3>2. Len(allowed'[k]) \in Nat
        BY <2>1, LenProperties DEF HistoryInv, AllowedInv
      <3> QED
        BY <3>1, <3>2 DEF Gone
    <2> QED
      BY <1>1, <2>2, <2>3, <2>4 DEF HistoryInv
  <1>7. CASE UNCHANGED vars
    <2>1. UNCHANGED <<hits, clock, call, allowed, started>>
      BY <1>7 DEF vars
    <2>2. AllowedInv'
      BY <2>1 DEF HistoryInv, AllowedInv
    <2>3. DequesInv'
      BY <2>1 DEF HistoryInv, DequesInv, Gone
    <2>4. StartedInv'
      BY <2>1 DEF HistoryInv, StartedInv
    <2> QED
      BY <1>1, <2>2, <2>3, <2>4 DEF HistoryInv
  <1> QED
    BY <1>1, <1>3, <1>4, <1>5, <1>6, <1>7, AllowHistory DEF HistoryInv, Next

\* Nothing has been let through, and nothing is held.
LEMMA HistoryInitially == Init => HistoryInv
  <1> SUFFICES ASSUME Init PROVE HistoryInv
    OBVIOUS
  <1>1. LimiterInv
    BY Initially
  <1>2. AllowedInv
    BY EmptySeq DEF Init, AllowedInv
  <1>3. DequesInv
    BY DEF Init, DequesInv, Gone
  <1>4. StartedInv
    BY DEF Init, StartedInv
  <1> QED
    BY <1>1, <1>2, <1>3, <1>4 DEF HistoryInv

\* The invariant holds in every reachable state.
LEMMA HistoryInvariance == Spec => []HistoryInv
  BY HistoryInitially, HistoryStep, PTL DEF Spec

\* Whoever is turned away: max_requests calls of its key were let through
\* since its window began, though the deque may be out of order.  Calls that
\* were denied do not count (rate_limit.py:56-58), whatever the docstring of
\* check says (rate_limit.py:45-48: "Every call counts against the limit").
THEOREM DenialsHaveCause == Spec => DenialsAreJustified
  <1>1. ASSUME HistoryInv, NEW t \in Threads, Deny(t)
        PROVE  LET mine == allowed[call[t].key]
               IN  Cardinality({i \in 1..Len(mine) : call[t].now <= mine[i].at + Window})
                     >= MaxRequests
    <2>1. PICK key, now, mine, kept :
            /\ key = call[t].key /\ now = call[t].now /\ mine = allowed[key]
            /\ kept = Pruned(hits[key], now)
      OBVIOUS
    <2>2. call[t] # NULL /\ Len(kept) >= MaxRequests
      BY <1>1, <2>1 DEF Deny
    <2>3. /\ key \in Keys /\ now \in Nat /\ hits[key] \in Seq(0..clock) /\ clock \in Nat
      BY <1>1, <2>1, <2>2, LimiterAssumption DEF HistoryInv, LimiterInv
    <2>4. hits[key] \in Seq(Nat)
      <3>1. 0..clock \subseteq Nat
        BY <2>3
      <3> QED
        BY <2>3, <3>1, SeqMonotonic
    <2>5. PICK n \in 0..Len(hits[key]) :
            /\ kept = SubSeq(hits[key], n + 1, Len(hits[key]))
            /\ (n < Len(hits[key])) => ~Expired(hits[key][n + 1], now)
      BY <2>1, <2>4, PrunedIsSuffix
    <2>6. PICK g, h, m : g = Gone(key) /\ h = Len(hits[key]) /\ m = Len(mine)
      OBVIOUS
    <2>7. /\ mine \in Seq([now : Nat, at : Nat]) /\ m \in Nat /\ h \in Nat /\ g \in Nat /\ g = m - h
          /\ \A j \in 1..h : hits[key][j] = mine[g + j].now
          /\ \A i \in 1..m : mine[i].now <= mine[i].at
          /\ \A i, j \in 1..m : (i < j) => (mine[i].at <= mine[j].at)
      <3>1. mine \in Seq([now : Nat, at : Nat])
        BY <1>1, <2>1, <2>3 DEF HistoryInv, AllowedInv
      <3>2. m \in Nat /\ h \in Nat
        BY <2>4, <2>6, <3>1, LenProperties
      <3>3. g \in Nat /\ g = m - h
        BY <1>1, <2>1, <2>3, <2>6 DEF HistoryInv, DequesInv, Gone
      <3>4. \A j \in 1..h : hits[key][j] = mine[g + j].now
        BY <1>1, <2>1, <2>3, <2>6 DEF HistoryInv, DequesInv
      <3>5. /\ \A i \in 1..m : mine[i].now <= mine[i].at
            /\ \A i, j \in 1..m : (i < j) => (mine[i].at <= mine[j].at)
        BY <1>1, <2>1, <2>3, <2>6 DEF HistoryInv, AllowedInv
      <3> QED
        BY <3>1, <3>2, <3>3, <3>4, <3>5
    <2>8. \A i \in 1..m : mine[i].now \in Nat /\ mine[i].at \in Nat
      <3> SUFFICES ASSUME NEW i \in 1..m PROVE mine[i].now \in Nat /\ mine[i].at \in Nat
        OBVIOUS
      <3>1. mine[i] \in [now : Nat, at : Nat]
        BY <2>6, <2>7, ElementOfSeq
      <3> QED
        BY <3>1
    <2>9. Len(kept) = h - n /\ n < h
      <3>1. Len(kept) = h - n
        BY <2>4, <2>5, <2>6, Suffix
      <3>2. n \in Nat /\ n <= h
        BY <2>5, <2>6, <2>7
      <3> QED
        BY <2>2, <2>7, <3>1, <3>2, LimiterAssumption
    <2>10. PICK first : first = g + (n + 1)
      OBVIOUS
    <2>11. first \in 1..m /\ mine[first].now = hits[key][n + 1] /\ ~(mine[first].now + Window < now)
      <3>1. n \in Nat /\ n + 1 \in 1..h /\ first \in 1..m /\ first = g + (n + 1)
        BY <2>5, <2>7, <2>9, <2>10
      <3>2. mine[first].now = hits[key][n + 1]
        BY <2>7, <3>1
      <3>3. ~Expired(hits[key][n + 1], now)
        BY <2>5, <2>6, <2>9
      <3> QED
        BY <3>1, <3>2, <3>3 DEF Expired
    <2>12. ASSUME NEW i \in first..m PROVE i \in 1..m /\ now <= mine[i].at + Window
      <3>1. i \in 1..m /\ (i = first \/ first < i)
        BY <2>7, <2>11
      <3>2. mine[first].at <= mine[i].at
        BY <2>7, <2>8, <2>11, <3>1
      <3>3. mine[first].now <= mine[first].at
        BY <2>7, <2>11
      <3> QED
        <4>1. PICK a, b, c : a = mine[first].now /\ b = mine[first].at /\ c = mine[i].at
          OBVIOUS
        <4>2. a \in Nat /\ b \in Nat /\ c \in Nat /\ Window \in Nat
          BY <2>8, <2>11, <3>1, <4>1, LimiterAssumption
        <4>3. a <= b /\ b <= c /\ ~(a + Window < now)
          BY <2>11, <3>2, <3>3, <4>1
        <4>4. now <= c + Window
          BY <2>3, <4>2, <4>3
        <4> QED
          BY <3>1, <4>1, <4>4
    <2>13. PICK caused : caused = {i \in 1..m : now <= mine[i].at + Window}
      OBVIOUS
    <2>14. first..m \subseteq caused
      BY <2>12, <2>13
    <2>15. IsFiniteSet(1..m) /\ Cardinality(first..m) = (m + 1) - first
      <3>1. first \in Nat /\ first <= m + 1 /\ 1 <= m + 1
        BY <2>7, <2>11
      <3> QED
        BY <2>7, <3>1, Span
    <2>16. IsFiniteSet(caused)
      BY <2>13, <2>15, FS_Subset
    <2>17. Cardinality(first..m) <= Cardinality(caused) /\ Cardinality(caused) \in Nat
      BY <2>14, <2>16, FS_Subset, FS_CardinalityType
    <2>18. (m + 1) - first = Len(kept)
      <3>1. n \in Nat
        BY <2>5
      <3> QED
        BY <2>7, <2>9, <2>10, <3>1
    <2>19. Cardinality(caused) >= MaxRequests
      BY <2>2, <2>7, <2>11, <2>15, <2>17, <2>18, LimiterAssumption
    <2> QED
      BY <2>1, <2>6, <2>13, <2>19
  <1>2. HistoryInv /\ [Next]_vars =>
          [\A t \in Threads : Deny(t) =>
             LET mine == allowed[call[t].key]
             IN  Cardinality({i \in 1..Len(mine) : call[t].now <= mine[i].at + Window})
                   >= MaxRequests]_vars
    BY <1>1
  <1> QED
    BY <1>2, HistoryInvariance, PTL DEF Spec, DenialsAreJustified

-----------------------------------------------------------------------------
(* How far the limit is overrun.  The calls of a window are split by the   *)
(* run of the process that let them through; in a run, all of them are in  *)
(* the deque until a call with a later reading prunes some, and from then  *)
(* on each thread adds at most the one call whose reading is stale.        *)

OverrunIInv == HistoryInv /\ OverrunInv

\* What a run lets through of any window.
Share == MaxRequests + Late

\* A share is at least the limit, and the limit itself when that is one.
LEMMA ShareType ==
  /\ MaxRequests \in Nat /\ Late \in Nat /\ Share \in Nat
  /\ MaxRequests <= Share /\ 1 <= Share
  /\ MaxRequests # 1 => Share = MaxRequests + (Cardinality(Threads) - 1)
  <1>1. PICK c : c = Cardinality(Threads)
    OBVIOUS
  <1>2. c \in Nat /\ c # 0
    BY <1>1, FS_CardinalityType, FS_EmptySet, LimiterAssumption
  <1> QED
    BY <1>1, <1>2, LimiterAssumption DEF Late, Share

\* The sets of calls, runs and threads that are counted.
LEMMA CallSets ==
  ASSUME HistoryInv, NEW key \in Keys, NEW end, NEW first \in Nat
  PROVE  /\ IsFiniteSet(Earlier(key, end, first)) /\ Cardinality(Earlier(key, end, first)) \in Nat
         /\ IsFiniteSet(Current(key, end, first)) /\ Cardinality(Current(key, end, first)) \in Nat
         /\ Cardinality(InWindow(key, end))
              = Cardinality(Earlier(key, end, first)) + Cardinality(Current(key, end, first))
         /\ IsFiniteSet(InWindow(key, end)) /\ Cardinality(InWindow(key, end)) \in Nat
  <1>1. PICK m \in Nat : m = Len(allowed[key])
    BY DEF HistoryInv, AllowedInv
  <1>2. IsFiniteSet(1..m)
    BY <1>1, FS_Interval
  <1>3. PICK all, early, late :
          all = InWindow(key, end) /\ early = Earlier(key, end, first) /\ late = Current(key, end, first)
    OBVIOUS
  <1>4. all \in SUBSET (1..m)
    BY <1>1, <1>3 DEF InWindow
  <1>5. all = early \cup late /\ early \cap late = {} /\ early \subseteq all /\ late \subseteq all
    <2>1. \A i \in all : i \in Nat /\ (i <= first \/ first < i) /\ ~(i <= first /\ first < i)
      BY <1>1, <1>4
    <2> QED
      BY <1>3, <2>1 DEF Earlier, Current
  <1>6. IsFiniteSet(all) /\ IsFiniteSet(early) /\ IsFiniteSet(late)
    <2>1. IsFiniteSet(all)
      BY <1>2, <1>4, FS_Subset
    <2> QED
      BY <1>5, <2>1, FS_Subset
  <1>7. Cardinality(all) \in Nat /\ Cardinality(early) \in Nat /\ Cardinality(late) \in Nat
    BY <1>6, FS_CardinalityType
  <1>8. Cardinality(all) = Cardinality(early) + Cardinality(late)
    <2>1. Cardinality(early \cup late)
            = Cardinality(early) + Cardinality(late) - Cardinality(early \cap late)
      BY <1>6, FS_Union
    <2>2. Cardinality(early \cap late) = 0
      BY <1>5, FS_EmptySet
    <2> QED
      BY <1>5, <1>7, <2>1, <2>2
  <1> QED
    BY <1>3, <1>6, <1>7, <1>8

\* There are finitely many runs, and the current one is not among the past ones.
LEMMA RunSets ==
  ASSUME HistoryInv, NEW end
  PROVE  /\ IsFiniteSet(RunsInWindow(end)) /\ IsFiniteSet(PastRuns(end))
         /\ Cardinality(RunsInWindow(end)) \in Nat /\ Cardinality(PastRuns(end)) \in Nat
         /\ Cardinality(PastRuns(end)) <= Cardinality(RunsInWindow(end))
         /\ Len(started) \in RunsInWindow(end)
              => Cardinality(RunsInWindow(end)) = Cardinality(PastRuns(end)) + 1
  <1>1. PICK s \in Nat : s = Len(started)
    BY DEF HistoryInv, StartedInv
  <1>2. PICK runs, past : runs = RunsInWindow(end) /\ past = PastRuns(end)
    OBVIOUS
  <1>3. past = runs \ {s}
    BY <1>1, <1>2 DEF PastRuns
  <1>4. runs \in SUBSET (1..s)
    BY <1>1, <1>2 DEF RunsInWindow, HistoryInv, StartedInv
  <1>5. IsFiniteSet(runs)
    <2>1. IsFiniteSet(1..s)
      BY <1>1, FS_Interval
    <2> QED
      BY <1>4, <2>1, FS_Subset
  <1>6. IsFiniteSet(past) /\ Cardinality(past) = IF s \in runs THEN Cardinality(runs) - 1 ELSE Cardinality(runs)
    BY <1>3, <1>5, FS_RemoveElement
  <1>7. Cardinality(runs) \in Nat /\ Cardinality(past) \in Nat
    BY <1>5, <1>6, FS_CardinalityType
  <1> QED
    BY <1>1, <1>2, <1>5, <1>6, <1>7

\* There are finitely many threads.
LEMMA StaleSets ==
  ASSUME NEW key, NEW end
  PROVE  IsFiniteSet(Stale(key, end)) /\ Cardinality(Stale(key, end)) \in Nat
  <1>1. Stale(key, end) \subseteq Threads
    BY DEF Stale, InProgress
  <1> QED
    BY <1>1, LimiterAssumption, FS_Subset, FS_CardinalityType

\* A call counted has a time of the past, and lies in its window.
LEMMA InCalls ==
  ASSUME HistoryInv, NEW key \in Keys, NEW i \in 1..Len(allowed[key])
  PROVE  /\ allowed[key][i].now \in Nat /\ allowed[key][i].now <= clock
         /\ i \in Nat /\ Len(allowed[key]) \in Nat /\ clock \in Nat
  <1>1. allowed[key] \in Seq([now : Nat, at : Nat])
    BY DEF HistoryInv, AllowedInv
  <1>2. allowed[key][i] \in [now : Nat, at : Nat]
    BY <1>1, ElementOfSeq
  <1>3. allowed[key][i].now <= allowed[key][i].at /\ allowed[key][i].at <= clock
    BY DEF HistoryInv, AllowedInv
  <1>4. clock \in Nat
    BY LimiterAssumption DEF HistoryInv, LimiterInv
  <1>5. PICK a, b : a = allowed[key][i].now /\ b = allowed[key][i].at
    OBVIOUS
  <1>6. a \in Nat /\ b \in Nat /\ a <= b /\ b <= clock
    BY <1>2, <1>3, <1>5
  <1>7. a <= clock
    BY <1>4, <1>6
  <1>8. Len(allowed[key]) \in Nat
    BY <1>1, LenProperties
  <1> QED
    BY <1>4, <1>5, <1>6, <1>7, <1>8

\* As long as the deque holds all of a run's calls in the window, they are no
\* more than the limit.
LEMMA HeldCalls ==
  ASSUME HistoryInv, NEW key \in Keys, NEW end, NEW first \in Nat,
         \A i \in Current(key, end, first) : Gone(key) < i
  PROVE  /\ Cardinality(Current(key, end, first)) <= Len(hits[key])
         /\ Len(hits[key]) \in Nat /\ Len(hits[key]) <= MaxRequests
  <1>1. PICK m, g, h : m = Len(allowed[key]) /\ g = Gone(key) /\ h = Len(hits[key])
    OBVIOUS
  <1>2. m \in Nat /\ h \in Nat /\ g \in Nat /\ g = m - h /\ h <= MaxRequests
    <2>1. hits[key] \in Seq(0..clock) /\ h <= MaxRequests
      BY <1>1 DEF HistoryInv, LimiterInv
    <2>2. allowed[key] \in Seq([now : Nat, at : Nat])
      BY DEF HistoryInv, AllowedInv
    <2>3. m \in Nat /\ h \in Nat
      BY <1>1, <2>1, <2>2, LenProperties
    <2>4. g \in Nat /\ g = m - h
      BY <1>1 DEF HistoryInv, DequesInv, Gone
    <2> QED
      BY <2>1, <2>3, <2>4
  <1>3. PICK late : late = Current(key, end, first)
    OBVIOUS
  <1>4. late \in SUBSET ((g + 1)..m)
    <2>1. \A i \in late : i \in 1..m /\ g < i
      BY <1>1, <1>3 DEF Current, InWindow
    <2> QED
      BY <1>2, <2>1
  <1>5. IsFiniteSet((g + 1)..m) /\ Cardinality((g + 1)..m) = h
    <2>1. g + 1 \in Nat /\ g + 1 <= m + 1 /\ (m + 1) - (g + 1) = h
      BY <1>2
    <2> QED
      BY <1>2, <2>1, Span
  <1>6. Cardinality(late) <= h
    BY <1>4, <1>5, FS_Subset
  <1> QED
    BY <1>1, <1>2, <1>3, <1>6

\* In any case they are no more than a run's share.
LEMMA RunShare ==
  ASSUME HistoryInv, NEW key \in Keys, NEW end, NEW first \in Nat, WindowInv(key, end, first)
  PROVE  Cardinality(Current(key, end, first)) <= Share
  <1>1. PICK c, s : c = Cardinality(Current(key, end, first)) /\ s = Cardinality(Stale(key, end))
    OBVIOUS
  <1>2. c \in Nat /\ s \in Nat
    BY <1>1, CallSets, StaleSets
  <1>3. CASE \A i \in Current(key, end, first) : Gone(key) < i
    <2>1. PICK h : h = Len(hits[key])
      OBVIOUS
    <2>2. c <= h /\ h \in Nat /\ h <= MaxRequests
      BY <1>1, <1>3, <2>1, HeldCalls
    <2> QED
      BY <1>1, <1>2, <2>2, ShareType
  <1>4. CASE c + s <= MaxRequests + Late
    <2>1. c + s <= Share
      BY <1>4 DEF Share
    <2> QED
      BY <1>1, <1>2, <2>1, ShareType
  <1>5. CASE c <= 1
    BY <1>1, <1>2, <1>5, ShareType
  <1> QED
    BY <1>1, <1>3, <1>4, <1>5 DEF WindowInv

\* A run with a call in the window was up in it.
LEMMA RunWasUp ==
  ASSUME HistoryInv, NEW key \in Keys, NEW end \in Nat, NEW first \in Nat, RunInv(key, first),
         Current(key, end, first) # {}
  PROVE  started[Len(started)] <= end /\ end <= clock + Window
  <1>1. PICK i : i \in Current(key, end, first)
    OBVIOUS
  <1>2. /\ i \in 1..Len(allowed[key]) /\ first < i
        /\ allowed[key][i].now <= end /\ end <= allowed[key][i].now + Window
    BY <1>1 DEF Current, InWindow
  <1>3. PICK a, b : a = allowed[key][i].now /\ b = started[Len(started)]
    OBVIOUS
  <1>4. a \in Nat /\ a <= clock /\ clock \in Nat
    BY <1>2, <1>3, InCalls
  <1>5. b \in Nat
    <2>1. started \in Seq(Nat) /\ started # <<>>
      BY DEF HistoryInv, StartedInv
    <2> QED
      BY <1>3, <2>1
  <1>6. b <= a
    BY <1>2, <1>3 DEF RunInv
  <1> QED
    BY <1>2, <1>3, <1>4, <1>5, <1>6, LimiterAssumption

\* One more run, one more share.
LEMMA OneMoreShare ==
  ASSUME NEW e \in Nat, NEW c \in Nat, NEW p \in Nat, NEW q \in Nat, NEW b \in Nat,
         e <= p * b, c <= b, p <= q, (c # 0) => q = p + 1
  PROVE  e + c <= q * b
  <1>1. CASE c = 0
    <2>1. p * b <= q * b
      OBVIOUS
    <2>2. p * b \in Nat /\ q * b \in Nat
      OBVIOUS
    <2> QED
      BY <1>1, <2>1, <2>2
  <1>2. CASE c # 0
    <2>1. q * b = p * b + b
      BY <1>2
    <2>2. p * b \in Nat
      OBVIOUS
    <2> QED
      BY <2>1, <2>2
  <1> QED
    BY <1>1, <1>2

\* Nothing that happens elsewhere adds to a key's calls, or makes a thread
\* stale for a window of the past.
LEMMA QuietRun ==
  ASSUME HistoryInv, NEW key \in Keys, NEW first \in Nat, RunInv(key, first),
         allowed'[key] = allowed[key], hits'[key] = hits[key], started' = started,
         clock' \in Nat, clock <= clock',
         \A end \in 0..MaxTime : (end < clock) => (Stale(key, end)' \subseteq Stale(key, end))
  PROVE  RunInv(key, first)'
  <1>1. \A i \in 1..Len(allowed'[key]) : (first < i) => (started'[Len(started')] <= allowed'[key][i].now)
    BY DEF RunInv
  <1>2. ASSUME NEW end \in 0..MaxTime PROVE WindowInv(key, end, first)'
    <2>1. WindowInv(key, end, first)
      BY <1>2 DEF RunInv
    <2>2. /\ InWindow(key, end)' = InWindow(key, end)
          /\ RunsInWindow(end)' = RunsInWindow(end)
          /\ Gone(key)' = Gone(key)
      BY DEF InWindow, RunsInWindow, Gone
    <2>3. /\ Earlier(key, end, first)' = Earlier(key, end, first)
          /\ Current(key, end, first)' = Current(key, end, first)
          /\ PastRuns(end)' = PastRuns(end)
      BY <2>2 DEF Earlier, Current, PastRuns
    <2>4. Cardinality(Earlier(key, end, first)') <= Cardinality(PastRuns(end)') * (MaxRequests + Late)
      BY <2>1, <2>3 DEF WindowInv
    <2>5. CASE \A i \in Current(key, end, first) : Gone(key) < i
      <3>1. \A i \in Current(key, end, first)' : Gone(key)' < i
        BY <2>2, <2>3, <2>5
      <3> QED
        BY <2>4, <3>1 DEF WindowInv
    <2>6. CASE /\ MaxRequests # 1 /\ end < clock
               /\ Cardinality(Current(key, end, first)) + Cardinality(Stale(key, end)) <= MaxRequests + Late
      <3>1. clock \in Nat /\ end \in Nat /\ end < clock'
        BY <2>6, LimiterAssumption DEF HistoryInv, LimiterInv
      <3>2. Stale(key, end)' \subseteq Stale(key, end)
        BY <1>2, <2>6
      <3>3. PICK old, new : old = Stale(key, end) /\ new = Stale(key, end)'
        OBVIOUS
      <3>4. IsFiniteSet(old) /\ Cardinality(old) \in Nat
        BY <3>3, StaleSets
      <3>5. Cardinality(new) <= Cardinality(old) /\ Cardinality(new) \in Nat
        BY <3>2, <3>3, <3>4, FS_Subset, FS_CardinalityType
      <3>6. PICK c, share : c = Cardinality(Current(key, end, first)) /\ share = MaxRequests + Late
        OBVIOUS
      <3>7. c \in Nat /\ share \in Nat
        BY <3>1, <3>6, CallSets, ShareType
      <3>8. c + Cardinality(new) <= share
        BY <2>6, <3>3, <3>4, <3>5, <3>6, <3>7
      <3>9. Cardinality(Current(key, end, first)') + Cardinality(Stale(key, end)') <= MaxRequests + Late
        BY <2>3, <3>3, <3>6, <3>8
      <3> QED
        BY <2>4, <2>6, <3>1, <3>9 DEF WindowInv
    <2>7. CASE /\ MaxRequests = 1 /\ Cardinality(Current(key, end, first)) <= 1
               /\ Len(hits[key]) = 1 /\ end < hits[key][1]
      BY <2>3, <2>4, <2>7 DEF WindowInv
    <2> QED
      BY <2>1, <2>5, <2>6, <2>7 DEF WindowInv
  <1> QED
    BY <1>1, <1>2 DEF RunInv

\* What a call let through does to the sets that are counted.
LEMMA AllowCounts ==
  ASSUME HistoryInv, NEW t \in Threads, Allow(t), NEW key, NEW now, NEW n, Allows(t, key, now, n),
         NEW end \in Nat, NEW first \in 0..Len(allowed[key]), NEW m, m = Len(allowed[key])
  PROVE  /\ m \in Nat /\ m + 1 \notin Current(key, end, first)
         /\ Earlier(key, end, first)' = Earlier(key, end, first)
         /\ Current(key, end, first)'
              = Current(key, end, first)
                  \cup (IF now <= end /\ end <= now + Window THEN {m + 1} ELSE {})
         /\ PastRuns(end)' = PastRuns(end)
         /\ Stale(key, end)' = Stale(key, end) \ {t}
         /\ Gone(key)' = Gone(key) + n
  <1>1. /\ UNCHANGED <<clock, started>> /\ call' = [call EXCEPT ![t] = NULL]
    BY DEF Allow
  <1>2. /\ key \in Keys /\ now \in 0..clock /\ n \in 0..Len(hits[key]) /\ clock \in Nat
        /\ allowed'[key] = Append(allowed[key], [now |-> now, at |-> clock])
        /\ Len(hits'[key]) = Len(hits[key]) - n + 1
    BY LimiterAssumption DEF Allows, HistoryInv, LimiterInv
  <1>3. allowed[key] \in Seq([now : Nat, at : Nat]) /\ m \in Nat /\ first \in Nat /\ first <= m
    BY <1>2 DEF HistoryInv, AllowedInv
  <1>4. PICK new : new = [now |-> now, at |-> clock]
    OBVIOUS
  <1>5. new \in [now : Nat, at : Nat] /\ new.now = now
    BY <1>2, <1>4
  <1>6. /\ Len(allowed'[key]) = m + 1
        /\ \A i \in 1..m : allowed'[key][i] = allowed[key][i]
        /\ allowed'[key][m + 1] = new
    BY <1>2, <1>3, <1>4, <1>5, AppendProperties
  <1>7. InWindow(key, end)'
          = InWindow(key, end) \cup (IF now <= end /\ end <= now + Window THEN {m + 1} ELSE {})
    <2>1. \A i : (i \in 1..(m + 1)) <=> (i \in 1..m \/ i = m + 1)
      BY <1>3
    <2>2. m + 1 \notin 1..m
      BY <1>3
    <2> QED
      BY <1>5, <1>6, <2>1, <2>2 DEF InWindow
  <1>8. Earlier(key, end, first)' = Earlier(key, end, first)
    <2>1. ~(m + 1 <= first)
      BY <1>3
    <2> QED
      BY <1>7, <2>1 DEF Earlier
  <1>9. Current(key, end, first)'
          = Current(key, end, first) \cup (IF now <= end /\ end <= now + Window THEN {m + 1} ELSE {})
    <2>1. first < m + 1
      BY <1>3
    <2> QED
      BY <1>7, <2>1 DEF Current
  <1>10. m + 1 \notin Current(key, end, first)
    BY <1>3 DEF Current, InWindow
  <1>11. PastRuns(end)' = PastRuns(end)
    BY <1>1 DEF PastRuns, RunsInWindow
  <1>12. Stale(key, end)' = Stale(key, end) \ {t}
    <2>1. call'[t] = NULL /\ \A u \in Threads \ {t} : call'[u] = call[u]
      BY <1>1 DEF HistoryInv, LimiterInv
    <2> QED
      BY <2>1 DEF Stale, InProgress
  <1>13. Gone(key)' = Gone(key) + n
    <2>1. PICK h : h = Len(hits[key])
      OBVIOUS
    <2>2. h \in Nat /\ n \in Nat
      <3>1. hits[key] \in Seq(0..clock)
        BY <1>2 DEF HistoryInv, LimiterInv
      <3>2. h \in Nat
        BY <2>1, <3>1, LenProperties
      <3> QED
        BY <1>2, <2>1, <3>2
    <2>3. Gone(key) = m - h
      BY <2>1 DEF Gone
    <2>4. Gone(key)' = (m + 1) - (h - n + 1)
      BY <1>2, <1>6, <2>1 DEF Gone
    <2> QED
      BY <1>3, <2>2, <2>3, <2>4
  <1> QED
    BY <1>3, <1>8, <1>9, <1>10, <1>11, <1>12, <1>13

\* Hits that a call prunes lie outside of every window that holds the call or
\* ends later.
LEMMA PrunedAreOutside ==
  ASSUME HistoryInv, NEW t \in Threads, NEW key, NEW now, NEW n, Allows(t, key, now, n),
         NEW end \in Nat, now <= end, NEW first \in 0..Len(allowed[key]),
         NEW i \in Current(key, end, first), Gone(key) < i
  PROVE  Gone(key) + n < i
  <1>1. /\ key \in Keys /\ now \in Nat /\ n \in 0..Len(hits[key])
        /\ \A j \in 1..n : hits[key][j] + Window < now
    BY LimiterAssumption DEF Allows, HistoryInv, LimiterInv, Expired
  <1>2. i \in 1..Len(allowed[key]) /\ end <= allowed[key][i].now + Window
    BY DEF Current, InWindow
  <1>3. allowed[key][i].now \in Nat /\ i \in Nat
    BY <1>1, <1>2, InCalls
  <1>4. PICK g, h : g = Gone(key) /\ h = Len(hits[key])
    OBVIOUS
  <1>5. h \in Nat /\ g \in Nat /\ n \in 0..h
    <2>1. hits[key] \in Seq(0..clock)
      BY <1>1 DEF HistoryInv, LimiterInv
    <2> QED
      BY <1>1, <1>4, <2>1, LenProperties DEF HistoryInv, DequesInv
  <1>6. SUFFICES ASSUME ~(g + n < i) PROVE FALSE
    BY <1>4
  <1>7. PICK j : j = i - g
    OBVIOUS
  <1>8. j \in 1..n /\ j \in 1..h /\ g + j = i
    BY <1>3, <1>4, <1>5, <1>6, <1>7
  <1>9. hits[key][j] = allowed[key][i].now
    <2>1. hits[key][j] = allowed[key][g + j].now
      BY <1>1, <1>4, <1>8 DEF HistoryInv, DequesInv
    <2> QED
      BY <1>8, <2>1
  <1>10. allowed[key][i].now + Window < now
    BY <1>1, <1>8, <1>9
  <1> QED
    BY <1>1, <1>2, <1>3, <1>10, LimiterAssumption

\* A call let through: it takes a place its reading finds free, or the one a
\* stale thread had.
LEMMA AllowRun ==
  ASSUME HistoryInv, NEW t \in Threads, Allow(t), NEW key, NEW now, NEW n, Allows(t, key, now, n),
         NEW first \in 0..Len(allowed[key]), RunInv(key, first)
  PROVE  RunInv(key, first)'
  <1>1. PICK m : m = Len(allowed[key])
    OBVIOUS
  <1>2. /\ UNCHANGED <<clock, started>> /\ call[t] # NULL /\ call[t].key = key /\ call[t].now = now
        /\ key \in Keys /\ now \in Nat /\ now <= clock /\ clock \in Nat /\ n \in 0..Len(hits[key])
        /\ Len(hits[key]) - n < MaxRequests
        /\ allowed'[key] = Append(allowed[key], [now |-> now, at |-> clock])
        /\ Len(hits'[key]) = Len(hits[key]) - n + 1 /\ hits'[key][Len(hits[key]) - n + 1] = now
    <2>1. UNCHANGED <<clock, started>>
      BY DEF Allow
    <2>2. now \in 0..clock /\ clock \in Nat
      BY LimiterAssumption DEF Allows, HistoryInv, LimiterInv
    <2>3. now \in Nat /\ now <= clock
      BY <2>2
    <2> QED
      BY <2>1, <2>2, <2>3 DEF Allows
  <1>3. allowed[key] \in Seq([now : Nat, at : Nat]) /\ m \in Nat /\ first \in Nat /\ first <= m
    BY <1>1, <1>2, LenProperties DEF HistoryInv, AllowedInv
  <1>4. PICK h \in Nat : h = Len(hits[key])
    <2>1. hits[key] \in Seq(0..clock)
      BY <1>2 DEF HistoryInv, LimiterInv
    <2> QED
      BY <2>1, LenProperties
  <1>5. \A i \in 1..Len(allowed'[key]) : (first < i) => (started'[Len(started')] <= allowed'[key][i].now)
    <2>1. PICK new : new = [now |-> now, at |-> clock]
      OBVIOUS
    <2>2. new \in [now : Nat, at : Nat] /\ new.now = now
      BY <1>2, <2>1
    <2>3. /\ Len(allowed'[key]) = m + 1
          /\ \A i \in 1..m : allowed'[key][i] = allowed[key][i]
          /\ allowed'[key][m + 1] = new
      BY <1>1, <1>2, <1>3, <2>1, <2>2, AppendProperties
    <2>4. started[Len(started)] <= now
      BY <1>2 DEF HistoryInv, StartedInv
    <2>5. \A i \in 1..m : (first < i) => (started[Len(started)] <= allowed[key][i].now)
      BY <1>1 DEF RunInv
    <2>6. \A i \in 1..(m + 1) : i \in 1..m \/ i = m + 1
      BY <1>3
    <2>7. started' = started
      BY <1>2
    <2> SUFFICES ASSUME NEW i \in 1..(m + 1), first < i
                 PROVE  started[Len(started)] <= allowed'[key][i].now
      BY <2>3, <2>7
    <2>8. CASE i \in 1..m
      BY <2>3, <2>5, <2>8
    <2>9. CASE i = m + 1
      BY <2>2, <2>3, <2>4, <2>9
    <2> QED
      BY <2>6, <2>8, <2>9
  <1>6. ASSUME NEW end \in 0..MaxTime PROVE WindowInv(key, end, first)'
    <2>1. end \in Nat /\ WindowInv(key, end, first)
      BY <1>6, LimiterAssumption DEF RunInv
    <2>2. PICK early, late, stale :
            /\ early = Earlier(key, end, first) /\ late = Current(key, end, first)
            /\ stale = Stale(key, end)
      OBVIOUS
    <2>3. PICK new : new = (IF now <= end /\ end <= now + Window THEN {m + 1} ELSE {})
      OBVIOUS
    <2>4. /\ Earlier(key, end, first)' = early /\ Current(key, end, first)' = late \cup new
          /\ PastRuns(end)' = PastRuns(end) /\ Stale(key, end)' = stale \ {t}
          /\ Gone(key)' = Gone(key) + n /\ m + 1 \notin late
      BY <1>1, <2>1, <2>2, <2>3, AllowCounts
    <2>5. Cardinality(Earlier(key, end, first)') <= Cardinality(PastRuns(end)') * (MaxRequests + Late)
      BY <2>1, <2>2, <2>4 DEF WindowInv
    <2>6. PICK c, s : c = Cardinality(late) /\ s = Cardinality(stale)
      OBVIOUS
    <2>7. /\ IsFiniteSet(late) /\ IsFiniteSet(stale) /\ c \in Nat /\ s \in Nat
          /\ stale \subseteq Threads
      <3>1. IsFiniteSet(late) /\ Cardinality(late) \in Nat
        BY <1>2, <1>3, <2>2, CallSets
      <3>2. IsFiniteSet(stale) /\ Cardinality(stale) \in Nat
        BY <2>2, StaleSets
      <3>3. stale \subseteq Threads
        BY <2>2 DEF Stale, InProgress
      <3> QED
        BY <2>6, <3>1, <3>2, <3>3
    <2>8. MaxRequests \in Nat /\ Share \in Nat /\ Share = MaxRequests + Late
      BY ShareType DEF Share
    <2>9. CASE (\A i \in late : Gone(key) < i) /\ now <= end
      <3>1. \A i \in late : Gone(key) + n < i
        BY <2>1, <2>2, <2>9, PrunedAreOutside
      <3>2. Gone(key) + n < m + 1
        <4>1. PICK g : g = Gone(key)
          OBVIOUS
        <4>2. g \in Nat /\ g = m - h
          BY <1>1, <1>2, <1>4, <4>1 DEF HistoryInv, DequesInv, Gone
        <4> QED
          <5>1. n \in 0..h
            BY <1>2, <1>4
          <5>2. g + n < m + 1
            <6>1. m \in Nat /\ h \in Nat /\ n \in Nat /\ n <= h
              BY <1>3, <1>4, <5>1
            <6> QED
              BY <4>2, <6>1
          <5> QED
            BY <4>1, <5>2
      <3>3. new \subseteq {m + 1}
        BY <2>3
      <3>4. \A i \in Current(key, end, first)' : Gone(key)' < i
        BY <2>4, <3>1, <3>2, <3>3
      <3> QED
        BY <2>5, <3>4 DEF WindowInv
    <2>10. CASE ~(now <= end)
      <3>1. new = {} /\ Current(key, end, first)' = late /\ end < now /\ end < clock
        BY <1>2, <2>1, <2>3, <2>4, <2>10
      <3>2. CASE MaxRequests # 1
        <4>1. c + Cardinality(stale \ {t}) <= Share
          <5>1. CASE \A i \in late : Gone(key) < i
            <6>1. c <= MaxRequests
              <7>1. c <= h /\ h <= MaxRequests
                BY <1>2, <1>3, <1>4, <2>2, <2>6, <5>1, HeldCalls
              <7> QED
                BY <1>4, <2>7, <2>8, <7>1
            <6>2. Cardinality(stale \ {t}) <= Cardinality(Threads) - 1
                  /\ Cardinality(stale \ {t}) \in Nat /\ Cardinality(Threads) \in Nat
              <7>1. /\ IsFiniteSet(Threads \ {t}) /\ Cardinality(Threads \ {t}) = Cardinality(Threads) - 1
                BY LimiterAssumption, FS_RemoveElement
              <7>2. (stale \ {t}) \in SUBSET (Threads \ {t})
                BY <2>7
              <7>3. IsFiniteSet(stale \ {t}) /\ Cardinality(stale \ {t}) <= Cardinality(Threads \ {t})
                BY <7>1, <7>2, FS_Subset
              <7> QED
                BY <7>1, <7>3, LimiterAssumption, FS_CardinalityType
            <6>3. Share = MaxRequests + (Cardinality(Threads) - 1)
              BY <3>2, ShareType
            <6> QED
              BY <2>7, <2>8, <6>1, <6>2, <6>3
          <5>2. CASE c + s <= Share
            <6>1. Cardinality(stale \ {t}) <= s /\ Cardinality(stale \ {t}) \in Nat
              BY <2>6, <2>7, FS_Subset, FS_CardinalityType
            <6> QED
              BY <2>7, <2>8, <5>2, <6>1
          <5> QED
            BY <2>1, <2>2, <2>6, <2>8, <3>2, <5>1, <5>2 DEF WindowInv
        <4>2. Cardinality(Current(key, end, first)') + Cardinality(Stale(key, end)') <= MaxRequests + Late
          BY <2>4, <2>6, <2>8, <3>1, <4>1
        <4>3. end < clock'
          BY <1>2, <3>1
        <4> QED
          BY <2>5, <3>2, <4>2, <4>3 DEF WindowInv
      <3>3. CASE MaxRequests = 1
        <4>1. c <= 1
          <5>1. CASE \A i \in late : Gone(key) < i
            <6>1. c <= h /\ h <= MaxRequests
              BY <1>2, <1>3, <1>4, <2>2, <2>6, <5>1, HeldCalls
            <6> QED
              BY <1>4, <2>7, <3>3, <6>1
          <5> QED
            BY <2>1, <2>2, <2>6, <3>3, <5>1 DEF WindowInv
        <4>2. Len(hits'[key]) = 1 /\ hits'[key][1] = now
          <5>1. h - n = 0 /\ h - n + 1 = 1
            BY <1>2, <1>4, <3>3
          <5> QED
            BY <1>2, <1>4, <5>1
        <4>3. Cardinality(Current(key, end, first)') <= 1
          BY <2>6, <3>1, <4>1
        <4>4. end < hits'[key][1]
          BY <3>1, <4>2
        <4> QED
          BY <2>5, <3>3, <4>2, <4>3, <4>4 DEF WindowInv
      <3> QED
        BY <3>2, <3>3
    <2>11. CASE now <= end /\ MaxRequests # 1 /\ end < clock /\ c + s <= Share
      <3>1. t \in stale
        BY <1>2, <2>2, <2>11 DEF Stale, InProgress
      <3>2. Cardinality(stale \ {t}) = s - 1
        BY <2>6, <2>7, <3>1, FS_RemoveElement
      <3>3. Cardinality(late \cup new) <= c + 1 /\ Cardinality(late \cup new) \in Nat
        <4>1. CASE new = {m + 1}
          <5>1. Cardinality(late \cup {m + 1}) = c + 1
            BY <2>4, <2>6, <2>7, FS_AddElement
          <5> QED
            BY <2>7, <4>1, <5>1
        <4>2. CASE new = {}
          <5>1. late \cup new = late
            BY <4>2
          <5>2. Cardinality(late \cup new) = c
            BY <2>6, <5>1
          <5> QED
            BY <2>7, <5>2
        <4> QED
          BY <2>3, <4>1, <4>2
      <3>4. Cardinality(late \cup new) + Cardinality(stale \ {t}) <= Share
        BY <2>7, <2>8, <2>11, <3>2, <3>3
      <3>5. Cardinality(Current(key, end, first)') + Cardinality(Stale(key, end)') <= MaxRequests + Late
        BY <2>4, <2>8, <3>4
      <3>6. end < clock'
        BY <1>2, <2>11
      <3> QED
        BY <2>5, <2>11, <3>5, <3>6 DEF WindowInv
    <2>12. CASE now <= end /\ MaxRequests = 1 /\ Len(hits[key]) = 1 /\ end < hits[key][1]
      <3>1. n = 1
        BY <1>2, <2>12
      <3>2. hits[key][1] + Window < now
        BY <3>1 DEF Allows, Expired
      <3>3. hits[key][1] \in Nat
        <4>1. hits[key] \in Seq(0..clock)
          BY <1>2 DEF HistoryInv, LimiterInv
        <4> QED
          BY <1>2, <2>12, <4>1, ElementOfSeq
      <3> QED
        BY <1>2, <2>1, <2>12, <3>2, <3>3, LimiterAssumption
    <2> QED
      BY <2>1, <2>2, <2>6, <2>8, <2>9, <2>10, <2>11, <2>12 DEF WindowInv
  <1> QED
    BY <1>5, <1>6 DEF RunInv

\* A restart makes the current run a past one, and the next one has let
\* nothing through yet.
LEMMA RestartRun ==
  ASSUME HistoryInv, Restart, NEW key \in Keys, NEW first \in 0..Len(allowed[key]), RunInv(key, first),
         NEW m \in Nat, m = Len(allowed[key])
  PROVE  RunInv(key, m)'
  <1>1. started' = Append(started, clock) /\ UNCHANGED <<clock, allowed>>
    BY DEF Restart
  <1>2. PICK s : s = Len(started)
    OBVIOUS
  <1>3. /\ clock \in Nat /\ s \in Nat \ {0} /\ first \in Nat
        /\ started \in Seq(Nat) /\ started # <<>>
    <2>1. started \in Seq(Nat) /\ started # <<>>
      BY DEF HistoryInv, StartedInv
    <2>2. s \in Nat \ {0}
      BY <1>2, <2>1
    <2> QED
      BY <2>1, <2>2, LimiterAssumption DEF HistoryInv, LimiterInv
  <1>4. /\ Len(started') = s + 1 /\ started'[s + 1] = clock
        /\ \A n \in 1..s : started'[n] = started[n]
        /\ started' \in Seq(Nat)
    BY <1>1, <1>2, <1>3, AppendProperties
  <1>5. \A i \in 1..Len(allowed'[key]) : (m < i) => (started'[Len(started')] <= allowed'[key][i].now)
    BY <1>1
  <1>6. ASSUME NEW end \in 0..MaxTime PROVE WindowInv(key, end, m)'
    <2>1. end \in Nat /\ WindowInv(key, end, first)
      BY <1>6, LimiterAssumption DEF RunInv
    <2>2. PICK all : all = InWindow(key, end)
      OBVIOUS
    <2>3. InWindow(key, end)' = all /\ all \subseteq 1..m
      BY <1>1, <2>2 DEF InWindow
    <2>4. Earlier(key, end, m)' = all /\ Current(key, end, m)' = {}
      <3>1. \A i \in all : i <= m /\ ~(m < i)
        BY <2>3
      <3> QED
        BY <2>3, <3>1 DEF Earlier, Current
    <2>5. PICK past, new : past = PastRuns(end) /\ new = PastRuns(end)'
      OBVIOUS
    <2>6. new = past \cup (IF started[s] <= end /\ end <= clock + Window THEN {s} ELSE {})
      <3>1. DOMAIN started = 1..s /\ DOMAIN started' = 1..(s + 1)
        BY <1>2, <1>3, <1>4
      <3>2. ASSUME NEW n PROVE n \in past <=> /\ n \in 1..s /\ n # s
                                               /\ started[n] <= end /\ end <= started[n + 1] + Window
        <4>1. n \in past <=> /\ n \in 1..s /\ n # s /\ started[n] <= end
                             /\ n < s => end <= started[n + 1] + Window
          BY <1>2, <2>5, <3>1 DEF PastRuns, RunsInWindow
        <4>2. (n \in 1..s /\ n # s) => n < s
          BY <1>3
        <4> QED
          BY <4>1, <4>2
      <3>3. ASSUME NEW n PROVE n \in new <=> /\ n \in 1..s
                                              /\ started'[n] <= end /\ end <= started'[n + 1] + Window
        <4>1. n \in new <=> /\ n \in 1..(s + 1) /\ n # s + 1 /\ started'[n] <= end
                            /\ n < s + 1 => end <= started'[n + 1] + Window
          BY <1>4, <2>5, <3>1 DEF PastRuns, RunsInWindow
        <4>2. (n \in 1..s) <=> (n \in 1..(s + 1) /\ n # s + 1)
          BY <1>3
        <4>3. n \in 1..s => n < s + 1
          BY <1>3
        <4> QED
          BY <4>1, <4>2, <4>3
      <3>4. ASSUME NEW n \in 1..s, n # s PROVE started'[n] = started[n] /\ started'[n + 1] = started[n + 1]
        <4>1. n + 1 \in 1..s
          BY <1>3, <3>4
        <4> QED
          BY <1>4, <4>1
      <3>5. s \in 1..s /\ started'[s] = started[s] /\ started'[s + 1] = clock
        BY <1>3, <1>4
      <3> QED
        BY <3>2, <3>3, <3>4, <3>5
    <2>7. IsFiniteSet(past) /\ Cardinality(past) \in Nat /\ s \notin past
      BY <1>2, <2>5, RunSets DEF PastRuns
    <2>8. PICK e, c, p, q :
            /\ e = Cardinality(Earlier(key, end, first)) /\ c = Cardinality(Current(key, end, first))
            /\ p = Cardinality(past) /\ q = Cardinality(new)
      OBVIOUS
    <2>9. /\ e \in Nat /\ c \in Nat /\ p \in Nat /\ Cardinality(all) = e + c
          /\ IsFiniteSet(Current(key, end, first))
      BY <1>3, <2>2, <2>7, <2>8, CallSets
    <2>10. q \in Nat /\ p <= q /\ (c # 0 => q = p + 1)
      <3>1. CASE started[s] <= end /\ end <= clock + Window
        <4>1. new = past \cup {s}
          BY <2>6, <3>1
        <4>2. q = p + 1
          BY <2>7, <2>8, <4>1, FS_AddElement
        <4> QED
          BY <2>9, <4>2
      <3>2. CASE ~(started[s] <= end /\ end <= clock + Window)
        <4>1. new = past
          BY <2>6, <3>2
        <4>2. q = p
          BY <2>8, <4>1
        <4>3. Current(key, end, first) = {}
          BY <1>2, <1>3, <2>1, <3>2, RunWasUp
        <4>4. c = 0
          BY <2>8, <4>3, FS_EmptySet
        <4> QED
          BY <2>9, <4>2, <4>4
      <3> QED
        BY <3>1, <3>2
    <2>11. c <= Share /\ e <= p * Share
      BY <1>3, <2>1, <2>5, <2>8, RunShare DEF WindowInv, Share
    <2>12. e + c <= q * Share
      BY <2>9, <2>10, <2>11, ShareType, OneMoreShare
    <2>13. Cardinality(Earlier(key, end, m)') <= Cardinality(PastRuns(end)') * (MaxRequests + Late)
      BY <2>4, <2>5, <2>8, <2>9, <2>12 DEF Share
    <2>14. \A i \in Current(key, end, m)' : Gone(key)' < i
      BY <2>4
    <2> QED
      BY <2>13, <2>14 DEF WindowInv
  <1> QED
    BY <1>5, <1>6 DEF RunInv

\* Before the first call.
LEMMA OverrunInitially == Init => OverrunInv
  <1> SUFFICES ASSUME Init, NEW key \in Keys PROVE 0 \in 0..Len(allowed[key]) /\ RunInv(key, 0)
    BY DEF OverrunInv
  <1>1. allowed[key] = <<>> /\ Len(allowed[key]) = 0
    BY DEF Init
  <1>2. HistoryInv
    BY HistoryInitially
  <1>3. ASSUME NEW end \in 0..MaxTime PROVE WindowInv(key, end, 0)
    <2>1. InWindow(key, end) = {}
      BY <1>1 DEF InWindow
    <2>2. Earlier(key, end, 0) = {} /\ Current(key, end, 0) = {}
      BY <2>1 DEF Earlier, Current
    <2>3. PICK p : p = Cardinality(PastRuns(end))
      OBVIOUS
    <2>4. p \in Nat
      BY <1>2, <2>3, RunSets
    <2>5. 0 <= p * Share
      BY <2>4, ShareType
    <2>6. Cardinality(Earlier(key, end, 0)) = 0
      BY <2>2, FS_EmptySet
    <2>7. Cardinality(Earlier(key, end, 0)) <= Cardinality(PastRuns(end)) * (MaxRequests + Late)
      BY <2>3, <2>5, <2>6 DEF Share
    <2> QED
      BY <2>2, <2>7 DEF WindowInv
  <1> QED
    BY <1>1, <1>3 DEF RunInv

\* Each action keeps the invariant.
LEMMA OverrunStep ==
  ASSUME OverrunIInv, [Next]_vars
  PROVE  OverrunIInv'
  <1>1. HistoryInv /\ HistoryInv' /\ OverrunInv
    BY HistoryStep DEF OverrunIInv
  <1> SUFFICES ASSUME NEW key \in Keys
               PROVE  \E first \in 0..Len(allowed'[key]) : RunInv(key, first)'
    BY <1>1 DEF OverrunIInv, OverrunInv
  <1>2. PICK first \in 0..Len(allowed[key]) : RunInv(key, first)
    BY <1>1 DEF OverrunInv
  <1>3. PICK m : m = Len(allowed[key])
    OBVIOUS
  <1>4. m \in Nat /\ first \in 0..m /\ first \in Nat
    <2>1. allowed[key] \in Seq([now : Nat, at : Nat])
      BY <1>1 DEF HistoryInv, AllowedInv
    <2> QED
      BY <1>2, <1>3, <2>1, LenProperties
  <1>5. clock \in Nat /\ clock <= clock /\ call = [t \in Threads |-> call[t]]
    BY <1>1, LimiterAssumption DEF HistoryInv, LimiterInv
  <1>6. ASSUME allowed'[key] = allowed[key], hits'[key] = hits[key], started' = started,
               clock' \in Nat, clock <= clock',
               \A end \in 0..MaxTime : (end < clock) => (Stale(key, end)' \subseteq Stale(key, end))
        PROVE  \E f \in 0..Len(allowed'[key]) : RunInv(key, f)'
    <2>1. RunInv(key, first)'
      BY <1>1, <1>2, <1>4, <1>6, QuietRun
    <2>2. first \in 0..Len(allowed'[key])
      BY <1>3, <1>4, <1>6
    <2> QED
      BY <2>1, <2>2
  <1>7. ASSUME NEW t \in Threads, ReadClock(t) PROVE \E f \in 0..Len(allowed'[key]) : RunInv(key, f)'
    <2>1. PICK k : call' = [call EXCEPT ![t] = [key |-> k, now |-> clock]]
      BY <1>7 DEF ReadClock
    <2>2. UNCHANGED <<hits, clock, allowed, started>>
      BY <1>7 DEF ReadClock
    <2>3. \A u \in Threads : call'[u] = call[u] \/ call'[u].now = clock
      BY <1>5, <2>1
    <2>4. ASSUME NEW end \in 0..MaxTime, end < clock PROVE Stale(key, end)' \subseteq Stale(key, end)
      <3>1. ~(clock <= end)
        BY <1>5, <2>4, LimiterAssumption
      <3> QED
        BY <2>3, <3>1 DEF Stale, InProgress
    <2> QED
      BY <1>5, <1>6, <2>2, <2>4
  <1>8. ASSUME NEW t \in Threads, Deny(t) PROVE \E f \in 0..Len(allowed'[key]) : RunInv(key, f)'
    <2>1. hits' = hits /\ UNCHANGED <<clock, allowed, started>> /\ call' = [call EXCEPT ![t] = NULL]
      BY <1>1, <1>8, DenyPrunesNothing DEF Deny
    <2>2. \A u \in Threads : call'[u] = call[u] \/ call'[u] = NULL
      BY <1>5, <2>1
    <2>3. \A end \in 0..MaxTime : Stale(key, end)' \subseteq Stale(key, end)
      BY <2>2 DEF Stale, InProgress
    <2> QED
      BY <1>5, <1>6, <2>1, <2>3
  <1>9. ASSUME NEW t \in Threads, Allow(t) PROVE \E f \in 0..Len(allowed'[key]) : RunInv(key, f)'
    <2>1. PICK k, now, n : Allows(t, k, now, n)
      BY <1>1, <1>9, AllowLeaves
    <2>2. CASE k = key
      <3>1. RunInv(key, first)'
        BY <1>1, <1>2, <1>9, <2>1, <2>2, AllowRun
      <3>2. first \in 0..Len(allowed'[key])
        <4>1. allowed[key] \in Seq([now : Nat, at : Nat])
          BY <1>1 DEF HistoryInv, AllowedInv
        <4>2. allowed'[key] = Append(allowed[key], [now |-> now, at |-> clock])
          BY <2>1, <2>2 DEF Allows
        <4>3. now \in Nat
          BY <1>5, <2>1 DEF Allows
        <4>4. [now |-> now, at |-> clock] \in [now : Nat, at : Nat]
          BY <1>5, <4>3
        <4>5. Len(allowed'[key]) = m + 1
          BY <1>3, <4>1, <4>2, <4>4, AppendProperties
        <4> QED
          BY <1>4, <4>5
      <3> QED
        BY <3>1, <3>2
    <2>3. CASE k # key
      <3>1. hits'[key] = hits[key] /\ allowed'[key] = allowed[key]
        BY <2>1, <2>3 DEF Allows
      <3>2. UNCHANGED <<clock, started>> /\ call' = [call EXCEPT ![t] = NULL]
        BY <1>9 DEF Allow
      <3>3. \A u \in Threads : call'[u] = call[u] \/ call'[u] = NULL
        BY <1>5, <3>2
      <3>4. \A end \in 0..MaxTime : Stale(key, end)' \subseteq Stale(key, end)
        BY <3>3 DEF Stale, InProgress
      <3> QED
        BY <1>5, <1>6, <3>1, <3>2, <3>4
    <2> QED
      BY <2>2, <2>3
  <1>10. CASE Tick
    <2>1. clock' = clock + 1 /\ UNCHANGED <<hits, call, allowed, started>>
      BY <1>10 DEF Tick
    <2>2. clock' \in Nat /\ clock <= clock'
      BY <1>5, <2>1
    <2>3. \A end \in 0..MaxTime : Stale(key, end)' = Stale(key, end)
      BY <2>1 DEF Stale, InProgress
    <2> QED
      BY <1>6, <2>1, <2>2, <2>3
  <1>11. CASE Restart
    <2>1. RunInv(key, m)'
      BY <1>1, <1>2, <1>3, <1>4, <1>11, RestartRun
    <2>2. m \in 0..Len(allowed'[key])
      BY <1>3, <1>4, <1>11 DEF Restart
    <2> QED
      BY <2>1, <2>2
  <1>12. CASE UNCHANGED vars
    <2>1. UNCHANGED <<hits, clock, call, allowed, started>>
      BY <1>12 DEF vars
    <2>2. \A end \in 0..MaxTime : Stale(key, end)' = Stale(key, end)
      BY <2>1 DEF Stale, InProgress
    <2> QED
      BY <1>5, <1>6, <2>1, <2>2
  <1> QED
    BY <1>7, <1>8, <1>9, <1>10, <1>11, <1>12 DEF Next

\* In any trailing window a key gets no more than the limit and one call for
\* each further thread, for each run of the process that was up in it; a limit
\* of one, or a single thread, is never overrun.
THEOREM OverrunsBounded == Spec => []OverrunBounded
  <1>1. Init => OverrunIInv
    BY HistoryInitially, OverrunInitially DEF OverrunIInv
  <1>2. OverrunIInv /\ [Next]_vars => OverrunIInv'
    BY OverrunStep
  <1>3. OverrunIInv => OverrunBounded
    <2> SUFFICES ASSUME OverrunIInv, NEW key \in Keys, NEW end \in 0..MaxTime
                 PROVE  Cardinality(InWindow(key, end))
                          <= Cardinality(RunsInWindow(end)) * (MaxRequests + Late)
      BY DEF OverrunBounded
    <2>1. HistoryInv /\ end \in Nat
      BY LimiterAssumption DEF OverrunIInv
    <2>2. PICK first \in 0..Len(allowed[key]) : RunInv(key, first)
      BY DEF OverrunIInv, OverrunInv
    <2>3. first \in Nat /\ WindowInv(key, end, first)
      BY <2>2 DEF RunInv
    <2>4. PICK e, c, p, q :
            /\ e = Cardinality(Earlier(key, end, first)) /\ c = Cardinality(Current(key, end, first))
            /\ p = Cardinality(PastRuns(end)) /\ q = Cardinality(RunsInWindow(end))
      OBVIOUS
    <2>5. e \in Nat /\ c \in Nat /\ Cardinality(InWindow(key, end)) = e + c
      BY <2>1, <2>3, <2>4, CallSets
    <2>6. p \in Nat /\ q \in Nat /\ p <= q /\ (Len(started) \in RunsInWindow(end) => q = p + 1)
      BY <2>1, <2>4, RunSets
    <2>7. c <= Share /\ e <= p * Share
      BY <2>1, <2>3, <2>4, RunShare DEF WindowInv, Share
    <2>8. (c # 0) => q = p + 1
      <3> SUFFICES ASSUME c # 0 PROVE Len(started) \in RunsInWindow(end)
        BY <2>6
      <3>1. Current(key, end, first) # {}
        BY <2>4, FS_EmptySet
      <3>2. started[Len(started)] <= end
        BY <2>1, <2>2, <2>3, <3>1, RunWasUp
      <3>3. Len(started) \in DOMAIN started /\ ~(Len(started) < Len(started))
        BY <2>1 DEF HistoryInv, StartedInv
      <3> QED
        BY <3>2, <3>3 DEF RunsInWindow
    <2>9. e + c <= q * Share
      BY <2>5, <2>6, <2>7, <2>8, ShareType, OneMoreShare
    <2> QED
      BY <2>4, <2>5, <2>9 DEF Share
  <1> QED
    BY <1>1, <1>2, <1>3, PTL DEF Spec

\* A process is not started more often than the bound says.
LEMMA RunsAreCounted == Spec => [](Len(started) <= MaxRestarts + 1)
  <1>1. Init => Len(started) <= MaxRestarts + 1
    BY LimiterAssumption DEF Init
  <1>2. HistoryInv /\ Len(started) <= MaxRestarts + 1 /\ [Next]_vars => (Len(started) <= MaxRestarts + 1)'
    <2> SUFFICES ASSUME HistoryInv, Len(started) <= MaxRestarts + 1, [Next]_vars
                 PROVE  Len(started') <= MaxRestarts + 1
      OBVIOUS
    <2>1. CASE Restart
      <3>1. started \in Seq(Nat) /\ clock \in Nat
        BY LimiterAssumption DEF HistoryInv, LimiterInv, StartedInv
      <3>2. Len(started') = Len(started) + 1 /\ Len(started) <= MaxRestarts
        BY <2>1, <3>1, AppendProperties DEF Restart
      <3> QED
        BY <3>1, <3>2, LenProperties, LimiterAssumption
    <2>2. CASE started' = started
      BY <2>2
    <2> QED
      BY <2>1, <2>2 DEF Next, vars, ReadClock, Allow, Deny, Tick
  <1> QED
    BY <1>1, <1>2, HistoryInvariance, PTL DEF Spec

\* What the class comment says does hold of a process with one thread, and
\* with a limit of one.
THEOREM OneThreadKeepsTheLimit ==
  ASSUME MaxRestarts = 0, Cardinality(Threads) = 1 \/ MaxRequests = 1
  PROVE  Spec => []LimitIsExact
  <1>1. Late = 0
    BY DEF Late
  <1>2. HistoryInv /\ Len(started) <= MaxRestarts + 1 /\ OverrunBounded => LimitIsExact
    <2> SUFFICES ASSUME HistoryInv, Len(started) <= MaxRestarts + 1, OverrunBounded,
                        NEW key \in Keys, NEW end \in 0..MaxTime
                 PROVE  Cardinality(InWindow(key, end)) <= MaxRequests
      BY DEF LimitIsExact
    <2>1. PICK n, q : n = Cardinality(InWindow(key, end)) /\ q = Cardinality(RunsInWindow(end))
      OBVIOUS
    <2>2. n <= q * MaxRequests
      BY <1>1, <2>1, ShareType DEF OverrunBounded
    <2>3. n \in Nat /\ q \in Nat
      <3>1. 0 \in Nat
        OBVIOUS
      <3> QED
        BY <2>1, <3>1, CallSets, RunSets
    <2>4. q <= 1
      <3>1. RunsInWindow(end) \in SUBSET (1..1)
        BY DEF RunsInWindow, HistoryInv, StartedInv
      <3>2. 1..1 = {1} /\ IsFiniteSet(1..1) /\ Cardinality(1..1) = 1
        <4>1. 1..1 = {1}
          OBVIOUS
        <4> QED
          BY <4>1, FS_Singleton
      <3> QED
        BY <2>1, <3>1, <3>2, FS_Subset
    <2>5. q = 0 \/ q = 1
      BY <2>3, <2>4
    <2>6. n <= MaxRequests
      BY <2>2, <2>3, <2>5, ShareType
    <2> QED
      BY <2>1, <2>6
  <1> QED
    BY <1>2, HistoryInvariance, RunsAreCounted, OverrunsBounded, PTL
=============================================================================
