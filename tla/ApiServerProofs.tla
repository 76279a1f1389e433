---------------------------- MODULE ApiServerProofs ----------------------------
(***************************************************************************)
(* Proofs about ApiServer, for every set of callers and addresses, every   *)
(* number of requests in flight, every limit, window and clock bound, with *)
(* and without kills.                                                      *)
(***************************************************************************)
EXTENDS ApiServer, FoldTheorems, TLAPS, SequenceTheorems

Outcomes == {"successful", "throttled"}
Labels == {"idle", "resolve", "route", "recordLoad", "recordOpen", "recordWrite", "send"}

-----------------------------------------------------------------------------
(* Type correctness of everything but the records.                         *)

\* The control state, the limiter's store and the histories.
ControlType ==
  /\ now \in 0 .. MaxTime /\ up \in BOOLEAN
  /\ windows \in [Ips -> [count : Nat, resetAt : 0 .. MaxTime + Window]]
  /\ nextPruneAt \in Nat
  /\ pc \in [Handlers -> Labels]
  /\ caller \in [Handlers -> Callers]
  /\ limited \in [Handlers -> BOOLEAN]
  /\ pending = [h \in Handlers |-> pending[h]]
  /\ answered \in [successful : Nat, throttled : Nat] /\ lost \in Nat
  /\ admitted \in [Ips -> [0 .. MaxTime -> Nat]]

\* A new store and an empty history are well typed.
LEMMA StoreType ==
  /\ [ip \in Ips |-> Closed] \in [Ips -> [count : Nat, resetAt : 0 .. MaxTime + Window]]
  /\ NotAdmitted \in [Ips -> [0 .. MaxTime -> Nat]]
BY ApiAssumption DEF Closed, NotAdmitted

LEMMA ControlInit == Init => ControlType
PROOF
  <1> SUFFICES ASSUME Init PROVE ControlType
    OBVIOUS
  <1>1. caller \in [Handlers -> Callers]
    BY ApiAssumption DEF Init
  <1>2. pc \in [Handlers -> Labels]
    BY DEF Init, Labels
  <1>3. /\ limited \in [Handlers -> BOOLEAN]
        /\ pending = [h \in Handlers |-> pending[h]]
    BY DEF Init, Unlimited, Unused
  <1> QED BY <1>1, <1>2, <1>3, ApiAssumption, StoreType DEF Init, ControlType

\* The count of a window only ever starts at 1 or grows by 1.
LEMMA CountedType ==
  ASSUME ControlType, NEW ip \in Ips
  PROVE  /\ Pruned \in [Ips -> [count : Nat, resetAt : 0 .. MaxTime + Window]]
         /\ Counted(Pruned[ip]) \in [count : Nat, resetAt : 0 .. MaxTime + Window]
         /\ Counted(Pruned[ip]).count >= 1
PROOF
  <1>1. Pruned \in [Ips -> [count : Nat, resetAt : 0 .. MaxTime + Window]]
    BY ApiAssumption DEF ControlType, Pruned, Closed
  <1>2. Pruned[ip] \in [count : Nat, resetAt : 0 .. MaxTime + Window]
    BY <1>1
  <1>3. now + Window \in 0 .. MaxTime + Window
    BY ApiAssumption DEF ControlType
  <1> QED BY <1>1, <1>2, <1>3, ApiAssumption DEF Counted

\* The requests in flight are finitely many.
LEMMA InFlightFinite ==
  /\ IsFiniteSet(InFlight) /\ Cardinality(InFlight) \in Nat
BY ApiAssumption, FS_Subset, FS_CardinalityType DEF InFlight

LEMMA ExitType == ControlType /\ Exit => ControlType'
PROOF
  <1> SUFFICES ASSUME ControlType, Exit PROVE ControlType'
    OBVIOUS
  <1>1. lost' \in Nat
    BY InFlightFinite DEF Exit, ControlType
  <1>2. pc' \in [Handlers -> Labels]
    BY DEF Exit, Labels
  <1>3. /\ limited' \in [Handlers -> BOOLEAN] /\ up' \in BOOLEAN
        /\ pending' = [h \in Handlers |-> pending'[h]]
    BY DEF Exit, Unlimited, Unused
  <1> QED BY <1>1, <1>2, <1>3 DEF Exit, ControlType, limiter

LEMMA ServeType ==
  ASSUME ControlType, NEW h \in Handlers, Serve(h)
  PROVE  ControlType'
PROOF
  <1>1. CASE Resolve(h)
    <2>1. CASE Exit
      BY <2>1, ExitType
    <2>2. CASE ~ Exit
      <3>1. /\ RateLimit(h) /\ pc[h] = "resolve"
            /\ IF limited'[h] THEN Goto(h, "recordLoad") /\ queue' = Append(queue, h)
               ELSE Goto(h, "route") /\ UNCHANGED queue
            /\ UNCHANGED <<now, up, file, caller, ahead, pending, answered, lost>>
        BY <1>1, <2>2 DEF Resolve
      <3> DEFINE ip == RateLimitKey(caller[h])
      <3>2. ip \in Ips
        BY DEF ControlType, Ips
      <3> HIDE DEF ip
      <3>3. windows' = [Pruned EXCEPT ![ip] = Counted(Pruned[ip])]
        BY <3>1 DEF RateLimit, ip
      <3>4. windows' \in [Ips -> [count : Nat, resetAt : 0 .. MaxTime + Window]]
        BY <3>2, <3>3, CountedType
      <3>5. nextPruneAt' \in Nat
        BY <3>1, ApiAssumption DEF RateLimit, ControlType
      <3>6. limited' = [limited EXCEPT ![h] = (Counted(Pruned[ip]).count > Limit)]
        BY <3>1 DEF RateLimit, ip
      <3>7. limited' \in [Handlers -> BOOLEAN]
        BY <3>6 DEF ControlType
      <3>8. admitted' \in [Ips -> [0 .. MaxTime -> Nat]]
        <4>1. admitted' = admitted \/ admitted' = [admitted EXCEPT ![ip][now] = @ + 1]
          BY <3>1 DEF RateLimit, ip
        <4>2. admitted \in [Ips -> [0 .. MaxTime -> Nat]] /\ now \in 0 .. MaxTime
          BY DEF ControlType
        <4>3. admitted[ip] \in [0 .. MaxTime -> Nat] /\ admitted[ip][now] + 1 \in Nat
          <5>1. admitted[ip] \in [0 .. MaxTime -> Nat]
            BY <3>2, <4>2
          <5>2. admitted[ip][now] \in Nat
            BY <4>2, <5>1
          <5> QED BY <5>1, <5>2
        <4>4. [admitted[ip] EXCEPT ![now] = @ + 1] \in [0 .. MaxTime -> Nat]
          BY <4>2, <4>3
        <4> QED BY <3>2, <4>1, <4>2, <4>4
      <3>9. pc' \in [Handlers -> Labels]
        BY <3>1 DEF ControlType, Goto, Labels
      <3> QED BY <3>1, <3>4, <3>5, <3>7, <3>8, <3>9 DEF ControlType
    <2> QED BY <2>1, <2>2
  <1>2. CASE Route(h)
    <2>1. pc' \in [Handlers -> Labels]
      BY <1>2 DEF Route, ControlType, Goto, Labels
    <2> QED BY <1>2, <2>1 DEF Route, ControlType, limiter, history
  <1>3. CASE Send(h)
    <2>1. pc' \in [Handlers -> Labels] /\ limited' \in [Handlers -> BOOLEAN]
      BY <1>3 DEF Send, ControlType, Goto, Labels
    <2>2. answered' \in [successful : Nat, throttled : Nat]
      BY <1>3 DEF Send, ControlType
    <2> QED BY <1>3, <2>1, <2>2 DEF Send, ControlType, limiter
  <1>4. CASE RecordLoad(h)
    <2>1. CASE Exit
      BY <2>1, ExitType
    <2>2. CASE ~ Exit
      <3>1. /\ Goto(h, "recordOpen")
            /\ pending' = [g \in Handlers |-> pending'[g]]
            /\ UNCHANGED <<now, up, file, limiter, queue, caller, ahead, limited, history>>
        BY <1>4, <2>2 DEF RecordLoad, ControlType
      <3>2. pc' \in [Handlers -> Labels]
        BY <3>1 DEF ControlType, Goto, Labels
      <3> QED BY <3>1, <3>2 DEF ControlType, limiter, history
    <2> QED BY <2>1, <2>2
  <1>5. CASE RecordOpen(h)
    <2>1. pc' \in [Handlers -> Labels]
      BY <1>5 DEF RecordOpen, ControlType, Goto, Labels
    <2> QED BY <1>5, <2>1 DEF RecordOpen, ControlType, limiter, history
  <1>6. CASE RecordWrite(h)
    <2>1. pc' \in [Handlers -> Labels]
      BY <1>6 DEF RecordWrite, ControlType, Goto, Labels
    <2>2. pending' = [g \in Handlers |-> pending'[g]]
      BY <1>6 DEF RecordWrite, ControlType
    <2> QED BY <1>6, <2>1, <2>2 DEF RecordWrite, ControlType, limiter, history
  <1> QED BY <1>1, <1>2, <1>3, <1>4, <1>5, <1>6 DEF Serve

LEMMA ControlStep == ControlType /\ [Next]_vars => ControlType'
PROOF
  <1> SUFFICES ASSUME ControlType, [Next]_vars PROVE ControlType'
    OBVIOUS
  <1>1. CASE Tick
    <2>1. now' \in 0 .. MaxTime
      BY <1>1, ApiAssumption DEF Tick, ControlType
    <2> QED BY <1>1, <2>1 DEF Tick, ControlType, limiter, requests, history
  <1>2. CASE Killed
    BY <1>2, ExitType DEF Killed
  <1>3. CASE Restart
    <2>1. /\ windows' \in [Ips -> [count : Nat, resetAt : 0 .. MaxTime + Window]]
          /\ admitted' \in [Ips -> [0 .. MaxTime -> Nat]]
      BY <1>3, StoreType DEF Restart
    <2> QED BY <1>3, <2>1 DEF Restart, ControlType, requests
  <1>4. ASSUME NEW h \in Handlers, Arrive(h)
        PROVE  ControlType'
    <2>1. caller' \in [Handlers -> Callers]
      BY <1>4 DEF Arrive, ControlType
    <2>2. pc' \in [Handlers -> Labels]
      BY <1>4 DEF Arrive, ControlType, Goto, Labels
    <2> QED BY <1>4, <2>1, <2>2 DEF Arrive, ControlType, limiter, history
  <1>5. CASE UNCHANGED vars
    BY <1>5 DEF vars, ControlType, limiter, requests, history
  <1> QED BY <1>1, <1>2, <1>3, <1>4, <1>5, ServeType DEF Next, Quiet

-----------------------------------------------------------------------------
(* The limiter, one address at a time: w is the address's window, a counts *)
(* its admissions by time, n is the time.                                  *)

From(lo) == {t \in 0 .. MaxTime : lo <= t}
Span(lo, hi) == {t \in 0 .. MaxTime : lo <= t /\ t < hi}

\* An open window admitted at its start, it counts what was admitted since, and
\* fewer than Limit were admitted in the Window - 1 ticks before it.  After a
\* window closed, fewer than Limit were admitted in the last Window ticks, its
\* first request no longer among them.
Paced(w, a, n) ==
  LET start == w.resetAt - Window IN
  /\ \A t \in 0 .. MaxTime : t > n => a[t] = 0
  /\ w.resetAt > n =>
       /\ start \in 0 .. n /\ a[start] >= 1
       /\ SumFunctionOnSet(a, From(start)) <= w.count
       /\ SumFunctionOnSet(a, From(start)) <= Limit
       /\ SumFunctionOnSet(a, Span(start - Window + 1, start)) < Limit
  /\ w.resetAt <= n =>
       /\ a[n] = 0
       /\ SumFunctionOnSet(a, From(n - Window + 1)) < Limit
  /\ \A t \in 0 .. MaxTime : SumFunctionOnSet(a, Span(t, t + Window)) < 2 * Limit

\* Admissions by time can be summed over any set of times.
LEMMA AdmissionsSummable ==
  ASSUME NEW a \in [0 .. MaxTime -> Nat], NEW S \in SUBSET (0 .. MaxTime)
  PROVE  Summable(a, S) /\ SumFunctionOnSet(a, S) \in Nat
PROOF
  <1>1. IsFiniteSet(S)
    <2>1. IsFiniteSet(0 .. MaxTime)
      BY ApiAssumption, FS_Interval
    <2> QED BY <2>1, FS_Subset
  <1>2. Summable(a, S)
    BY <1>1 DEF Summable
  <1> QED BY <1>2, SumType

\* One more admission counts in the sums over the times it is among.
LEMMA OneMoreAdmission ==
  ASSUME NEW a \in [0 .. MaxTime -> Nat], NEW n \in 0 .. MaxTime, NEW S \in SUBSET (0 .. MaxTime)
  PROVE  SumFunctionOnSet([a EXCEPT ![n] = @ + 1], S) =
           IF n \in S THEN SumFunctionOnSet(a, S) + 1 ELSE SumFunctionOnSet(a, S)
PROOF
  <1> DEFINE b == [a EXCEPT ![n] = @ + 1]
  <1>1. /\ b[n] = a[n] + 1
        /\ \A t \in S \ {n} : b[t] = a[t]
        /\ n \notin S => \A t \in S : b[t] = a[t]
    OBVIOUS
  <1>2. Summable(a, S)
    BY AdmissionsSummable
  <1> HIDE DEF b
  <1>3. CASE n \in S
    BY <1>1, <1>2, <1>3, SumPlusOne DEF b
  <1>4. CASE n \notin S
    BY <1>1, <1>2, <1>4, SumSame DEF b
  <1> QED BY <1>3, <1>4

LEMMA SpansAreTimes ==
  \A lo, hi : From(lo) \in SUBSET (0 .. MaxTime) /\ Span(lo, hi) \in SUBSET (0 .. MaxTime)
BY DEF From, Span

\* Nothing was admitted yet.
LEMMA PacedAtFirst ==
  ASSUME NEW n \in 0 .. MaxTime
  PROVE  Paced(Closed, [t \in 0 .. MaxTime |-> 0], n)
PROOF
  <1> DEFINE a == [t \in 0 .. MaxTime |-> 0]
  <1>1. a \in [0 .. MaxTime -> Nat] /\ \A t \in 0 .. MaxTime : a[t] = 0
    OBVIOUS
  <1> HIDE DEF a
  <1>2. ASSUME NEW S \in SUBSET (0 .. MaxTime)
        PROVE  SumFunctionOnSet(a, S) = 0
    <2>1. \A t \in S : a[t] = 0
      BY <1>1
    <2> QED BY <1>1, <2>1, AdmissionsSummable, SumZero
  <1>3. Limit \in Nat \ {0} /\ n \in Nat /\ Closed.resetAt = 0
    BY ApiAssumption DEF Closed
  <1>4. SumFunctionOnSet(a, From(n - Window + 1)) < Limit
    BY <1>2, <1>3, SpansAreTimes
  <1>5. ASSUME NEW t \in 0 .. MaxTime
        PROVE  SumFunctionOnSet(a, Span(t, t + Window)) < 2 * Limit
    <2>1. SumFunctionOnSet(a, Span(t, t + Window)) = 0
      BY <1>2, SpansAreTimes
    <2> QED BY <1>3, <2>1
  <1>6. Paced(Closed, a, n)
    BY <1>1, <1>3, <1>4, <1>5 DEF Paced
  <1> QED BY <1>6 DEF a

\* A window that is not open may be forgotten.
LEMMA PacedWhenPruned ==
  ASSUME NEW w, NEW w2, NEW a, NEW n, Paced(w, a, n),
         ~ w.resetAt > n, w.resetAt \in Nat, w2.resetAt \in Nat, n \in Nat, ~ w2.resetAt > n
  PROVE  Paced(w2, a, n)
BY DEF Paced

\* Time passes: an open window stays or closes.
LEMMA PacedTick ==
  ASSUME NEW w, NEW a \in [0 .. MaxTime -> Nat], NEW n \in 0 .. MaxTime,
         w.resetAt \in Nat, Paced(w, a, n), n + 1 \in 0 .. MaxTime
  PROVE  Paced(w, a, n + 1)
PROOF
  <1> DEFINE start == w.resetAt - Window
  <1>1. /\ n \in Nat /\ Limit \in Nat \ {0} /\ Window \in Nat \ {0} /\ MaxTime \in Nat
        /\ start \in Int
    BY ApiAssumption
  <1>2. \A t \in 0 .. MaxTime : t > n + 1 => a[t] = 0
    BY <1>1 DEF Paced
  <1>3. CASE w.resetAt > n + 1
    <2>1. w.resetAt > n /\ start \in 0 .. n
      BY <1>1, <1>3 DEF Paced
    <2>2. start \in 0 .. n + 1
      BY <1>1, <2>1
    <2> QED BY <1>1, <1>2, <1>3, <2>1, <2>2 DEF Paced
  <1>4. CASE w.resetAt = n + 1
    <2>1. start \in From(start) /\ a[start] \in Nat /\ a[start] >= 1
      BY <1>1, <1>4 DEF Paced, From
    <2>2. From(n + 1 - Window + 1) = From(start) \ {start}
      <3>1. \A t \in 0 .. MaxTime : n + 1 - Window + 1 <= t <=> (start <= t /\ t # start)
        BY <1>1, <1>4
      <3> QED BY <3>1 DEF From
    <2>3. SumFunctionOnSet(a, From(start)) <= Limit
      BY <1>1, <1>4 DEF Paced
    <2>4. Summable(a, From(start)) /\ SumFunctionOnSet(a, From(start) \ {start}) \in Nat
      BY <2>2, SpansAreTimes, AdmissionsSummable
    <2>5. SumFunctionOnSet(a, From(start)) = a[start] + SumFunctionOnSet(a, From(start) \ {start})
      <3> HIDE DEF start
      <3> QED BY <2>1, <2>4, SumSplit
    <2>6. SumFunctionOnSet(a, From(n + 1 - Window + 1)) < Limit
      <3>1. SumFunctionOnSet(a, From(start) \ {start}) < Limit
        <4> HIDE DEF start
        <4> QED BY <1>1, <2>1, <2>3, <2>4, <2>5
      <3> QED BY <2>2, <3>1
    <2>7. a[n + 1] = 0
      BY <1>1 DEF Paced
    <2> QED BY <1>1, <1>2, <1>4, <2>6, <2>7 DEF Paced
  <1>5. CASE w.resetAt <= n
    <2>1. From(n + 1 - Window + 1) \subseteq From(n - Window + 1)
      BY <1>1 DEF From
    <2>2. Summable(a, From(n - Window + 1)) /\ SumFunctionOnSet(a, From(n - Window + 1)) \in Nat
      BY SpansAreTimes, AdmissionsSummable
    <2>3. SumFunctionOnSet(a, From(n + 1 - Window + 1)) \in Nat
      BY SpansAreTimes, AdmissionsSummable
    <2>4. SumFunctionOnSet(a, From(n + 1 - Window + 1)) <= SumFunctionOnSet(a, From(n - Window + 1))
      BY <2>1, <2>2, SumMonotone
    <2>5. SumFunctionOnSet(a, From(n - Window + 1)) < Limit
      BY <1>1, <1>5 DEF Paced
    <2>6. SumFunctionOnSet(a, From(n + 1 - Window + 1)) < Limit
      BY <1>1, <2>2, <2>3, <2>4, <2>5
    <2>7. a[n + 1] = 0
      BY <1>1 DEF Paced
    <2> QED BY <1>1, <1>2, <1>5, <2>6, <2>7 DEF Paced
  <1> QED BY <1>1, <1>3, <1>4, <1>5

\* An open window counts a request that it does not let through.
LEMMA PacedWhenThrottled ==
  ASSUME NEW w, NEW w2, NEW a \in [0 .. MaxTime -> Nat], NEW n \in Nat, Paced(w, a, n),
         w.resetAt \in Nat, w.count \in Nat,
         w.resetAt > n, w2.resetAt = w.resetAt, w2.count = w.count + 1
  PROVE  Paced(w2, a, n)
PROOF
  <1>1. SumFunctionOnSet(a, From(w.resetAt - Window)) \in Nat
    BY SpansAreTimes, AdmissionsSummable
  <1>2. SumFunctionOnSet(a, From(w.resetAt - Window)) <= w2.count
    BY <1>1 DEF Paced
  <1> QED BY <1>2 DEF Paced

\* The burst bound of every span follows from what an open window knows.
LEMMA BurstsOfOpenWindow ==
  ASSUME NEW a \in [0 .. MaxTime -> Nat], NEW n \in 0 .. MaxTime, NEW start \in 0 .. n,
         SumFunctionOnSet(a, From(start)) <= Limit,
         SumFunctionOnSet(a, Span(start - Window + 1, start)) < Limit,
         NEW t \in 0 .. MaxTime, n \in Span(t, t + Window)
  PROVE  SumFunctionOnSet(a, Span(t, t + Window)) < 2 * Limit
PROOF
  <1>1. /\ n \in Nat /\ start \in Nat /\ t \in Nat /\ start <= n
        /\ Limit \in Nat \ {0} /\ Window \in Nat \ {0} /\ MaxTime \in Nat
    BY ApiAssumption
  <1>2. t <= n /\ n < t + Window
    BY DEF Span
  <1> DEFINE before == Span(start - Window + 1, start)
             since == From(start)
  <1>3. /\ Summable(a, before) /\ SumFunctionOnSet(a, before) \in Nat
        /\ Summable(a, since) /\ SumFunctionOnSet(a, since) \in Nat
    BY SpansAreTimes, AdmissionsSummable
  <1>4. Span(t, t + Window) \subseteq before \cup since
    BY <1>1, <1>2 DEF Span, From
  <1> HIDE DEF before, since
  <1>5. /\ Summable(a, before \cup since)
        /\ SumFunctionOnSet(a, before \cup since)
             <= SumFunctionOnSet(a, before) + SumFunctionOnSet(a, since)
    BY <1>3, SumUnion
  <1>6. SumFunctionOnSet(a, Span(t, t + Window)) <= SumFunctionOnSet(a, before \cup since)
    BY <1>4, <1>5, SumMonotone
  <1>7. /\ SumFunctionOnSet(a, Span(t, t + Window)) \in Nat
        /\ SumFunctionOnSet(a, before \cup since) \in Nat
    BY <1>5, SpansAreTimes, AdmissionsSummable, SumType
  <1> QED BY <1>1, <1>3, <1>5, <1>6, <1>7 DEF before, since

\* An open window that lets a request through.
LEMMA PacedWhenAdmitted ==
  ASSUME NEW w, NEW w2, NEW a \in [0 .. MaxTime -> Nat], NEW n \in 0 .. MaxTime, Paced(w, a, n),
         w.resetAt \in Nat, w.count \in Nat,
         w.resetAt > n, w2.resetAt = w.resetAt, w2.count = w.count + 1, w2.count <= Limit
  PROVE  Paced(w2, [a EXCEPT ![n] = @ + 1], n)
PROOF
  <1> DEFINE b == [a EXCEPT ![n] = @ + 1]
             start == w.resetAt - Window
             before == Span(start - Window + 1, start)
             since == From(start)
  <1>1. /\ n \in Nat /\ start \in 0 .. n /\ start \in Nat /\ start <= n /\ a[start] \in Nat
        /\ Limit \in Nat \ {0} /\ Window \in Nat \ {0} /\ MaxTime \in Nat
    BY ApiAssumption DEF Paced
  <1>2. /\ b \in [0 .. MaxTime -> Nat] /\ b[n] = a[n] + 1 /\ a[n] \in Nat
        /\ \A t \in 0 .. MaxTime : t # n => b[t] = a[t]
    OBVIOUS
  <1>3. \A t \in 0 .. MaxTime : t > n => b[t] = 0
    BY <1>1, <1>2 DEF Paced
  <1> HIDE DEF b
  <1>4. b[start] >= 1
    <2>1. a[start] >= 1 /\ start \in 0 .. MaxTime
      BY <1>1 DEF Paced
    <2>2. b[start] = a[start] \/ b[start] = a[start] + 1
      BY <1>2, <2>1
    <2> HIDE DEF start
    <2> QED BY <1>1, <2>1, <2>2
  <1>5. n \in since /\ n \notin before
    BY <1>1 DEF From, Span
  <1>6. since \in SUBSET (0 .. MaxTime) /\ before \in SUBSET (0 .. MaxTime)
    BY SpansAreTimes
  <1>7. /\ SumFunctionOnSet(a, since) <= w.count
        /\ SumFunctionOnSet(a, before) < Limit
    BY <1>1 DEF Paced
  <1> HIDE DEF since, before
  <1>8. /\ Summable(a, since) /\ SumFunctionOnSet(a, since) \in Nat
        /\ Summable(a, before)
    BY <1>6, AdmissionsSummable
  <1>9. SumFunctionOnSet(b, since) = SumFunctionOnSet(a, since) + 1
    BY <1>5, <1>6, OneMoreAdmission DEF b
  <1>10. SumFunctionOnSet(b, before) = SumFunctionOnSet(a, before)
    BY <1>5, <1>6, OneMoreAdmission DEF b
  <1>11. /\ SumFunctionOnSet(b, since) <= w2.count
         /\ SumFunctionOnSet(b, since) <= Limit
         /\ SumFunctionOnSet(b, before) < Limit
    BY <1>1, <1>7, <1>8, <1>9, <1>10
  <1>12. ASSUME NEW t \in 0 .. MaxTime
         PROVE  SumFunctionOnSet(b, Span(t, t + Window)) < 2 * Limit
    <2>1. CASE n \in Span(t, t + Window)
      BY <1>1, <1>2, <1>11, <2>1, BurstsOfOpenWindow DEF since, before
    <2>2. CASE n \notin Span(t, t + Window)
      <3>1. Span(t, t + Window) \in SUBSET (0 .. MaxTime)
        BY SpansAreTimes
      <3>2. SumFunctionOnSet(b, Span(t, t + Window)) = SumFunctionOnSet(a, Span(t, t + Window))
        BY <2>2, <3>1, OneMoreAdmission DEF b
      <3> QED BY <3>2 DEF Paced
    <2> QED BY <2>1, <2>2
  <1>13. Paced(w2, b, n)
    BY <1>1, <1>3, <1>4, <1>11, <1>12 DEF Paced, since, before
  <1> QED BY <1>13 DEF b

\* A request that finds no open window opens one.
LEMMA PacedWhenOpened ==
  ASSUME NEW w, NEW w2, NEW a \in [0 .. MaxTime -> Nat], NEW n \in 0 .. MaxTime, Paced(w, a, n),
         w.resetAt \in Nat, ~ w.resetAt > n, w2.resetAt = n + Window, w2.count = 1
  PROVE  Paced(w2, [a EXCEPT ![n] = @ + 1], n)
PROOF
  <1> DEFINE b == [a EXCEPT ![n] = @ + 1]
             before == Span(n - Window + 1, n)
             since == From(n)
  <1>1. /\ n \in Nat /\ n \in 0 .. n
        /\ Limit \in Nat \ {0} /\ Window \in Nat \ {0} /\ MaxTime \in Nat
        /\ w2.resetAt > n /\ w2.resetAt - Window = n
    BY ApiAssumption
  <1>2. /\ b \in [0 .. MaxTime -> Nat] /\ b[n] = a[n] + 1 /\ a[n] = 0
        /\ \A t \in 0 .. MaxTime : t # n => b[t] = a[t]
    BY <1>1 DEF Paced
  <1>3. \A t \in 0 .. MaxTime : t > n => a[t] = 0 /\ b[t] = 0
    BY <1>1, <1>2 DEF Paced
  <1> HIDE DEF b
  <1>4. n \in since /\ n \notin before /\ before \subseteq From(n - Window + 1)
    BY <1>1 DEF From, Span
  <1>5. /\ since \in SUBSET (0 .. MaxTime) /\ before \in SUBSET (0 .. MaxTime)
        /\ From(n - Window + 1) \in SUBSET (0 .. MaxTime)
    BY SpansAreTimes
  <1>6. \A t \in since : a[t] = 0
    BY <1>1, <1>2, <1>3 DEF From
  <1>7. SumFunctionOnSet(a, From(n - Window + 1)) < Limit
    BY <1>1 DEF Paced
  <1> HIDE DEF since, before
  <1>8. /\ Summable(a, since) /\ Summable(a, before) /\ SumFunctionOnSet(a, before) \in Nat
        /\ Summable(a, From(n - Window + 1))
        /\ SumFunctionOnSet(a, From(n - Window + 1)) \in Nat
    BY <1>5, AdmissionsSummable
  <1>9. SumFunctionOnSet(b, since) = SumFunctionOnSet(a, since) + 1
    BY <1>4, <1>5, OneMoreAdmission DEF b
  <1>10. SumFunctionOnSet(a, since) = 0
    BY <1>6, <1>8, SumZero
  <1>11. SumFunctionOnSet(b, before) = SumFunctionOnSet(a, before)
    BY <1>4, <1>5, OneMoreAdmission DEF b
  <1>12. SumFunctionOnSet(a, before) <= SumFunctionOnSet(a, From(n - Window + 1))
    BY <1>4, <1>8, SumMonotone
  <1>13. /\ SumFunctionOnSet(b, since) = 1 /\ SumFunctionOnSet(b, since) <= Limit
         /\ SumFunctionOnSet(b, before) < Limit
    BY <1>1, <1>7, <1>8, <1>9, <1>10, <1>11, <1>12
  <1>14. ASSUME NEW t \in 0 .. MaxTime
         PROVE  SumFunctionOnSet(b, Span(t, t + Window)) < 2 * Limit
    <2>1. CASE n \in Span(t, t + Window)
      BY <1>1, <1>2, <1>13, <2>1, BurstsOfOpenWindow DEF since, before
    <2>2. CASE n \notin Span(t, t + Window)
      <3>1. Span(t, t + Window) \in SUBSET (0 .. MaxTime)
        BY SpansAreTimes
      <3>2. SumFunctionOnSet(b, Span(t, t + Window)) = SumFunctionOnSet(a, Span(t, t + Window))
        BY <2>2, <3>1, OneMoreAdmission DEF b
      <3> QED BY <3>2 DEF Paced
    <2> QED BY <2>1, <2>2
  <1>15. Paced(w2, b, n)
    BY <1>1, <1>2, <1>3, <1>13, <1>14 DEF Paced, since, before
  <1> QED BY <1>15 DEF b

-----------------------------------------------------------------------------
(* The limiter of the server.                                              *)

\* Every address is paced by the limiter.
AllPaced == \A ip \in Ips : Paced(windows[ip], admitted[ip], now)

LEMMA PacedInit == Init => AllPaced
PROOF
  <1> SUFFICES ASSUME Init, NEW ip \in Ips
               PROVE  Paced(windows[ip], admitted[ip], now)
    BY DEF AllPaced
  <1>1. /\ windows[ip] = Closed /\ now \in 0 .. MaxTime
        /\ admitted[ip] = [t \in 0 .. MaxTime |-> 0]
    BY ApiAssumption DEF Init, NotAdmitted
  <1> QED BY <1>1, PacedAtFirst

\* The types one address needs.
LEMMA WindowType ==
  ASSUME ControlType, NEW ip \in Ips
  PROVE  /\ windows[ip].resetAt \in Nat /\ windows[ip].count \in Nat
         /\ admitted[ip] \in [0 .. MaxTime -> Nat]
         /\ now \in 0 .. MaxTime /\ now \in Nat
BY ApiAssumption DEF ControlType

\* The limiter counts a request of one address, whether or not it has just
\* cleaned its store, and keeps every address paced.
LEMMA RateLimitPaces ==
  ASSUME ControlType, AllPaced, NEW h \in Handlers, RateLimit(h), UNCHANGED now
  PROVE  AllPaced'
PROOF
  <1> DEFINE key == RateLimitKey(caller[h])
             w2 == Counted(Pruned[key])
             over == w2.count > Limit
  <1>1. key \in Ips
    BY DEF ControlType, Ips
  <1>2. /\ windows' = [Pruned EXCEPT ![key] = w2]
        /\ admitted' = IF over THEN admitted ELSE [admitted EXCEPT ![key][now] = @ + 1]
    BY DEF RateLimit
  <1>3. Pruned \in [Ips -> [count : Nat, resetAt : 0 .. MaxTime + Window]]
    BY <1>1, CountedType
  <1>4. \A ip \in Ips : \/ Pruned[ip] = windows[ip]
                        \/ Pruned[ip] = Closed /\ ~ windows[ip].resetAt > now
    BY DEF Pruned, Active
  <1>5. Limit \in Nat /\ Limit >= 1 /\ Window \in Nat /\ Window >= 1
    BY ApiAssumption
  <1> SUFFICES ASSUME NEW ip \in Ips
               PROVE  Paced(windows'[ip], admitted'[ip], now)
    BY DEF AllPaced
  <1>6. Paced(windows[ip], admitted[ip], now)
    BY DEF AllPaced
  <1>7. /\ windows[ip].resetAt \in Nat /\ windows[ip].count \in Nat
        /\ admitted[ip] \in [0 .. MaxTime -> Nat]
        /\ now \in 0 .. MaxTime /\ now \in Nat
    BY WindowType
  <1>8. CASE ip # key
    <2>1. windows'[ip] = Pruned[ip] /\ admitted'[ip] = admitted[ip]
      BY <1>1, <1>2, <1>3, <1>8 DEF ControlType
    <2>2. CASE Pruned[ip] = windows[ip]
      BY <1>6, <2>1, <2>2
    <2>3. CASE Pruned[ip] = Closed /\ ~ windows[ip].resetAt > now
      <3>1. Closed.resetAt \in Nat /\ ~ Closed.resetAt > now
        BY <1>7 DEF Closed
      <3> QED BY <1>6, <1>7, <2>1, <2>3, <3>1, PacedWhenPruned
    <2> QED BY <1>4, <2>2, <2>3
  <1>9. CASE ip = key
    <2> HIDE DEF key
    <2>1. /\ windows'[ip] = w2
          /\ admitted'[ip] = IF over THEN admitted[ip] ELSE [admitted[ip] EXCEPT ![now] = @ + 1]
      <3> HIDE DEF w2, over
      <3> QED BY <1>1, <1>2, <1>3, <1>9 DEF ControlType
    <2>2. CASE windows[ip].resetAt > now
      <3>1. Pruned[ip] = windows[ip]
        BY <1>4, <2>2
      <3>2. w2.resetAt = windows[ip].resetAt /\ w2.count = windows[ip].count + 1
        <4>1. windows[ip] \in [count : Nat, resetAt : 0 .. MaxTime + Window]
          BY DEF ControlType
        <4> QED BY <1>9, <2>2, <3>1, <4>1 DEF Counted, Active
      <3> HIDE DEF w2
      <3>3. CASE over
        BY <1>6, <1>7, <2>1, <2>2, <3>2, <3>3, PacedWhenThrottled
      <3>4. CASE ~ over
        <4>1. w2.count <= Limit
          BY <1>5, <1>7, <3>2, <3>4
        <4> QED BY <1>6, <1>7, <2>1, <2>2, <3>2, <3>4, <4>1, PacedWhenAdmitted
      <3> QED BY <3>3, <3>4
    <2>3. CASE ~ windows[ip].resetAt > now
      <3>1. ~ Active(Pruned[ip])
        BY <1>4, <1>7, <2>3 DEF Active, Closed
      <3>2. w2 = [count |-> 1, resetAt |-> now + Window]
        BY <1>9, <3>1 DEF Counted
      <3>3. w2.resetAt = now + Window /\ w2.count = 1 /\ ~ over
        BY <1>5, <3>2
      <3> HIDE DEF w2, over
      <3> QED BY <1>6, <1>7, <2>1, <2>3, <3>3, PacedWhenOpened
    <2> QED BY <2>2, <2>3
  <1> QED BY <1>8, <1>9

LEMMA PacedStep == ControlType /\ AllPaced /\ [Next]_vars => AllPaced'
PROOF
  <1> SUFFICES ASSUME ControlType, AllPaced, [Next]_vars PROVE AllPaced'
    OBVIOUS
  <1>1. CASE Tick
    <2> SUFFICES ASSUME NEW ip \in Ips
                 PROVE  Paced(windows[ip], admitted[ip], now + 1)
      BY <1>1 DEF Tick, AllPaced, limiter, history
    <2>1. now + 1 \in 0 .. MaxTime
      BY <1>1, ApiAssumption DEF Tick, ControlType
    <2> QED BY <2>1, PacedTick, WindowType DEF AllPaced
  <1>2. ASSUME UNCHANGED <<now, windows, admitted>>
        PROVE  AllPaced'
    BY <1>2 DEF AllPaced
  <1>3. CASE Exit
    BY <1>2, <1>3 DEF Exit, limiter
  <1>4. CASE Restart
    <2> SUFFICES ASSUME NEW ip \in Ips
                 PROVE  Paced(windows'[ip], admitted'[ip], now)
      BY <1>4 DEF Restart, AllPaced
    <2>1. windows'[ip] = Closed /\ admitted'[ip] = [t \in 0 .. MaxTime |-> 0]
      BY <1>4 DEF Restart, NotAdmitted
    <2> QED BY <2>1, PacedAtFirst DEF ControlType
  <1>5. ASSUME NEW h \in Handlers, Arrive(h)
        PROVE  AllPaced'
    BY <1>2, <1>5 DEF Arrive, limiter, history
  <1>6. ASSUME NEW h \in Handlers, Serve(h)
        PROVE  AllPaced'
    <2>1. CASE Resolve(h) /\ ~ Exit
      <3>1. RateLimit(h) /\ UNCHANGED now
        BY <2>1 DEF Resolve
      <3> QED BY <3>1, RateLimitPaces
    <2>2. CASE Route(h) \/ Send(h) \/ RecordOpen(h) \/ RecordWrite(h)
      BY <1>2, <2>2 DEF Route, Send, RecordOpen, RecordWrite, limiter, history
    <2>3. CASE RecordLoad(h) /\ ~ Exit
      BY <1>2, <2>3 DEF RecordLoad, limiter, history
    <2> QED BY <1>3, <1>6, <2>1, <2>2, <2>3 DEF Serve
  <1>7. CASE UNCHANGED vars
    BY <1>2, <1>7 DEF vars, limiter, history
  <1> QED BY <1>1, <1>3, <1>4, <1>5, <1>6, <1>7 DEF Next, Killed, Quiet

\* The control state, the limiter's store and the histories keep their types.
THEOREM ControlTypeCorrect == Spec => []ControlType
PROOF
  <1> QED BY ControlInit, ControlStep, PTL DEF Spec

\* In any Window ticks an address gets fewer than 2 * Limit requests through,
\* however the requests straddle the fixed windows of createIpRateLimiter and
\* whenever its store is cleaned, until a restart empties it.
THEOREM BurstsBounded == Spec => []BurstBound
PROOF
  <1>1. ControlType /\ AllPaced => BurstBound
    <2> SUFFICES ASSUME ControlType, AllPaced, NEW ip \in Ips, NEW t \in 0 .. MaxTime
                 PROVE  AdmittedIn(ip, t .. IF t + Window > MaxTime THEN MaxTime
                                            ELSE t + Window - 1) < 2 * Limit
      BY DEF BurstBound
    <2>1. (t .. IF t + Window > MaxTime THEN MaxTime ELSE t + Window - 1) = Span(t, t + Window)
      BY ApiAssumption DEF Span
    <2>2. SumFunctionOnSet(admitted[ip], Span(t, t + Window)) < 2 * Limit
      BY DEF AllPaced, Paced
    <2> QED BY <2>1, <2>2 DEF AdmittedIn
  <1> QED BY <1>1, ControlInit, ControlStep, PacedInit, PacedStep, PTL DEF Spec

-----------------------------------------------------------------------------
(* findMatchingConsumerIdentityRecord.                                     *)

\* Unique picks from the set it is given.
LEMMA UniqueSubset == \A S : Unique(S) \subseteq S
BY DEF Unique

\* The six lookups.
LEMMA Lookups ==
  ASSUME NEW S, NEW req
  PROVE  LET found == Candidates(S, req) IN
         /\ DOMAIN found = 1 .. 6
         /\ \A k \in 1 .. 6 : found[k] \subseteq S
         /\ found[1] = {c \in S : c.id = IdentityId(req)}
PROOF
  <1> DEFINE found == Candidates(S, req)
  <1>1. DOMAIN found = 1 .. 6
    BY DEF Candidates
  <1>2. found[1] = {c \in S : c.id = IdentityId(req)}
    BY DEF Candidates
  <1>3. FallbackMatches(S, req) \subseteq S
    BY DEF FallbackMatches
  <1>4. /\ found[2] \subseteq S /\ found[3] \subseteq S /\ found[4] \subseteq S
        /\ found[5] \subseteq S /\ found[6] \subseteq S
    BY <1>3, UniqueSubset DEF Candidates, Undeclared
  <1> HIDE DEF found
  <1>5. \A k \in 1 .. 6 : k = 1 \/ k = 2 \/ k = 3 \/ k = 4 \/ k = 5 \/ k = 6
    OBVIOUS
  <1>6. \A k \in 1 .. 6 : found[k] \subseteq S
    BY <1>2, <1>4, <1>5
  <1> QED BY <1>1, <1>2, <1>6 DEF found

\* The first lookup that finds a record decides.
LEMMA FirstLookup ==
  ASSUME NEW S, NEW req
  PROVE  LET found == Candidates(S, req) IN
         \/ Matches(S, req) = {} /\ \A k \in 1 .. 6 : found[k] = {}
         \/ \E k \in 1 .. 6 : Matches(S, req) = found[k] /\ found[k] # {}
PROOF
  <1> DEFINE found == Candidates(S, req)
             hits == {k \in DOMAIN found : found[k] # {}}
  <1>1. DOMAIN found = 1 .. 6
    BY Lookups
  <1>2. CASE hits = {}
    BY <1>1, <1>2 DEF Matches
  <1>3. CASE hits # {}
    <2> DEFINE first == CHOOSE k \in hits : \A j \in hits : k <= j
    <2>1. \E k \in hits : \A j \in hits : k <= j
      <3>1. hits \subseteq 1 .. 6
        BY <1>1
      <3> HIDE DEF hits
      <3>2. \/ 1 \in hits
            \/ 1 \notin hits /\ 2 \in hits
            \/ 1 \notin hits /\ 2 \notin hits /\ 3 \in hits
            \/ 1 \notin hits /\ 2 \notin hits /\ 3 \notin hits /\ 4 \in hits
            \/ 1 \notin hits /\ 2 \notin hits /\ 3 \notin hits /\ 4 \notin hits /\ 5 \in hits
            \/ 1 \notin hits /\ 2 \notin hits /\ 3 \notin hits /\ 4 \notin hits /\ 5 \notin hits /\ 6 \in hits
        <4>1. \E k \in 1 .. 6 : k \in hits
          BY <1>3, <3>1
        <4>2. \A k \in 1 .. 6 : k = 1 \/ k = 2 \/ k = 3 \/ k = 4 \/ k = 5 \/ k = 6
          OBVIOUS
        <4> QED BY <4>1, <4>2
      <3> QED BY <3>1, <3>2
    <2>2. first \in hits
      BY <2>1
    <2>3. Matches(S, req) = found[first]
      BY <1>3 DEF Matches
    <2> HIDE DEF first
    <2> QED BY <1>1, <2>2, <2>3
  <1> QED BY <1>2, <1>3

\* A request is matched to records of the file, and to one that has its
\* identity id if there is any.
LEMMA MatchesInFile ==
  ASSUME NEW S, NEW req
  PROVE  /\ Matches(S, req) \subseteq S
         /\ Matches(S, req) = {} => \A c \in S : c.id # IdentityId(req)
PROOF
  <1>1. \A k \in 1 .. 6 : Candidates(S, req)[k] \subseteq S
    BY Lookups
  <1>2. Candidates(S, req)[1] = {c \in S : c.id = IdentityId(req)}
    BY Lookups
  <1>3. Matches(S, req) = {} => Candidates(S, req)[1] = {}
    BY FirstLookup
  <1> QED BY <1>1, <1>2, <1>3, FirstLookup

-----------------------------------------------------------------------------
(* Records and what a request adds to one.                                 *)

IsRecord(c) ==
  c = [id |-> c.id, declared |-> c.declared, fallback |-> c.fallback, agent |-> c.agent,
       total |-> c.total, seen |-> c.seen, usage |-> c.usage]

\* The three tallies of a record agree, but it may not have counted anything.
Tallied(c) ==
  /\ IsRecord(c) /\ IsConsumer(c)
  /\ IsFiniteSet(DOMAIN c.seen)
  /\ \A a \in DOMAIN c.seen : AddsUp(c.seen[a]) /\ c.seen[a].requests > 0
  /\ AddsUp(c.total) /\ c.usage = c.total
  /\ \A outcome \in Outcomes : SeenAt(c, outcome) = c.total[outcome]

\* One more for the request's own outcome.
Own(outcome, own) == IF outcome = own THEN 1 ELSE 0

LEMMA TallyFacts ==
  ASSUME NEW counts \in Counts, NEW own \in Outcomes
  PROVE  /\ Tally(counts, own) \in Counts
         /\ Tally(counts, own).requests > 0
         /\ AddsUp(counts) => AddsUp(Tally(counts, own))
         /\ \A outcome \in Outcomes :
              Tally(counts, own)[outcome] = counts[outcome] + Own(outcome, own)
PROOF
  <1>1. own = "successful" \/ own = "throttled"
    BY DEF Outcomes
  <1> DEFINE after == Tally(counts, own)
  <1>4. counts.requests \in Nat /\ counts.successful \in Nat /\ counts.throttled \in Nat
    BY DEF Counts
  <1>2. CASE own = "successful"
    <2>1. after = [requests |-> counts.requests + 1, successful |-> counts.successful + 1,
                   throttled |-> counts.throttled]
      <3>1. after = [counts EXCEPT !.requests = @ + 1, !.successful = @ + 1]
        BY <1>2 DEF Tally
      <3> QED BY <3>1 DEF Counts
    <2>2. /\ after.requests = counts.requests + 1 /\ after.successful = counts.successful + 1
          /\ after.throttled = counts.throttled /\ after \in Counts
      BY <1>4, <2>1 DEF Counts
    <2> HIDE DEF after
    <2>3. \A outcome \in Outcomes : after[outcome] = counts[outcome] + Own(outcome, own)
      BY <1>2, <1>4, <2>2 DEF Outcomes, Own
    <2> QED BY <1>4, <2>2, <2>3 DEF AddsUp, after
  <1>3. CASE own = "throttled"
    <2>1. after = [requests |-> counts.requests + 1, successful |-> counts.successful,
                   throttled |-> counts.throttled + 1]
      <3>1. after = [counts EXCEPT !.requests = @ + 1, !.throttled = @ + 1]
        BY <1>3 DEF Tally
      <3> QED BY <3>1 DEF Counts
    <2>2. /\ after.requests = counts.requests + 1 /\ after.successful = counts.successful
          /\ after.throttled = counts.throttled + 1 /\ after \in Counts
      BY <1>4, <2>1 DEF Counts
    <2> HIDE DEF after
    <2>3. \A outcome \in Outcomes : after[outcome] = counts[outcome] + Own(outcome, own)
      BY <1>3, <1>4, <2>2 DEF Outcomes, Own
    <2> QED BY <1>4, <2>2, <2>3 DEF AddsUp, after
  <1> QED BY <1>1, <1>2, <1>3

LEMMA NoRequestsFacts ==
  /\ NoRequests \in Counts /\ AddsUp(NoRequests)
  /\ \A outcome \in Outcomes : NoRequests[outcome] = 0
BY DEF NoRequests, Counts, AddsUp, Outcomes

\* What was seen at all addresses together.
SumSeen(seen, outcome) ==
  SumFunctionOnSet([ip \in DOMAIN seen |-> seen[ip][outcome]], DOMAIN seen)

LEMMA SeenAtSum ==
  ASSUME NEW c, NEW outcome
  PROVE  SeenAt(c, outcome) = SumSeen(c.seen, outcome)
BY DEF SeenAt, SumSeen, SumFunction

\* A new consumer has counted nothing.
LEMMA NewIsTallied ==
  ASSUME NEW req \in Callers
  PROVE  /\ Tallied(NewConsumer(req)) /\ NewConsumer(req).id = IdentityId(req)
         /\ \A outcome \in Outcomes : NewConsumer(req).total[outcome] = 0
PROOF
  <1> DEFINE c == NewConsumer(req)
  <1>1. /\ c.id = IdentityId(req) /\ c.declared = None /\ c.agent = None
        /\ c.total = NoRequests /\ c.usage = NoRequests /\ c.seen = <<>> /\ IsRecord(c)
    BY DEF NewConsumer, IsRecord
  <1> HIDE DEF c
  <1>2. DOMAIN c.seen = {} /\ c.seen \in [DOMAIN c.seen -> Counts]
    BY <1>1
  <1>3. IsConsumer(c)
    BY <1>1, <1>2, NoRequestsFacts DEF IsConsumer
  <1>4. IsFiniteSet(DOMAIN c.seen)
    BY <1>2, FS_EmptySet
  <1>5. \A outcome \in Outcomes : SeenAt(c, outcome) = 0
    BY <1>2, SeenAtSum, SumEmpty DEF SumSeen
  <1>6. Tallied(c) /\ \A outcome \in Outcomes : c.total[outcome] = 0
    BY <1>1, <1>2, <1>3, <1>4, <1>5, NoRequestsFacts DEF Tallied
  <1> QED BY <1>1, <1>6 DEF c

\* mergeObservedClientIps adds the request to the tally of its address.
LEMMA ObservedTally ==
  ASSUME NEW c, Tallied(c), NEW ip, NEW own \in Outcomes
  PROVE  LET seen == ObservedIps(c, ip, own) IN
         /\ DOMAIN seen = DOMAIN c.seen \cup {ip} /\ seen \in [DOMAIN seen -> Counts]
         /\ IsFiniteSet(DOMAIN seen)
         /\ \A a \in DOMAIN seen : AddsUp(seen[a]) /\ seen[a].requests > 0
         /\ \A outcome \in Outcomes :
              SumSeen(seen, outcome) = c.total[outcome] + Own(outcome, own)
PROOF
  <1> DEFINE seen == ObservedIps(c, ip, own)
             before == IF Observed(c, ip) THEN c.seen[ip] ELSE NoRequests
  <1>1. /\ c.seen \in [DOMAIN c.seen -> Counts] /\ IsFiniteSet(DOMAIN c.seen)
        /\ c.total \in Counts
        /\ \A a \in DOMAIN c.seen : AddsUp(c.seen[a]) /\ c.seen[a].requests > 0
    BY DEF Tallied, IsConsumer
  <1>2. before \in Counts /\ AddsUp(before)
    BY <1>1, NoRequestsFacts DEF Observed
  <1>3. DOMAIN seen = DOMAIN c.seen \cup {ip}
    BY DEF ObservedIps
  <1>4. seen[ip] = Tally(before, own)
    BY DEF ObservedIps
  <1>5. \A a \in DOMAIN c.seen : a # ip => seen[a] = c.seen[a]
    BY DEF ObservedIps, Observed
  <1>6. seen = [a \in DOMAIN seen |-> seen[a]]
    BY DEF ObservedIps
  <1> HIDE DEF seen
  <1>7. seen[ip] \in Counts /\ AddsUp(seen[ip]) /\ seen[ip].requests > 0
    BY <1>2, <1>4, TallyFacts
  <1>8. \A a \in DOMAIN seen : seen[a] \in Counts /\ AddsUp(seen[a]) /\ seen[a].requests > 0
    BY <1>1, <1>3, <1>5, <1>7
  <1>9. seen \in [DOMAIN seen -> Counts]
    BY <1>6, <1>8
  <1>10. IsFiniteSet(DOMAIN seen)
    BY <1>1, <1>3, FS_AddElement
  <1>11. ASSUME NEW outcome \in Outcomes
         PROVE  SumSeen(seen, outcome) = c.total[outcome] + Own(outcome, own)
    <2> DEFINE f == [a \in DOMAIN c.seen |-> c.seen[a][outcome]]
               g == [a \in DOMAIN seen |-> seen[a][outcome]]
    <2>1. \A counts \in Counts : counts[outcome] \in Nat
      BY DEF Counts, Outcomes
    <2>2. Summable(f, DOMAIN c.seen) /\ Summable(g, DOMAIN seen)
      BY <1>1, <1>8, <1>10, <2>1 DEF Summable
    <2>3. SumFunctionOnSet(f, DOMAIN c.seen) = c.total[outcome]
      BY SeenAtSum DEF Tallied, SumSeen
    <2>4. g[ip] = before[outcome] + Own(outcome, own) /\ before[outcome] \in Nat
      BY <1>2, <1>3, <1>4, <2>1, TallyFacts
    <2>5. \A a \in DOMAIN c.seen : a # ip => g[a] = f[a]
      BY <1>3, <1>5
    <2>6. ip \in DOMAIN c.seen => f[ip] = before[outcome]
      BY DEF Observed
    <2>7. ip \notin DOMAIN c.seen => before[outcome] = 0
      BY NoRequestsFacts DEF Observed
    <2>8. Own(outcome, own) \in {0, 1} /\ c.total[outcome] \in Nat
      BY <1>1, <2>1 DEF Own
    <2> HIDE DEF f, g, before
    <2>9. CASE ip \in DOMAIN c.seen /\ Own(outcome, own) = 1
      <3>1. DOMAIN seen = DOMAIN c.seen
        BY <1>3, <2>9
      <3>2. g[ip] = f[ip] + 1
        BY <2>4, <2>6, <2>9
      <3>3. SumFunctionOnSet(g, DOMAIN c.seen) = SumFunctionOnSet(f, DOMAIN c.seen) + 1
        BY <2>2, <2>5, <2>9, <3>2, SumPlusOne
      <3> QED BY <2>3, <2>9, <3>1, <3>3 DEF g, SumSeen
    <2>10. CASE ip \in DOMAIN c.seen /\ Own(outcome, own) = 0
      <3>1. DOMAIN seen = DOMAIN c.seen
        BY <1>3, <2>10
      <3>2. \A a \in DOMAIN c.seen : g[a] = f[a]
        BY <2>4, <2>5, <2>6, <2>10
      <3>3. SumFunctionOnSet(g, DOMAIN c.seen) = SumFunctionOnSet(f, DOMAIN c.seen)
        BY <2>2, <3>2, SumSame
      <3> QED BY <2>3, <2>8, <2>10, <3>1, <3>3 DEF g, SumSeen
    <2>11. CASE ip \notin DOMAIN c.seen
      <3>1. DOMAIN seen \ {ip} = DOMAIN c.seen /\ ip \in DOMAIN seen
        BY <1>3, <2>11
      <3>2. /\ Summable(g, DOMAIN c.seen)
            /\ SumFunctionOnSet(g, DOMAIN seen) = g[ip] + SumFunctionOnSet(g, DOMAIN c.seen)
        BY <2>2, <3>1, SumSplit
      <3>3. \A a \in DOMAIN c.seen : g[a] = f[a]
        BY <2>5, <2>11
      <3>4. SumFunctionOnSet(g, DOMAIN c.seen) = SumFunctionOnSet(f, DOMAIN c.seen)
        BY <2>2, <3>3, SumSame
      <3>5. g[ip] = Own(outcome, own)
        BY <2>4, <2>7, <2>8, <2>11
      <3> QED BY <2>3, <2>8, <3>2, <3>4, <3>5 DEF g, SumSeen
    <2> QED BY <2>8, <2>9, <2>10, <2>11
  <1> QED BY <1>3, <1>8, <1>9, <1>10, <1>11 DEF seen

\* A record that a request was merged into: all of its tallies count it.
LEMMA MergedIsTallied ==
  ASSUME NEW c, Tallied(c), NEW req \in Callers, NEW throttled \in BOOLEAN
  PROVE  LET merged == Merged(c, req, throttled) IN
         /\ Tallied(merged) /\ merged.total.requests > 0 /\ merged.id = c.id
         /\ \A outcome \in Outcomes :
              merged.total[outcome] = c.total[outcome] + Own(outcome, TrackedOutcome(throttled))
PROOF
  <1> DEFINE own == TrackedOutcome(throttled)
             merged == Merged(c, req, throttled)
  <1>1. own \in Outcomes /\ RateLimitUsage(c, throttled) = Tally(c.usage, own)
    BY DEF TrackedOutcome, Outcomes, RateLimitUsage
  <1>2. /\ merged.id = c.id
        /\ merged.declared = OrElse(req.declared, c.declared)
        /\ merged.agent = OrElse(req.agent, c.agent)
        /\ merged.total = Tally(c.total, own)
        /\ merged.seen = ObservedIps(c, Address(req), own)
        /\ merged.usage = RateLimitUsage(c, throttled)
    BY DEF Merged, Tallied, IsRecord
  <1>8. IsRecord(merged)
    <2>1. IsRecord(c)
      BY DEF Tallied
    <2>2. DOMAIN c = {"id", "declared", "fallback", "agent", "total", "seen", "usage"}
      BY <2>1 DEF IsRecord
    <2>3. DOMAIN merged = DOMAIN c /\ merged = [field \in DOMAIN c |-> merged[field]]
      BY <2>1 DEF Merged, IsRecord
    <2> HIDE DEF merged
    <2> QED BY <2>2, <2>3 DEF IsRecord
  <1> HIDE DEF own, merged
  <1>3. c.total \in Counts /\ AddsUp(c.total) /\ c.usage = c.total
    BY DEF Tallied, IsConsumer
  <1>4. /\ merged.total \in Counts /\ merged.total.requests > 0 /\ AddsUp(merged.total)
        /\ merged.usage = merged.total
        /\ \A outcome \in Outcomes : merged.total[outcome] = c.total[outcome] + Own(outcome, own)
    BY <1>1, <1>2, <1>3, TallyFacts
  <1>5. /\ DOMAIN merged.seen = DOMAIN c.seen \cup {Address(req)}
        /\ merged.seen \in [DOMAIN merged.seen -> Counts]
        /\ IsFiniteSet(DOMAIN merged.seen)
        /\ \A a \in DOMAIN merged.seen : AddsUp(merged.seen[a]) /\ merged.seen[a].requests > 0
    <2> DEFINE seen == ObservedIps(c, Address(req), own)
    <2>1. /\ DOMAIN seen = DOMAIN c.seen \cup {Address(req)} /\ seen \in [DOMAIN seen -> Counts]
          /\ IsFiniteSet(DOMAIN seen)
          /\ \A a \in DOMAIN seen : AddsUp(seen[a]) /\ seen[a].requests > 0
      BY <1>1, ObservedTally
    <2> HIDE DEF seen
    <2> QED BY <1>2, <2>1 DEF seen
  <1>6. ASSUME NEW outcome \in Outcomes
        PROVE  SeenAt(merged, outcome) = merged.total[outcome]
    <2>1. SumSeen(merged.seen, outcome) = c.total[outcome] + Own(outcome, own)
      <3>1. own \in Outcomes
        BY <1>1
      <3>2. \A o \in Outcomes :
              SumSeen(ObservedIps(c, Address(req), own), o) = c.total[o] + Own(o, own)
        BY <3>1, ObservedTally
      <3> QED BY <1>2, <3>2
    <2> QED BY <1>4, <2>1, SeenAtSum
  <1>7. IsConsumer(merged)
    <2>1. merged.declared \in Declared \cup {None}
      BY <1>2 DEF Tallied, IsConsumer, OrElse, Declared
    <2>2. merged.agent \in {r.agent : r \in Callers} \cup {None}
      BY <1>2 DEF Tallied, IsConsumer, OrElse
    <2>3. DOMAIN merged.seen \subseteq {Address(r) : r \in Callers}
      BY <1>5 DEF Tallied, IsConsumer
    <2>4. merged.id \in {IdentityId(r) : r \in Callers}
      BY <1>2 DEF Tallied, IsConsumer
    <2> QED BY <1>4, <1>5, <2>1, <2>2, <2>3, <2>4 DEF IsConsumer
  <1> QED BY <1>2, <1>4, <1>5, <1>6, <1>7, <1>8 DEF Tallied, own, merged

-----------------------------------------------------------------------------
(* Files: sets of records with different ids.                              *)

Snapshot(S) ==
  /\ IsFiniteSet(S)
  /\ \A c \in S : Tallied(c) /\ c.total.requests > 0
  /\ \A c, d \in S : c.id = d.id => c = d

TotalIn(S, outcome) == SumFunction([c \in S |-> c.total[outcome]])

\* The total of a file is a number.
LEMMA TotalIsSum ==
  ASSUME NEW S, Snapshot(S), NEW outcome \in Outcomes
  PROVE  LET f == [c \in S |-> c.total[outcome]] IN
         /\ Summable(f, S) /\ TotalIn(S, outcome) = SumFunctionOnSet(f, S)
         /\ TotalIn(S, outcome) \in Nat
PROOF
  <1> DEFINE f == [c \in S |-> c.total[outcome]]
  <1>1. \A c \in S : c.total \in Counts
    BY DEF Snapshot, Tallied, IsConsumer
  <1>2. \A c \in S : f[c] \in Nat
    BY <1>1 DEF Counts, Outcomes
  <1>3. Summable(f, S)
    BY <1>2 DEF Summable, Snapshot
  <1>4. TotalIn(S, outcome) = SumFunctionOnSet(f, S)
    BY DEF TotalIn, SumFunction
  <1> HIDE DEF f
  <1>5. SumFunctionOnSet(f, S) \in Nat
    BY <1>3, SumType
  <1> QED BY <1>3, <1>4, <1>5 DEF f

\* One record and the rest of the file.
LEMMA TotalSplit ==
  ASSUME NEW S, Snapshot(S), NEW c \in S, NEW outcome \in Outcomes
  PROVE  /\ Snapshot(S \ {c}) /\ c.total[outcome] \in Nat
         /\ TotalIn(S, outcome) = c.total[outcome] + TotalIn(S \ {c}, outcome)
PROOF
  <1> DEFINE f == [d \in S |-> d.total[outcome]]
             g == [d \in S \ {c} |-> d.total[outcome]]
  <1>1. Snapshot(S \ {c})
    BY FS_RemoveElement DEF Snapshot
  <1>2. Summable(f, S) /\ TotalIn(S, outcome) = SumFunctionOnSet(f, S)
    BY TotalIsSum
  <1>3. /\ Summable(g, S \ {c})
        /\ TotalIn(S \ {c}, outcome) = SumFunctionOnSet(g, S \ {c})
    BY <1>1, TotalIsSum
  <1>4. f[c] = c.total[outcome] /\ \A d \in S \ {c} : f[d] = g[d]
    OBVIOUS
  <1> HIDE DEF f, g
  <1>5. f[c] \in Nat
    BY <1>2 DEF Summable
  <1>6. SumFunctionOnSet(f, S) = f[c] + SumFunctionOnSet(f, S \ {c})
    BY <1>2, SumSplit
  <1>7. SumFunctionOnSet(f, S \ {c}) = SumFunctionOnSet(g, S \ {c})
    BY <1>3, <1>4, SumSame
  <1> QED BY <1>1, <1>2, <1>3, <1>4, <1>5, <1>6, <1>7

\* A save with one record more, or one that counts one request more.
LEMMA SnapshotMerged ==
  ASSUME NEW S, Snapshot(S), NEW req \in Callers, NEW throttled \in BOOLEAN, NEW c,
         \/ c \in S
         \/ c = NewConsumer(req) /\ \A d \in S : d.id # IdentityId(req)
  PROVE  LET T == (S \ {c}) \cup {Merged(c, req, throttled)} IN
         /\ Snapshot(T)
         /\ \A outcome \in Outcomes :
              TotalIn(T, outcome) = TotalIn(S, outcome) + Own(outcome, TrackedOutcome(throttled))
PROOF
  <1> DEFINE merged == Merged(c, req, throttled)
             own == TrackedOutcome(throttled)
             R == S \ {c}
             T == R \cup {merged}
  <1>1. Tallied(c)
    BY NewIsTallied DEF Snapshot
  <1>2. /\ Tallied(merged) /\ merged.total.requests > 0 /\ merged.id = c.id
        /\ \A outcome \in Outcomes : merged.total[outcome] = c.total[outcome] + Own(outcome, own)
    BY <1>1, MergedIsTallied
  <1>3. Snapshot(R)
    BY FS_RemoveElement DEF Snapshot
  <1>4. \A d \in R : d.id # c.id
    BY NewIsTallied DEF Snapshot
  <1>5. merged \notin R /\ T \ {merged} = R
    BY <1>2, <1>4
  <1> HIDE DEF merged, own
  <1>6. Snapshot(T)
    <2>1. IsFiniteSet(T)
      BY <1>3, FS_AddElement DEF Snapshot
    <2> QED BY <1>2, <1>3, <1>4, <2>1 DEF Snapshot
  <1>7. ASSUME NEW outcome \in Outcomes
        PROVE  TotalIn(T, outcome) = TotalIn(S, outcome) + Own(outcome, own)
    <2>1. merged \in T
      OBVIOUS
    <2>2. /\ TotalIn(T, outcome) = merged.total[outcome] + TotalIn(R, outcome)
          /\ TotalIn(R, outcome) \in Nat
      <3> HIDE DEF T, R
      <3> QED BY <1>3, <1>5, <1>6, <2>1, TotalSplit, TotalIsSum
    <2>3. Own(outcome, own) \in Nat
      BY DEF Own
    <2>4. CASE c \in S
      <3>1. TotalIn(S, outcome) = c.total[outcome] + TotalIn(R, outcome) /\ c.total[outcome] \in Nat
        BY <2>4, TotalSplit
      <3>2. merged.total[outcome] = c.total[outcome] + Own(outcome, own)
        BY <1>2
      <3> HIDE DEF T, R
      <3> QED BY <2>2, <2>3, <3>1, <3>2
    <2>5. CASE c \notin S
      <3>1. R = S
        BY <2>5
      <3>2. c.total[outcome] = 0
        BY <2>5, NewIsTallied
      <3>3. merged.total[outcome] = Own(outcome, own)
        BY <1>2, <2>3, <3>2
      <3> HIDE DEF T, R
      <3> QED BY <2>2, <2>3, <3>1, <3>3
    <2> QED BY <2>4, <2>5
  <1> QED BY <1>6, <1>7 DEF merged, own

-----------------------------------------------------------------------------
(* pendingWrite: one recording at a time.                                  *)

Waiting(h) == pc[h] \in {"recordLoad", "recordOpen", "recordWrite"}
Saving(h) == pc[h] \in {"recordOpen", "recordWrite"}

\* The queue holds different handlers, all of them waiting for their recording
\* or in it, and only its first is between its load and the end of its save.
Queueing ==
  /\ queue \in Seq(Handlers)
  /\ \A i, j \in 1 .. Len(queue) : queue[i] = queue[j] => i = j
  /\ \A i \in 1 .. Len(queue) : Waiting(queue[i])
  /\ \A h \in Handlers : Saving(h) => queue # <<>> /\ Head(queue) = h

\* A handler that is nowhere in its recording joins the queue at its end.
LEMMA QueueJoined ==
  ASSUME ControlType, Queueing, NEW h \in Handlers, ~ Waiting(h),
         queue' = Append(queue, h), Goto(h, "recordLoad")
  PROVE  Queueing'
PROOF
  <1>1. /\ queue \in Seq(Handlers) /\ Len(queue) \in Nat
        /\ queue' \in Seq(Handlers) /\ Len(queue') = Len(queue) + 1
        /\ \A i \in 1 .. Len(queue) : queue'[i] = queue[i]
        /\ queue'[Len(queue) + 1] = h
    BY DEF Queueing
  <1>2. /\ pc'[h] = "recordLoad"
        /\ \A g \in Handlers : g # h => pc'[g] = pc[g]
    BY DEF Goto, ControlType
  <1>3. \A i \in 1 .. Len(queue) : queue[i] \in Handlers /\ queue[i] # h
    BY <1>1 DEF Queueing
  <1>4. \A i \in 1 .. Len(queue') : i \in 1 .. Len(queue) \/ i = Len(queue) + 1
    BY <1>1
  <1>5. \A i, j \in 1 .. Len(queue') : queue'[i] = queue'[j] => i = j
    BY <1>1, <1>3, <1>4 DEF Queueing
  <1>6. \A i \in 1 .. Len(queue') : Waiting(queue[i])'
    BY <1>1, <1>2, <1>3, <1>4 DEF Queueing, Waiting
  <1>7. ASSUME NEW g \in Handlers, Saving(g)'
        PROVE  queue' # <<>> /\ Head(queue') = g
    <2>1. Saving(g)
      BY <1>2, <1>7 DEF Saving
    <2>2. queue # <<>> /\ Head(queue) = g
      BY <2>1 DEF Queueing
    <2> QED BY <1>1, <2>2
  <1> QED BY <1>1, <1>5, <1>6, <1>7 DEF Queueing

\* The first recording ends, the next may start.
LEMMA QueueAdvanced ==
  ASSUME ControlType, Queueing, NEW h \in Handlers, Saving(h),
         queue' = Tail(queue), Goto(h, "send")
  PROVE  Queueing'
PROOF
  <1>1. queue # <<>> /\ Head(queue) = h
    BY DEF Queueing
  <1>2. /\ queue \in Seq(Handlers) /\ Len(queue) \in Nat \ {0} /\ queue[1] = h
        /\ queue' \in Seq(Handlers) /\ Len(queue') = Len(queue) - 1
        /\ \A i \in 1 .. Len(queue') : queue'[i] = queue[i + 1]
    BY <1>1 DEF Queueing
  <1>3. /\ pc'[h] = "send"
        /\ \A g \in Handlers : g # h => pc'[g] = pc[g]
    BY DEF Goto, ControlType
  <1>4. \A i \in 1 .. Len(queue') : i + 1 \in 1 .. Len(queue) /\ i + 1 # 1 /\ i \in Int
    BY <1>2
  <1>5. \A i, j \in 1 .. Len(queue') : queue'[i] = queue'[j] => i = j
    <2> SUFFICES ASSUME NEW i \in 1 .. Len(queue'), NEW j \in 1 .. Len(queue'),
                        queue'[i] = queue'[j]
                 PROVE  i = j
      OBVIOUS
    <2>1. queue[i + 1] = queue[j + 1]
      BY <1>2
    <2>2. i + 1 = j + 1
      BY <1>4, <2>1 DEF Queueing
    <2> QED BY <1>4, <2>2
  <1>6. \A i \in 1 .. Len(queue') : queue'[i] \in Handlers /\ queue'[i] # h /\ Waiting(queue'[i])
    <2> SUFFICES ASSUME NEW i \in 1 .. Len(queue')
                 PROVE  queue'[i] \in Handlers /\ queue'[i] # h /\ Waiting(queue'[i])
      OBVIOUS
    <2>1. queue'[i] = queue[i + 1] /\ i + 1 \in 1 .. Len(queue) /\ i + 1 # 1 /\ 1 \in 1 .. Len(queue)
      BY <1>2, <1>4
    <2>2. queue[i + 1] # queue[1] /\ Waiting(queue[i + 1])
      BY <2>1 DEF Queueing
    <2> QED BY <1>2, <2>1, <2>2
  <1>7. \A i \in 1 .. Len(queue') : Waiting(queue[i])'
    BY <1>3, <1>6 DEF Waiting
  <1>8. \A g \in Handlers : ~ Saving(g)'
    <2> SUFFICES ASSUME NEW g \in Handlers, Saving(g)' PROVE FALSE
      OBVIOUS
    <2>1. g # h /\ Saving(g)
      BY <1>3 DEF Saving
    <2> QED BY <1>1, <2>1 DEF Queueing
  <1> QED BY <1>2, <1>5, <1>7, <1>8 DEF Queueing

\* A handler that does not start or leave its recording, while the queue stays,
\* or one that is first and starts it.
LEMMA QueueKept ==
  ASSUME ControlType, Queueing, UNCHANGED queue, NEW h \in Handlers, NEW label, Goto(h, label),
         Waiting(h) => label \in {"recordLoad", "recordOpen", "recordWrite"},
         label \in {"recordOpen", "recordWrite"} => queue # <<>> /\ Head(queue) = h
  PROVE  Queueing'
PROOF
  <1>1. /\ pc'[h] = label
        /\ \A g \in Handlers : g # h => pc'[g] = pc[g]
    BY DEF Goto, ControlType
  <1>2. \A i \in 1 .. Len(queue) : queue[i] \in Handlers
    BY DEF Queueing
  <1>3. \A i \in 1 .. Len(queue) : Waiting(queue[i])'
    BY <1>1, <1>2 DEF Queueing, Waiting
  <1>4. \A g \in Handlers : Saving(g)' => queue # <<>> /\ Head(queue) = g
    BY <1>1 DEF Queueing, Saving
  <1> QED BY <1>3, <1>4 DEF Queueing

LEMMA QueueingInit == Init => Queueing
BY DEF Init, Queueing, Saving, Waiting

LEMMA ExitQueueing == Exit => Queueing'
BY DEF Exit, Queueing, Saving, Waiting

LEMMA QueueingStep == ControlType /\ Queueing /\ [Next]_vars => Queueing'
PROOF
  <1> SUFFICES ASSUME ControlType, Queueing, [Next]_vars PROVE Queueing'
    OBVIOUS
  <1>1. ASSUME UNCHANGED <<pc, queue>>
        PROVE  Queueing'
    BY <1>1 DEF Queueing, Saving, Waiting
  <1>2. CASE Tick \/ Restart \/ UNCHANGED vars
    BY <1>1, <1>2 DEF Tick, Restart, vars, requests
  <1>3. CASE Exit
    BY <1>3, ExitQueueing
  <1>4. ASSUME NEW h \in Handlers, Arrive(h)
        PROVE  Queueing'
    BY <1>4, QueueKept DEF Arrive, Waiting
  <1>5. ASSUME NEW h \in Handlers, Serve(h)
        PROVE  Queueing'
    <2>1. CASE Resolve(h) /\ ~ Exit
      <3>1. /\ pc[h] = "resolve"
            /\ \/ Goto(h, "recordLoad") /\ queue' = Append(queue, h)
               \/ Goto(h, "route") /\ UNCHANGED queue
        BY <2>1 DEF Resolve
      <3> QED BY <3>1, QueueJoined, QueueKept DEF Waiting
    <2>2. CASE Route(h)
      BY <2>2, QueueJoined DEF Route, Waiting
    <2>3. CASE RecordLoad(h) /\ ~ Exit
      <3>1. /\ UNCHANGED queue /\ Goto(h, "recordOpen") /\ queue # <<>> /\ Head(queue) = h
        BY <2>3 DEF RecordLoad, FirstInQueue
      <3> QED BY <3>1, QueueKept
    <2>4. CASE RecordOpen(h)
      <3>1. UNCHANGED queue /\ Goto(h, "recordWrite") /\ Saving(h)
        BY <2>4 DEF RecordOpen, Saving
      <3>2. queue # <<>> /\ Head(queue) = h
        BY <3>1 DEF Queueing
      <3> QED BY <3>1, <3>2, QueueKept
    <2>5. CASE RecordWrite(h)
      BY <2>5, QueueAdvanced DEF RecordWrite, Saving
    <2>6. CASE Send(h)
      BY <2>6, QueueKept DEF Send, Waiting
    <2> QED BY <1>3, <1>5, <2>1, <2>2, <2>3, <2>4, <2>5, <2>6 DEF Serve
  <1> QED BY <1>2, <1>3, <1>4, <1>5 DEF Next, Killed, Quiet

-----------------------------------------------------------------------------
(* What the file must count.                                               *)

Outcome(h) == TrackedOutcome(limited[h])
Sending == {h \in Handlers : pc[h] = "send"}
SendingAs(outcome) == {h \in Sending : Outcome(h) = outcome}

\* The requests that were recorded, answered or about to be, and all that ever
\* could have been.
Recorded(outcome) == answered[outcome] + Cardinality(SendingAs(outcome))
Reached == answered.successful + answered.throttled + lost + Cardinality(Sending)

\* A readable file counts what was recorded, and what a handler is about to save
\* counts its own request besides; neither counts more than ever could have been.
FileExact ==
  file # Torn =>
    /\ Snapshot(file)
    /\ \A outcome \in Outcomes : Recorded(outcome) <= TotalIn(file, outcome)
    /\ TotalIn(file, "successful") + TotalIn(file, "throttled") <= Reached

PendingExact ==
  \A h \in Handlers : Saving(h) =>
    /\ Snapshot(pending[h])
    /\ \A outcome \in Outcomes :
         Recorded(outcome) + Own(outcome, Outcome(h)) <= TotalIn(pending[h], outcome)
    /\ TotalIn(pending[h], "successful") + TotalIn(pending[h], "throttled") <= Reached + 1

LEMMA OutcomeType ==
  ASSUME ControlType, NEW h \in Handlers
  PROVE  Outcome(h) \in Outcomes
BY DEF Outcome, TrackedOutcome, Outcomes

LEMMA LedgerType ==
  ASSUME ControlType
  PROVE  /\ IsFiniteSet(Sending) /\ Cardinality(Sending) \in Nat /\ Reached \in Nat
         /\ \A outcome \in Outcomes :
              /\ IsFiniteSet(SendingAs(outcome)) /\ Cardinality(SendingAs(outcome)) \in Nat
              /\ answered[outcome] \in Nat /\ Recorded(outcome) \in Nat
PROOF
  <1>1. IsFiniteSet(Sending) /\ Cardinality(Sending) \in Nat
    BY ApiAssumption, FS_Subset, FS_CardinalityType DEF Sending
  <1>2. Reached \in Nat
    BY <1>1 DEF Reached, ControlType
  <1>3. ASSUME NEW outcome \in Outcomes
        PROVE  /\ IsFiniteSet(SendingAs(outcome)) /\ Cardinality(SendingAs(outcome)) \in Nat
               /\ answered[outcome] \in Nat /\ Recorded(outcome) \in Nat
    <2>1. IsFiniteSet(SendingAs(outcome)) /\ Cardinality(SendingAs(outcome)) \in Nat
      BY <1>1, FS_Subset, FS_CardinalityType DEF SendingAs
    <2>2. answered[outcome] \in Nat
      BY DEF ControlType, Outcomes
    <2> QED BY <2>1, <2>2 DEF Recorded
  <1> QED BY <1>1, <1>2, <1>3

\* Steps that neither record nor answer.
LEMMA LedgerKept ==
  ASSUME UNCHANGED <<answered, lost>>, Sending' = Sending,
         \A h \in Sending : limited'[h] = limited[h]
  PROVE  /\ Reached' = Reached
         /\ \A outcome \in Outcomes : Recorded(outcome)' = Recorded(outcome)
PROOF
  <1>1. \A outcome : SendingAs(outcome)' = SendingAs(outcome)
    BY DEF SendingAs, Outcome
  <1> QED BY <1>1 DEF Reached, Recorded

\* A request that was recorded.
LEMMA LedgerRecorded ==
  ASSUME ControlType, NEW h \in Handlers, pc[h] # "send", Goto(h, "send"),
         UNCHANGED <<answered, lost, limited>>
  PROVE  /\ Reached' = Reached + 1
         /\ \A outcome \in Outcomes :
              Recorded(outcome)' = Recorded(outcome) + Own(outcome, Outcome(h))
PROOF
  <1>1. Sending' = Sending \cup {h} /\ h \notin Sending
    BY DEF Sending, Goto, ControlType
  <1>2. Cardinality(Sending') = Cardinality(Sending) + 1
    BY <1>1, LedgerType, FS_AddElement
  <1>3. Reached' = Reached + 1
    <2>1. /\ answered.successful \in Nat /\ answered.throttled \in Nat /\ lost \in Nat
          /\ Cardinality(Sending) \in Nat
      BY LedgerType DEF ControlType
    <2> QED BY <1>2, <2>1 DEF Reached
  <1>4. ASSUME NEW outcome \in Outcomes
        PROVE  Recorded(outcome)' = Recorded(outcome) + Own(outcome, Outcome(h))
    <2>1. /\ IsFiniteSet(SendingAs(outcome)) /\ Cardinality(SendingAs(outcome)) \in Nat
          /\ answered[outcome] \in Nat
      BY LedgerType
    <2>2. CASE Outcome(h) = outcome
      <3>1. SendingAs(outcome)' = SendingAs(outcome) \cup {h} /\ h \notin SendingAs(outcome)
        BY <1>1, <2>2 DEF SendingAs, Outcome
      <3>2. Cardinality(SendingAs(outcome)') = Cardinality(SendingAs(outcome)) + 1
        BY <2>1, <3>1, FS_AddElement
      <3> QED BY <2>1, <2>2, <3>2 DEF Recorded, Own
    <2>3. CASE Outcome(h) # outcome
      <3>1. SendingAs(outcome)' = SendingAs(outcome)
        BY <1>1, <2>3 DEF SendingAs, Outcome
      <3> QED BY <2>1, <2>3, <3>1 DEF Recorded, Own
    <2> QED BY <2>2, <2>3
  <1> QED BY <1>3, <1>4

\* A request that was answered.
LEMMA LedgerAnswered ==
  ASSUME ControlType, NEW h \in Handlers, Send(h)
  PROVE  /\ Reached' = Reached
         /\ \A outcome \in Outcomes : Recorded(outcome)' = Recorded(outcome)
PROOF
  <1>1. Sending' = Sending \ {h} /\ h \in Sending
    BY DEF Send, Sending, Goto, ControlType
  <1>2. Cardinality(Sending') = Cardinality(Sending) - 1
    BY <1>1, LedgerType, FS_RemoveElement
  <1>3. /\ lost' = lost
        /\ limited[h] => /\ answered'.throttled = answered.throttled + 1
                         /\ answered'.successful = answered.successful
        /\ ~ limited[h] => /\ answered'.successful = answered.successful + 1
                           /\ answered'.throttled = answered.throttled
    BY DEF Send, ControlType
  <1>4. Reached' = Reached
    <2>1. /\ answered.successful \in Nat /\ answered.throttled \in Nat /\ lost \in Nat
          /\ Cardinality(Sending) \in Nat
      BY LedgerType DEF ControlType
    <2> QED BY <1>2, <1>3, <2>1 DEF Reached
  <1>5. \A g \in Handlers : g # h => limited'[g] = limited[g]
    BY DEF Send, ControlType
  <1>6. ASSUME NEW outcome \in Outcomes
        PROVE  Recorded(outcome)' = Recorded(outcome)
    <2>1. /\ IsFiniteSet(SendingAs(outcome)) /\ Cardinality(SendingAs(outcome)) \in Nat
          /\ answered[outcome] \in Nat
      BY LedgerType
    <2>2. SendingAs(outcome)' = SendingAs(outcome) \ {h}
      BY <1>1, <1>5 DEF SendingAs, Sending, Outcome
    <2>3. CASE Outcome(h) = outcome
      <3>1. h \in SendingAs(outcome)
        BY <1>1, <2>3 DEF SendingAs
      <3>2. Cardinality(SendingAs(outcome)') = Cardinality(SendingAs(outcome)) - 1
        BY <2>1, <2>2, <3>1, FS_RemoveElement
      <3>3. answered'[outcome] = answered[outcome] + 1
        BY <1>3, <2>3 DEF Outcome, TrackedOutcome
      <3> QED BY <2>1, <3>2, <3>3 DEF Recorded
    <2>4. CASE Outcome(h) # outcome
      <3>1. SendingAs(outcome)' = SendingAs(outcome)
        BY <2>2, <2>4 DEF SendingAs
      <3>2. answered'[outcome] = answered[outcome]
        BY <1>3, <2>4 DEF Outcome, TrackedOutcome, Outcomes
      <3> QED BY <3>1, <3>2 DEF Recorded
    <2> QED BY <2>3, <2>4
  <1> QED BY <1>4, <1>6

\* When the process ends, the requests in flight are lost.
LEMMA LedgerExit ==
  ASSUME ControlType, Exit
  PROVE  /\ Reached <= Reached' /\ Reached' \in Nat
         /\ \A outcome \in Outcomes :
              Recorded(outcome)' <= Recorded(outcome) /\ Recorded(outcome)' \in Nat
PROOF
  <1>1. Sending' = {}
    BY DEF Exit, Sending
  <1>2. Cardinality(Sending) <= Cardinality(InFlight)
    BY InFlightFinite, FS_Subset DEF Sending, InFlight
  <1>3. /\ answered.successful \in Nat /\ answered.throttled \in Nat /\ lost \in Nat
        /\ Cardinality(Sending) \in Nat /\ Cardinality(InFlight) \in Nat
    BY LedgerType, InFlightFinite DEF ControlType
  <1>4. Cardinality({}) = 0
    BY FS_EmptySet
  <1>5. lost' = lost + Cardinality(InFlight) /\ answered' = answered
    BY DEF Exit
  <1>6. Reached <= Reached' /\ Reached' \in Nat
    BY <1>1, <1>2, <1>3, <1>4, <1>5 DEF Reached
  <1>7. ASSUME NEW outcome \in Outcomes
        PROVE  Recorded(outcome)' <= Recorded(outcome) /\ Recorded(outcome)' \in Nat
    <2>1. SendingAs(outcome)' = {}
      BY <1>1 DEF SendingAs
    <2>2. Cardinality(SendingAs(outcome)) \in Nat /\ answered[outcome] \in Nat
      BY LedgerType
    <2> QED BY <1>4, <1>5, <2>1, <2>2 DEF Recorded
  <1> QED BY <1>6, <1>7

-----------------------------------------------------------------------------
(* The consumer history is exact.                                          *)

\* The totals that FileExact and PendingExact compare are numbers.
LEMMA TotalType ==
  ASSUME NEW S, Snapshot(S)
  PROVE  /\ TotalIn(S, "successful") \in Nat /\ TotalIn(S, "throttled") \in Nat
         /\ \A outcome \in Outcomes : TotalIn(S, outcome) \in Nat
BY TotalIsSum DEF Outcomes

\* Steps that leave the file, the snapshots and the ledger alone.
LEMMA PendingKept ==
  ASSUME PendingExact, UNCHANGED pending, Reached' = Reached,
         \A outcome \in Outcomes : Recorded(outcome)' = Recorded(outcome),
         \A h \in Handlers : Saving(h)' => Saving(h) /\ limited'[h] = limited[h]
  PROVE  PendingExact'
PROOF
  <1> SUFFICES ASSUME NEW h \in Handlers, Saving(h)'
               PROVE  /\ Snapshot(pending[h])
                      /\ \A outcome \in Outcomes :
                           Recorded(outcome) + Own(outcome, Outcome(h)')
                             <= TotalIn(pending[h], outcome)
                      /\ TotalIn(pending[h], "successful") + TotalIn(pending[h], "throttled")
                           <= Reached + 1
    BY DEF PendingExact
  <1>1. Saving(h) /\ Outcome(h)' = Outcome(h)
    BY DEF Outcome
  <1> QED BY <1>1 DEF PendingExact

LEMMA FileKept ==
  ASSUME FileExact, UNCHANGED file, Reached' = Reached,
         \A outcome \in Outcomes : Recorded(outcome)' = Recorded(outcome)
  PROVE  FileExact'
BY DEF FileExact

\* Steps of a handler outside its recording and before its answer.
LEMMA ExactKept ==
  ASSUME ControlType, FileExact, PendingExact, UNCHANGED <<file, pending, answered, lost>>,
         NEW h \in Handlers, pc[h] # "send", NEW label, Goto(h, label), label # "send",
         Saving(h) \/ label \notin {"recordOpen", "recordWrite"},
         \A g \in Handlers : g # h \/ Saving(h) => limited'[g] = limited[g]
  PROVE  FileExact' /\ PendingExact'
PROOF
  <1>1. \A g \in Handlers : pc'[g] = IF g = h THEN label ELSE pc[g]
    BY DEF Goto, ControlType
  <1>2. Sending' = Sending /\ h \notin Sending
    BY <1>1 DEF Sending
  <1>3. \A g \in Sending : limited'[g] = limited[g]
    BY <1>2 DEF Sending
  <1>4. /\ Reached' = Reached
        /\ \A outcome \in Outcomes : Recorded(outcome)' = Recorded(outcome)
    BY <1>2, <1>3, LedgerKept
  <1>5. \A g \in Handlers : Saving(g)' => Saving(g) /\ limited'[g] = limited[g]
    BY <1>1 DEF Saving
  <1> QED BY <1>4, <1>5, PendingKept, FileKept

\* A recording loads the file, finds or makes its record, and merges the request.
LEMMA LoadExact ==
  ASSUME ControlType, Queueing, FileExact, PendingExact,
         NEW h \in Handlers, RecordLoad(h), ~ Exit
  PROVE  FileExact' /\ PendingExact'
PROOF
  <1>1. /\ pc[h] = "recordLoad" /\ FirstInQueue(h) /\ Readable /\ Goto(h, "recordOpen")
        /\ UNCHANGED <<file, queue, caller, limited, answered, lost>>
    BY DEF RecordLoad, history
  <1>2. PICK c \in IF Matches(file, caller[h]) = {} THEN {NewConsumer(caller[h])}
                   ELSE Matches(file, caller[h]) :
          pending' = [pending EXCEPT ![h] = (file \ {c}) \cup {Merged(c, caller[h], limited[h])}]
    BY DEF RecordLoad
  <1>3. caller[h] \in Callers /\ limited[h] \in BOOLEAN
    BY DEF ControlType
  <1>4. /\ Snapshot(file)
        /\ \A outcome \in Outcomes : Recorded(outcome) <= TotalIn(file, outcome)
        /\ TotalIn(file, "successful") + TotalIn(file, "throttled") <= Reached
    BY <1>1 DEF FileExact, Readable
  <1>5. \/ c \in file
        \/ c = NewConsumer(caller[h]) /\ \A d \in file : d.id # IdentityId(caller[h])
    BY <1>2, MatchesInFile
  <1> DEFINE T == (file \ {c}) \cup {Merged(c, caller[h], limited[h])}
  <1>6. /\ Snapshot(T)
        /\ \A outcome \in Outcomes :
             TotalIn(T, outcome) = TotalIn(file, outcome) + Own(outcome, Outcome(h))
    BY <1>3, <1>4, <1>5, SnapshotMerged DEF Outcome
  <1>7. pending'[h] = T
    BY <1>2 DEF ControlType
  <1> HIDE DEF T
  <1>8. \A g \in Handlers : pc'[g] = IF g = h THEN "recordOpen" ELSE pc[g]
    BY <1>1 DEF Goto, ControlType
  <1>9. \A g \in Handlers : Saving(g)' => g = h
    <2> SUFFICES ASSUME NEW g \in Handlers, Saving(g)', g # h PROVE FALSE
      OBVIOUS
    <2>1. Saving(g)
      BY <1>8 DEF Saving
    <2> QED BY <1>1, <2>1 DEF Queueing, FirstInQueue
  <1>10. Sending' = Sending
    BY <1>1, <1>8 DEF Sending
  <1>11. /\ Reached' = Reached
         /\ \A outcome \in Outcomes : Recorded(outcome)' = Recorded(outcome)
    BY <1>1, <1>10, LedgerKept
  <1>12. Outcome(h)' = Outcome(h) /\ Outcome(h) \in Outcomes
    BY <1>1, OutcomeType DEF Outcome
  <1>13. \A outcome \in Outcomes :
           Recorded(outcome) + Own(outcome, Outcome(h)) <= TotalIn(T, outcome)
    <2> SUFFICES ASSUME NEW outcome \in Outcomes
                 PROVE  Recorded(outcome) + Own(outcome, Outcome(h)) <= TotalIn(T, outcome)
      OBVIOUS
    <2>1. Recorded(outcome) \in Nat /\ TotalIn(file, outcome) \in Nat
      BY <1>4, LedgerType, TotalType
    <2>2. Own(outcome, Outcome(h)) \in Nat
      BY DEF Own
    <2> QED BY <1>4, <1>6, <2>1, <2>2
  <1>14. TotalIn(T, "successful") + TotalIn(T, "throttled") <= Reached + 1
    <2>1. /\ TotalIn(file, "successful") \in Nat /\ TotalIn(file, "throttled") \in Nat
          /\ Reached \in Nat
      BY <1>4, LedgerType, TotalType
    <2>2. /\ TotalIn(T, "successful") = TotalIn(file, "successful") + Own("successful", Outcome(h))
          /\ TotalIn(T, "throttled") = TotalIn(file, "throttled") + Own("throttled", Outcome(h))
      BY <1>6 DEF Outcomes
    <2>3. \/ Own("successful", Outcome(h)) = 1 /\ Own("throttled", Outcome(h)) = 0
          \/ Own("successful", Outcome(h)) = 0 /\ Own("throttled", Outcome(h)) = 1
      BY <1>12 DEF Own, Outcomes
    <2> QED BY <1>4, <2>1, <2>2, <2>3
  <1>15. PendingExact'
    BY <1>6, <1>7, <1>9, <1>11, <1>12, <1>13, <1>14 DEF PendingExact
  <1>16. FileExact'
    BY <1>1, <1>11, FileKept
  <1> QED BY <1>15, <1>16

\* The save is complete: the snapshot becomes the file and its request recorded.
LEMMA WriteExact ==
  ASSUME ControlType, Queueing, Queueing', PendingExact, NEW h \in Handlers, RecordWrite(h)
  PROVE  FileExact' /\ PendingExact'
PROOF
  <1>1. /\ pc[h] = "recordWrite" /\ Saving(h) /\ file' = pending[h] /\ Goto(h, "send")
        /\ UNCHANGED <<answered, lost, limited>>
    BY DEF RecordWrite, history, Saving
  <1>2. /\ Reached' = Reached + 1
        /\ \A outcome \in Outcomes :
             Recorded(outcome)' = Recorded(outcome) + Own(outcome, Outcome(h))
    BY <1>1, LedgerRecorded
  <1>3. FileExact'
    BY <1>1, <1>2 DEF FileExact, PendingExact
  <1>4. \A g \in Handlers : ~ Saving(g)'
    <2> SUFFICES ASSUME NEW g \in Handlers, Saving(g)' PROVE FALSE
      OBVIOUS
    <2>1. pc'[h] = "send" /\ (g # h => pc'[g] = pc[g])
      BY <1>1 DEF Goto, ControlType
    <2>2. g # h /\ Saving(g)
      BY <2>1 DEF Saving
    <2> QED BY <1>1, <2>2 DEF Queueing
  <1> QED BY <1>3, <1>4 DEF PendingExact

LEMMA ExitExact == ControlType /\ FileExact /\ Exit => FileExact' /\ PendingExact'
PROOF
  <1> SUFFICES ASSUME ControlType, FileExact, Exit PROVE FileExact' /\ PendingExact'
    OBVIOUS
  <1>1. PendingExact'
    BY DEF Exit, PendingExact, Saving
  <1>2. FileExact'
    <2> SUFFICES ASSUME file # Torn
                 PROVE  /\ Snapshot(file)
                        /\ \A outcome \in Outcomes : Recorded(outcome)' <= TotalIn(file, outcome)
                        /\ TotalIn(file, "successful") + TotalIn(file, "throttled") <= Reached'
      BY DEF Exit, FileExact
    <2>1. /\ Snapshot(file)
          /\ \A outcome \in Outcomes : Recorded(outcome) <= TotalIn(file, outcome)
          /\ TotalIn(file, "successful") + TotalIn(file, "throttled") <= Reached
      BY DEF FileExact
    <2>2. \A outcome \in Outcomes : TotalIn(file, outcome) \in Nat /\ Recorded(outcome) \in Nat
      BY <2>1, LedgerType, TotalType
    <2>3. TotalIn(file, "successful") + TotalIn(file, "throttled") \in Nat /\ Reached \in Nat
      BY <2>1, LedgerType, TotalType
    <2>4. \A outcome \in Outcomes : Recorded(outcome)' <= TotalIn(file, outcome)
      <3> SUFFICES ASSUME NEW outcome \in Outcomes
                   PROVE  Recorded(outcome)' <= TotalIn(file, outcome)
        OBVIOUS
      <3>1. Recorded(outcome)' <= Recorded(outcome) /\ Recorded(outcome)' \in Nat
        BY LedgerExit
      <3> QED BY <2>1, <2>2, <3>1
    <2> QED BY <2>1, <2>3, <2>4, LedgerExit
  <1> QED BY <1>1, <1>2

LEMMA ExactStep ==
  ControlType /\ Queueing /\ Queueing' /\ FileExact /\ PendingExact /\ [Next]_vars
    => FileExact' /\ PendingExact'
PROOF
  <1> SUFFICES ASSUME ControlType, Queueing, Queueing', FileExact, PendingExact, [Next]_vars
               PROVE  FileExact' /\ PendingExact'
    OBVIOUS
  <1>1. CASE Tick \/ Restart \/ UNCHANGED vars
    <2>1. UNCHANGED <<file, pc, limited, pending, answered, lost>>
      BY <1>1 DEF Tick, Restart, vars, requests, history
    <2>2. Sending' = Sending /\ \A h \in Handlers : Saving(h)' => Saving(h)
      BY <2>1 DEF Sending, Saving
    <2>3. /\ Reached' = Reached
          /\ \A outcome \in Outcomes : Recorded(outcome)' = Recorded(outcome)
      BY <2>1, <2>2, LedgerKept
    <2> QED BY <2>1, <2>2, <2>3, FileKept, PendingKept
  <1>2. CASE Exit
    BY <1>2, ExitExact
  <1>3. ASSUME NEW h \in Handlers, Arrive(h)
        PROVE  FileExact' /\ PendingExact'
    BY <1>3, ExactKept DEF Arrive, history
  <1>4. ASSUME NEW h \in Handlers, Serve(h)
        PROVE  FileExact' /\ PendingExact'
    <2>1. CASE Resolve(h) /\ ~ Exit
      <3>1. /\ pc[h] = "resolve" /\ RateLimit(h)
            /\ Goto(h, "recordLoad") \/ Goto(h, "route")
            /\ UNCHANGED <<file, pending, answered, lost>>
        BY <2>1 DEF Resolve
      <3>2. \A g \in Handlers : g # h => limited'[g] = limited[g]
        BY <3>1 DEF RateLimit, ControlType
      <3>3. ~ Saving(h)
        BY <3>1 DEF Saving
      <3> QED BY <3>1, <3>2, <3>3, ExactKept
    <2>2. CASE Route(h)
      BY <2>2, ExactKept DEF Route, history
    <2>3. CASE RecordLoad(h) /\ ~ Exit
      BY <2>3, LoadExact
    <2>4. CASE RecordOpen(h)
      <3>1. /\ pc[h] = "recordOpen" /\ Goto(h, "recordWrite") /\ Saving(h) /\ file' = Torn
            /\ UNCHANGED <<limited, pending, answered, lost>>
        BY <2>4 DEF RecordOpen, history, Saving
      <3>2. \A g \in Handlers : pc'[g] = IF g = h THEN "recordWrite" ELSE pc[g]
        BY <3>1 DEF Goto, ControlType
      <3>3. Sending' = Sending /\ \A g \in Handlers : Saving(g)' => Saving(g)
        BY <3>1, <3>2 DEF Sending, Saving
      <3>4. /\ Reached' = Reached
            /\ \A outcome \in Outcomes : Recorded(outcome)' = Recorded(outcome)
        BY <3>1, <3>3, LedgerKept
      <3> QED BY <3>1, <3>3, <3>4, PendingKept DEF FileExact
    <2>5. CASE RecordWrite(h)
      BY <2>5, WriteExact
    <2>6. CASE Send(h)
      <3>1. /\ Reached' = Reached
            /\ \A outcome \in Outcomes : Recorded(outcome)' = Recorded(outcome)
        BY <2>6, LedgerAnswered
      <3>2. UNCHANGED <<file, pending>> /\ Goto(h, "idle") /\ limited' = [limited EXCEPT ![h] = FALSE]
        BY <2>6 DEF Send
      <3>3. \A g \in Handlers : Saving(g)' => Saving(g) /\ limited'[g] = limited[g]
        BY <3>2 DEF Saving, Goto, ControlType
      <3> QED BY <3>1, <3>2, <3>3, FileKept, PendingKept
    <2> QED BY <1>2, <1>4, <2>1, <2>2, <2>3, <2>4, <2>5, <2>6 DEF Serve
  <1> QED BY <1>1, <1>2, <1>3, <1>4 DEF Next, Killed, Quiet

LEMMA ExactInit == Init => FileExact /\ PendingExact
PROOF
  <1> SUFFICES ASSUME Init PROVE FileExact /\ PendingExact
    OBVIOUS
  <1>1. PendingExact
    BY DEF Init, PendingExact, Saving
  <1>2. file = {} /\ Snapshot(file)
    BY FS_EmptySet DEF Init, Snapshot
  <1>3. \A outcome \in Outcomes : TotalIn(file, outcome) = 0
    BY <1>2, SumEmpty DEF TotalIn, SumFunction
  <1>4. Sending = {}
    BY DEF Init, Sending
  <1>5. \A outcome \in Outcomes : Recorded(outcome) = 0
    BY <1>4, FS_EmptySet DEF Init, Recorded, SendingAs, Outcomes
  <1>6. Reached = 0
    BY <1>4, FS_EmptySet DEF Init, Reached
  <1> QED BY <1>1, <1>2, <1>3, <1>5, <1>6 DEF FileExact, Outcomes

\* The invariant that the record theorems use.
LEMMA ExactAlways == Spec => [](ControlType /\ Queueing /\ FileExact /\ PendingExact)
PROOF
  <1> QED BY ControlInit, ControlStep, QueueingInit, QueueingStep, ExactInit, ExactStep, PTL DEF Spec

\* However requests overlap, fail and are killed: while consumer-identities.json
\* can be read it counts every answered request and no request twice, its tallies
\* by address, by outcome and by the limiter's decision agree, and the next load
\* accepts it.
THEOREM HistoryIsExact == Spec => []HistoryExact
PROOF
  <1>1. ControlType /\ FileExact => HistoryExact
    <2> SUFFICES ASSUME ControlType, FileExact, file # Torn
                 PROVE  LET unanswered == lost + Cardinality({h \in Handlers : pc[h] = "send"}) IN
                        /\ \A outcome \in Outcomes : answered[outcome] <= Total(outcome)
                        /\ Total("successful") + Total("throttled")
                             <= answered.successful + answered.throttled + unanswered
                        /\ \A c \in file :
                             /\ Loadable(c) /\ c.usage = c.total
                             /\ \A outcome \in Outcomes : SeenAt(c, outcome) = c.total[outcome]
      BY DEF HistoryExact, Outcomes
    <2>1. /\ Snapshot(file)
          /\ \A outcome \in Outcomes : Recorded(outcome) <= TotalIn(file, outcome)
          /\ TotalIn(file, "successful") + TotalIn(file, "throttled") <= Reached
      BY DEF FileExact
    <2>2. \A outcome : Total(outcome) = TotalIn(file, outcome)
      BY DEF Total, TotalIn
    <2>3. ASSUME NEW outcome \in Outcomes
          PROVE  answered[outcome] <= Total(outcome)
      <3>1. /\ answered[outcome] \in Nat /\ Cardinality(SendingAs(outcome)) \in Nat
            /\ TotalIn(file, outcome) \in Nat
        BY <2>1, LedgerType, TotalType
      <3>2. answered[outcome] + Cardinality(SendingAs(outcome)) <= TotalIn(file, outcome)
        BY <2>1 DEF Recorded
      <3> QED BY <2>2, <3>1, <3>2
    <2>4. Total("successful") + Total("throttled")
            <= answered.successful + answered.throttled
                 + (lost + Cardinality({h \in Handlers : pc[h] = "send"}))
      <3>1. /\ answered.successful \in Nat /\ answered.throttled \in Nat /\ lost \in Nat
            /\ Cardinality(Sending) \in Nat
        BY LedgerType DEF ControlType
      <3>2. TotalIn(file, "successful") \in Nat /\ TotalIn(file, "throttled") \in Nat
        BY <2>1, TotalType
      <3> QED BY <2>1, <2>2, <3>1, <3>2 DEF Reached, Sending
    <2>5. ASSUME NEW c \in file
          PROVE  /\ Loadable(c) /\ c.usage = c.total
                 /\ \A outcome \in Outcomes : SeenAt(c, outcome) = c.total[outcome]
      <3>1. Tallied(c) /\ c.total.requests > 0
        BY <2>1 DEF Snapshot
      <3>2. \A counts \in Range(c.seen) : AddsUp(counts) /\ counts.requests > 0
        BY <3>1 DEF Tallied, Range
      <3> QED BY <3>1, <3>2 DEF Tallied, Loadable
    <2> QED BY <2>3, <2>4, <2>5
  <1> QED BY <1>1, ExactAlways, PTL

\* The control state, the limiter's store, the records and the queue of
\* recordings are well typed, and a process that has ended serves nothing.
THEOREM TypeCorrect == Spec => []TypeOK
PROOF
  <1> DEFINE NoneServed == ~ up => InFlight = {}
  <1>1. Init => NoneServed
    BY DEF Init
  <1>2. NoneServed /\ ControlType /\ [Next]_vars => NoneServed'
    <2> SUFFICES ASSUME NoneServed, ControlType, [Next]_vars, ~ up'
                 PROVE  InFlight' = {}
      OBVIOUS
    <2>1. CASE UNCHANGED <<up, pc>>
      BY <2>1 DEF InFlight
    <2>2. CASE Exit
      BY <2>2 DEF Exit, InFlight
    <2>3. ASSUME NEW h \in Handlers, Serve(h), UNCHANGED up
          PROVE  FALSE
      <3>1. pc[h] # "idle"
        BY <2>3 DEF Serve, Resolve, Route, Send, RecordLoad, RecordOpen, RecordWrite
      <3> QED BY <2>3, <3>1 DEF InFlight
    <2>4. ASSUME NEW h \in Handlers, Serve(h), ~ Exit
          PROVE  UNCHANGED up
      BY <2>4 DEF Serve, Resolve, Route, Send, RecordLoad, RecordOpen, RecordWrite
    <2>5. CASE Tick \/ Restart \/ UNCHANGED vars
      BY <2>1, <2>5 DEF Tick, Restart, vars, requests
    <2>6. ASSUME NEW h \in Handlers, Arrive(h)
          PROVE  FALSE
      BY <2>6 DEF Arrive
    <2> QED BY <2>2, <2>3, <2>4, <2>5, <2>6 DEF Next, Killed, Quiet
  <1>3. ControlType /\ Queueing /\ FileExact /\ NoneServed => TypeOK
    <2> SUFFICES ASSUME ControlType, Queueing, FileExact, NoneServed PROVE TypeOK
      OBVIOUS
    <2>1. file = Torn \/ \A c \in file : IsConsumer(c)
      BY DEF FileExact, Snapshot, Tallied
    <2>2. windows \in [Ips -> [count : Nat, resetAt : 0 .. MaxTime + Window]]
      BY DEF ControlType
    <2>3. DOMAIN queue = 1 .. Len(queue) /\ \A i \in 1 .. Len(queue) : queue[i] \in Handlers
      BY DEF Queueing
    <2>4. IsInjective(queue)
      BY <2>3 DEF Queueing, IsInjective
    <2>5. ToSet(queue) \subseteq InFlight
      <3>1. \A i \in 1 .. Len(queue) : queue[i] \in InFlight
        BY <2>3 DEF Queueing, Waiting, InFlight
      <3> QED BY <2>3, <3>1 DEF ToSet
    <2> QED BY <2>1, <2>2, <2>4, <2>5 DEF TypeOK
  <1> QED BY <1>1, <1>2, <1>3, ControlInit, ControlStep, ExactAlways, PTL DEF Spec

-----------------------------------------------------------------------------
(* Consumers that declare who they are stay apart.  The uniqueness that the *)
(* lookups ask for is not needed: any record they could find will do.      *)

\* The addresses a declared consumer calls from.
HomeOf(id) == {Address(req) : req \in {r \in Callers : r.declared = id}}

\* The record is the consumer's by its id or its declared id, or has seen one
\* of the consumer's requests or of the silent ones at its addresses.
Touches(c, id) ==
  \/ c.id = <<"consumer_header", id>>
  \/ c.declared = id
  \/ \E a \in HomeOf(id) : Observed(c, a)

AloneDeclared == {id \in Declared : Alone(id)}

\* A record belongs to one such consumer at most, and while it does without
\* saying so it has no user agent: only a request from the consumer's own
\* address, which is the consumer's or silent, gets such a record.  A record
\* that is known by an address has seen it, one known by an agent has an agent.
KeptApart(c) ==
  /\ \A id, id2 \in AloneDeclared : Touches(c, id) /\ Touches(c, id2) => id = id2
  /\ \A id \in AloneDeclared : Touches(c, id) => c.declared # None \/ c.agent = None
  /\ \A ip : c.id = <<"ip", ip>> \/ c.fallback = <<"ip", ip>> => Observed(c, ip)
  /\ \A name : c.id = <<"user_agent", name>> \/ c.fallback = <<"user_agent", name>>
                 => c.agent # None

ApartFile == file # Torn => \A c \in file : KeptApart(c)
ApartPending == \A h \in Handlers : Saving(h) => \A c \in pending[h] : KeptApart(c)

\* What the fallback lookups and the lookups by agent find.
IsFallback(c, req) ==
  \/ c.fallback = Fallback(req)
  \/ req.agent # None /\ AgentsMatch(c.agent, req.agent)
  \/ req.agent = None /\ Observed(c, Address(req))

\* What any lookup may find.
Found(c, req) ==
  \/ c.id = IdentityId(req)
  \/ req.declared # None /\ c.declared = req.declared
  \/ req.declared # None /\ c.declared = None /\ IsFallback(c, req)
  \/ req.agent # None /\ AgentsMatch(c.agent, req.agent) /\ Observed(c, Address(req))
  \/ req.declared # None /\ c.declared = None /\ req.agent # None /\ AgentsMatch(c.agent, req.agent)
  \/ req.declared = None /\ IsFallback(c, req)

LEMMA MatchesAreFound ==
  ASSUME NEW S, NEW req, NEW c \in Matches(S, req)
  PROVE  Found(c, req)
PROOF
  <1> DEFINE found == Candidates(S, req)
  <1>1. PICK k \in 1 .. 6 : c \in found[k]
    BY FirstLookup
  <1>2. \A d \in FallbackMatches(S, req) : IsFallback(d, req)
    BY DEF FallbackMatches, IsFallback
  <1>3. k = 1 \/ k = 2 \/ k = 3 \/ k = 4 \/ k = 5 \/ k = 6
    BY <1>1
  <1>4. CASE k = 1
    BY <1>1, <1>4, Lookups DEF Found
  <1>5. CASE k = 2
    BY <1>1, <1>5 DEF Candidates, Found
  <1>6. CASE k = 3
    BY <1>1, <1>2, <1>6, UniqueSubset DEF Candidates, Undeclared, Found
  <1>7. CASE k = 4
    BY <1>1, <1>7, UniqueSubset DEF Candidates, Found
  <1>8. CASE k = 5
    <2>1. CASE req.declared # None
      BY <1>1, <1>8, <2>1, UniqueSubset DEF Candidates, Undeclared, Found
    <2>2. CASE req.declared = None
      <3>1. req.agent # None /\ AgentsMatch(c.agent, req.agent)
        BY <1>1, <1>8, <2>2, UniqueSubset DEF Candidates
      <3> QED BY <2>2, <3>1 DEF Found, IsFallback
    <2> QED BY <2>1, <2>2
  <1>9. CASE k = 6
    BY <1>1, <1>2, <1>9, UniqueSubset DEF Candidates, Found
  <1> QED BY <1>3, <1>4, <1>5, <1>6, <1>7, <1>8, <1>9

\* The attributes of a record that a request was merged into.
LEMMA MergedAttributes ==
  ASSUME NEW c, IsRecord(c), NEW req, NEW throttled \in BOOLEAN
  PROVE  LET merged == Merged(c, req, throttled) IN
         /\ merged.id = c.id
         /\ merged.declared = OrElse(req.declared, c.declared)
         /\ merged.agent = OrElse(req.agent, c.agent)
         /\ merged.fallback \in {Fallback(req), c.fallback}
         /\ \A a : Observed(merged, a) <=> Observed(c, a) \/ a = Address(req)
PROOF
  <1> DEFINE merged == Merged(c, req, throttled)
  <1>1. /\ merged.id = c.id
        /\ merged.declared = OrElse(req.declared, c.declared)
        /\ merged.agent = OrElse(req.agent, c.agent)
        /\ merged.fallback = StoredFallback(c, req)
        /\ merged.seen = ObservedIps(c, Address(req), TrackedOutcome(throttled))
    BY DEF Merged, IsRecord
  <1> HIDE DEF merged
  <1>2. DOMAIN merged.seen = DOMAIN c.seen \cup {Address(req)}
    BY <1>1 DEF ObservedIps
  <1> QED BY <1>1, <1>2 DEF Observed, StoredFallback, merged

\* A new record gets the fallback identity of its request.
LEMMA MergedFallback ==
  ASSUME NEW req, NEW throttled \in BOOLEAN
  PROVE  Merged(NewConsumer(req), req, throttled).fallback = Fallback(req)
PROOF
  <1> DEFINE c == NewConsumer(req)
  <1>1. Merged(c, req, throttled).fallback = StoredFallback(c, req) /\ c.fallback = None
    BY DEF Merged, NewConsumer
  <1> QED BY <1>1 DEF StoredFallback

\* At the address of a consumer that is alone, a request is the consumer's or
\* says nothing, so that two such consumers share no address.
LEMMA HomesAreApart ==
  ASSUME NEW req \in Callers, NEW id \in AloneDeclared, Address(req) \in HomeOf(id)
  PROVE  /\ id # None
         /\ req.declared = id \/ (req.declared = None /\ req.agent = None)
         /\ \A id2 \in AloneDeclared : Address(req) \in HomeOf(id2) => id = id2
PROOF
  <1>1. id # None /\ Alone(id)
    BY DEF AloneDeclared, Declared
  <1>2. PICK own \in Callers : own.declared = id /\ Address(own) = Address(req)
    BY DEF HomeOf
  <1>3. \A other \in Callers :
          other.declared # id /\ Address(other) = Address(req) =>
            other.declared = None /\ other.agent = None
    BY <1>1, <1>2 DEF Alone
  <1>4. ASSUME NEW id2 \in AloneDeclared, Address(req) \in HomeOf(id2)
        PROVE  id = id2
    <2>1. PICK own2 \in Callers : own2.declared = id2 /\ Address(own2) = Address(req)
      BY <1>4 DEF HomeOf
    <2>2. id2 # None
      BY DEF AloneDeclared, Declared
    <2> QED BY <1>3, <2>1, <2>2
  <1> QED BY <1>1, <1>3, <1>4

\* What the ids of consumers without a declared id are.
LEMMA IdentityFacts ==
  ASSUME NEW req
  PROVE  /\ req.declared # None => IdentityId(req) = <<"consumer_header", req.declared>>
         /\ req.declared = None => IdentityId(req) = Fallback(req)
         /\ \A id : IdentityId(req) = <<"consumer_header", id>> => req.declared = id
         /\ \A ip : IdentityId(req) = <<"ip", ip>> => ip = Address(req)
         /\ \A name : IdentityId(req) = <<"user_agent", name>> => req.agent # None
         /\ \A ip : Fallback(req) = <<"ip", ip>> => ip = Address(req)
         /\ \A name : Fallback(req) = <<"user_agent", name>> => req.agent # None
         /\ req.agent # None => Fallback(req) = <<"user_agent", AgentName(req.agent)>>
         /\ req.agent = None => Fallback(req) = <<"ip", Address(req)>>
BY DEF IdentityId, Fallback

\* A request gives a record to another consumer only from its address.
LEMMA TouchedFromHome ==
  ASSUME NEW c, IsRecord(c), NEW req \in Callers, NEW throttled \in BOOLEAN, NEW id \in Declared,
         Touches(Merged(c, req, throttled), id)
  PROVE  \/ Touches(c, id)
         \/ Address(req) \in HomeOf(id)
PROOF
  <1> DEFINE merged == Merged(c, req, throttled)
  <1>1. /\ merged.id = c.id
        /\ merged.declared = OrElse(req.declared, c.declared)
        /\ \A a : Observed(merged, a) <=> Observed(c, a) \/ a = Address(req)
    BY MergedAttributes
  <1>2. Touches(merged, id)
    OBVIOUS
  <1> HIDE DEF merged
  <1>3. req.declared = id => Address(req) \in HomeOf(id)
    BY DEF HomeOf
  <1> QED BY <1>1, <1>2, <1>3 DEF Touches, OrElse

\* A record that a request finds, or makes, stays apart with the request in it.
LEMMA MergedKeptApart ==
  ASSUME NEW c, IsRecord(c), NEW req \in Callers, NEW throttled \in BOOLEAN,
         (KeptApart(c) /\ Found(c, req)) \/ c = NewConsumer(req)
  PROVE  KeptApart(Merged(c, req, throttled))
PROOF
  <1> DEFINE merged == Merged(c, req, throttled)
  <1>1. /\ merged.id = c.id
        /\ merged.declared = OrElse(req.declared, c.declared)
        /\ merged.agent = OrElse(req.agent, c.agent)
        /\ merged.fallback \in {Fallback(req), c.fallback}
        /\ \A a : Observed(merged, a) <=> Observed(c, a) \/ a = Address(req)
    BY MergedAttributes
  <1>2. \A id \in Declared : Touches(merged, id) => Touches(c, id) \/ Address(req) \in HomeOf(id)
    BY TouchedFromHome
  <1> SUFFICES KeptApart(merged)
    OBVIOUS
  <1> HIDE DEF merged
  <1>3. AloneDeclared \subseteq Declared
    BY DEF AloneDeclared
  <1>4. CASE KeptApart(c) /\ Found(c, req)
    <2>1. ASSUME NEW id \in AloneDeclared, Address(req) \in HomeOf(id), ~ Touches(c, id)
          PROVE  /\ req.declared = id
                 /\ \A id2 \in AloneDeclared : ~ Touches(c, id2)
      <3>1. ~ Observed(c, Address(req)) /\ c.declared # id /\ c.id # <<"consumer_header", id>>
        BY <2>1 DEF Touches
      <3>2. id # None /\ (req.declared = id \/ (req.declared = None /\ req.agent = None))
        BY <2>1, HomesAreApart
      <3>3. c.id # <<"ip", Address(req)>> /\ c.fallback # <<"ip", Address(req)>>
        BY <1>4, <3>1 DEF KeptApart
      <3>4. req.declared = id
        BY <1>4, <3>1, <3>2, <3>3, IdentityFacts DEF Found, IsFallback
      <3>5. /\ c.declared = None
            /\ c.fallback = Fallback(req) \/ (req.agent # None /\ AgentsMatch(c.agent, req.agent))
        BY <1>4, <3>1, <3>2, <3>4, IdentityFacts DEF Found, IsFallback
      <3>6. c.agent # None
        <4>1. CASE req.agent = None
          BY <3>3, <3>5, <4>1, IdentityFacts
        <4>2. CASE req.agent # None
          <5>1. CASE c.fallback = Fallback(req)
            BY <1>4, <4>2, <5>1, IdentityFacts DEF KeptApart
          <5>2. CASE AgentsMatch(c.agent, req.agent)
            BY <4>2, <5>2 DEF AgentsMatch
          <5> QED BY <3>5, <5>1, <5>2
        <4> QED BY <4>1, <4>2
      <3> QED BY <1>4, <3>4, <3>5, <3>6 DEF KeptApart
    <2>2. ASSUME NEW id \in AloneDeclared, NEW id2 \in AloneDeclared,
                 Touches(merged, id), Touches(merged, id2)
          PROVE  id = id2
      <3>1. CASE Touches(c, id) /\ Touches(c, id2)
        BY <1>4, <3>1 DEF KeptApart
      <3>2. CASE ~ Touches(c, id)
        <4>1. Address(req) \in HomeOf(id)
          BY <1>2, <1>3, <2>2, <3>2
        <4>2. ~ Touches(c, id2)
          BY <2>1, <3>2, <4>1
        <4>3. Address(req) \in HomeOf(id2)
          BY <1>2, <1>3, <2>2, <4>2
        <4> QED BY <4>1, <4>3, HomesAreApart
      <3>3. CASE ~ Touches(c, id2)
        <4>1. Address(req) \in HomeOf(id2)
          BY <1>2, <1>3, <2>2, <3>3
        <4>2. ~ Touches(c, id)
          BY <2>1, <3>3, <4>1
        <4>3. Address(req) \in HomeOf(id)
          BY <1>2, <1>3, <2>2, <4>2
        <4> QED BY <4>1, <4>3, HomesAreApart
      <3> QED BY <3>1, <3>2, <3>3
    <2>3. ASSUME NEW id \in AloneDeclared, Touches(merged, id), req.declared = None, req.agent # None
          PROVE  merged.declared # None
      <3>1. Touches(c, id)
        BY <1>2, <1>3, <2>3, HomesAreApart
      <3>2. c.agent # None
        <4>1. c.id = Fallback(req) => c.agent # None
          BY <1>4, <2>3, IdentityFacts DEF KeptApart
        <4>2. c.fallback = Fallback(req) => c.agent # None
          BY <1>4, <2>3, IdentityFacts DEF KeptApart
        <4>3. AgentsMatch(c.agent, req.agent) => c.agent # None
          BY <2>3 DEF AgentsMatch
        <4> QED BY <1>4, <2>3, <4>1, <4>2, <4>3, IdentityFacts DEF Found, IsFallback
      <3> QED BY <1>1, <1>4, <2>3, <3>1, <3>2 DEF KeptApart, OrElse
    <2>4. ASSUME NEW id \in AloneDeclared, Touches(merged, id)
          PROVE  merged.declared # None \/ merged.agent = None
      <3>1. CASE req.declared # None
        BY <1>1, <3>1 DEF OrElse
      <3>2. CASE req.declared = None /\ req.agent # None
        BY <2>3, <2>4, <3>2
      <3>3. CASE req.declared = None /\ req.agent = None
        <4>1. merged.declared = c.declared /\ merged.agent = c.agent
          BY <1>1, <3>3 DEF OrElse
        <4>2. Touches(c, id)
          <5>1. Address(req) \in HomeOf(id) /\ ~ Touches(c, id) => req.declared = id /\ id # None
            BY <2>1, HomesAreApart
          <5> QED BY <1>2, <1>3, <2>4, <3>3, <5>1
        <4> QED BY <1>4, <4>1, <4>2 DEF KeptApart
      <3> QED BY <3>1, <3>2, <3>3
    <2>5. \A ip : merged.id = <<"ip", ip>> \/ merged.fallback = <<"ip", ip>> => Observed(merged, ip)
      BY <1>1, <1>4, IdentityFacts DEF KeptApart
    <2>6. \A name : merged.id = <<"user_agent", name>> \/ merged.fallback = <<"user_agent", name>>
                      => merged.agent # None
      BY <1>1, <1>4, IdentityFacts DEF KeptApart, OrElse
    <2> QED BY <2>2, <2>4, <2>5, <2>6 DEF KeptApart
  <1>5. CASE c = NewConsumer(req)
    <2>1. /\ c.id = IdentityId(req) /\ c.declared = None /\ c.agent = None /\ c.fallback = None
          /\ \A a : ~ Observed(c, a)
      BY <1>5 DEF NewConsumer, Observed
    <2>2. ASSUME NEW id \in AloneDeclared, Touches(merged, id)
          PROVE  Address(req) \in HomeOf(id)
      <3>1. Touches(c, id) => req.declared = id
        BY <2>1, IdentityFacts DEF Touches, AloneDeclared, Declared
      <3> QED BY <1>2, <1>3, <2>2, <3>1 DEF HomeOf
    <2>3. \A id, id2 \in AloneDeclared : Touches(merged, id) /\ Touches(merged, id2) => id = id2
      BY <2>2, HomesAreApart
    <2>4. \A id \in AloneDeclared : Touches(merged, id) => merged.declared # None \/ merged.agent = None
      BY <1>1, <2>1, <2>2, HomesAreApart DEF OrElse
    <2>5. merged.fallback = Fallback(req)
      BY <1>5, MergedFallback DEF merged
    <2>6. \A ip : merged.id = <<"ip", ip>> \/ merged.fallback = <<"ip", ip>> => Observed(merged, ip)
      BY <1>1, <2>1, <2>5, IdentityFacts
    <2>7. \A name : merged.id = <<"user_agent", name>> \/ merged.fallback = <<"user_agent", name>>
                      => merged.agent # None
      BY <1>1, <2>1, <2>5, IdentityFacts DEF OrElse
    <2> QED BY <2>3, <2>4, <2>6, <2>7 DEF KeptApart
  <1> QED BY <1>4, <1>5

LEMMA ApartStep ==
  ControlType /\ Queueing /\ FileExact /\ ApartFile /\ ApartPending /\ [Next]_vars
    => ApartFile' /\ ApartPending'
PROOF
  <1> SUFFICES ASSUME ControlType, Queueing, FileExact, ApartFile, ApartPending, [Next]_vars
               PROVE  ApartFile' /\ ApartPending'
    OBVIOUS
  <1>1. ASSUME UNCHANGED <<file, pending>>, \A h \in Handlers : Saving(h)' => Saving(h)
        PROVE  ApartFile' /\ ApartPending'
    BY <1>1 DEF ApartFile, ApartPending
  <1>2. CASE Tick \/ Restart \/ UNCHANGED vars
    <2>1. UNCHANGED <<file, pc, pending>>
      BY <1>2 DEF Tick, Restart, vars, requests
    <2> QED BY <1>1, <2>1 DEF Saving
  <1>3. CASE Exit
    BY <1>3 DEF Exit, ApartFile, ApartPending, Saving
  <1>4. ASSUME NEW h \in Handlers, NEW label, Goto(h, label), UNCHANGED <<file, pending>>,
               Saving(h) \/ label \notin {"recordOpen", "recordWrite"}
        PROVE  ApartFile' /\ ApartPending'
    BY <1>1, <1>4 DEF Goto, Saving, ControlType
  <1>5. ASSUME NEW h \in Handlers, RecordLoad(h), ~ Exit
        PROVE  ApartFile' /\ ApartPending'
    <2>1. /\ UNCHANGED file /\ file # Torn /\ Goto(h, "recordOpen")
          /\ FirstInQueue(h) /\ Snapshot(file)
      BY <1>5 DEF RecordLoad, Readable, FileExact
    <2>2. PICK c \in IF Matches(file, caller[h]) = {} THEN {NewConsumer(caller[h])}
                     ELSE Matches(file, caller[h]) :
            pending' = [pending EXCEPT ![h] = (file \ {c}) \cup {Merged(c, caller[h], limited[h])}]
      BY <1>5 DEF RecordLoad
    <2>3. caller[h] \in Callers /\ limited[h] \in BOOLEAN
      BY DEF ControlType
    <2>4. \/ c \in file /\ Found(c, caller[h])
          \/ c = NewConsumer(caller[h])
      BY <2>2, MatchesInFile, MatchesAreFound
    <2>5. IsRecord(c)
      BY <2>1, <2>3, <2>4, NewIsTallied DEF Snapshot, Tallied
    <2>6. (KeptApart(c) /\ Found(c, caller[h])) \/ c = NewConsumer(caller[h])
      BY <2>1, <2>4 DEF ApartFile
    <2>7. KeptApart(Merged(c, caller[h], limited[h]))
      BY <2>3, <2>5, <2>6, MergedKeptApart
    <2>8. \A d \in pending'[h] : KeptApart(d)
      <3>1. pending'[h] = (file \ {c}) \cup {Merged(c, caller[h], limited[h])}
        BY <2>2 DEF ControlType
      <3> QED BY <2>1, <2>7, <3>1 DEF ApartFile
    <2>9. \A g \in Handlers : Saving(g)' => g = h
      BY <2>1 DEF Saving, Goto, ControlType, Queueing, FirstInQueue
    <2> QED BY <2>1, <2>8, <2>9 DEF ApartFile, ApartPending
  <1>6. ASSUME NEW h \in Handlers, Serve(h)
        PROVE  ApartFile' /\ ApartPending'
    <2>1. CASE Resolve(h) /\ ~ Exit
      BY <1>4, <2>1 DEF Resolve
    <2>2. CASE Route(h)
      BY <1>4, <2>2 DEF Route
    <2>3. CASE RecordLoad(h) /\ ~ Exit
      BY <1>5, <2>3
    <2>4. CASE RecordOpen(h)
      <3>1. \A g \in Handlers : Saving(g)' => Saving(g)
        BY <2>4 DEF RecordOpen, Saving, Goto, ControlType
      <3> QED BY <2>4, <3>1 DEF RecordOpen, ApartFile, ApartPending
    <2>5. CASE RecordWrite(h)
      <3>1. Saving(h) /\ \A g \in Handlers : Saving(g)' => g # h /\ Saving(g)
        BY <2>5 DEF RecordWrite, Saving, Goto, ControlType
      <3>2. \A g \in Handlers : ~ Saving(g)'
        BY <3>1 DEF Queueing
      <3> QED BY <2>5, <3>1, <3>2 DEF RecordWrite, ApartFile, ApartPending
    <2>6. CASE Send(h)
      BY <1>4, <2>6 DEF Send
    <2> QED BY <1>3, <1>6, <2>1, <2>2, <2>3, <2>4, <2>5, <2>6 DEF Serve
  <1>7. ASSUME NEW h \in Handlers, Arrive(h)
        PROVE  ApartFile' /\ ApartPending'
    BY <1>4, <1>7 DEF Arrive
  <1> QED BY <1>2, <1>3, <1>6, <1>7 DEF Next, Killed, Quiet

\* Whatever agents and addresses other callers share, whoever calls first, and
\* whichever recordings a kill cuts short: no record of the file mixes two
\* declared consumers whose addresses nobody else declares itself from.
THEOREM ConsumersStayApart == Spec => []DeclaredConsumersStayApart
PROOF
  <1>1. Init => ApartFile /\ ApartPending
    BY DEF Init, ApartFile, ApartPending, Saving
  <1>2. ApartFile => DeclaredConsumersStayApart
    <2> SUFFICES ASSUME ApartFile, file # Torn,
                        NEW c \in file, NEW req \in Callers, NEW req2 \in Callers,
                        req.declared \in Declared, req2.declared \in Declared,
                        Alone(req.declared), Alone(req2.declared),
                        Observed(c, Address(req)), Observed(c, Address(req2))
                 PROVE  req.declared = req2.declared
      BY DEF DeclaredConsumersStayApart
    <2>1. Address(req) \in HomeOf(req.declared) /\ Address(req2) \in HomeOf(req2.declared)
      BY DEF HomeOf
    <2>2. Touches(c, req.declared) /\ Touches(c, req2.declared)
      BY <2>1 DEF Touches
    <2>3. req.declared \in AloneDeclared /\ req2.declared \in AloneDeclared
      BY DEF AloneDeclared
    <2> QED BY <2>2, <2>3 DEF ApartFile, KeptApart
  <1> QED BY <1>1, <1>2, ApartStep, ExactAlways, PTL DEF Spec
================================================================================
