------------------------ MODULE PublicationRunsProofs ------------------------
(***************************************************************************)
(* Proofs about PublicationRuns, for every number of handlers, items and   *)
(* slots, every mix of faults and every clock bound.                       *)
(***************************************************************************)
EXTENDS PublicationRuns, TLAPS, FiniteSetTheorems, WellFoundedInduction

-----------------------------------------------------------------------------
(* Arithmetic of slots and finite sets of numbers.                         *)

\* The slot of every time the clock can show is one of Slots: the plan and
\* the lock never leave the modelled tables.
LEMMA SlotInRange ==
  \A t \in 0 .. MaxTime : SlotOf(t) \in Slots
PROOF
  <1> USE RunsAssumption
  <1> SUFFICES ASSUME NEW t \in 0 .. MaxTime
               PROVE  SlotOf(t) \in Slots
    OBVIOUS
  <1>1. t \in Nat /\ t <= MaxTime
    OBVIOUS
  <1>2. t \div SlotLength \in Nat /\ MaxTime \div SlotLength \in Nat
    BY <1>1
  <1>3. t \div SlotLength <= MaxTime \div SlotLength
    BY <1>1, <1>2
  <1> QED
    BY <1>2, <1>3 DEF SlotOf, Slots

\* A nonempty finite set of integers has a greatest element, which is what
\* MaxOver returns.
LEMMA MaxOverIsMax ==
  ASSUME NEW S \in SUBSET Int, IsFiniteSet(S), S # {}
  PROVE  MaxOver(S) \in S /\ \A n \in S : n <= MaxOver(S)
PROOF
  <1> DEFINE HasMax(U) == \E m \in U : \A n \in U : n <= m
             Bad == {U \in FiniteSubsetsOf(S) : U # {} /\ ~ HasMax(U)}
  <1>1. Bad = {}
    <2> SUFFICES ASSUME Bad # {} PROVE FALSE
      OBVIOUS
    <2>1. Bad \subseteq FiniteSubsetsOf(S)
      OBVIOUS
    <2>2. IsWellFoundedOn(StrictSubsetOrdering(S), FiniteSubsetsOf(S))
      BY FS_StrictSubsetOrderingWellFounded
    <2>3. PICK U \in Bad : \A V \in Bad : <<V, U>> \notin StrictSubsetOrdering(S)
      <3> HIDE DEF Bad
      <3> QED BY <2>1, <2>2, WFMin
    <2>4. U \in SUBSET S /\ IsFiniteSet(U) /\ U # {} /\ ~ HasMax(U)
      BY DEF FiniteSubsetsOf
    <2>5. PICK x \in U : TRUE
      BY <2>4
    <2> DEFINE V == U \ {x}
    <2>6. IsFiniteSet(V) /\ V \in SUBSET S /\ V # U
      BY <2>4, FS_RemoveElement
    <2>7. <<V, U>> \in StrictSubsetOrdering(S)
      BY <2>4, <2>6 DEF StrictSubsetOrdering
    <2>8. V \notin Bad
      BY <2>3, <2>7
    <2>9. V = {} \/ HasMax(V)
      BY <2>6, <2>8 DEF FiniteSubsetsOf
    <2>10. CASE V = {}
      <3>1. U = {x} /\ x \in Int
        BY <2>4, <2>10
      <3> QED BY <2>4, <3>1
    <2>11. CASE HasMax(V)
      <3>1. PICK m \in V : \A n \in V : n <= m
        BY <2>11
      <3>2. m \in Int /\ x \in Int /\ (\A n \in V : n \in Int)
        BY <2>4
      <3>3. CASE x <= m
        BY <2>4, <3>1, <3>2, <3>3
      <3>4. CASE m <= x
        <4>1. \A n \in U : n <= x
          BY <3>1, <3>2, <3>4
        <4> QED BY <2>4, <4>1
      <3> QED BY <3>2, <3>3, <3>4
    <2> QED BY <2>9, <2>10, <2>11
  <1>2. S \in FiniteSubsetsOf(S)
    BY DEF FiniteSubsetsOf
  <1>3. HasMax(S)
    BY <1>1, <1>2
  <1> QED BY <1>3 DEF MaxOver

\* There are finitely many slots, all of them numbers.
LEMMA SlotsFinite ==
  IsFiniteSet(Slots) /\ Slots \subseteq Nat
PROOF
  <1>1. MaxTime \in 0 .. MaxTime
    BY RunsAssumption
  <1>2. SlotOf(MaxTime) \in Nat
    BY <1>1, SlotInRange DEF Slots
  <1> QED BY <1>2, FS_Interval DEF Slots

\* The earlier appearances of an item are finitely many slots.
LEMMA AppearancesFinite ==
  ASSUME NEW i, NEW p
  PROVE  /\ Appearances(i, p) \in SUBSET Slots
         /\ IsFiniteSet(Appearances(i, p))
         /\ Cardinality(Appearances(i, p)) \in Nat
PROOF
  <1>1. Appearances(i, p) \in SUBSET Slots
    BY DEF Appearances
  <1> QED BY <1>1, SlotsFinite, FS_Subset, FS_CardinalityType

-----------------------------------------------------------------------------
(* Type correctness.                                                       *)

\* EditionTrack takes the maximum of a finite nonempty set of numbers.
LEMMA EditionTrackOneOf ==
  ASSUME TypeOK, NEW i \in Items, NEW p, Appearances(i, p) # {}
  PROVE  LET seen == Appearances(i, p)
             from(s) == editions[s][i] + Cardinality({t \in seen : t > s})
         IN  /\ \A s \in seen : from(s) \in Nat
             /\ \E s \in seen : EditionTrack(i, p) = from(s)
PROOF
  <1> DEFINE seen == Appearances(i, p)
             from(s) == editions[s][i] + Cardinality({t \in seen : t > s})
             S == {from(s) : s \in seen}
             f == [s \in seen |-> from(s)]
  <1>1. seen \in SUBSET Slots /\ IsFiniteSet(seen)
    BY AppearancesFinite
  <1>2. ASSUME NEW s \in seen
        PROVE  from(s) \in Nat
    <2>1. editions[s] \in Edition
      BY <1>1 DEF Appearances, TypeOK
    <2>2. editions[s][i] \in Nat
      BY <2>1 DEF Edition
    <2>3. Cardinality({t \in seen : t > s}) \in Nat
      <3>1. {t \in seen : t > s} \in SUBSET seen
        OBVIOUS
      <3> QED BY <1>1, <3>1, FS_Subset, FS_CardinalityType
    <2> QED BY <2>2, <2>3
  <1>3. f \in Surjection(seen, S)
    BY DEF Surjection
  <1>4. IsFiniteSet(S)
    BY <1>1, <1>3, FS_Surjection
  <1>5. S \in SUBSET Int
    <2> HIDE DEF from
    <2> QED BY <1>2
  <1>6. S # {}
    OBVIOUS
  <1>7. MaxOver(S) \in S
    <2> HIDE DEF S
    <2> QED BY <1>4, <1>5, <1>6, MaxOverIsMax
  <1>8. EditionTrack(i, p) = MaxOver(S)
    BY DEF EditionTrack
  <1> QED BY <1>2, <1>7, <1>8

\* The number of editions the archive credits an item with is a number.
LEMMA EditionTrackType ==
  ASSUME TypeOK, NEW i \in Items, NEW p
  PROVE  EditionTrack(i, p) \in Nat
PROOF
  <1>1. CASE Appearances(i, p) = {}
    BY <1>1 DEF EditionTrack
  <1>2. CASE Appearances(i, p) # {}
    BY <1>2, EditionTrackOneOf
  <1> QED BY <1>1, <1>2

\* The number of editions the registry credits an item with is a number.
LEMMA RegistryTrackType ==
  ASSUME NEW r \in Record, NEW p
  PROVE  RegistryTrack(r, p) \in Nat
PROOF
  <1>1. {s \in r.seenIn : s < p} \in SUBSET Slots
    BY DEF Record
  <1>2. Cardinality({s \in r.seenIn : s < p}) \in Nat
    BY <1>1, SlotsFinite, FS_Subset, FS_CardinalityType
  <1>3. r.count \in Nat
    BY DEF Record
  <1> QED BY <1>2, <1>3 DEF RegistryTrack, MaxOf

\* recordEdition turns a registry into a registry.
LEMMA RecordedType ==
  ASSUME NEW snap \in [Items -> Record], NEW s \in Slots, editions[s] \in Edition
  PROVE  Recorded(snap, s) \in [Items -> Record]
PROOF
  <1> SUFFICES ASSUME NEW i \in Items
               PROVE  Recorded(snap, s)[i] \in Record
    BY DEF Recorded
  <1>1. snap[i] \in Record /\ editions[s][i] \in Nat
    BY DEF Edition
  <1>2. snap[i].seenIn \cup {s} \in SUBSET Slots
    BY <1>1 DEF Record
  <1>3. Cardinality(snap[i].seenIn \cup {s}) \in Nat
    BY <1>2, SlotsFinite, FS_Subset, FS_CardinalityType
  <1>4. MaxOf(editions[s][i], Cardinality(snap[i].seenIn \cup {s})) \in Nat
    BY <1>1, <1>3 DEF MaxOf
  <1> QED BY <1>1, <1>2, <1>4 DEF Recorded, Record

\* The initial tables, handlers and flows are well typed.
LEMMA InitType == Init => TypeOK
PROOF
  <1> SUFFICES ASSUME Init PROVE TypeOK
    OBVIOUS
  <1>1. 0 \in 0 .. MaxTime
    BY RunsAssumption
  <1>2. SlotOf(0) = 0
    BY RunsAssumption DEF SlotOf
  <1>3. 0 \in Slots
    BY <1>1, <1>2, SlotInRange
  <1> QED BY <1>1, <1>3
        DEF Init, TypeOK, RunRow, NoRun, NoRecord, EmptyRegistry, Untracked,
            Record, Answered

\* Settling or taking a lock row gives a well-typed table.
LEMMA SetRunType ==
  ASSUME runs \in [Slots -> RunRow], NEW s \in Slots,
         NEW status \in {"running", "completed", "failed"},
         NEW editionId \in Slots \cup {None}, SetRun(s, status, editionId)
  PROVE  runs' \in [Slots -> RunRow]
PROOF
  <1>1. [status |-> status, editionId |-> editionId] \in RunRow
    BY DEF RunRow
  <1> QED BY <1>1 DEF SetRun

\* The edition id of a row is a slot or absent.
LEMMA RowEditionType ==
  ASSUME runs \in [Slots -> RunRow], NEW s \in Slots
  PROVE  runs[s].editionId \in Slots \cup {None}
  BY DEF RunRow

\* A flow that got past its publication has a stored edition.
FlowHasEdition ==
  \A h \in Handlers : pc[h] \in {"recordLoad", "recordSave", "markCompleted"} =>
    editions[plan[h]] # None

\* Every step of the publisher keeps the types.
LEMMA StepType == TypeOK /\ FlowHasEdition /\ [Next]_vars => TypeOK'
PROOF
  <1> SUFFICES ASSUME TypeOK, FlowHasEdition, [Next]_vars PROVE TypeOK'
    OBVIOUS
  <1> USE DEF TypeOK, Goto, Answered, Holding, Locking
  <1>1. CASE Tick
    <2>1. now + 1 \in 0 .. MaxTime
      BY <1>1, RunsAssumption DEF Tick
    <2> QED BY <1>1, <2>1 DEF Tick, tables, flow
  <1>2. ASSUME NEW h \in Handlers, Request(h)
        PROVE  TypeOK'
    <2>1. SlotOf(now) \in Slots
      BY SlotInRange
    <2> QED BY <1>2, <2>1 DEF Request, tables, flow
  <1>3. ASSUME NEW h \in Handlers, InsertRun(h)
        PROVE  TypeOK'
    <2>1. runs' \in [Slots -> RunRow]
      BY <1>3, SetRunType DEF InsertRun
    <2>2. pc' \in [Handlers -> Answered \cup Holding \cup Locking]
      BY <1>3 DEF InsertRun, Confirmed, Rejected, ReplyLost
    <2> QED BY <1>3, <2>1, <2>2 DEF InsertRun, flow
  <1>4. ASSUME NEW h \in Handlers, ReadRun(h)
        PROVE  TypeOK'
    BY <1>4 DEF ReadRun, Rejected, tables, flow
  <1>5. ASSUME NEW h \in Handlers, RetryRun(h)
        PROVE  TypeOK'
    <2>1. runs' \in [Slots -> RunRow]
      BY <1>5, SetRunType, RowEditionType DEF RetryRun
    <2>2. pc' \in [Handlers -> Answered \cup Holding \cup Locking]
      BY <1>5 DEF RetryRun, Confirmed, Rejected, ReplyLost
    <2> QED BY <1>5, <2>1, <2>2 DEF RetryRun, flow
  <1>6. ASSUME NEW h \in Handlers, Plan(h)
        PROVE  TypeOK'
    <2>1. SlotOf(now) \in Slots
      BY SlotInRange
    <2> QED BY <1>6, <2>1 DEF Plan, tables
  <1>7. ASSUME NEW h \in Handlers, CheckLatest(h)
        PROVE  TypeOK'
    BY <1>7 DEF CheckLatest, Rejected, tables, flow
  <1>8. ASSUME NEW h \in Handlers, Aggregate(h)
        PROVE  TypeOK'
    BY <1>8 DEF Aggregate, tables
  <1>9. ASSUME NEW h \in Handlers, LoadEditions(h)
        PROVE  TypeOK'
    <2>1. [i \in Items |-> EditionTrack(i, plan[h])] \in [Items -> Nat]
      BY EditionTrackType
    <2> QED BY <1>9, <2>1 DEF LoadEditions, Rejected, tables
  <1>10. ASSUME NEW h \in Handlers, LoadRegistry(h)
         PROVE  TypeOK'
    <2>1. ASSUME NEW i \in Items
          PROVE  MaxOf(tracked[h][i], RegistryTrack(registry[i], plan[h])) \in Nat
      <3>1. RegistryTrack(registry[i], plan[h]) \in Nat
        BY RegistryTrackType
      <3> QED BY <3>1 DEF MaxOf
    <2>2. [i \in Items |-> MaxOf(tracked[h][i], RegistryTrack(registry[i], plan[h]))]
            \in [Items -> Nat]
      BY <2>1
    <2> QED BY <1>10, <2>2 DEF LoadRegistry, Rejected, tables
  <1>11. ASSUME NEW h \in Handlers, Publish(h)
         PROVE  TypeOK'
    <2>1. [i \in Items |-> NextCount(i, h)] \in Edition
      BY DEF Edition, NextCount
    <2>2. Untracked \in [Items -> Nat]
      BY DEF Untracked
    <2>3. editions' \in [Slots -> Edition \cup {None}]
      BY <1>11, <2>1 DEF Publish
    <2>4. pc' \in [Handlers -> Answered \cup Holding \cup Locking]
      BY <1>11 DEF Publish, Confirmed, Rejected, ReplyLost
    <2>5. picked' \in [Handlers -> SUBSET Items]
      BY <1>11 DEF Publish
    <2>6. tracked' \in [Handlers -> [Items -> Nat]]
      BY <1>11, <2>2 DEF Publish
    <2> QED BY <1>11, <2>3, <2>4, <2>5, <2>6 DEF Publish
  <1>12. ASSUME NEW h \in Handlers, RecordLoad(h)
         PROVE  TypeOK'
    BY <1>12 DEF RecordLoad, Rejected, tables
  <1>13. ASSUME NEW h \in Handlers, RecordSave(h)
         PROVE  TypeOK'
    <2>1. plan[h] \in Slots /\ editions[plan[h]] \in Edition
      BY <1>13 DEF RecordSave, FlowHasEdition
    <2>2. Recorded(snapshot[h], plan[h]) \in [Items -> Record]
      BY <2>1, RecordedType
    <2>3. EmptyRegistry \in [Items -> Record]
      BY DEF EmptyRegistry, NoRecord, Record
    <2>4. pc' \in [Handlers -> Answered \cup Holding \cup Locking]
      BY <1>13 DEF RecordSave, Confirmed, Rejected, ReplyLost
    <2>5. registry' \in [Items -> Record]
      BY <1>13, <2>2 DEF RecordSave
    <2>6. snapshot' \in [Handlers -> [Items -> Record]]
      BY <1>13, <2>3 DEF RecordSave
    <2> QED BY <1>13, <2>4, <2>5, <2>6 DEF RecordSave
  <1>14. ASSUME NEW h \in Handlers, MarkCompleted(h)
         PROVE  TypeOK'
    <2>1. runs' \in [Slots -> RunRow]
      BY <1>14, SetRunType DEF MarkCompleted
    <2>2. pc' \in [Handlers -> Answered \cup Holding \cup Locking]
      BY <1>14 DEF MarkCompleted, Confirmed, Rejected, ReplyLost
    <2> QED BY <1>14, <2>1, <2>2 DEF MarkCompleted, flow
  <1>15. ASSUME NEW h \in Handlers, MarkFailed(h)
         PROVE  TypeOK'
    <2>1. runs' \in [Slots -> RunRow]
      BY <1>15, SetRunType, RowEditionType DEF MarkFailed
    <2>2. pc' \in [Handlers -> Answered \cup Holding \cup Locking]
      BY <1>15 DEF MarkFailed, Confirmed, Rejected, ReplyLost
    <2> QED BY <1>15, <2>1, <2>2 DEF MarkFailed, flow
  <1>16. ASSUME NEW h \in Handlers, Killed(h)
         PROVE  TypeOK'
    BY <1>16 DEF Killed, tables, flow
  <1>17. CASE UNCHANGED vars
    BY <1>17 DEF vars, tables, flow
  <1> QED
    BY <1>1, <1>2, <1>3, <1>4, <1>5, <1>6, <1>7, <1>8, <1>9, <1>10, <1>11,
       <1>12, <1>13, <1>14, <1>15, <1>16, <1>17 DEF Next, Handle
-----------------------------------------------------------------------------
(* Editions and types.                                                     *)

\* Only a flow that publishes changes the archive.
LEMMA EditionsWriter ==
  ASSUME [Next]_vars
  PROVE  \/ editions' = editions
         \/ \E h \in Handlers : Publish(h)
PROOF
  <1>1. CASE Tick
    BY <1>1 DEF Tick, tables
  <1>2. ASSUME NEW h \in Handlers, Request(h)
        PROVE  editions' = editions
    BY <1>2 DEF Request, tables
  <1>3. ASSUME NEW h \in Handlers, Handle(h), ~ Publish(h)
        PROVE  editions' = editions
    BY <1>3 DEF Handle, InsertRun, ReadRun, RetryRun, Plan, CheckLatest, Aggregate,
                LoadEditions, LoadRegistry, RecordLoad, RecordSave, MarkCompleted,
                MarkFailed, tables
  <1>4. ASSUME NEW h \in Handlers, Killed(h)
        PROVE  editions' = editions
    BY <1>4 DEF Killed, tables
  <1>5. CASE UNCHANGED vars
    BY <1>5 DEF vars, tables
  <1> QED BY <1>1, <1>2, <1>3, <1>4, <1>5 DEF Next

\* No step replaces or removes a published edition.
LEMMA EditionsKept ==
  ASSUME TypeOK, [Next]_vars, NEW s \in Slots, editions[s] # None
  PROVE  editions'[s] = editions[s]
PROOF
  <1>1. CASE editions' = editions
    BY <1>1
  <1>2. ASSUME NEW h \in Handlers, Publish(h)
        PROVE  editions'[s] = editions[s]
    BY <1>2 DEF Publish, TypeOK
  <1> QED BY <1>1, <1>2, EditionsWriter

\* A flow past its publication keeps its plan, and the archive its edition.
LEMMA FlowHasEditionStep ==
  TypeOK /\ FlowHasEdition /\ [Next]_vars => FlowHasEdition'
PROOF
  <1> SUFFICES ASSUME TypeOK, FlowHasEdition, [Next]_vars,
                      NEW g \in Handlers,
                      pc'[g] \in {"recordLoad", "recordSave", "markCompleted"}
               PROVE  editions'[plan'[g]] # None
    BY DEF FlowHasEdition
  <1> DEFINE Past == {"recordLoad", "recordSave", "markCompleted"}
  <1>1. ASSUME pc[g] \in Past, plan'[g] = plan[g]
        PROVE  editions'[plan'[g]] # None
    BY <1>1, EditionsKept DEF FlowHasEdition, TypeOK
  <1> USE DEF Goto
  <1>2. CASE Tick
    BY <1>1, <1>2 DEF Tick, flow
  <1>3. ASSUME NEW h \in Handlers, Request(h)
        PROVE  editions'[plan'[g]] # None
    BY <1>1, <1>3 DEF Request, TypeOK, flow
  <1>4. ASSUME NEW h \in Handlers, Killed(h)
        PROVE  editions'[plan'[g]] # None
    BY <1>1, <1>4 DEF Killed, TypeOK, flow
  <1>5. ASSUME NEW h \in Handlers, Handle(h), h # g
        PROVE  editions'[plan'[g]] # None
    <2>1. pc'[g] = pc[g] /\ plan'[g] = plan[g]
      BY <1>5 DEF Handle, InsertRun, ReadRun, RetryRun, Plan, CheckLatest, Aggregate,
                  LoadEditions, LoadRegistry, Publish, RecordLoad, RecordSave,
                  MarkCompleted, MarkFailed, Confirmed, Rejected, ReplyLost, flow, TypeOK
    <2> QED BY <1>1, <2>1
  <1>6. CASE InsertRun(g) \/ ReadRun(g) \/ RetryRun(g) \/ Plan(g) \/ Aggregate(g)
               \/ LoadEditions(g) \/ LoadRegistry(g) \/ MarkCompleted(g) \/ MarkFailed(g)
    <2>1. pc'[g] \notin Past
      BY <1>6 DEF InsertRun, ReadRun, RetryRun, Plan, Aggregate, LoadEditions,
                  LoadRegistry, MarkCompleted, MarkFailed, Confirmed, Rejected,
                  ReplyLost, TypeOK
    <2> QED BY <2>1
  <1>7. CASE CheckLatest(g)
    BY <1>7 DEF CheckLatest, Rejected, tables, flow, TypeOK
  <1>8. CASE Publish(g)
    <2>1. plan'[g] = plan[g] /\ plan[g] \in Slots
      BY <1>8 DEF Publish, TypeOK
    <2>2. [i \in Items |-> NextCount(i, g)] # None
      <3>1. [i \in Items |-> NextCount(i, g)] \in [Items -> Nat]
        BY DEF NextCount, TypeOK
      <3> QED BY <3>1, NoneAssumption
    <2> QED BY <1>8, <2>1, <2>2 DEF Publish, Confirmed, Rejected, ReplyLost, TypeOK
  <1>9. CASE RecordLoad(g)
    BY <1>1, <1>9 DEF RecordLoad, tables, TypeOK
  <1>10. CASE RecordSave(g)
    BY <1>1, <1>10 DEF RecordSave, TypeOK
  <1>11. CASE UNCHANGED vars
    BY <1>1, <1>11 DEF vars, flow
  <1> QED BY <1>2, <1>3, <1>4, <1>5, <1>6, <1>7, <1>8, <1>9, <1>10, <1>11
          DEF Next, Handle

\* The publisher keeps its types, and a flow past its publication has its
\* edition: the two hold each other up, since recordEdition reads the edition.
THEOREM TypeCorrect == Spec => [](TypeOK /\ FlowHasEdition)
PROOF
  <1>1. Init => TypeOK /\ FlowHasEdition
    <2>1. Init => FlowHasEdition
      BY DEF Init, FlowHasEdition
    <2> QED BY <2>1, InitType
  <1>2. TypeOK /\ FlowHasEdition /\ [Next]_vars => (TypeOK /\ FlowHasEdition)'
    BY StepType, FlowHasEditionStep
  <1> QED BY <1>1, <1>2, PTL DEF Spec

\* A published edition is never replaced nor removed, whichever handlers
\* publish it and whichever of their writes fail (EditionsImmutable).
THEOREM EditionsNeverChange == Spec => EditionsImmutable
PROOF
  <1>1. TypeOK /\ FlowHasEdition /\ [Next]_vars
          => [\A s \in Slots : editions[s] # None => editions'[s] = editions[s]]_vars
    BY EditionsKept
  <1> QED BY <1>1, TypeCorrect, PTL DEF Spec, EditionsImmutable
-----------------------------------------------------------------------------
(* The slot lock.                                                          *)

\* A handler acts on its own variables only.
LEMMA OthersKept ==
  ASSUME TypeOK, NEW g \in Handlers, NEW h \in Handlers, h # g,
         Request(h) \/ Handle(h) \/ Killed(h)
  PROVE  /\ pc'[g] = pc[g]
         /\ slot'[g] = slot[g]
         /\ plan'[g] = plan[g]
         /\ tracked'[g] = tracked[g]
         /\ snapshot'[g] = snapshot[g]
PROOF
  <1> USE DEF Goto, TypeOK
  <1>1. CASE Request(h)
    BY <1>1 DEF Request, flow
  <1>2. CASE Killed(h)
    BY <1>2 DEF Killed, flow
  <1>3. CASE InsertRun(h) \/ ReadRun(h) \/ RetryRun(h) \/ MarkCompleted(h) \/ MarkFailed(h)
    BY <1>3 DEF InsertRun, ReadRun, RetryRun, MarkCompleted, MarkFailed, Confirmed,
                Rejected, ReplyLost, flow
  <1>4. CASE Plan(h) \/ CheckLatest(h) \/ Aggregate(h)
    BY <1>4 DEF Plan, CheckLatest, Aggregate, Rejected, flow
  <1>5. CASE LoadEditions(h) \/ LoadRegistry(h)
    BY <1>5 DEF LoadEditions, LoadRegistry, Rejected
  <1>6. CASE Publish(h)
    BY <1>6 DEF Publish, Confirmed, Rejected, ReplyLost
  <1>7. CASE RecordLoad(h) \/ RecordSave(h)
    BY <1>7 DEF RecordLoad, RecordSave, Confirmed, Rejected, ReplyLost
  <1> QED BY <1>1, <1>2, <1>3, <1>4, <1>5, <1>6, <1>7 DEF Handle

\* Four operations write run rows, each the row of its handler's slot.
LEMMA RunsWriter ==
  ASSUME [Next]_vars
  PROVE  \/ runs' = runs
         \/ \E h \in Handlers :
              InsertRun(h) \/ RetryRun(h) \/ MarkCompleted(h) \/ MarkFailed(h)
PROOF
  <1>1. CASE Tick
    BY <1>1 DEF Tick, tables
  <1>2. ASSUME NEW h \in Handlers, Request(h) \/ Killed(h)
        PROVE  runs' = runs
    BY <1>2 DEF Request, Killed, tables
  <1>3. ASSUME NEW h \in Handlers, Handle(h),
               ~ (InsertRun(h) \/ RetryRun(h) \/ MarkCompleted(h) \/ MarkFailed(h))
        PROVE  runs' = runs
    BY <1>3 DEF Handle, ReadRun, Plan, CheckLatest, Aggregate, LoadEditions,
                LoadRegistry, Publish, RecordLoad, RecordSave, tables
  <1>4. CASE UNCHANGED vars
    BY <1>4 DEF vars, tables
  <1> QED BY <1>1, <1>2, <1>3, <1>4 DEF Next

\* The row of a handler that works on a slot is running; only a completion
\* whose reply was lost leaves it completed until the handler marks it failed.
HolderRow ==
  \A h \in Handlers : pc[h] \in Holding =>
    \/ runs[slot[h]].status = "running"
    \/ pc[h] = "markFailed" /\ runs[slot[h]].status = "completed"

\* A handler starts to work on a slot only by taking a row that is absent or
\* failed, and keeps its slot as long as it works.
LEMMA LockEntry ==
  ASSUME TypeOK, [Next]_vars, NEW h \in Handlers, pc'[h] \in Holding
  PROVE  /\ slot'[h] = slot[h]
         /\ \/ pc[h] \in Holding
            \/ InsertRun(h) /\ runs[slot[h]].status = "absent"
            \/ RetryRun(h) /\ runs[slot[h]].status = "failed"
PROOF
  <1> USE DEF Goto, TypeOK
  <1>1. CASE Tick \/ UNCHANGED vars
    BY <1>1 DEF Tick, vars
  <1>2. ASSUME NEW g \in Handlers, g # h, Request(g) \/ Handle(g) \/ Killed(g)
        PROVE  slot'[h] = slot[h] /\ pc[h] \in Holding
    BY <1>2, OthersKept
  <1>3. CASE Request(h) \/ Killed(h)
    BY <1>3 DEF Request, Killed, Holding
  <1>4. CASE InsertRun(h) \/ ReadRun(h) \/ RetryRun(h)
    BY <1>4 DEF InsertRun, ReadRun, RetryRun, Confirmed, Rejected, ReplyLost, Holding
  <1>5. CASE Plan(h) \/ CheckLatest(h) \/ Aggregate(h) \/ LoadEditions(h)
             \/ LoadRegistry(h) \/ Publish(h) \/ RecordLoad(h) \/ RecordSave(h)
             \/ MarkCompleted(h) \/ MarkFailed(h)
    BY <1>5 DEF Plan, CheckLatest, Aggregate, LoadEditions, LoadRegistry, Publish,
                RecordLoad, RecordSave, MarkCompleted, MarkFailed, Holding
  <1> QED BY <1>1, <1>2, <1>3, <1>4, <1>5 DEF Next, Handle

\* The lock survives every step: who takes a row finds no holder of it.
LEMMA SlotLockStep ==
  TypeOK /\ SlotLock /\ HolderRow /\ [Next]_vars => SlotLock'
PROOF
  <1> SUFFICES ASSUME TypeOK, SlotLock, HolderRow, [Next]_vars,
                      NEW g \in Handlers, NEW h \in Handlers, g # h,
                      pc'[g] \in Holding, pc'[h] \in Holding, slot'[g] = slot'[h]
               PROVE  FALSE
    BY DEF SlotLock
  <1>1. slot[g] = slot[h]
    BY LockEntry
  <1>2. ~ (pc[g] \in Holding /\ pc[h] \in Holding)
    BY <1>1 DEF SlotLock
  <1>3. CASE pc[g] \in Holding
    BY <1>1, <1>2, <1>3, LockEntry DEF HolderRow
  <1>4. CASE pc[h] \in Holding
    BY <1>1, <1>2, <1>4, LockEntry DEF HolderRow
  <1>5. CASE pc[g] \notin Holding /\ pc[h] \notin Holding
    <2>1. InsertRun(g) \/ RetryRun(g)
      BY <1>5, LockEntry
    <2>2. pc'[h] = pc[h]
      BY <2>1, OthersKept DEF Handle
    <2> QED BY <1>5, <2>2
  <1> QED BY <1>3, <1>4, <1>5

\* Nobody but its holder rewrites the row of a slot that is being worked on.
LEMMA HolderRowStep ==
  TypeOK /\ SlotLock /\ HolderRow /\ [Next]_vars => HolderRow'
PROOF
  <1> SUFFICES ASSUME TypeOK, SlotLock, HolderRow, [Next]_vars,
                      NEW h \in Handlers, pc'[h] \in Holding
               PROVE  \/ runs'[slot[h]].status = "running"
                      \/ pc'[h] = "markFailed" /\ runs'[slot[h]].status = "completed"
    BY LockEntry DEF HolderRow
  <1> USE DEF Goto, TypeOK
  <1>1. ASSUME NEW g \in Handlers, g # h, Request(g) \/ Handle(g) \/ Killed(g)
        PROVE  runs'[slot[h]] = runs[slot[h]] /\ pc'[h] = pc[h]
    <2>1. pc'[h] = pc[h] /\ slot'[h] = slot[h]
      BY <1>1, OthersKept
    <2>2. CASE InsertRun(g) \/ RetryRun(g)
      BY <2>1, <2>2 DEF InsertRun, RetryRun, SetRun, HolderRow
    <2>3. CASE MarkCompleted(g) \/ MarkFailed(g)
      <3>1. pc[g] \in Holding /\ slot[g] # slot[h]
        BY <2>1, <2>3, <1>1 DEF MarkCompleted, MarkFailed, SlotLock, Holding
      <3> QED BY <2>1, <2>3, <3>1 DEF MarkCompleted, MarkFailed, SetRun
    <2>4. CASE ~ (InsertRun(g) \/ RetryRun(g) \/ MarkCompleted(g) \/ MarkFailed(g))
      BY <1>1, <2>1, <2>4 DEF Request, Killed, Handle, ReadRun, Plan, CheckLatest,
              Aggregate, LoadEditions, LoadRegistry, Publish, RecordLoad, RecordSave,
              tables
    <2> QED BY <2>2, <2>3, <2>4
  <1>2. CASE Tick \/ UNCHANGED vars
    BY <1>2 DEF Tick, vars, tables, HolderRow
  <1>3. CASE Request(h) \/ Killed(h) \/ ReadRun(h)
    BY <1>3 DEF Request, Killed, ReadRun, Rejected, Holding
  <1>4. CASE InsertRun(h) \/ RetryRun(h)
    BY <1>4 DEF InsertRun, RetryRun, SetRun, Confirmed, Rejected, ReplyLost, Holding
  <1>5. CASE Plan(h) \/ CheckLatest(h) \/ Aggregate(h) \/ LoadEditions(h)
             \/ LoadRegistry(h) \/ Publish(h) \/ RecordLoad(h) \/ RecordSave(h)
    BY <1>5 DEF Plan, CheckLatest, Aggregate, LoadEditions, LoadRegistry, Publish,
                RecordLoad, RecordSave, tables, HolderRow, Holding
  <1>6. CASE MarkCompleted(h)
    BY <1>6 DEF MarkCompleted, SetRun, Confirmed, Rejected, ReplyLost, HolderRow, Holding
  <1>7. CASE MarkFailed(h)
    BY <1>7 DEF MarkFailed, Confirmed, Rejected, ReplyLost, Holding
  <1> QED BY <1>1, <1>2, <1>3, <1>4, <1>5, <1>6, <1>7 DEF Next, Handle, HolderRow

\* Two requests never work on the same slot, whatever faults happen (SlotLock).
THEOREM SlotLocked == Spec => []SlotLock
PROOF
  <1>1. Init => SlotLock /\ HolderRow
    BY DEF Init, SlotLock, HolderRow, Holding
  <1>2. TypeOK /\ SlotLock /\ HolderRow /\ [Next]_vars => (SlotLock /\ HolderRow)'
    BY SlotLockStep, HolderRowStep
  <1> QED BY <1>1, <1>2, TypeCorrect, PTL DEF Spec
-----------------------------------------------------------------------------
(* What run rows and answers say about the archive.                        *)

\* A row that was never taken names no edition.
AbsentRowEmpty ==
  \A s \in Slots : runs[s].status = "absent" => runs[s].editionId = None

\* How a step changes a row: it takes it, with the edition it had, it fails it,
\* with the edition it had, or it completes it with an edition that is stored.
LEMMA RowStep ==
  ASSUME TypeOK, FlowHasEdition, [Next]_vars, NEW s \in Slots
  PROVE  \/ runs'[s] = runs[s]
         \/ /\ runs[s].status = "absent"
            /\ runs'[s] = [status |-> "running", editionId |-> None]
         \/ /\ runs'[s].status \in {"running", "failed"}
            /\ runs'[s].editionId = runs[s].editionId
         \/ /\ runs'[s].status = "completed"
            /\ runs'[s].editionId \in Slots
            /\ editions[runs'[s].editionId] # None
PROOF
  <1> USE DEF TypeOK, SetRun
  <1>1. CASE runs' = runs
    BY <1>1
  <1>2. ASSUME NEW h \in Handlers, InsertRun(h), runs'[s] # runs[s]
        PROVE  /\ runs[s].status = "absent"
               /\ runs'[s] = [status |-> "running", editionId |-> None]
    BY <1>2 DEF InsertRun
  <1>3. ASSUME NEW h \in Handlers, RetryRun(h) \/ MarkFailed(h), runs'[s] # runs[s]
        PROVE  /\ runs'[s].status \in {"running", "failed"}
               /\ runs'[s].editionId = runs[s].editionId
    BY <1>3 DEF RetryRun, MarkFailed
  <1>4. ASSUME NEW h \in Handlers, MarkCompleted(h), runs'[s] # runs[s]
        PROVE  /\ runs'[s].status = "completed"
               /\ runs'[s].editionId \in Slots
               /\ editions[runs'[s].editionId] # None
    BY <1>4 DEF MarkCompleted, FlowHasEdition
  <1> QED BY <1>1, <1>2, <1>3, <1>4, RunsWriter

\* The step of RunNamesStoredEdition: a row names what the archive keeps.
LEMMA RunNamesStoredEditionStep ==
  TypeOK /\ FlowHasEdition /\ RunNamesStoredEdition /\ [Next]_vars
    => RunNamesStoredEdition'
PROOF
  <1> SUFFICES ASSUME TypeOK, FlowHasEdition, RunNamesStoredEdition, [Next]_vars,
                      NEW s \in Slots
               PROVE  /\ runs'[s].status = "completed" => runs'[s].editionId # None
                      /\ runs'[s].editionId # None => editions'[runs'[s].editionId] # None
    BY DEF RunNamesStoredEdition
  <1>1. /\ runs[s].status = "completed" => runs[s].editionId # None
        /\ runs[s].editionId # None => editions[runs[s].editionId] # None
    BY DEF RunNamesStoredEdition
  <1>2. runs[s].editionId \in Slots \cup {None}
    BY RowEditionType DEF TypeOK
  <1>3. \A t \in Slots : editions[t] # None => editions'[t] # None
    BY EditionsKept
  <1>4. CASE runs'[s] = runs[s]
    BY <1>1, <1>2, <1>3, <1>4
  <1>5. CASE runs'[s] = [status |-> "running", editionId |-> None]
    BY <1>5
  <1>6. CASE /\ runs'[s].status \in {"running", "failed"}
             /\ runs'[s].editionId = runs[s].editionId
    BY <1>1, <1>2, <1>3, <1>6
  <1>7. CASE /\ runs'[s].status = "completed"
             /\ runs'[s].editionId \in Slots
             /\ editions[runs'[s].editionId] # None
    BY <1>3, <1>7, NoneAssumption
  <1> QED BY <1>4, <1>5, <1>6, <1>7, RowStep

\* Whatever failed, the edition that a run row names is in the archive
\* (RunNamesStoredEdition).
THEOREM RowsNameStoredEditions == Spec => []RunNamesStoredEdition
PROOF
  <1>1. Init => RunNamesStoredEdition
    BY DEF Init, RunNamesStoredEdition, NoRun
  <1> QED BY <1>1, RunNamesStoredEditionStep, TypeCorrect, PTL DEF Spec

\* A row that names an edition keeps naming one.
LEMMA RowEditionKept ==
  ASSUME TypeOK, FlowHasEdition, AbsentRowEmpty, [Next]_vars,
         NEW s \in Slots, runs[s].editionId # None
  PROVE  runs'[s].editionId # None
  BY RowStep, NoneAssumption DEF AbsentRowEmpty

\* The step of AbsentRowEmpty: no row becomes absent.
LEMMA AbsentRowEmptyStep ==
  TypeOK /\ FlowHasEdition /\ AbsentRowEmpty /\ [Next]_vars => AbsentRowEmpty'
PROOF
  <1> SUFFICES ASSUME TypeOK, FlowHasEdition, AbsentRowEmpty, [Next]_vars,
                      NEW s \in Slots, runs'[s].status = "absent"
               PROVE  runs'[s].editionId = None
    BY DEF AbsentRowEmpty
  <1>1. runs'[s] = runs[s]
    BY RowStep
  <1> QED BY <1>1 DEF AbsentRowEmpty

\* The step of PublishedReplyIsDurable: only markPublicationRunCompleted leads
\* to a "published" answer, and nothing undoes what it stored.
LEMMA PublishedReplyIsDurableStep ==
  TypeOK /\ FlowHasEdition /\ AbsentRowEmpty /\ PublishedReplyIsDurable /\ [Next]_vars
    => PublishedReplyIsDurable'
PROOF
  <1> SUFFICES ASSUME TypeOK, FlowHasEdition, AbsentRowEmpty,
                      PublishedReplyIsDurable, [Next]_vars,
                      NEW h \in Handlers, pc'[h] = "published"
               PROVE  /\ editions'[plan'[h]] # None
                      /\ runs'[slot'[h]].editionId # None
    BY DEF PublishedReplyIsDurable
  <1>1. ASSUME pc[h] = "published", plan'[h] = plan[h], slot'[h] = slot[h]
        PROVE  /\ editions'[plan'[h]] # None
               /\ runs'[slot'[h]].editionId # None
    BY <1>1, EditionsKept, RowEditionKept DEF PublishedReplyIsDurable, TypeOK
  <1> USE DEF Goto, TypeOK
  <1>2. CASE Tick \/ UNCHANGED vars
    BY <1>1, <1>2 DEF Tick, vars, flow
  <1>3. ASSUME NEW g \in Handlers, g # h, Request(g) \/ Handle(g) \/ Killed(g)
        PROVE  pc[h] = "published" /\ plan'[h] = plan[h] /\ slot'[h] = slot[h]
    BY <1>3, OthersKept
  <1>4. CASE MarkCompleted(h)
    <2>1. plan'[h] = plan[h] /\ slot'[h] = slot[h]
      BY <1>4 DEF MarkCompleted, flow
    <2>2. editions'[plan'[h]] # None
      BY <1>4, <2>1 DEF MarkCompleted, FlowHasEdition, tables
    <2>3. SetRun(slot[h], "completed", plan[h])
      BY <1>4 DEF MarkCompleted, Rejected
    <2> QED BY <2>1, <2>2, <2>3, NoneAssumption DEF SetRun
  <1>5. CASE Request(h) \/ Killed(h)
    BY <1>5 DEF Request, Killed
  <1>6. CASE InsertRun(h) \/ ReadRun(h) \/ RetryRun(h) \/ Plan(h) \/ CheckLatest(h)
             \/ Aggregate(h)
    BY <1>6 DEF InsertRun, ReadRun, RetryRun, Plan, CheckLatest, Aggregate,
                Confirmed, Rejected, ReplyLost
  <1>7. CASE LoadEditions(h) \/ LoadRegistry(h) \/ Publish(h) \/ RecordLoad(h)
             \/ RecordSave(h) \/ MarkFailed(h)
    BY <1>7 DEF LoadEditions, LoadRegistry, Publish, RecordLoad, RecordSave,
                MarkFailed, Confirmed, Rejected, ReplyLost
  <1> QED BY <1>1, <1>2, <1>3, <1>4, <1>5, <1>6, <1>7 DEF Next, Handle

\* An answer "published" is never a promise without an edition and a row that
\* names one (PublishedReplyIsDurable).
THEOREM PublishedRepliesDurable == Spec => []PublishedReplyIsDurable
PROOF
  <1>1. Init => AbsentRowEmpty /\ PublishedReplyIsDurable
    BY DEF Init, AbsentRowEmpty, PublishedReplyIsDurable, NoRun
  <1> QED BY <1>1, AbsentRowEmptyStep, PublishedReplyIsDurableStep, TypeCorrect,
             PTL DEF Spec
-----------------------------------------------------------------------------
(* The registry and the edition counts.                                    *)

\* Appearances in an archive e that need not be the current one.
Past(e, i, p) == {s \in Slots : s < p /\ e[s] # None /\ e[s][i] > 0}

\* Archive f has every edition of archive e.
Grown(e, f) == \A s \in Slots : e[s] # None => f[s] = e[s]

\* The earlier appearances in any archive are finitely many slots.
LEMMA PastFinite ==
  ASSUME NEW e, NEW i, NEW p
  PROVE  /\ Past(e, i, p) \in SUBSET Slots
         /\ IsFiniteSet(Past(e, i, p))
         /\ Cardinality(Past(e, i, p)) \in Nat
PROOF
  <1>1. Past(e, i, p) \in SUBSET Slots
    BY DEF Past
  <1> QED BY <1>1, SlotsFinite, FS_Subset, FS_CardinalityType

\* A set of earlier appearances is no larger than all of them.
LEMMA PastBounds ==
  ASSUME NEW e, NEW i, NEW p, NEW S \in SUBSET Past(e, i, p)
  PROVE  Cardinality(S) \in Nat /\ Cardinality(S) <= Cardinality(Past(e, i, p))
  BY PastFinite, FS_Subset, FS_CardinalityType

\* Appearances are never lost while the archive grows.
LEMMA PastGrows ==
  ASSUME NEW e, NEW f, Grown(e, f), NEW i, NEW p
  PROVE  Cardinality(Past(e, i, p)) <= Cardinality(Past(f, i, p))
PROOF
  <1>1. Past(e, i, p) \in SUBSET Past(f, i, p)
    BY DEF Past, Grown
  <1> QED BY <1>1, PastBounds

\* An appearance splits the appearances before p into earlier ones, itself and
\* later ones.
LEMMA PastSplits ==
  ASSUME NEW e, NEW i, NEW p \in Slots, NEW s \in Past(e, i, p)
  PROVE  LET later == {t \in Past(e, i, p) : t > s}
         IN  /\ Cardinality(later) \in Nat
             /\ Cardinality(Past(e, i, p))
                   = Cardinality(Past(e, i, s)) + 1 + Cardinality(later)
PROOF
  <1> DEFINE later == {t \in Past(e, i, p) : t > s}
             upto == Past(e, i, s) \cup {s}
  <1>1. s \in Nat /\ p \in Nat /\ s < p
    BY SlotsFinite DEF Past
  <1>2. s \notin Past(e, i, s)
    BY <1>1 DEF Past
  <1>3. IsFiniteSet(upto) /\ Cardinality(upto) = Cardinality(Past(e, i, s)) + 1
    BY <1>2, PastFinite, FS_AddElement
  <1>4. IsFiniteSet(later) /\ Cardinality(later) \in Nat
    BY PastFinite, FS_Subset, FS_CardinalityType
  <1>5. upto \cap later = {}
    <2> SUFFICES ASSUME NEW t \in upto, t \in later PROVE FALSE
      OBVIOUS
    <2>1. t \in Nat /\ t > s /\ (t < s \/ t = s)
      BY SlotsFinite DEF Past
    <2> QED BY <1>1, <2>1
  <1>6. Cardinality(upto \cup later) = Cardinality(upto) + Cardinality(later)
    <2> HIDE DEF upto, later
    <2>1. Cardinality(upto \cap later) = 0
      BY <1>5, FS_EmptySet
    <2>2. Cardinality(upto) \in Nat
      BY <1>3, FS_CardinalityType
    <2>3. Cardinality(upto \cup later)
            = Cardinality(upto) + Cardinality(later) - Cardinality(upto \cap later)
      BY <1>3, <1>4, FS_Union
    <2> QED BY <1>4, <2>1, <2>2, <2>3
  <1>7. upto \cup later = Past(e, i, p)
    <2>1. ASSUME NEW t \in Past(e, i, s) PROVE t \in Past(e, i, p)
      <3>1. t \in Slots /\ t \in Nat /\ t < s /\ e[t] # None /\ e[t][i] > 0
        BY SlotsFinite DEF Past
      <3> QED BY <1>1, <3>1 DEF Past
    <2>2. ASSUME NEW t \in Past(e, i, p) PROVE t \in upto \/ t \in later
      <3>1. t \in Slots /\ t \in Nat /\ e[t] # None /\ e[t][i] > 0
        BY SlotsFinite DEF Past
      <3> QED BY <1>1, <3>1 DEF Past
    <2> QED BY <2>1, <2>2
  <1> QED BY <1>3, <1>4, <1>6, <1>7

\* What the registry may claim of item i: appearances that archive e has, and
\* a count that the appearances before any later slot justify.
RecordJustified(e, r, i) ==
  /\ \A s \in r.seenIn : e[s] # None /\ e[s][i] > 0
  /\ \A p \in Slots :
       (\A s \in r.seenIn : s < p) => r.count <= Cardinality(Past(e, i, p))

\* What was justified stays so while the archive grows.
LEMMA JustifiedGrows ==
  ASSUME NEW e, NEW f, Grown(e, f), NEW i, NEW r \in Record, RecordJustified(e, r, i)
  PROVE  RecordJustified(f, r, i)
PROOF
  <1>1. \A s \in r.seenIn : f[s] # None /\ f[s][i] > 0
    BY DEF RecordJustified, Grown, Record
  <1>2. ASSUME NEW p \in Slots, \A s \in r.seenIn : s < p
        PROVE  r.count <= Cardinality(Past(f, i, p))
    <2>1. r.count <= Cardinality(Past(e, i, p)) /\ r.count \in Nat
      BY <1>2 DEF RecordJustified, Record
    <2> QED BY <2>1, PastGrows, PastFinite
  <1> QED BY <1>1, <1>2 DEF RecordJustified

\* recordEdition claims nothing that its edition does not justify.
LEMMA RecordedJustified ==
  ASSUME TypeOK, CountsNeverInflated,
         NEW snap \in [Items -> Record], NEW s \in Slots, editions[s] # None,
         NEW i \in Items, RecordJustified(editions, snap[i], i)
  PROVE  RecordJustified(editions, Recorded(snap, s)[i], i)
PROOF
  <1> DEFINE seenIn == snap[i].seenIn \cup {s}
             count == editions[s][i]
  <1>1. snap[i] \in Record /\ count \in Nat /\ seenIn \in SUBSET Slots
    BY DEF Record, TypeOK, Edition
  <1>2. CASE count = 0
    BY <1>2 DEF Recorded
  <1>3. CASE count > 0
    <2>1. Recorded(snap, s)[i] =
            [seenIn |-> seenIn, count |-> MaxOf(count, Cardinality(seenIn))]
      BY <1>3 DEF Recorded
    <2>2. \A t \in seenIn : editions[t] # None /\ editions[t][i] > 0
      BY <1>3 DEF RecordJustified
    <2>3. ASSUME NEW p \in Slots, \A t \in seenIn : t < p
          PROVE  MaxOf(count, Cardinality(seenIn)) <= Cardinality(Past(editions, i, p))
      <3>1. s \in Past(editions, i, p) /\ seenIn \in SUBSET Past(editions, i, p)
        BY <1>1, <2>2, <2>3 DEF Past
      <3>2. count <= Cardinality(Past(editions, i, s)) + 1
        BY DEF CountsNeverInflated, Appearances, Past
      <3>3. Cardinality(Past(editions, i, s)) + 1 <= Cardinality(Past(editions, i, p))
        <4> DEFINE later == {t \in Past(editions, i, p) : t > s}
        <4>1. /\ Cardinality(later) \in Nat
              /\ Cardinality(Past(editions, i, p))
                    = Cardinality(Past(editions, i, s)) + 1 + Cardinality(later)
          BY <3>1, PastSplits
        <4> HIDE DEF later
        <4>2. /\ Cardinality(Past(editions, i, s)) \in Nat
              /\ Cardinality(Past(editions, i, p)) \in Nat
          BY PastFinite
        <4> QED BY <4>1, <4>2
      <3>4. /\ Cardinality(seenIn) \in Nat
            /\ Cardinality(seenIn) <= Cardinality(Past(editions, i, p))
        BY <3>1, PastBounds
      <3> QED BY <1>1, <3>2, <3>3, <3>4, PastFinite DEF MaxOf
    <2> QED BY <2>1, <2>2, <2>3 DEF RecordJustified
  <1> QED BY <1>1, <1>2, <1>3

\* A justified record credits an item with appearances before p only.
LEMMA RegistryTrackBound ==
  ASSUME NEW e, NEW i, NEW r \in Record, RecordJustified(e, r, i), NEW p \in Slots
  PROVE  RegistryTrack(r, p) <= Cardinality(Past(e, i, p))
PROOF
  <1> DEFINE prior == {s \in r.seenIn : s < p}
             persisted == IF \E s \in r.seenIn : s >= p THEN 0 ELSE r.count
  <1>1. r.seenIn \in SUBSET Slots /\ r.count \in Nat
    BY DEF Record
  <1>2. prior \in SUBSET Past(e, i, p)
    BY <1>1 DEF RecordJustified, Past
  <1>3. Cardinality(prior) \in Nat /\ Cardinality(prior) <= Cardinality(Past(e, i, p))
    BY <1>2, PastBounds
  <1>4. persisted \in Nat /\ persisted <= Cardinality(Past(e, i, p))
    <2>1. CASE \E s \in r.seenIn : s >= p
      BY <2>1, PastFinite
    <2>2. CASE \A s \in r.seenIn : ~ (s >= p)
      <3>1. \A s \in r.seenIn : s < p
        BY <1>1, <2>2, SlotsFinite
      <3> QED BY <1>1, <2>2, <3>1 DEF RecordJustified
    <2> QED BY <2>1, <2>2
  <1> QED BY <1>3, <1>4 DEF RegistryTrack, MaxOf

\* The archive credits an item with appearances before p only.
LEMMA EditionTrackBound ==
  ASSUME TypeOK, CountsNeverInflated, NEW i \in Items, NEW p \in Slots
  PROVE  EditionTrack(i, p) <= Cardinality(Past(editions, i, p))
PROOF
  <1>1. Appearances(i, p) = Past(editions, i, p)
    BY DEF Appearances, Past
  <1>2. CASE Appearances(i, p) = {}
    BY <1>2, PastFinite DEF EditionTrack
  <1>3. CASE Appearances(i, p) # {}
    <2>1. PICK s \in Past(editions, i, p) :
            EditionTrack(i, p) = editions[s][i]
                                 + Cardinality({t \in Past(editions, i, p) : t > s})
      BY <1>1, <1>3, EditionTrackOneOf
    <2>2. editions[s] # None /\ s \in Slots /\ editions[s][i] \in Nat
      BY DEF Past, TypeOK, Edition
    <2>3. editions[s][i] <= Cardinality(Past(editions, i, s)) + 1
      BY <2>2 DEF CountsNeverInflated, Appearances, Past
    <2> QED BY <2>1, <2>2, <2>3, PastSplits, PastFinite
  <1> QED BY <1>2, <1>3

\* The registry, and every handler's copy of it, is justified by the archive.
RegistryJustified ==
  \A i \in Items :
    /\ RecordJustified(editions, registry[i], i)
    /\ \A h \in Handlers : RecordJustified(editions, snapshot[h][i], i)

\* A flow credits an item with no more editions than precede its own.
TrackedJustified ==
  \A h \in Handlers : pc[h] \in {"loadRegistry", "publish"} =>
    \A i \in Items : tracked[h][i] <= Cardinality(Past(editions, i, plan[h]))

\* The archive after a step has every edition of the archive before it.
LEMMA ArchiveGrows ==
  ASSUME TypeOK, [Next]_vars
  PROVE  Grown(editions, editions')
  BY EditionsKept DEF Grown

\* A new registry or copy is an old one, or what recordEdition made of a copy.
LEMMA RegistryWriter ==
  ASSUME TypeOK, [Next]_vars
  PROVE  /\ \/ registry' = registry
            \/ \E h \in Handlers : /\ pc[h] = "recordSave"
                                  /\ registry' = Recorded(snapshot[h], plan[h])
         /\ \A h \in Handlers : snapshot'[h] \in {snapshot[h], registry, EmptyRegistry}
PROOF
  <1> USE DEF TypeOK
  <1>1. ASSUME NEW h \in Handlers, RecordSave(h)
        PROVE  /\ \/ registry' = registry
                  \/ pc[h] = "recordSave" /\ registry' = Recorded(snapshot[h], plan[h])
               /\ \A g \in Handlers : snapshot'[g] \in {snapshot[g], EmptyRegistry}
    BY <1>1 DEF RecordSave
  <1>2. ASSUME NEW h \in Handlers, RecordLoad(h)
        PROVE  /\ registry' = registry
               /\ \A g \in Handlers : snapshot'[g] \in {snapshot[g], registry}
    BY <1>2 DEF RecordLoad, tables
  <1>3. ASSUME NEW h \in Handlers, Request(h) \/ Handle(h) \/ Killed(h),
               ~ RecordSave(h), ~ RecordLoad(h)
        PROVE  registry' = registry /\ snapshot' = snapshot
    BY <1>3 DEF Request, Killed, Handle, InsertRun, ReadRun, RetryRun, Plan, CheckLatest,
                Aggregate, LoadEditions, LoadRegistry, Publish, MarkCompleted,
                MarkFailed, tables, flow
  <1>4. CASE Tick \/ UNCHANGED vars
    BY <1>4 DEF Tick, vars, tables, flow
  <1> QED BY <1>1, <1>2, <1>3, <1>4 DEF Next

\* recordEdition saves only what its edition justifies, even if the copy that
\* it merges into is out of date.
LEMMA RegistryJustifiedStep ==
  /\ TypeOK /\ TypeOK' /\ FlowHasEdition /\ CountsNeverInflated /\ RegistryJustified
  /\ [Next]_vars
  => RegistryJustified'
PROOF
  <1> SUFFICES ASSUME TypeOK, TypeOK', FlowHasEdition, CountsNeverInflated,
                      RegistryJustified, [Next]_vars, NEW i \in Items
               PROVE  /\ RecordJustified(editions', registry'[i], i)
                      /\ \A h \in Handlers : RecordJustified(editions', snapshot'[h][i], i)
    BY DEF RegistryJustified
  <1>1. RecordJustified(editions, registry'[i], i)
    <2>1. CASE registry' = registry
      BY <2>1 DEF RegistryJustified
    <2>2. ASSUME NEW h \in Handlers, pc[h] = "recordSave",
                 registry' = Recorded(snapshot[h], plan[h])
          PROVE  RecordJustified(editions, registry'[i], i)
      <3>1. /\ snapshot[h] \in [Items -> Record]
            /\ plan[h] \in Slots
            /\ editions[plan[h]] # None
        BY <2>2 DEF TypeOK, FlowHasEdition
      <3> QED BY <2>2, <3>1, RecordedJustified DEF RegistryJustified
    <2> QED BY <2>1, <2>2, RegistryWriter
  <1>2. ASSUME NEW h \in Handlers
        PROVE  RecordJustified(editions, snapshot'[h][i], i)
    <2>1. RecordJustified(editions, EmptyRegistry[i], i)
      BY PastFinite DEF RecordJustified, EmptyRegistry, NoRecord
    <2> QED BY <2>1, RegistryWriter DEF RegistryJustified
  <1>3. registry'[i] \in Record /\ \A h \in Handlers : snapshot'[h][i] \in Record
    BY DEF TypeOK
  <1> QED BY <1>1, <1>2, <1>3, JustifiedGrows, ArchiveGrows

\* Both sources of a tracked count are justified, and so is the larger one.
LEMMA TrackedJustifiedStep ==
  /\ TypeOK /\ TypeOK' /\ CountsNeverInflated /\ RegistryJustified /\ TrackedJustified
  /\ [Next]_vars
  => TrackedJustified'
PROOF
  <1> SUFFICES ASSUME TypeOK, TypeOK', CountsNeverInflated, RegistryJustified,
                      TrackedJustified, [Next]_vars,
                      NEW h \in Handlers, pc'[h] \in {"loadRegistry", "publish"},
                      NEW i \in Items
               PROVE  tracked'[h][i] <= Cardinality(Past(editions', i, plan'[h]))
    BY DEF TrackedJustified
  <1> USE DEF Goto
  <1>1. plan'[h] = plan[h] /\ tracked'[h][i] <= Cardinality(Past(editions, i, plan[h]))
    <2>1. ASSUME pc[h] \in {"loadRegistry", "publish"}, tracked'[h] = tracked[h]
          PROVE  tracked'[h][i] <= Cardinality(Past(editions, i, plan[h]))
      BY <2>1 DEF TrackedJustified
    <2>2. CASE Tick \/ UNCHANGED vars
      BY <2>1, <2>2 DEF Tick, vars, flow
    <2>3. ASSUME NEW g \in Handlers, g # h, Request(g) \/ Handle(g) \/ Killed(g)
          PROVE  /\ plan'[h] = plan[h]
                 /\ tracked'[h][i] <= Cardinality(Past(editions, i, plan[h]))
      BY <2>1, <2>3, OthersKept
    <2>4. CASE LoadEditions(h)
      <3>1. tracked'[h][i] = EditionTrack(i, plan[h]) /\ plan'[h] = plan[h]
        BY <2>4 DEF LoadEditions, Rejected, TypeOK
      <3> QED BY <3>1, EditionTrackBound DEF TypeOK
    <2>5. CASE LoadRegistry(h)
      <3>1. /\ plan'[h] = plan[h]
            /\ tracked'[h][i] = MaxOf(tracked[h][i], RegistryTrack(registry[i], plan[h]))
        BY <2>5 DEF LoadRegistry, Rejected, TypeOK
      <3>2. tracked[h][i] <= Cardinality(Past(editions, i, plan[h]))
        BY <2>5 DEF LoadRegistry, TrackedJustified
      <3>3. RegistryTrack(registry[i], plan[h]) <= Cardinality(Past(editions, i, plan[h]))
        BY RegistryTrackBound DEF RegistryJustified, TypeOK
      <3> QED BY <3>1, <3>2, <3>3 DEF MaxOf
    <2>6. CASE Request(h) \/ Killed(h) \/ InsertRun(h) \/ ReadRun(h) \/ RetryRun(h)
               \/ Plan(h) \/ CheckLatest(h) \/ Aggregate(h)
      BY <2>6 DEF Request, Killed, InsertRun, ReadRun, RetryRun, Plan, CheckLatest,
                  Aggregate, Confirmed, Rejected, ReplyLost, TypeOK
    <2>7. CASE Publish(h) \/ RecordLoad(h) \/ RecordSave(h) \/ MarkCompleted(h)
               \/ MarkFailed(h)
      BY <2>7 DEF Publish, RecordLoad, RecordSave, MarkCompleted, MarkFailed,
                  Confirmed, Rejected, ReplyLost, TypeOK
    <2> QED BY <2>2, <2>3, <2>4, <2>5, <2>6, <2>7 DEF Next, Handle
  <1>2. tracked'[h][i] \in Nat /\ plan[h] \in Slots
    BY DEF TypeOK
  <1> QED BY <1>1, <1>2, PastGrows, PastFinite, ArchiveGrows

\* A flow publishes one edition more than those that precede it.
LEMMA CountsStep ==
  /\ TypeOK /\ TypeOK' /\ CountsNeverInflated /\ TrackedJustified /\ [Next]_vars
  => CountsNeverInflated'
PROOF
  <1> SUFFICES ASSUME TypeOK, TypeOK', CountsNeverInflated, TrackedJustified, [Next]_vars,
                      NEW s \in Slots, editions'[s] # None, NEW i \in Items
               PROVE  editions'[s][i] <= Cardinality(Past(editions', i, s)) + 1
    BY DEF CountsNeverInflated, Appearances, Past
  <1>1. Cardinality(Past(editions, i, s)) <= Cardinality(Past(editions', i, s))
    BY PastGrows, ArchiveGrows
  <1>2. editions'[s][i] \in Nat
    BY DEF TypeOK, Edition
  <1>3. editions'[s][i] <= Cardinality(Past(editions, i, s)) + 1
    <2>1. CASE editions[s] # None
      BY <2>1, EditionsKept DEF CountsNeverInflated, Appearances, Past
    <2>2. ASSUME NEW h \in Handlers, Publish(h), editions[s] = None
          PROVE  editions'[s][i] <= Cardinality(Past(editions, i, s)) + 1
      <3>1. s = plan[h] /\ pc[h] = "publish" /\ editions'[s][i] = NextCount(i, h)
        BY <2>2 DEF Publish, TypeOK
      <3>2. tracked[h][i] \in Nat /\ tracked[h][i] <= Cardinality(Past(editions, i, s))
        BY <3>1 DEF TrackedJustified, TypeOK
      <3> QED BY <3>1, <3>2, PastFinite DEF NextCount
    <2> QED BY <2>1, <2>2, EditionsWriter
  <1> QED BY <1>1, <1>2, <1>3, PastFinite

\* No fault and no interleaving credits an item with more editions than contain
\* it (CountsNeverInflated), and the registry claims no appearance that the
\* archive does not have (RegistrySound).
THEOREM CountsAndRegistrySound == Spec => [](CountsNeverInflated /\ RegistrySound)
PROOF
  <1> DEFINE IInv == /\ TypeOK /\ FlowHasEdition /\ CountsNeverInflated
                     /\ RegistryJustified /\ TrackedJustified
  <1>1. Init => IInv
    <2>1. Init => TypeOK /\ FlowHasEdition
      BY InitType DEF Init, FlowHasEdition
    <2>2. Init => CountsNeverInflated /\ TrackedJustified
      BY DEF Init, CountsNeverInflated, TrackedJustified
    <2>3. Init => RegistryJustified
      BY PastFinite
        DEF Init, RegistryJustified, RecordJustified, EmptyRegistry, NoRecord
    <2> QED BY <2>1, <2>2, <2>3
  <1>2. IInv /\ [Next]_vars => IInv'
    BY StepType, FlowHasEditionStep, RegistryJustifiedStep, TrackedJustifiedStep, CountsStep
  <1>3. IInv => CountsNeverInflated /\ RegistrySound
    BY DEF RegistryJustified, RecordJustified, RegistrySound
  <1> QED BY <1>1, <1>2, <1>3, PTL DEF Spec

-----------------------------------------------------------------------------
(* Deployments that do not force their publications and whose grace period, *)
(* with the longest request, ends before the next slot: every flow then     *)
(* publishes the slot whose lock it holds, counts of editions are exact, and *)
(* the tables implement EditionArchive, whatever faults there are.          *)

\* NEWSLETTER_FORCE_PUBLICATION is not set, and a request that is made within the
\* grace period ends, a tick later at most, before the next slot.
Punctual ==
  /\ ForcedModes \subseteq {FALSE}
  /\ Grace + 1 < SlotLength

-----------------------------------------------------------------------------
(* Time.                                                                   *)

\* The slot of a time is the only number of slots that ends within a slot of it.
LEMMA SlotOfUnique ==
  ASSUME NEW t \in Nat, NEW s \in Nat, s * SlotLength <= t, t < (s + 1) * SlotLength
  PROVE  SlotOf(t) = s
PROOF
  <1> DEFINE q == t \div SlotLength
  <1>1. SlotLength \in Nat /\ SlotLength > 0
    BY RunsAssumption
  <1>2. q \in Nat /\ q * SlotLength <= t /\ t < (q + 1) * SlotLength
    BY <1>1
  <1> HIDE DEF q
  <1>3. CASE q + 1 <= s
    <2>1. (q + 1) * SlotLength <= s * SlotLength
      BY <1>1, <1>2, <1>3
    <2> QED BY <1>1, <1>2, <2>1
  <1>4. CASE s + 1 <= q
    <2>1. (s + 1) * SlotLength <= q * SlotLength
      BY <1>1, <1>2, <1>4
    <2> QED BY <1>1, <1>2, <2>1
  <1> QED BY <1>2, <1>3, <1>4 DEF SlotOf, q

\* A slot begins no later than the times that belong to it.
LEMMA SlotBegins ==
  ASSUME NEW t \in Nat
  PROVE  SlotOf(t) \in Nat /\ SlotOf(t) * SlotLength <= t
PROOF
  <1>1. SlotLength \in Nat /\ SlotLength > 0
    BY RunsAssumption
  <1> QED BY <1>1 DEF SlotOf

\* A request made within the grace period stays in its slot for a tick.
LEMMA SlotStays ==
  ASSUME Punctual, NEW t \in Nat, InWindow(t)
  PROVE  SlotOf(t + 1) = SlotOf(t)
PROOF
  <1> DEFINE s == SlotOf(t)
  <1>1. s \in Nat /\ s * SlotLength <= t /\ s * SlotLength \in Nat
    BY SlotBegins, RunsAssumption
  <1>2. t + 1 < s * SlotLength + SlotLength
    BY <1>1, RunsAssumption DEF Punctual, InWindow
  <1>3. (s + 1) * SlotLength = s * SlotLength + SlotLength
    BY <1>1, RunsAssumption
  <1> HIDE DEF s
  <1>4. SlotOf(t + 1) = s
    BY <1>1, <1>2, <1>3, SlotOfUnique, RunsAssumption
  <1> QED BY <1>4 DEF s

\* Time does not go back, and neither do slots.
LEMMA SlotsAdvance ==
  ASSUME NEW t \in Nat
  PROVE  SlotOf(t) <= SlotOf(t + 1)
PROOF
  <1>1. SlotLength \in Nat /\ SlotLength > 0
    BY RunsAssumption
  <1> QED BY <1>1 DEF SlotOf

\* What a handler at work knows of the time: it began in the grace period of the
\* slot it locked, at most a tick ago, and what it plans is that slot.
InTime(h) ==
  /\ InWindow(began[h])
  /\ slot[h] = SlotOf(began[h])
  /\ now \in {began[h], began[h] + 1}
  /\ pc[h] \in Holding \ {"plan"} => plan[h] = slot[h]

AllInTime == \A h \in Handlers : pc[h] \notin Answered => InTime(h)

\* A handler at work holds the slot of the present time.
LEMMA SlotIsNow ==
  ASSUME Punctual, TypeOK, AllInTime, NEW h \in Handlers, pc[h] \notin Answered
  PROVE  slot[h] = SlotOf(now)
PROOF
  <1>1. InTime(h) /\ began[h] \in Nat
    BY DEF AllInTime, TypeOK
  <1> QED BY <1>1, SlotStays DEF InTime

\* No handler acts on the arrival time of another's request.
LEMMA OthersBeganKept ==
  ASSUME TypeOK, NEW g \in Handlers, NEW h \in Handlers, h # g,
         Request(h) \/ Handle(h) \/ Killed(h)
  PROVE  began'[g] = began[g] /\ now' = now
PROOF
  <1>1. CASE Request(h)
    BY <1>1 DEF Request, TypeOK
  <1>2. CASE Handle(h) \/ Killed(h)
    BY <1>2 DEF Handle, Killed, InsertRun, ReadRun, RetryRun, Plan, CheckLatest, Aggregate,
                LoadEditions, LoadRegistry, Publish, RecordLoad, RecordSave,
                MarkCompleted, MarkFailed
  <1> QED BY <1>1, <1>2

\* What a step of a handler at work leaves alone.
LEMMA HandleKeeps ==
  ASSUME TypeOK, NEW h \in Handlers, Handle(h)
  PROVE  /\ now' = now /\ began' = began /\ slot' = slot
         /\ ~ Plan(h) => plan' = plan
         /\ pc[h] \notin Answered
         /\ pc'[h] \in Holding \ {"plan"} => pc[h] \in Holding
         /\ pc[h] = "plan" => Plan(h)
PROOF
  <1> USE DEF Goto, TypeOK, Answered, Holding
  <1>1. CASE InsertRun(h) \/ ReadRun(h) \/ RetryRun(h)
    BY <1>1 DEF InsertRun, ReadRun, RetryRun, Confirmed, Rejected, ReplyLost, flow
  <1>2. CASE Plan(h)
    BY <1>2 DEF Plan
  <1>3. CASE CheckLatest(h) \/ Aggregate(h) \/ LoadEditions(h) \/ LoadRegistry(h)
    BY <1>3 DEF CheckLatest, Aggregate, LoadEditions, LoadRegistry, Rejected, flow
  <1>4. CASE Publish(h) \/ RecordLoad(h) \/ RecordSave(h)
    BY <1>4 DEF Publish, RecordLoad, RecordSave
  <1>5. CASE MarkCompleted(h) \/ MarkFailed(h)
    BY <1>5 DEF MarkCompleted, MarkFailed, flow
  <1> QED BY <1>1, <1>2, <1>3, <1>4, <1>5 DEF Handle

\* The step of AllInTime: requests begin in their slot, the clock waits for them,
\* and the second look at the clock finds the same slot.
LEMMA AllInTimeStep ==
  ASSUME Punctual, TypeOK, AllInTime, [Next]_vars
  PROVE  AllInTime'
PROOF
  <1> SUFFICES ASSUME NEW g \in Handlers, pc'[g] \notin Answered
               PROVE  InTime(g)'
    BY DEF AllInTime
  <1>1. now \in Nat /\ began[g] \in Nat
    BY DEF TypeOK
  <1>2. CASE UNCHANGED vars
    <2>1. InTime(g)
      BY <1>2 DEF vars, AllInTime
    <2> QED BY <1>2, <2>1 DEF vars, flow, InTime, InWindow
  <1>3. CASE Tick
    <2>1. pc[g] \notin Answered /\ InTime(g)
      BY <1>3 DEF Tick, AllInTime
    <2>2. began[g] = now
      BY <1>3, <2>1 DEF Tick
    <2> QED BY <1>1, <1>3, <2>1, <2>2 DEF Tick, flow, InTime, InWindow
  <1>4. ASSUME NEW h \in Handlers, h # g, Request(h) \/ Handle(h) \/ Killed(h)
        PROVE  InTime(g)'
    <2>1. InTime(g)
      BY <1>4, OthersKept DEF AllInTime
    <2> QED BY <1>4, <2>1, OthersKept, OthersBeganKept DEF InTime, InWindow
  <1>5. CASE Request(g)
    <2>1. InWindow(now) /\ pc'[g] = "insertRun"
      BY <1>5 DEF Request, Punctual, Goto, Answered, TypeOK
    <2>2. began'[g] = now /\ slot'[g] = SlotOf(now) /\ now' = now
      BY <1>5, <2>1 DEF Request, Goto, TypeOK
    <2> QED BY <2>1, <2>2 DEF InTime, InWindow, Holding
  <1>6. CASE Killed(g)
    BY <1>6 DEF Killed, Goto, Answered, TypeOK
  <1>7. CASE Handle(g)
    <2>1. InTime(g)
      BY <1>7, HandleKeeps DEF AllInTime
    <2>2. CASE Plan(g)
      <3>1. plan'[g] = SlotOf(now)
        BY <2>2 DEF Plan, TypeOK
      <3>2. slot[g] = SlotOf(now)
        BY <1>7, HandleKeeps, SlotIsNow
      <3> QED BY <1>7, <2>1, <3>1, <3>2, HandleKeeps DEF InTime, InWindow
    <2>3. CASE ~ Plan(g)
      BY <1>7, <2>1, <2>3, HandleKeeps DEF InTime, InWindow
    <2> QED BY <2>2, <2>3
  <1> QED BY <1>2, <1>3, <1>4, <1>5, <1>6, <1>7 DEF Next

LEMMA AllInTimeInit == Init => AllInTime
  BY DEF Init, AllInTime, Answered

-----------------------------------------------------------------------------
(* Run rows.                                                               *)

\* The step of RunNamesOwnEdition: a row is completed with the plan of its holder.
LEMMA RunNamesOwnEditionStep ==
  ASSUME TypeOK, AllInTime, RunNamesOwnEdition, [Next]_vars
  PROVE  RunNamesOwnEdition'
PROOF
  <1> SUFFICES ASSUME NEW s \in Slots
               PROVE  runs'[s].editionId \in {s, None}
    BY DEF RunNamesOwnEdition
  <1>1. runs[s].editionId \in {s, None}
    BY DEF RunNamesOwnEdition
  <1> USE DEF TypeOK, SetRun
  <1>2. CASE runs' = runs
    BY <1>1, <1>2
  <1>3. ASSUME NEW h \in Handlers, InsertRun(h)
        PROVE  runs'[s].editionId \in {s, None}
    BY <1>1, <1>3 DEF InsertRun
  <1>4. ASSUME NEW h \in Handlers, RetryRun(h) \/ MarkFailed(h)
        PROVE  runs'[s].editionId \in {s, None}
    BY <1>1, <1>4 DEF RetryRun, MarkFailed
  <1>5. ASSUME NEW h \in Handlers, MarkCompleted(h)
        PROVE  runs'[s].editionId \in {s, None}
    <2>1. plan[h] = slot[h]
      BY <1>5 DEF MarkCompleted, AllInTime, InTime, Answered, Holding
    <2> QED BY <1>1, <1>5, <2>1 DEF MarkCompleted
  <1> QED BY <1>2, <1>3, <1>4, <1>5, RunsWriter

\* In a punctual deployment the row of a slot names the edition of that slot or none,
\* although a request reads the clock twice (RunNamesOwnEdition).
THEOREM RowsNameOwnEditions ==
  ASSUME Punctual
  PROVE  Spec => []RunNamesOwnEdition
PROOF
  <1>1. Init => AllInTime /\ RunNamesOwnEdition
    BY AllInTimeInit DEF Init, RunNamesOwnEdition, NoRun
  <1>2. TypeOK /\ AllInTime /\ RunNamesOwnEdition /\ [Next]_vars
          => (AllInTime /\ RunNamesOwnEdition)'
    BY AllInTimeStep, RunNamesOwnEditionStep
  <1> QED BY <1>1, <1>2, TypeCorrect, PTL DEF Spec

-----------------------------------------------------------------------------
(* Edition counts.                                                         *)

\* No edition is stored for a slot that is still to come.
NoneEarly == \A s \in Slots : editions[s] # None => s <= SlotOf(now)

\* A flow that loaded an item's editions knows how many there were before its own.
TrackedExact ==
  \A h \in Handlers : pc[h] \in {"loadRegistry", "publish"} =>
    \A i \in Items : tracked[h][i] = Cardinality(Past(editions, i, plan[h]))

\* A flow publishes the slot of the present time.
LEMMA PlanIsNow ==
  ASSUME Punctual, TypeOK, AllInTime, NEW h \in Handlers, pc[h] \in Holding \ {"plan"}
  PROVE  plan[h] = SlotOf(now)
  BY SlotIsNow DEF AllInTime, InTime, Answered, Holding

\* A step stores at most the edition of the present slot, none before it.
LEMMA PublishesNow ==
  ASSUME Punctual, TypeOK, AllInTime, [Next]_vars, NEW s \in Slots, s # SlotOf(now)
  PROVE  editions'[s] = editions[s]
PROOF
  <1>1. ASSUME NEW h \in Handlers, Publish(h)
        PROVE  editions'[s] = editions[s]
    <2>1. plan[h] = SlotOf(now)
      BY <1>1, PlanIsNow DEF Publish, Holding
    <2> QED BY <1>1, <2>1 DEF Publish, TypeOK
  <1> QED BY <1>1, EditionsWriter

\* The step of NoneEarly.
LEMMA NoneEarlyStep ==
  ASSUME Punctual, TypeOK, TypeOK', AllInTime, NoneEarly, [Next]_vars
  PROVE  NoneEarly'
PROOF
  <1> SUFFICES ASSUME NEW s \in Slots, editions'[s] # None
               PROVE  s <= SlotOf(now')
    BY DEF NoneEarly, SlotOf
  <1>1. now \in Nat /\ SlotOf(now) \in Nat /\ s \in Nat
    BY SlotBegins, SlotsFinite DEF TypeOK
  <1>2. now' \in {now, now + 1}
    <2>1. CASE Tick \/ UNCHANGED vars
      BY <2>1 DEF Tick, vars
    <2>2. ASSUME NEW h \in Handlers, Request(h)
          PROVE  now' = now
      BY <2>2 DEF Request
    <2>3. ASSUME NEW h \in Handlers, Killed(h)
          PROVE  now' = now
      BY <2>3 DEF Killed
    <2> QED BY <2>1, <2>2, <2>3, HandleKeeps DEF Next
  <1>3. SlotOf(now) <= SlotOf(now') /\ SlotOf(now') \in Nat
    BY <1>1, <1>2, SlotsAdvance, SlotBegins
  <1>4. s <= SlotOf(now)
    BY <1>1, PublishesNow DEF NoneEarly
  <1> QED BY <1>1, <1>3, <1>4

\* The appearances before the present slot, or an earlier one, do not change.
LEMMA PastStands ==
  ASSUME Punctual, TypeOK, AllInTime, [Next]_vars, NEW i, NEW p \in Nat, p <= SlotOf(now)
  PROVE  Past(editions', i, p) = Past(editions, i, p)
PROOF
  <1>1. ASSUME NEW s \in Slots, s < p
        PROVE  editions'[s] = editions[s]
    <2>1. s \in Nat /\ SlotOf(now) \in Nat
      BY SlotBegins, SlotsFinite DEF TypeOK
    <2> QED BY <1>1, <2>1, PublishesNow
  <1> QED BY <1>1 DEF Past

\* Among exact counts, every earlier edition of an item leads to the same number.
LEMMA EditionTrackExact ==
  ASSUME TypeOK, CountsExact, NEW i \in Items, NEW p \in Slots
  PROVE  EditionTrack(i, p) = Cardinality(Past(editions, i, p))
PROOF
  <1>1. Appearances(i, p) = Past(editions, i, p)
    BY DEF Appearances, Past
  <1>2. CASE Appearances(i, p) = {}
    BY <1>1, <1>2, FS_EmptySet DEF EditionTrack
  <1>3. CASE Appearances(i, p) # {}
    <2>1. PICK s \in Past(editions, i, p) :
            EditionTrack(i, p) = editions[s][i]
                                 + Cardinality({t \in Past(editions, i, p) : t > s})
      BY <1>1, <1>3, EditionTrackOneOf
    <2>2. editions[s] # None /\ s \in Slots /\ editions[s][i] > 0
      BY DEF Past
    <2>3. editions[s][i] = Cardinality(Past(editions, i, s)) + 1
      BY <2>2 DEF CountsExact, Appearances, Past
    <2> QED BY <2>1, <2>3, PastSplits, PastFinite
  <1> QED BY <1>2, <1>3

\* The step of TrackedExact: the archive alone gives the exact number, and the
\* registry never more.
LEMMA TrackedExactStep ==
  ASSUME Punctual, TypeOK, AllInTime, CountsExact, RegistryJustified, TrackedExact,
         [Next]_vars
  PROVE  TrackedExact'
PROOF
  <1> SUFFICES ASSUME NEW h \in Handlers, pc'[h] \in {"loadRegistry", "publish"},
                      NEW i \in Items
               PROVE  tracked'[h][i] = Cardinality(Past(editions', i, plan'[h]))
    BY DEF TrackedExact
  <1> USE DEF Goto
  <1>1. ASSUME pc[h] \in Holding \ {"plan"}, plan'[h] = plan[h],
               tracked'[h][i] = Cardinality(Past(editions, i, plan[h]))
        PROVE  tracked'[h][i] = Cardinality(Past(editions', i, plan'[h]))
    <2>1. plan[h] = SlotOf(now) /\ plan[h] \in Nat
      BY <1>1, PlanIsNow, SlotsFinite DEF TypeOK
    <2> QED BY <1>1, <2>1, PastStands
  <1>2. ASSUME pc[h] \in {"loadRegistry", "publish"}, tracked'[h] = tracked[h],
               plan'[h] = plan[h]
        PROVE  tracked'[h][i] = Cardinality(Past(editions', i, plan'[h]))
    BY <1>1, <1>2 DEF TrackedExact, Holding
  <1>3. CASE Tick \/ UNCHANGED vars
    BY <1>2, <1>3 DEF Tick, vars, flow
  <1>4. ASSUME NEW g \in Handlers, g # h, Request(g) \/ Handle(g) \/ Killed(g)
        PROVE  tracked'[h][i] = Cardinality(Past(editions', i, plan'[h]))
    BY <1>2, <1>4, OthersKept
  <1>5. CASE LoadEditions(h)
    <2>1. /\ tracked'[h][i] = EditionTrack(i, plan[h]) /\ plan'[h] = plan[h]
          /\ pc[h] = "loadEditions"
      BY <1>5 DEF LoadEditions, Rejected, TypeOK
    <2> QED BY <1>1, <2>1, EditionTrackExact DEF TypeOK, Holding
  <1>6. CASE LoadRegistry(h)
    <2>1. /\ plan'[h] = plan[h] /\ pc[h] = "loadRegistry"
          /\ tracked'[h][i] = MaxOf(tracked[h][i], RegistryTrack(registry[i], plan[h]))
      BY <1>6 DEF LoadRegistry, Rejected, TypeOK
    <2>2. tracked[h][i] = Cardinality(Past(editions, i, plan[h]))
      BY <2>1 DEF TrackedExact
    <2>3. /\ RegistryTrack(registry[i], plan[h]) <= Cardinality(Past(editions, i, plan[h]))
          /\ RegistryTrack(registry[i], plan[h]) \in Nat
      BY RegistryTrackBound, RegistryTrackType DEF RegistryJustified, TypeOK
    <2>4. tracked'[h][i] = Cardinality(Past(editions, i, plan[h]))
      BY <2>1, <2>2, <2>3, PastFinite DEF MaxOf
    <2> QED BY <1>1, <2>1, <2>4 DEF Holding
  <1>7. CASE Request(h) \/ Killed(h) \/ InsertRun(h) \/ ReadRun(h) \/ RetryRun(h)
             \/ Plan(h) \/ CheckLatest(h) \/ Aggregate(h)
    BY <1>7 DEF Request, Killed, InsertRun, ReadRun, RetryRun, Plan, CheckLatest,
                Aggregate, Confirmed, Rejected, ReplyLost, TypeOK
  <1>8. CASE Publish(h) \/ RecordLoad(h) \/ RecordSave(h) \/ MarkCompleted(h)
             \/ MarkFailed(h)
    BY <1>8 DEF Publish, RecordLoad, RecordSave, MarkCompleted, MarkFailed,
                Confirmed, Rejected, ReplyLost, TypeOK
  <1> QED BY <1>3, <1>4, <1>5, <1>6, <1>7, <1>8 DEF Next, Handle

\* The step of CountsExact: the published edition counts one more than those that
\* precede it, and those before the present slot count as before.
LEMMA CountsExactStep ==
  ASSUME Punctual, TypeOK, AllInTime, NoneEarly, CountsExact, TrackedExact, [Next]_vars
  PROVE  CountsExact'
PROOF
  <1> SUFFICES ASSUME NEW s \in Slots, editions'[s] # None,
                      NEW i \in Items, editions'[s][i] > 0
               PROVE  editions'[s][i] = Cardinality(Past(editions', i, s)) + 1
    BY DEF CountsExact, Appearances, Past
  <1>1. s \in Nat /\ SlotOf(now) \in Nat
    BY SlotsFinite, SlotBegins DEF TypeOK
  <1>2. s <= SlotOf(now)
    BY <1>1, PublishesNow DEF NoneEarly
  <1>3. Past(editions', i, s) = Past(editions, i, s)
    BY <1>1, <1>2, PastStands
  <1>4. CASE editions[s] # None
    <2>1. editions'[s] = editions[s]
      BY <1>4, EditionsKept
    <2> QED BY <1>3, <1>4, <2>1 DEF CountsExact, Appearances, Past
  <1>5. CASE editions[s] = None
    <2>1. PICK h \in Handlers : Publish(h)
      BY <1>5, EditionsWriter
    <2>2. s = plan[h] /\ pc[h] = "publish" /\ editions'[s][i] = NextCount(i, h)
      BY <1>5, <2>1 DEF Publish, TypeOK
    <2>3. tracked[h][i] = Cardinality(Past(editions, i, s))
      BY <2>2 DEF TrackedExact
    <2> QED BY <1>3, <2>2, <2>3 DEF NextCount
  <1> QED BY <1>4, <1>5

\* What the exactness of the counts is inductive with.
Exactly ==
  /\ TypeOK /\ FlowHasEdition /\ CountsNeverInflated /\ RegistryJustified
  /\ TrackedJustified /\ AllInTime /\ NoneEarly /\ CountsExact /\ TrackedExact

\* Initially nothing is published, and nobody is at work.
LEMMA ExactlyInit == Init => Exactly
PROOF
  <1> SUFFICES ASSUME Init PROVE Exactly
    OBVIOUS
  <1>1. TypeOK /\ AllInTime
    BY InitType, AllInTimeInit
  <1>2. FlowHasEdition /\ TrackedJustified /\ TrackedExact
    BY DEF Init, FlowHasEdition, TrackedJustified, TrackedExact
  <1>3. CountsNeverInflated /\ CountsExact /\ NoneEarly
    BY DEF Init, CountsNeverInflated, CountsExact, NoneEarly
  <1>4. RegistryJustified
    BY PastFinite DEF Init, RegistryJustified, RecordJustified, EmptyRegistry, NoRecord
  <1> QED BY <1>1, <1>2, <1>3, <1>4 DEF Exactly

LEMMA ExactlyStep ==
  ASSUME Punctual, Exactly, [Next]_vars
  PROVE  Exactly'
PROOF
  <1> USE DEF Exactly
  <1>1. TypeOK' /\ FlowHasEdition'
    BY StepType, FlowHasEditionStep
  <1>2. CountsNeverInflated' /\ RegistryJustified' /\ TrackedJustified'
    BY <1>1, CountsStep, RegistryJustifiedStep, TrackedJustifiedStep
  <1>3. AllInTime' /\ NoneEarly' /\ CountsExact' /\ TrackedExact'
    BY <1>1, AllInTimeStep, NoneEarlyStep, CountsExactStep, TrackedExactStep
  <1> QED BY <1>1, <1>2, <1>3

\* In a punctual deployment every edition gives an item's position among the editions
\* that contain it, although runs that failed recorded nothing (CountsExact).
THEOREM EditionCountsExact ==
  ASSUME Punctual
  PROVE  Spec => []CountsExact
PROOF
  <1>1. Exactly /\ [Next]_vars => Exactly'
    BY ExactlyStep
  <1>2. Exactly => CountsExact
    BY DEF Exactly
  <1> QED BY <1>1, <1>2, ExactlyInit, PTL DEF Spec

-----------------------------------------------------------------------------
(* The tables implement EditionArchive.                                    *)

\* A flow that stores an edition appends it to the archive.
LEMMA PublishAppends ==
  ASSUME Punctual, Exactly, NEW h \in Handlers, Publish(h), editions' # editions
  PROVE  Archive!Append(plan[h])
PROOF
  <1> USE DEF Exactly
  <1> DEFINE p == plan[h]
  <1>1. /\ pc[h] = "publish" /\ editions[p] = None
        /\ editions' = [editions EXCEPT ![p] = [i \in Items |-> NextCount(i, h)]]
    BY DEF Publish
  <1>2. p \in Slots /\ p \in Nat /\ p = SlotOf(now)
    BY <1>1, SlotsFinite, PlanIsNow DEF TypeOK, Holding
  <1>3. \A t \in Archive!Published : t < p
    <2> SUFFICES ASSUME NEW t \in Archive!Published PROVE t < p
      OBVIOUS
    <2>1. t \in Slots /\ t \in Nat /\ editions[t] # None
      BY SlotsFinite DEF Archive!Published
    <2>2. t <= p /\ t # p
      BY <1>1, <1>2, <2>1 DEF NoneEarly
    <2> QED BY <1>2, <2>1, <2>2
  <1>4. ASSUME NEW i \in Items
        PROVE  NextCount(i, h) = IF i \in picked[h] THEN Archive!Position(i) ELSE 0
    <2>1. {s \in Archive!Published : editions[s][i] > 0} = Past(editions, i, p)
      BY <1>3 DEF Archive!Published, Past
    <2>2. tracked[h][i] = Cardinality(Past(editions, i, p))
      BY <1>1 DEF TrackedExact
    <2>3. \A S : Archive!Cardinality(S) = Cardinality(S)
      BY DEF Archive!Cardinality, Cardinality, Archive!IsFiniteSet, IsFiniteSet
    <2> QED BY <2>1, <2>2, <2>3 DEF NextCount, Archive!Position
  <1>5. editions' = [editions EXCEPT ![p] =
                       [i \in Items |-> IF i \in picked[h] THEN Archive!Position(i) ELSE 0]]
    BY <1>1, <1>4
  <1>6. picked[h] \in SUBSET Items
    BY DEF TypeOK
  <1> QED BY <1>3, <1>5, <1>6 DEF Archive!Append

\* Every step of the publisher is a step of the archive or leaves it as it is.
LEMMA ArchiveStep ==
  ASSUME Punctual, Exactly, [Next]_vars
  PROVE  [Archive!Next]_editions
PROOF
  <1>1. ASSUME NEW h \in Handlers, Publish(h), editions' # editions
        PROVE  Archive!Next
    <2>1. plan[h] \in Slots
      BY DEF Exactly, TypeOK
    <2> QED BY <1>1, <2>1, PublishAppends DEF Archive!Next
  <1> QED BY <1>1, EditionsWriter

\* In a punctual deployment the tables are an edition archive: editions appear once,
\* in the order of their slots and with exact counts (ImplementsArchive).
THEOREM RunsImplementArchive ==
  ASSUME Punctual
  PROVE  Spec => ImplementsArchive
PROOF
  <1>1. Init => Archive!Init
    BY DEF Init, Archive!Init
  <1>2. Exactly /\ [Next]_vars => Exactly'
    BY ExactlyStep
  <1>3. Exactly /\ [Next]_vars => [Archive!Next]_editions
    BY ArchiveStep
  <1> QED BY <1>1, <1>2, <1>3, ExactlyInit, PTL DEF Spec, ImplementsArchive, Archive!Spec
==============================================================================
