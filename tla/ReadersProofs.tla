----------------------------- MODULE ReadersProofs -----------------------------
(***************************************************************************)
(* Proofs about Readers, for every set of items, every content they may    *)
(* have, every window and threshold, and every bound on days, delays,      *)
(* editions and crashes.                                                   *)
(***************************************************************************)
EXTENDS Readers, TLAPS, FoldTheorems, FiniteSetTheorems, WellFoundedInduction

-----------------------------------------------------------------------------
(* The days and the editions.                                              *)

\* Sets of days.
LEMMA DaysFinite ==
  ASSUME NEW S \in SUBSET Slots
  PROVE  S \in SUBSET Int /\ IsFiniteSet(S) /\ \A s \in S : s \in Nat \ {0}
PROOF
  <1>1. Horizon \in Nat
    BY ReadersAssumption
  <1>2. IsFiniteSet(Slots)
    BY <1>1, FS_Interval DEF Slots
  <1>3. \A s \in Slots : s \in Nat \ {0} /\ s \in Int
    BY <1>1 DEF Slots
  <1>4. IsFiniteSet(S)
    BY <1>2, FS_Subset
  <1> QED BY <1>3, <1>4

DaysType ==
  /\ now \in Nat
  /\ archive = [s \in Slots |-> archive[s]]

LEMMA DaysStep == DaysType /\ [Next]_vars => DaysType'
PROOF
  <1> SUFFICES ASSUME DaysType, [Next]_vars PROVE DaysType'
    OBVIOUS
  <1>1. CASE Tick
    BY <1>1 DEF Tick, DaysType
  <1>2. CASE Publish
    BY <1>2 DEF Publish, DaysType
  <1>3. CASE UNCHANGED <<now, archive>>
    BY <1>3 DEF DaysType
  <1> QED BY <1>1, <1>2, <1>3 DEF Next, vars, Start, GetLatest, GetHistory, Save, Fail, Crash

LEMMA PublishedDays ==
  ASSUME DaysType
  PROVE  /\ Published(archive, now) = {s \in Slots : archive[s] # None /\ s <= now}
         /\ History(archive, now) = {s \in Published(archive, now) : s > now - Window}
         /\ Published(archive, now) \in SUBSET Slots /\ History(archive, now) \in SUBSET Slots
BY DEF DaysType, Published, History

-----------------------------------------------------------------------------
(* What the review of some editions tells, in closed form.                 *)

IsState(st) ==
  /\ st = [last |-> st.last, items |-> st.items]
  /\ st.last \in Nat /\ st.items = [i \in Items |-> st.items[i]]

\* The version of an item after the editions of U: its last one, or the state's.
VersionAfter(a, items, U, i) ==
  LET B == AppearancesIn(a, i, U)
  IN IF B = {} THEN items[i] ELSE a[Max(B)][i].version

Before(U, s) == {t \in U : t < s}

\* The items that are new or changed in an edition of U, and match.
Changed(a, items, U) ==
  {x \in Items \X U :
     /\ a[x[2]][x[1]] # None
     /\ <<x[1], a[x[2]][x[1]].version>> \in Matching
     /\ VersionAfter(a, items, Before(U, x[2]), x[1]) # a[x[2]][x[1]].version}

After(st, U) ==
  [state |-> [last |-> IF U = {} THEN st.last ELSE Max(U),
              items |-> [i \in Items |-> VersionAfter(archive, st.items, U, i)]],
   reviews |-> Changed(archive, st.items, U)]

\* Nothing reviewed yet.
LEMMA AfterNothing ==
  ASSUME NEW st, IsState(st)
  PROVE  After(st, {}) = [state |-> st, reviews |-> {}]
PROOF
  <1>1. \A i : VersionAfter(archive, st.items, {}, i) = st.items[i]
    BY DEF VersionAfter, AppearancesIn
  <1>2. Changed(archive, st.items, {}) = {}
    BY DEF Changed
  <1>3. [i \in Items |-> VersionAfter(archive, st.items, {}, i)] = st.items
    BY <1>1 DEF IsState
  <1> QED BY <1>2, <1>3 DEF After, IsState

\* The latest edition of U has an item, or the item's last one is among the others.
LEMMA LatestAppearance ==
  ASSUME NEW a, NEW U \in SUBSET Slots, U # {}, NEW i
  PROVE  IF a[Max(U)][i] # None
         THEN AppearancesIn(a, i, U) # {} /\ Max(AppearancesIn(a, i, U)) = Max(U)
         ELSE AppearancesIn(a, i, U) = AppearancesIn(a, i, U \ {Max(U)})
PROOF
  <1> DEFINE s == Max(U)
             B == AppearancesIn(a, i, U)
  <1>1. s \in U /\ \A t \in U : s >= t
    BY DaysFinite, MaxFacts
  <1> HIDE DEF s
  <1>2. CASE a[s][i] # None
    <2>1. s \in B /\ B \in SUBSET Slots /\ \A t \in B : s >= t
      BY <1>1, <1>2 DEF AppearancesIn
    <2>2. Max(B) = s
      <3> HIDE DEF B
      <3> QED BY <2>1, DaysFinite, MaxFacts
    <2> QED BY <1>2, <2>1, <2>2 DEF s
  <1>3. CASE a[s][i] = None
    <2>1. B = AppearancesIn(a, i, U \ {s})
      BY <1>3 DEF AppearancesIn
    <2> QED BY <1>3, <2>1 DEF s
  <1> QED BY <1>2, <1>3

\* One more edition, the latest.
LEMMA AfterOneMore ==
  ASSUME NEW items, NEW U \in SUBSET Slots, U # {}, NEW i
  PROVE  VersionAfter(archive, items, U, i) =
           IF archive[Max(U)][i] # None THEN archive[Max(U)][i].version
           ELSE VersionAfter(archive, items, U \ {Max(U)}, i)
BY LatestAppearance DEF VersionAfter

LEMMA ReviewLatest ==
  ASSUME NEW st, NEW U \in SUBSET Slots, U # {}
  PROVE  Review(Max(U), After(st, U \ {Max(U)})) = After(st, U)
PROOF
  <1> DEFINE s == Max(U)
             V == U \ {s}
             acc == After(st, V)
             present == {i \in Items : archive[s][i] # None}
             more == {<<i, s>> : i \in {j \in present : /\ acc.state.items[j] # archive[s][j].version
                                                       /\ <<j, archive[s][j].version>> \in Matching}}
  <1>1. s \in U /\ \A t \in U : s >= t /\ t \in Nat /\ s \in Nat
    BY DaysFinite, MaxFacts
  <1>2. \A i \in Items : VersionAfter(archive, st.items, U, i) =
           IF archive[s][i] # None THEN archive[s][i].version ELSE VersionAfter(archive, st.items, V, i)
    BY AfterOneMore
  <1>3. \A i \in Items : acc.state.items[i] = VersionAfter(archive, st.items, V, i)
    BY DEF After
  <1>4. acc.reviews = Changed(archive, st.items, V)
    BY DEF After
  <1>5. Review(s, acc) =
          [state |-> [last |-> s,
                      items |-> [i \in Items |-> IF i \in present THEN archive[s][i].version
                                                 ELSE acc.state.items[i]]],
           reviews |-> acc.reviews \cup more]
    BY DEF Review
  <1> HIDE DEF s, acc
  <1>6. [i \in Items |-> IF i \in present THEN archive[s][i].version ELSE acc.state.items[i]]
          = [i \in Items |-> VersionAfter(archive, st.items, U, i)]
    BY <1>2, <1>3
  <1>7. acc.reviews \cup more = Changed(archive, st.items, U)
    <2>1. Before(U, s) = V
      BY <1>1 DEF Before
    <2>2. \A t \in V : Before(U, t) = Before(V, t)
      BY <1>1 DEF Before
    <2>3. more = {x \in Items \X {s} :
                    /\ archive[x[2]][x[1]] # None
                    /\ <<x[1], archive[x[2]][x[1]].version>> \in Matching
                    /\ VersionAfter(archive, st.items, Before(U, x[2]), x[1]) # archive[x[2]][x[1]].version}
      <3> DEFINE new == {j \in Items : /\ archive[s][j] # None
                                       /\ <<j, archive[s][j].version>> \in Matching
                                       /\ VersionAfter(archive, st.items, V, j) # archive[s][j].version}
                 P(x) == /\ archive[x[2]][x[1]] # None
                         /\ <<x[1], archive[x[2]][x[1]].version>> \in Matching
                         /\ VersionAfter(archive, st.items, Before(U, x[2]), x[1]) # archive[x[2]][x[1]].version
      <3>1. more = {<<i, s>> : i \in new}
        <4>1. new = {j \in present : /\ acc.state.items[j] # archive[s][j].version
                                     /\ <<j, archive[s][j].version>> \in Matching}
          BY <1>3
        <4> QED BY <4>1
      <3>2. \A i \in Items : i \in new <=> P(<<i, s>>)
        BY <2>1
      <3> HIDE DEF new, more, P
      <3>3. \A x \in Items \X {s} : x = <<x[1], s>> /\ x[1] \in Items
        OBVIOUS
      <3>4. new \subseteq Items
        BY DEF new
      <3>5. more = {x \in Items \X {s} : P(x)}
        BY <3>1, <3>2, <3>3, <3>4
      <3> QED BY <3>5 DEF P
    <2>4. acc.reviews = {x \in Items \X V :
                    /\ archive[x[2]][x[1]] # None
                    /\ <<x[1], archive[x[2]][x[1]].version>> \in Matching
                    /\ VersionAfter(archive, st.items, Before(U, x[2]), x[1]) # archive[x[2]][x[1]].version}
      BY <1>4, <2>2 DEF Changed
    <2>5. U = V \cup {s}
      BY <1>1
    <2> HIDE DEF V, more
    <2> QED BY <2>3, <2>4, <2>5 DEF Changed
  <1>8. After(st, U) = [state |-> [last |-> s, items |-> [i \in Items |-> VersionAfter(archive, st.items, U, i)]],
                        reviews |-> Changed(archive, st.items, U)]
    BY DEF After, s
  <1> QED BY <1>5, <1>6, <1>7, <1>8 DEF s, acc

\* reviewEditions, as the fold has it, tells what After says.
Reviews(st, S, h) ==
  h = [U \in SUBSET S |-> IF U = {} THEN [state |-> st, reviews |-> {}]
                          ELSE Review(Max(U), h[U \ {Max(U)}])]

LEMMA ReviewAllIs ==
  ASSUME NEW st, IsState(st), NEW S \in SUBSET Slots
  PROVE  ReviewAll(st, S) = After(st, S)
PROOF
  <1> DEFINE g == [U \in SUBSET S |-> After(st, U)]
             it == CHOOSE h : Reviews(st, S, h)
  <1>1. Reviews(st, S, g)
    <2>1. ASSUME NEW U \in SUBSET S
          PROVE  g[U] = IF U = {} THEN [state |-> st, reviews |-> {}]
                        ELSE Review(Max(U), g[U \ {Max(U)}])
      <3>1. U \ {Max(U)} \in SUBSET S
        OBVIOUS
      <3>2. g[U] = After(st, U) /\ g[U \ {Max(U)}] = After(st, U \ {Max(U)})
        BY <3>1
      <3> HIDE DEF g
      <3>3. U # {} => Review(Max(U), After(st, U \ {Max(U)})) = After(st, U)
        BY ReviewLatest
      <3> QED BY <3>2, <3>3, AfterNothing
    <2> DEFINE r(U) == IF U = {} THEN [state |-> st, reviews |-> {}]
                       ELSE Review(Max(U), g[U \ {Max(U)}])
    <2>2. \A U \in SUBSET S : g[U] = r(U)
      BY <2>1
    <2>3. g = [U \in SUBSET S |-> r(U)]
      <3> HIDE DEF r
      <3> QED BY <2>2
    <2> QED BY <2>3 DEF Reviews
  <1>2. Reviews(st, S, it)
    <2> HIDE DEF g
    <2> QED BY <1>1
  <1>3. ReviewAll(st, S) = it[S]
    BY DEF ReviewAll, Chronologically, MapThenFoldSet, Reviews
  <1> HIDE DEF it, g
  <1>4. /\ it[{}] = g[{}]
        /\ \A U \in SUBSET S : U # {} /\ it[U \ {Max(U)}] = g[U \ {Max(U)}] => it[U] = g[U]
    BY <1>1, <1>2 DEF Reviews
  <1>5. it[S] = g[S]
    BY <1>4, DaysFinite, AgreeChronologically
  <1> QED BY <1>3, <1>5 DEF g

-----------------------------------------------------------------------------
(* The checkpoint is what the editions behind it say.                      *)

Stored == {s \in Slots : archive[s] # None}

\* The editions that were printed: those behind the checkpoint, and those that
\* are behind the state about to be saved.
Printed == read \cup IF poll.phase = "save" THEN poll.fresh ELSE {}

VersionsType ==
  \A s \in Stored, i \in Items : archive[s][i] # None => archive[s][i].version # None

CheckpointExact ==
  /\ IsState(file)
  /\ read \in SUBSET Stored /\ \A s \in read : s <= file.last
  /\ \A i \in Items : file.items[i] = VersionAfter(archive, Empty.items, read, i)

\* A run works on the checkpoint; what it is about to save is exact as well.
PollExact ==
  /\ poll.phase \in {"idle", "latest", "history", "save"}
  /\ poll.phase \in {"latest", "history"} => poll.state = file
  /\ poll.phase = "history" => poll.latest \in Stored
  /\ poll.phase = "save" =>
       /\ IsState(poll.state) /\ poll.fresh \in SUBSET Stored
       /\ \A s \in poll.fresh : s > file.last /\ s <= poll.state.last
       /\ file.last <= poll.state.last
       /\ \A i \in Items : poll.state.items[i] =
            VersionAfter(archive, Empty.items, read \cup poll.fresh, i)

ToldExact ==
  /\ crashes \in Nat /\ told \in [Items \X Slots -> Nat]
  /\ \A x \in Items \X Slots :
       IF x \in Changed(archive, Empty.items, Printed) THEN told[x] \in 1 .. crashes + 1
       ELSE told[x] <= crashes

ConsumerInv == DaysType /\ VersionsType /\ CheckpointExact /\ PollExact /\ ToldExact

\* Editions that follow others: the later ones are told of what the earlier ones
\* left.
LEMMA VersionJoined ==
  ASSUME NEW a, NEW items, NEW base, NEW R \in SUBSET Slots, NEW U \in SUBSET Slots,
         \A r \in R, u \in U : r < u, NEW i, base[i] = VersionAfter(a, items, R, i)
  PROVE  VersionAfter(a, base, U, i) = VersionAfter(a, items, R \cup U, i)
PROOF
  <1> DEFINE B == AppearancesIn(a, i, U)
             C == AppearancesIn(a, i, R)
             D == AppearancesIn(a, i, R \cup U)
  <1>1. D = B \cup C /\ B \in SUBSET U /\ C \in SUBSET R
    BY DEF AppearancesIn
  <1>2. CASE B = {}
    BY <1>1, <1>2 DEF VersionAfter
  <1>3. CASE B # {}
    <2> HIDE DEF B, C, D
    <2>1. Max(B) \in B /\ \A t \in B : Max(B) >= t
      BY <1>1, <1>3, DaysFinite, MaxFacts
    <2>2. Max(B) \in Nat /\ \A t \in C : t \in Nat /\ t < Max(B)
      BY <1>1, <2>1, DaysFinite
    <2>3. Max(B) \in D /\ \A t \in D : Max(B) >= t
      BY <1>1, <2>1, <2>2
    <2>4. D \in SUBSET Slots
      BY <1>1
    <2>5. Max(D) = Max(B) /\ D # {}
      BY <2>3, <2>4, DaysFinite, MaxFacts
    <2> QED BY <1>3, <2>5 DEF VersionAfter, B, D
  <1> QED BY <1>2, <1>3

LEMMA ChangedJoined ==
  ASSUME NEW a, NEW items, NEW base, NEW R \in SUBSET Slots, NEW U \in SUBSET Slots,
         \A r \in R, u \in U : r < u,
         \A i \in Items : base[i] = VersionAfter(a, items, R, i)
  PROVE  Changed(a, items, R \cup U) = Changed(a, items, R) \cup Changed(a, base, U)
PROOF
  <1>1. \A s \in R : Before(R \cup U, s) = Before(R, s)
    <2> SUFFICES ASSUME NEW s \in R, NEW t \in U PROVE ~ (t < s)
      BY DEF Before
    <2> QED BY DaysFinite
  <1>2. \A s \in U : Before(R \cup U, s) = R \cup Before(U, s)
    BY DEF Before
  <1>3. \A s \in U, i \in Items :
          VersionAfter(a, items, R \cup Before(U, s), i) = VersionAfter(a, base, Before(U, s), i)
    <2> SUFFICES ASSUME NEW s \in U, NEW i \in Items
                 PROVE  VersionAfter(a, items, R \cup Before(U, s), i)
                          = VersionAfter(a, base, Before(U, s), i)
      OBVIOUS
    <2>1. Before(U, s) \in SUBSET U
      BY DEF Before
    <2> QED BY <2>1, VersionJoined
  <1>4. ASSUME NEW x \in Items \X R
        PROVE  x \in Changed(a, items, R \cup U) <=> x \in Changed(a, items, R)
    BY <1>1 DEF Changed
  <1>5. ASSUME NEW x \in Items \X U
        PROVE  x \in Changed(a, items, R \cup U) <=> x \in Changed(a, base, U)
    <2>1. x[1] \in Items /\ x[2] \in U
      OBVIOUS
    <2>2. VersionAfter(a, items, Before(R \cup U, x[2]), x[1])
            = VersionAfter(a, base, Before(U, x[2]), x[1])
      BY <1>2, <1>3, <2>1
    <2> QED BY <2>2 DEF Changed
  <1>6. /\ Changed(a, items, R \cup U) \subseteq (Items \X R) \cup (Items \X U)
        /\ Changed(a, items, R) \subseteq Items \X R /\ Changed(a, base, U) \subseteq Items \X U
    BY DEF Changed
  <1>7. \A s \in R : s \notin U
    <2> SUFFICES ASSUME NEW s \in R, s \in U PROVE FALSE
      OBVIOUS
    <2>1. s < s /\ s \in Nat
      BY DaysFinite
    <2> QED BY <2>1
  <1>8. \A x \in Items \X R : x \notin Items \X U
    BY <1>7
  <1> QED BY <1>4, <1>5, <1>6, <1>8

\* Only the editions that are asked about matter.
LEMMA VersionKept ==
  ASSUME NEW a, NEW b, NEW items, NEW R \in SUBSET Slots, \A s \in R : b[s] = a[s], NEW i
  PROVE  VersionAfter(b, items, R, i) = VersionAfter(a, items, R, i)
PROOF
  <1> DEFINE B == AppearancesIn(a, i, R)
  <1>1. AppearancesIn(b, i, R) = B /\ B \in SUBSET R
    BY DEF AppearancesIn
  <1>2. VersionAfter(b, items, R, i) = IF B = {} THEN items[i] ELSE b[Max(B)][i].version
    BY <1>1 DEF VersionAfter
  <1>3. VersionAfter(a, items, R, i) = IF B = {} THEN items[i] ELSE a[Max(B)][i].version
    BY DEF VersionAfter
  <1> HIDE DEF B
  <1>4. B # {} => Max(B) \in R
    BY <1>1, DaysFinite, MaxFacts
  <1> QED BY <1>2, <1>3, <1>4

LEMMA ChangedKept ==
  ASSUME NEW a, NEW b, NEW items, NEW R \in SUBSET Slots, \A s \in R : b[s] = a[s]
  PROVE  Changed(b, items, R) = Changed(a, items, R)
PROOF
  <1>1. ASSUME NEW x \in Items \X R
        PROVE  VersionAfter(b, items, Before(R, x[2]), x[1]) = VersionAfter(a, items, Before(R, x[2]), x[1])
    <2>1. /\ Before(R, x[2]) \in SUBSET Slots
          /\ \A s \in Before(R, x[2]) : b[s] = a[s]
      BY DEF Before
    <2> QED BY <2>1, VersionKept
  <1>2. \A x \in Items \X R : b[x[2]] = a[x[2]]
    OBVIOUS
  <1> QED BY <1>1, <1>2 DEF Changed

LEMMA ConsumerInit == Init => ConsumerInv
PROOF
  <1> SUFFICES ASSUME Init PROVE ConsumerInv
    OBVIOUS
  <1>1. IsState(Empty)
    BY DEF IsState, Empty
  <1>2. Stored = {} /\ DaysType /\ VersionsType
    BY DEF Init, Stored, DaysType, VersionsType
  <1>3. \A i : VersionAfter(archive, Empty.items, {}, i) = Empty.items[i]
    BY DEF VersionAfter, AppearancesIn
  <1>4. Printed = {} /\ Changed(archive, Empty.items, {}) = {}
    BY DEF Init, Printed, Idle, Changed
  <1>5. CheckpointExact
    BY <1>1, <1>2, <1>3 DEF Init, CheckpointExact
  <1>6. PollExact
    BY DEF Init, Idle, PollExact
  <1>7. ToldExact
    BY <1>4 DEF Init, ToldExact
  <1> QED BY <1>2, <1>5, <1>6, <1>7 DEF ConsumerInv

\* A publication adds an edition and leaves the others as they are.
LEMMA PublishFacts ==
  ASSUME DaysType, Publish
  PROVE  \E s \in Slots \ Stored, edition \in [Items -> UNION {Contents[i] \cup {None} : i \in Items}] :
           /\ \A i \in Items : edition[i] \in Contents[i] \cup {None}
           /\ s <= now /\ \A t \in Published(archive, now) : t < s
           /\ archive' = [archive EXCEPT ![s] =
                [i \in Items |-> IF edition[i] = None THEN None
                                 ELSE Entry(edition[i], Tracked(archive, s)[i] + 1)]]
           /\ \A t \in Slots \ {s} : archive'[t] = archive[t]
           /\ UNCHANGED <<now, file, poll, told, read, missed, crashes>>
PROOF
  <1>1. PICK s \in Slots, edition \in [Items -> UNION {Contents[i] \cup {None} : i \in Items}] :
          /\ \A i \in Items : edition[i] \in Contents[i] \cup {None}
          /\ s <= now /\ \A t \in Published(archive, now) : t < s
          /\ archive' = [archive EXCEPT ![s] =
               [i \in Items |-> IF edition[i] = None THEN None
                                ELSE Entry(edition[i], Tracked(archive, s)[i] + 1)]]
    <2>1. \E s \in Slots, edition \in [Items -> UNION {Contents[i] \cup {None} : i \in Items}] :
            /\ s <= now /\ s >= now - MaxDelay
            /\ \A t \in Published(archive, now) : t < s
            /\ \A i \in Items : edition[i] \in Contents[i] \cup {None}
            /\ ItemsPublished + Cardinality({i \in Items : edition[i] # None}) <= MaxItems
            /\ \E counts \in {Tracked(archive, s)} :
                 archive' = [archive EXCEPT ![s] =
                   [i \in Items |-> IF edition[i] = None THEN None
                                    ELSE Entry(edition[i], counts[i] + 1)]]
      BY Zenon DEF Publish
    <2>2. PICK s \in Slots, edition \in [Items -> UNION {Contents[i] \cup {None} : i \in Items}] :
            /\ s <= now /\ \A t \in Published(archive, now) : t < s
            /\ \A i \in Items : edition[i] \in Contents[i] \cup {None}
            /\ \E counts \in {Tracked(archive, s)} :
                 archive' = [archive EXCEPT ![s] =
                   [i \in Items |-> IF edition[i] = None THEN None
                                    ELSE Entry(edition[i], counts[i] + 1)]]
      BY <2>1, Zenon
    <2>3. PICK counts \in {Tracked(archive, s)} :
            archive' = [archive EXCEPT ![s] =
              [i \in Items |-> IF edition[i] = None THEN None
                               ELSE Entry(edition[i], counts[i] + 1)]]
      BY <2>2
    <2>4. counts = Tracked(archive, s)
      OBVIOUS
    <2>5. archive' = [archive EXCEPT ![s] =
              [i \in Items |-> IF edition[i] = None THEN None
                               ELSE Entry(edition[i], Tracked(archive, s)[i] + 1)]]
      BY <2>3, <2>4, Zenon
    <2> QED BY <2>2, <2>5, Zenon
  <1>2. s \notin Stored
    <2>1. s \in Stored => s \in Published(archive, now)
      BY <1>1, PublishedDays DEF Stored
    <2>2. s \in Nat
      BY DaysFinite
    <2> QED BY <1>1, <2>1, <2>2
  <1>3. \A t \in Slots \ {s} : archive'[t] = archive[t]
    BY <1>1 DEF DaysType
  <1>4. UNCHANGED <<now, file, poll, told, read, missed, crashes>>
    BY DEF Publish
  <1> QED BY <1>1, <1>2, <1>3, <1>4

LEMMA PublishExact == ConsumerInv /\ Publish => ConsumerInv'
PROOF
  <1> SUFFICES ASSUME ConsumerInv, Publish PROVE ConsumerInv'
    OBVIOUS
  <1>1. /\ DaysType /\ VersionsType /\ CheckpointExact /\ PollExact /\ ToldExact
    BY DEF ConsumerInv
  <1>2. PICK s \in Slots \ Stored,
             edition \in [Items -> UNION {Contents[i] \cup {None} : i \in Items}] :
          /\ \A i \in Items : edition[i] \in Contents[i] \cup {None}
          /\ archive' = [archive EXCEPT ![s] =
               [i \in Items |-> IF edition[i] = None THEN None
                                ELSE Entry(edition[i], Tracked(archive, s)[i] + 1)]]
          /\ \A t \in Slots \ {s} : archive'[t] = archive[t]
          /\ UNCHANGED <<now, file, poll, told, read, missed, crashes>>
    BY <1>1, PublishFacts
  <1>3. DaysType'
    BY <1>1, DaysStep DEF Next
  <1>4. Stored' = {t \in Slots : archive'[t] # None} /\ Stored \subseteq Stored'
    BY <1>2 DEF Stored
  <1>5. \A R \in SUBSET Stored :
          /\ \A i : VersionAfter(archive', Empty.items, R, i) = VersionAfter(archive, Empty.items, R, i)
          /\ Changed(archive', Empty.items, R) = Changed(archive, Empty.items, R)
    <2> SUFFICES ASSUME NEW R \in SUBSET Stored
                 PROVE  /\ \A i : VersionAfter(archive', Empty.items, R, i)
                                    = VersionAfter(archive, Empty.items, R, i)
                        /\ Changed(archive', Empty.items, R) = Changed(archive, Empty.items, R)
      OBVIOUS
    <2>1. R \in SUBSET Slots /\ \A t \in R : archive'[t] = archive[t]
      BY <1>2 DEF Stored
    <2>2. \A i : VersionAfter(archive', Empty.items, R, i) = VersionAfter(archive, Empty.items, R, i)
      <3> SUFFICES ASSUME NEW i
                   PROVE  VersionAfter(archive', Empty.items, R, i)
                            = VersionAfter(archive, Empty.items, R, i)
        OBVIOUS
      <3> QED BY <2>1, VersionKept
    <2>3. Changed(archive', Empty.items, R) = Changed(archive, Empty.items, R)
      BY <2>1, ChangedKept
    <2> QED BY <2>2, <2>3
  <1>6. VersionsType'
    <2> SUFFICES ASSUME NEW t \in Slots, archive'[t] # None, NEW i \in Items, archive'[t][i] # None
                 PROVE  archive'[t][i].version # None
      BY DEF VersionsType, Stored
    <2>1. CASE t = s
      <3>1. archive'[s] = [j \in Items |-> IF edition[j] = None THEN None
                                           ELSE Entry(edition[j], Tracked(archive, s)[j] + 1)]
        BY <1>1, <1>2 DEF DaysType
      <3>2. archive'[s][i] = IF edition[i] = None THEN None
                             ELSE Entry(edition[i], Tracked(archive, s)[i] + 1)
        BY <3>1
      <3>3. edition[i] # None /\ archive'[s][i].version = edition[i].version
        BY <2>1, <3>2 DEF Entry
      <3> QED BY <1>2, <2>1, <3>3, ReadersAssumption
    <2>2. CASE t # s
      BY <1>1, <1>2, <2>2 DEF VersionsType, Stored
    <2> QED BY <2>1, <2>2
  <1>7. CheckpointExact'
    <2>1. read \in SUBSET Stored
      BY <1>1 DEF CheckpointExact
    <2> QED BY <1>1, <1>2, <1>4, <1>5, <2>1 DEF CheckpointExact, IsState
  <1>8. PollExact'
    <2>1. poll.phase = "save" => read \cup poll.fresh \in SUBSET Stored
      BY <1>1 DEF CheckpointExact, PollExact
    <2> QED BY <1>1, <1>2, <1>4, <1>5, <2>1 DEF PollExact, IsState
  <1>9. ToldExact'
    <2>1. Printed \in SUBSET Stored /\ Printed' = Printed
      BY <1>1, <1>2 DEF CheckpointExact, PollExact, Printed
    <2> QED BY <1>1, <1>2, <1>5, <2>1 DEF ToldExact
  <1> QED BY <1>3, <1>6, <1>7, <1>8, <1>9 DEF ConsumerInv

\* The history is reviewed: what is new or changed is told, once more than before.
LEMMA HistoryExactlyTold == ConsumerInv /\ GetHistory => ConsumerInv'
PROOF
  <1> SUFFICES ASSUME ConsumerInv, GetHistory PROVE ConsumerInv'
    OBVIOUS
  <1>1. /\ DaysType /\ VersionsType /\ CheckpointExact /\ PollExact /\ ToldExact
    BY DEF ConsumerInv
  <1> DEFINE history == History(archive, now)
             fresh == {s \in history \cup {poll.latest} : s > poll.state.last}
             result == ReviewAll(poll.state, fresh)
  <1>2. /\ poll.phase = "history" /\ poll.state = file
        /\ told' = [x \in DOMAIN told |-> told[x] + IF x \in result.reviews THEN 1 ELSE 0]
        /\ poll' = [phase |-> "save", state |-> result.state, fresh |-> fresh]
        /\ UNCHANGED <<now, archive, file, read, crashes>>
    BY <1>1 DEF GetHistory, PollExact
  <1>3. fresh \in SUBSET Stored /\ \A s \in fresh : s > file.last
    BY <1>1, <1>2, PublishedDays DEF PollExact, Stored
  <1>4. read \in SUBSET Stored /\ IsState(file) /\ \A s \in read : s <= file.last
    BY <1>1 DEF CheckpointExact
  <1>5. Stored \subseteq Slots /\ fresh \in SUBSET Slots /\ read \in SUBSET Slots
    BY <1>3, <1>4 DEF Stored
  <1> HIDE DEF fresh
  <1>6. result = After(file, fresh)
    BY <1>2, <1>4, <1>5, ReviewAllIs
  <1> HIDE DEF result
  <1>7. \A r \in read, s \in fresh : r < s
    <2> SUFFICES ASSUME NEW r \in read, NEW s \in fresh PROVE r < s
      OBVIOUS
    <2>1. r \in Nat /\ s \in Nat /\ file.last \in Nat
      BY <1>4, <1>5, DaysFinite DEF IsState
    <2> QED BY <1>3, <1>4, <2>1
  <1>8. \A i \in Items : file.items[i] = VersionAfter(archive, Empty.items, read, i)
    BY <1>1 DEF CheckpointExact
  <1>9. \A i \in Items :
          VersionAfter(archive, file.items, fresh, i)
            = VersionAfter(archive, Empty.items, read \cup fresh, i)
    BY <1>5, <1>7, <1>8, VersionJoined
  <1>10. Changed(archive, Empty.items, read \cup fresh)
           = Changed(archive, Empty.items, read) \cup Changed(archive, file.items, fresh)
    BY <1>5, <1>7, <1>8, ChangedJoined
  <1>11. CheckpointExact' /\ DaysType' /\ VersionsType'
    BY <1>1, <1>2 DEF CheckpointExact, DaysType, VersionsType, Stored, IsState
  <1>12. PollExact'
    <2>1. /\ poll'.phase = "save" /\ poll'.fresh = fresh
          /\ poll'.state = [last |-> IF fresh = {} THEN file.last ELSE Max(fresh),
                            items |-> [i \in Items |-> VersionAfter(archive, file.items, fresh, i)]]
      BY <1>2, <1>6 DEF After
    <2>2. fresh # {} => /\ Max(fresh) \in fresh /\ Max(fresh) \in Nat
                        /\ \A s \in fresh : s <= Max(fresh) /\ s \in Nat
      <3>1. fresh # {} => Max(fresh) \in fresh /\ \A s \in fresh : Max(fresh) >= s
        BY <1>5, DaysFinite, MaxFacts
      <3> QED BY <1>5, <3>1, DaysFinite
    <2>3. file.last \in Nat
      BY <1>4 DEF IsState
    <2>4. /\ poll'.state.last \in Nat /\ file.last <= poll'.state.last
          /\ \A s \in fresh : s <= poll'.state.last
      BY <1>3, <2>1, <2>2, <2>3
    <2>5. IsState(poll'.state)
      BY <2>1, <2>4 DEF IsState
    <2>6. \A i \in Items : poll'.state.items[i] =
                             VersionAfter(archive, Empty.items, read \cup fresh, i)
      BY <1>9, <2>1
    <2>7. Stored' = Stored
      BY <1>2 DEF Stored
    <2> QED BY <1>2, <1>3, <2>1, <2>4, <2>5, <2>6, <2>7 DEF PollExact
  <1>13. ToldExact'
    <2>1. Printed = read /\ Printed' = read \cup fresh
      BY <1>2 DEF Printed
    <2>2. result.reviews = Changed(archive, file.items, fresh)
      BY <1>6 DEF After
    <2>3. crashes \in Nat /\ told \in [Items \X Slots -> Nat]
      BY <1>1 DEF ToldExact
    <2>4. ASSUME NEW x \in Items \X Slots
          PROVE  /\ told'[x] \in Nat
                 /\ IF x \in Changed(archive, Empty.items, read \cup fresh)
                    THEN told'[x] \in 1 .. crashes + 1 ELSE told'[x] <= crashes
      <3>1. /\ told'[x] = told[x] + IF x \in Changed(archive, file.items, fresh) THEN 1 ELSE 0
            /\ told[x] \in Nat
        BY <1>2, <2>2, <2>3
      <3>2. IF x \in Changed(archive, Empty.items, read) THEN told[x] \in 1 .. crashes + 1
            ELSE told[x] <= crashes
        BY <1>1, <2>1 DEF ToldExact
      <3>3. ~ (x \in Changed(archive, Empty.items, read) /\ x \in Changed(archive, file.items, fresh))
        <4>1. x \in Changed(archive, Empty.items, read) => x[2] \in read
          BY DEF Changed
        <4>2. x \in Changed(archive, file.items, fresh) => x[2] \in fresh
          BY DEF Changed
        <4>3. x[2] \in Nat
          BY DaysFinite
        <4> QED BY <1>7, <4>1, <4>2, <4>3
      <3>4. x \in Changed(archive, Empty.items, read \cup fresh)
              <=> x \in Changed(archive, Empty.items, read) \/ x \in Changed(archive, file.items, fresh)
        BY <1>10
      <3>5. CASE x \in Changed(archive, file.items, fresh)
        <4>1. told'[x] = told[x] + 1 /\ told[x] <= crashes
          BY <3>1, <3>2, <3>3, <3>5
        <4> QED BY <2>3, <3>1, <3>4, <3>5, <4>1
      <3>6. CASE x \notin Changed(archive, file.items, fresh)
        <4>1. told'[x] = told[x]
          BY <3>1, <3>6
        <4> QED BY <3>1, <3>2, <3>4, <3>6, <4>1
      <3> QED BY <3>5, <3>6
    <2>5. told' \in [Items \X Slots -> Nat]
      <3>1. DOMAIN told = Items \X Slots
        BY <2>3
      <3>2. told' = [x \in Items \X Slots |-> told'[x]]
        BY <1>2, <3>1
      <3> QED BY <2>4, <3>2
    <2> QED BY <1>2, <2>1, <2>3, <2>4, <2>5 DEF ToldExact
  <1> QED BY <1>11, <1>12, <1>13 DEF ConsumerInv

LEMMA ConsumerStep == ConsumerInv /\ [Next]_vars => ConsumerInv'
PROOF
  <1> SUFFICES ASSUME ConsumerInv, [Next]_vars PROVE ConsumerInv'
    OBVIOUS
  <1>1. /\ DaysType /\ VersionsType /\ CheckpointExact /\ PollExact /\ ToldExact
    BY DEF ConsumerInv
  <1>2. DaysType'
    BY <1>1, DaysStep
  <1>3. ASSUME UNCHANGED <<archive, file, poll, told, read, crashes>>
        PROVE  ConsumerInv'
    BY <1>1, <1>2, <1>3
       DEF ConsumerInv, VersionsType, Stored, CheckpointExact, IsState, PollExact, ToldExact, Printed
  <1>4. CASE Tick
    BY <1>3, <1>4 DEF Tick
  <1>5. ASSUME UNCHANGED archive, CheckpointExact', PollExact', ToldExact'
        PROVE  ConsumerInv'
    BY <1>1, <1>2, <1>5 DEF ConsumerInv, VersionsType, Stored
  \* The run moves on without having printed anything.
  <1>6. ASSUME UNCHANGED <<archive, file, told, read, crashes>>, poll.phase # "save",
               poll'.phase \in {"idle", "latest", "history"},
               poll'.phase \in {"latest", "history"} => poll'.state = file,
               poll'.phase = "history" => poll'.latest \in Stored
        PROVE  ConsumerInv'
    <2>1. Printed' = Printed
      BY <1>6 DEF Printed
    <2>2. CheckpointExact' /\ ToldExact'
      BY <1>1, <1>6, <2>1 DEF CheckpointExact, ToldExact, Stored, IsState
    <2>3. PollExact'
      BY <1>6 DEF PollExact, Stored
    <2> QED BY <1>5, <1>6, <2>2, <2>3
  <1>7. CASE Start
    BY <1>6, <1>7 DEF Start
  <1>8. CASE GetLatest
    <2>1. poll.state = file
      BY <1>1, <1>8 DEF GetLatest, PollExact
    <2>2. Latest(archive, now) # None => Latest(archive, now) \in Stored
      <3> DEFINE S == Published(archive, now)
      <3>1. S \in SUBSET Stored /\ S \in SUBSET Slots
        BY <1>1, PublishedDays DEF Stored
      <3> HIDE DEF S
      <3>2. S # {} => Max(S) \in S
        BY <3>1, DaysFinite, MaxFacts
      <3> QED BY <3>1, <3>2 DEF Latest, S
    <2> QED BY <1>6, <1>8, <2>1, <2>2 DEF GetLatest, Idle
  <1>9. CASE Fail
    BY <1>6, <1>9 DEF Fail, Idle
  <1>10. CASE Save
    <2>1. /\ poll.phase = "save" /\ file' = poll.state /\ read' = read \cup poll.fresh
          /\ poll'.phase = "idle" /\ UNCHANGED <<archive, told, crashes>>
      BY <1>10 DEF Save, Idle
    <2>2. Printed' = Printed
      BY <2>1 DEF Printed
    <2>3. CheckpointExact'
      <3>1. /\ IsState(poll.state) /\ read \cup poll.fresh \in SUBSET Stored
            /\ \A i \in Items : poll.state.items[i] =
                 VersionAfter(archive, Empty.items, read \cup poll.fresh, i)
        BY <1>1, <2>1 DEF CheckpointExact, PollExact
      <3>2. \A s \in read \cup poll.fresh : s <= poll.state.last
        <4>1. \A s \in read : s <= file.last /\ s \in Nat
          BY <1>1, DaysFinite DEF CheckpointExact, Stored
        <4>2. file.last <= poll.state.last /\ file.last \in Nat /\ poll.state.last \in Nat
          BY <1>1, <2>1 DEF CheckpointExact, PollExact, IsState
        <4> QED BY <1>1, <2>1, <4>1, <4>2 DEF PollExact
      <3> QED BY <2>1, <3>1, <3>2 DEF CheckpointExact, IsState, Stored
    <2>4. PollExact' /\ ToldExact'
      BY <1>1, <2>1, <2>2 DEF PollExact, ToldExact
    <2> QED BY <1>5, <2>1, <2>3, <2>4
  <1>11. CASE Crash
    <2>1. /\ poll.phase = "save" /\ poll'.phase = "idle" /\ crashes' = crashes + 1
          /\ UNCHANGED <<archive, file, told, read>>
      BY <1>11 DEF Crash, Idle
    <2>2. CheckpointExact' /\ PollExact'
      BY <1>1, <2>1 DEF CheckpointExact, PollExact, IsState, Stored
    <2>3. ToldExact'
      <3>1. /\ read \in SUBSET Slots /\ poll.fresh \in SUBSET Slots
            /\ \A r \in read, s \in poll.fresh : r < s
        <4>1. read \in SUBSET Slots /\ poll.fresh \in SUBSET Slots
          BY <1>1, <2>1 DEF CheckpointExact, PollExact, Stored
        <4>2. \A r \in read : r \in Nat /\ r <= file.last
          BY <1>1, <4>1, DaysFinite DEF CheckpointExact
        <4>3. \A s \in poll.fresh : s \in Nat /\ s > file.last
          BY <1>1, <2>1, <4>1, DaysFinite DEF PollExact
        <4>4. file.last \in Nat
          BY <1>1 DEF CheckpointExact, IsState
        <4> QED BY <4>1, <4>2, <4>3, <4>4
      <3>2. Changed(archive, Empty.items, Printed)
              = Changed(archive, Empty.items, read) \cup Changed(archive, file.items, poll.fresh)
        BY <1>1, <2>1, <3>1, ChangedJoined DEF CheckpointExact, Printed
      <3>3. Printed' = read
        BY <2>1 DEF Printed
      <3>4. crashes \in Nat /\ told \in [Items \X Slots -> Nat]
        BY <1>1 DEF ToldExact
      <3>5. ASSUME NEW x \in Items \X Slots
            PROVE  IF x \in Changed(archive, Empty.items, read) THEN told[x] \in 1 .. crashes + 1 + 1
                   ELSE told[x] <= crashes + 1
        <4>1. IF x \in Changed(archive, Empty.items, Printed) THEN told[x] \in 1 .. crashes + 1
              ELSE told[x] <= crashes
          BY <1>1 DEF ToldExact
        <4>2. told[x] \in Nat
          BY <3>4
        <4> QED BY <3>2, <3>4, <4>1, <4>2
      <3> QED BY <2>1, <3>3, <3>4, <3>5 DEF ToldExact
    <2> QED BY <1>5, <2>1, <2>2, <2>3
  <1>12. CASE UNCHANGED vars
    BY <1>3, <1>12 DEF vars
  <1> QED BY <1>4, <1>7, <1>8, <1>9, <1>10, <1>11, <1>12, PublishExact, HistoryExactlyTold DEF Next

LEMMA ConsumerAlways == Spec => []ConsumerInv
PROOF
  <1> QED BY ConsumerInit, ConsumerStep, PTL DEF Spec

-----------------------------------------------------------------------------
(* No edition is passed over silently.                                     *)

\* A consumer that was told of no gap has, with the history, every edition since
\* its checkpoint: the oldest of the history is not later than the checkpoint.
THEOREM NothingPassedSilently == Spec => []NothingMissedSilently
PROOF
  <1>1. Init => NothingMissedSilently
    BY DEF Init, NothingMissedSilently
  <1>2. ConsumerInv /\ NothingMissedSilently /\ [Next]_vars => NothingMissedSilently'
    <2> SUFFICES ASSUME ConsumerInv, NothingMissedSilently, [Next]_vars
                 PROVE  NothingMissedSilently'
      OBVIOUS
    <2>1. CASE GetHistory
      <3> DEFINE history == History(archive, now)
                 fresh == {s \in history \cup {poll.latest} : s > poll.state.last}
                 result == ReviewAll(poll.state, fresh)
                 passed == {s \in Published(archive, now) : s > poll.state.last /\ s < result.state.last}
      <3>1. missed' = IF poll.state.last = 0 \/ Gap(poll.state.last, history, poll.latest)
                      THEN missed ELSE missed \cup (passed \ fresh)
        BY <2>1 DEF GetHistory
      <3>2. poll.state.last \in Nat /\ DaysType /\ now \in Nat
        BY <2>1 DEF GetHistory, ConsumerInv, PollExact, CheckpointExact, IsState, DaysType
      <3>3. ASSUME poll.state.last # 0, ~ Gap(poll.state.last, history, poll.latest)
            PROVE  passed \subseteq fresh
        <4> SUFFICES ASSUME NEW s \in passed PROVE s \in history
          OBVIOUS
        <4> HIDE DEF result
        <4>1. s \in Published(archive, now) /\ s > poll.state.last /\ s \in Nat
          BY <3>2, PublishedDays, DaysFinite
        <4>2. history # {} /\ poll.state.last >= Min(history)
          <5>1. history # {} => Min(history) \in Nat
            BY <3>2, PublishedDays, DaysFinite, MinFacts
          <5> QED BY <3>2, <3>3, <5>1 DEF Gap
        <4>3. Min(history) \in Nat /\ Min(history) > now - Window
          BY <3>2, <4>2, PublishedDays, DaysFinite, MinFacts
        <4>4. s > now - Window
          BY <3>2, <4>1, <4>2, <4>3, EditionReadersAssumption
        <4> QED BY <3>2, <4>1, <4>4, PublishedDays
      <3> HIDE DEF passed, fresh, history
      <3> QED BY <3>1, <3>3 DEF NothingMissedSilently
    <2>2. CASE UNCHANGED missed
      BY <2>2 DEF NothingMissedSilently
    <2> QED BY <2>1, <2>2 DEF Next, vars, Tick, Publish, Start, GetLatest, Save, Fail, Crash
  <1> QED BY <1>1, <1>2, ConsumerAlways, PTL DEF Spec

-----------------------------------------------------------------------------
(* Every change is told once, but for a crash.                             *)

\* What is due of the editions behind the checkpoint is what changed in them.
LEMMA DueIsChanged ==
  ASSUME VersionsType, CheckpointExact, NEW i \in Items, NEW s \in Slots
  PROVE  Due(i, s) <=> <<i, s>> \in Changed(archive, Empty.items, read)
PROOF
  <1> DEFINE before == {t \in AppearancesIn(archive, i, read) : t < s}
             v == VersionAfter(archive, Empty.items, Before(read, s), i)
  <1>1. before = AppearancesIn(archive, i, Before(read, s))
    BY DEF AppearancesIn, Before
  <1>2. v = IF before = {} THEN None ELSE archive[Max(before)][i].version
    BY <1>1 DEF VersionAfter, Empty
  <1>3. ASSUME s \in read, archive[s][i] # None
        PROVE  archive[s][i].version # None
    BY <1>3 DEF VersionsType, CheckpointExact
  <1>4. Due(i, s) <=> /\ s \in read /\ archive[s][i] # None
                      /\ <<i, archive[s][i].version>> \in Matching
                      /\ before = {} \/ archive[Max(before)][i].version # archive[s][i].version
    BY DEF Due
  <1>5. <<i, s>> \in Changed(archive, Empty.items, read)
          <=> /\ s \in read /\ archive[s][i] # None
              /\ <<i, archive[s][i].version>> \in Matching
              /\ v # archive[s][i].version
    BY DEF Changed
  <1> HIDE DEF before, v
  <1> QED BY <1>2, <1>3, <1>4, <1>5

\* What is about to be saved changes nothing of what is behind the checkpoint.
LEMMA DueIsPrinted ==
  ASSUME ConsumerInv, NEW i \in Items, NEW s \in Slots
  PROVE  /\ Due(i, s) => <<i, s>> \in Changed(archive, Empty.items, Printed)
         /\ s \in read /\ ~Due(i, s) => <<i, s>> \notin Changed(archive, Empty.items, Printed)
PROOF
  <1>1. /\ VersionsType /\ CheckpointExact /\ PollExact
    BY DEF ConsumerInv
  <1>2. Due(i, s) <=> <<i, s>> \in Changed(archive, Empty.items, read)
    BY <1>1, DueIsChanged
  <1>3. CASE poll.phase # "save"
    BY <1>2, <1>3 DEF Printed
  <1>4. CASE poll.phase = "save"
    <2>1. /\ read \in SUBSET Slots /\ poll.fresh \in SUBSET Slots
      BY <1>1, <1>4 DEF CheckpointExact, PollExact, Stored
    <2>2. \A r \in read, u \in poll.fresh : r < u
      <3>1. \A r \in read : r \in Nat /\ r <= file.last
        BY <1>1, <2>1, DaysFinite DEF CheckpointExact
      <3>2. \A u \in poll.fresh : u \in Nat /\ u > file.last
        BY <1>1, <1>4, <2>1, DaysFinite DEF PollExact
      <3>3. file.last \in Nat
        BY <1>1 DEF CheckpointExact, IsState
      <3> QED BY <3>1, <3>2, <3>3
    <2>3. Changed(archive, Empty.items, Printed)
            = Changed(archive, Empty.items, read) \cup Changed(archive, file.items, poll.fresh)
      <3>1. \A j \in Items : file.items[j] = VersionAfter(archive, Empty.items, read, j)
        BY <1>1 DEF CheckpointExact
      <3>2. Printed = read \cup poll.fresh
        BY <1>4 DEF Printed
      <3>3. Changed(archive, Empty.items, read \cup poll.fresh)
              = Changed(archive, Empty.items, read) \cup Changed(archive, file.items, poll.fresh)
        BY <2>1, <2>2, <3>1, ChangedJoined
      <3> QED BY <3>2, <3>3
    <2>4. s \in read => <<i, s>> \notin Changed(archive, file.items, poll.fresh)
      <3> SUFFICES ASSUME s \in read, s \in poll.fresh PROVE FALSE
        BY DEF Changed
      <3>1. s < s /\ s \in Nat
        BY <2>1, <2>2, DaysFinite
      <3> QED BY <3>1
    <2> QED BY <1>2, <2>3, <2>4
  <1> QED BY <1>3, <1>4

\* Every change behind the checkpoint was printed, once unless the consumer crashed
\* between printing and the checkpoint, and what was no change was not printed.
THEOREM ToldOnce == Spec => []ToldOnceUnlessCrashed
PROOF
  <1>1. ConsumerInv => ToldOnceUnlessCrashed
    <2> SUFFICES ASSUME ConsumerInv, NEW i \in Items, NEW s \in Slots
                 PROVE  /\ told[i, s] <= 1 + crashes
                        /\ Due(i, s) => told[i, s] > 0
                        /\ s \in read /\ ~Due(i, s) => told[i, s] <= crashes
      BY DEF ToldOnceUnlessCrashed
    <2>1. /\ Due(i, s) => <<i, s>> \in Changed(archive, Empty.items, Printed)
          /\ s \in read /\ ~Due(i, s) => <<i, s>> \notin Changed(archive, Empty.items, Printed)
      BY DueIsPrinted
    <2>2. /\ crashes \in Nat /\ told[<<i, s>>] \in Nat
          /\ IF <<i, s>> \in Changed(archive, Empty.items, Printed)
             THEN told[<<i, s>>] \in 1 .. crashes + 1 ELSE told[<<i, s>>] <= crashes
      BY DEF ConsumerInv, ToldExact
    <2>3. told[i, s] = told[<<i, s>>]
      OBVIOUS
    <2> DEFINE n == told[<<i, s>>]
    <2>4. /\ n <= 1 + crashes
          /\ Due(i, s) => n > 0
          /\ s \in read /\ ~Due(i, s) => n <= crashes
      <3> HIDE DEF n
      <3>1. crashes \in Nat /\ n \in Nat
        BY <2>2 DEF n
      <3>2. IF <<i, s>> \in Changed(archive, Empty.items, Printed)
            THEN n \in 1 .. crashes + 1 ELSE n <= crashes
        BY <2>2 DEF n
      <3> QED BY <2>1, <3>1, <3>2
    <2> QED BY <2>3, <2>4
  <1> QED BY <1>1, ConsumerAlways, PTL

-----------------------------------------------------------------------------
(* The counts of the editions.                                             *)

UpTo(S, s) == {t \in S : t <= s}

\* An item of an edition counts the editions up to it that have the item.
Counted(a, S) ==
  \A s \in S, i \in Items :
    a[s][i] # None => a[s][i].count = Cardinality(AppearancesIn(a, i, UpTo(S, s)))

LEMMA CountsGrow ==
  ASSUME NEW a, NEW S \in SUBSET Slots, Counted(a, S), NEW i \in Items,
         NEW s \in S, a[s][i] # None
  PROVE  /\ a[s][i].count \in Nat \ {0}
         /\ \A t \in S : t < s /\ a[t][i] # None => a[t][i].count < a[s][i].count
PROOF
  <1> DEFINE B(t) == AppearancesIn(a, i, UpTo(S, t))
  <1>1. \A t \in S : a[t][i] # None => a[t][i].count = Cardinality(B(t)) /\ t \in B(t)
    <2>1. \A t \in S : t <= t
      BY DaysFinite
    <2> QED BY <2>1 DEF Counted, AppearancesIn, UpTo
  <1>2. \A t \in S : IsFiniteSet(B(t)) /\ B(t) \in SUBSET Slots
    <2> SUFFICES ASSUME NEW t \in S PROVE IsFiniteSet(B(t)) /\ B(t) \in SUBSET Slots
      OBVIOUS
    <2>1. B(t) \in SUBSET Slots
      BY DEF AppearancesIn, UpTo
    <2> QED BY <2>1, DaysFinite
  <1>3. ASSUME NEW t \in S, t < s, a[t][i] # None
        PROVE  B(t) \in SUBSET B(s) /\ s \notin B(t)
    <2>1. \A u \in S : u \in Nat
      BY DaysFinite
    <2> QED BY <1>3, <2>1 DEF AppearancesIn, UpTo
  <1>4. \A t \in S : Cardinality(B(t)) \in Nat
    BY <1>2, FS_CardinalityType
  <1> HIDE DEF B
  <1>5. Cardinality(B(s)) # 0
    BY <1>1, <1>2, FS_EmptySet
  <1>6. ASSUME NEW t \in S, t < s, a[t][i] # None
        PROVE  Cardinality(B(t)) < Cardinality(B(s))
    <2>1. B(t) \in SUBSET B(s) /\ B(t) # B(s) /\ IsFiniteSet(B(s))
      BY <1>1, <1>2, <1>3, <1>6
    <2>2. Cardinality(B(t)) <= Cardinality(B(s)) /\ Cardinality(B(t)) # Cardinality(B(s))
      BY <2>1, FS_Subset
    <2> QED BY <1>4, <2>2
  <1> QED BY <1>1, <1>4, <1>5, <1>6

\* What the tracker has of an item after the editions of U: the count of its last one.
CountAfter(a, i, U) ==
  LET B == AppearancesIn(a, i, U) IN IF B = {} THEN 0 ELSE a[Max(B)][i].count

LEMMA CountIsNat ==
  ASSUME NEW a, NEW S \in SUBSET Slots, Counted(a, S), NEW U \in SUBSET S, NEW i \in Items
  PROVE  CountAfter(a, i, U) \in Nat
PROOF
  <1> DEFINE B == AppearancesIn(a, i, U)
  <1>1. B \in SUBSET U /\ \A t \in B : a[t][i] # None
    BY DEF AppearancesIn
  <1>2. CountAfter(a, i, U) = IF B = {} THEN 0 ELSE a[Max(B)][i].count
    BY DEF CountAfter
  <1> HIDE DEF B
  <1>3. B # {} => Max(B) \in B
    BY <1>1, DaysFinite, MaxFacts
  <1>4. B # {} => a[Max(B)][i].count \in Nat \ {0}
    BY <1>1, <1>3, CountsGrow
  <1> QED BY <1>2, <1>4

LEMMA TrackLatest ==
  ASSUME NEW a, NEW S \in SUBSET Slots, Counted(a, S), NEW U \in SUBSET S, U # {},
         NEW i \in Items
  PROVE  CountAfter(a, i, U) =
           IF a[Max(U)][i] = None THEN CountAfter(a, i, U \ {Max(U)})
           ELSE Max({a[Max(U)][i].count, CountAfter(a, i, U \ {Max(U)}) + 1})
PROOF
  <1> DEFINE s == Max(U)
             V == U \ {s}
             before == CountAfter(a, i, V)
  <1>1. s \in U /\ \A t \in U : s >= t
    BY DaysFinite, MaxFacts
  <1>2. IF a[s][i] # None THEN AppearancesIn(a, i, U) # {} /\ Max(AppearancesIn(a, i, U)) = s
        ELSE AppearancesIn(a, i, U) = AppearancesIn(a, i, V)
    BY LatestAppearance
  <1>3. before \in Nat
    BY CountIsNat
  <1>4. CASE a[s][i] = None
    BY <1>2, <1>4 DEF CountAfter
  <1>5. CASE a[s][i] # None
    <2>1. CountAfter(a, i, U) = a[s][i].count
      BY <1>2, <1>5 DEF CountAfter
    <2>2. a[s][i].count \in Nat \ {0}
      BY <1>1, <1>5, CountsGrow
    <2>3. before < a[s][i].count
      <3> DEFINE C == AppearancesIn(a, i, V)
      <3>1. C \in SUBSET V /\ \A t \in C : a[t][i] # None
        BY DEF AppearancesIn
      <3>2. before = IF C = {} THEN 0 ELSE a[Max(C)][i].count
        BY DEF CountAfter
      <3> HIDE DEF C, before
      <3>3. C # {} => Max(C) \in C /\ Max(C) \in V /\ Max(C) \in Nat /\ s \in Nat
        BY <1>1, <3>1, DaysFinite, MaxFacts
      <3> HIDE DEF s
      <3>4. C # {} => Max(C) < s
        BY <1>1, <3>3
      <3>5. C # {} => a[Max(C)][i].count < a[s][i].count
        BY <1>1, <1>5, <3>1, <3>3, <3>4, CountsGrow
      <3> QED BY <2>2, <3>2, <3>5
    <2> HIDE DEF before, s, V
    <2>4. Max({a[s][i].count, before + 1}) = a[s][i].count
      BY <1>3, <2>2, <2>3, MaxOfTwo
    <2> QED BY <1>5, <2>1, <2>4 DEF s, V, before
  <1> QED BY <1>4, <1>5

\* trackItemStates, as the fold has it: one edition, and all of them.
Track(a, s, counts) ==
  [i \in Items |-> IF a[s][i] = None THEN counts[i] ELSE Max({a[s][i].count, counts[i] + 1})]

Tracks(a, S, h) ==
  h = [U \in SUBSET S |-> IF U = {} THEN [i \in Items |-> 0]
                          ELSE Track(a, Max(U), h[U \ {Max(U)}])]

CountsAfter(a, U) == [i \in Items |-> CountAfter(a, i, U)]

LEMMA TrackOneMore ==
  ASSUME NEW a, NEW S \in SUBSET Slots, Counted(a, S), NEW U \in SUBSET S, U # {}
  PROVE  CountsAfter(a, U) = Track(a, Max(U), CountsAfter(a, U \ {Max(U)}))
PROOF
  <1> DEFINE s == Max(U)
             counts == CountsAfter(a, U \ {s})
             more(i) == IF a[s][i] = None THEN counts[i] ELSE Max({a[s][i].count, counts[i] + 1})
  <1>1. \A i \in Items : counts[i] = CountAfter(a, i, U \ {s})
    BY DEF CountsAfter
  <1>2. \A i \in Items : CountAfter(a, i, U) =
          IF a[s][i] = None THEN CountAfter(a, i, U \ {s})
          ELSE Max({a[s][i].count, CountAfter(a, i, U \ {s}) + 1})
    BY TrackLatest
  <1>3. ASSUME NEW i \in Items PROVE CountAfter(a, i, U) = more(i)
    <2>1. counts[i] = CountAfter(a, i, U \ {s})
      BY <1>1
    <2> HIDE DEF counts, s
    <2> QED BY <1>2, <2>1
  <1>4. Track(a, s, counts) = [i \in Items |-> more(i)]
    BY DEF Track
  <1> HIDE DEF more
  <1>5. [i \in Items |-> more(i)] = [i \in Items |-> CountAfter(a, i, U)]
    BY <1>3
  <1> QED BY <1>4, <1>5 DEF CountsAfter

LEMMA TrackedIs ==
  ASSUME NEW a, NEW S \in SUBSET Slots, Counted(a, S)
  PROVE  TrackEditions(a, S) = CountsAfter(a, S)
PROOF
  <1> DEFINE g == [U \in SUBSET S |-> CountsAfter(a, U)]
             it == CHOOSE h : Tracks(a, S, h)
             r(U) == IF U = {} THEN [i \in Items |-> 0]
                     ELSE Track(a, Max(U), g[U \ {Max(U)}])
  <1>1. Tracks(a, S, g)
    <2>1. ASSUME NEW U \in SUBSET S
          PROVE  g[U] = r(U)
      <3>1. U \ {Max(U)} \in SUBSET S
        OBVIOUS
      <3>2. g[U] = CountsAfter(a, U) /\ g[U \ {Max(U)}] = CountsAfter(a, U \ {Max(U)})
        BY <3>1
      <3> HIDE DEF g
      <3>3. CASE U = {}
        <4>1. \A i : CountAfter(a, i, {}) = 0
          BY DEF CountAfter, AppearancesIn
        <4>2. CountsAfter(a, {}) = [i \in Items |-> 0]
          BY <4>1 DEF CountsAfter
        <4> QED BY <3>2, <3>3, <4>2
      <3>4. CASE U # {}
        BY <3>2, <3>4, TrackOneMore
      <3> QED BY <3>3, <3>4
    <2>2. g = [U \in SUBSET S |-> r(U)]
      <3> HIDE DEF r
      <3> QED BY <2>1
    <2> QED BY <2>2 DEF Tracks
  <1>2. Tracks(a, S, it)
    <2> HIDE DEF g
    <2> QED BY <1>1
  <1>3. TrackEditions(a, S) = it[S]
    BY DEF TrackEditions, Chronologically, MapThenFoldSet, Tracks, Track
  <1> HIDE DEF it, g
  <1>4. /\ it[{}] = g[{}]
        /\ \A U \in SUBSET S : U # {} /\ it[U \ {Max(U)}] = g[U \ {Max(U)}] => it[U] = g[U]
    BY <1>1, <1>2 DEF Tracks
  <1>5. it[S] = g[S]
    BY <1>4, DaysFinite, AgreeChronologically
  <1> QED BY <1>3, <1>5 DEF g

\* All editions: the tracker has how many have the item.
LEMMA CountOfAll ==
  ASSUME NEW a, NEW S \in SUBSET Slots, Counted(a, S), NEW i \in Items
  PROVE  CountAfter(a, i, S) = Cardinality(AppearancesIn(a, i, S))
PROOF
  <1> DEFINE B == AppearancesIn(a, i, S)
  <1>1. B \in SUBSET S /\ \A t \in B : a[t][i] # None
    BY DEF AppearancesIn
  <1>2. CASE B = {}
    BY <1>2, FS_EmptySet DEF CountAfter
  <1>3. CASE B # {}
    <2> DEFINE m == Max(B)
    <2>1. m \in B /\ \A t \in B : m >= t
      <3> HIDE DEF B
      <3> QED BY <1>1, <1>3, DaysFinite, MaxFacts
    <2> HIDE DEF m
    <2>2. AppearancesIn(a, i, UpTo(S, m)) = B
      <3>1. \A t \in B : t <= m
        <4>1. \A t \in B : t \in Nat
          BY <1>1, DaysFinite
        <4> QED BY <2>1, <4>1
      <3> QED BY <3>1 DEF AppearancesIn, UpTo
    <2>3. a[m][i].count = Cardinality(B)
      <3> HIDE DEF B
      <3> QED BY <1>1, <2>1, <2>2 DEF Counted
    <2> QED BY <1>3, <2>3 DEF CountAfter, m
  <1> QED BY <1>2, <1>3

\* What the archive keeps: no edition is of a later day, and what an edition says of
\* an item is what the collection gave it, with the editions counted exactly.
EntriesExact ==
  /\ \A s \in Stored : s <= now
  /\ Counted(archive, Stored)
  /\ \A s \in Stored, i \in Items : archive[s][i] # None =>
       /\ archive[s][i].clusters \in Nat /\ archive[s][i].clusters >= RelaxedClusters
       /\ archive[s][i].score \in Nat /\ archive[s][i].score >= MinScore

ArchiveInv == DaysType /\ EntriesExact

LEMMA StoredIsPublished ==
  ASSUME DaysType, EntriesExact
  PROVE  Stored = Published(archive, now) /\ Stored \in SUBSET Slots
BY PublishedDays DEF EntriesExact, Stored

\* The publication numbers the items of its edition from what the tracker has.
LEMMA PublishCounts ==
  ASSUME ArchiveInv, NEW s \in Slots, \A t \in Published(archive, now) : t < s, NEW i \in Items
  PROVE  Tracked(archive, s)[i] = Cardinality(AppearancesIn(archive, i, Stored))
PROOF
  <1>1. DaysType /\ EntriesExact
    BY DEF ArchiveInv
  <1>2. Stored = Published(archive, now) /\ Stored \in SUBSET Slots
    BY <1>1, StoredIsPublished
  <1>3. {t \in Published(archive, s) : t < s} = Stored
    <2>1. Published(archive, s) = {t \in Slots : archive[t] # None /\ t <= s}
      BY <1>1 DEF DaysType, Published
    <2>2. \A t \in Slots \cup {s} : t \in Nat
      BY DaysFinite
    <2>3. \A t \in Stored : t < s
      BY <1>2
    <2> QED BY <2>1, <2>2, <2>3 DEF Stored
  <1>4. Counted(archive, Stored)
    BY <1>1 DEF EntriesExact
  <1>5. Tracked(archive, s) = CountsAfter(archive, Stored)
    BY <1>2, <1>3, <1>4, TrackedIs DEF Tracked
  <1> QED BY <1>2, <1>4, <1>5, CountOfAll DEF CountsAfter

LEMMA PublishEntries == ArchiveInv /\ Publish => EntriesExact'
PROOF
  <1> SUFFICES ASSUME ArchiveInv, Publish PROVE EntriesExact'
    OBVIOUS
  <1>1. DaysType /\ EntriesExact
    BY DEF ArchiveInv
  <1>2. PICK s \in Slots \ Stored,
             edition \in [Items -> UNION {Contents[i] \cup {None} : i \in Items}] :
          /\ \A i \in Items : edition[i] \in Contents[i] \cup {None}
          /\ s <= now /\ \A t \in Published(archive, now) : t < s
          /\ archive' = [archive EXCEPT ![s] =
               [i \in Items |-> IF edition[i] = None THEN None
                                ELSE Entry(edition[i], Tracked(archive, s)[i] + 1)]]
          /\ \A t \in Slots \ {s} : archive'[t] = archive[t]
          /\ UNCHANGED <<now, file, poll, told, read, missed, crashes>>
    BY <1>1, PublishFacts
  <1>3. /\ Stored = Published(archive, now) /\ Stored \in SUBSET Slots
        /\ \A t \in Stored : t < s /\ t \in Nat
    <2>1. Stored = Published(archive, now) /\ Stored \in SUBSET Slots
      BY <1>1, StoredIsPublished
    <2> QED BY <1>2, <2>1, DaysFinite
  <1>4. Stored' \in SUBSET (Stored \cup {s}) /\ s \in Nat
    BY <1>2, DaysFinite DEF Stored
  <1>5. \A t \in Stored : archive'[t] = archive[t] /\ t \in Stored'
    BY <1>2, <1>3 DEF Stored
  <1>6. ASSUME NEW i \in Items, archive'[s][i] # None
        PROVE  /\ edition[i] # None
               /\ archive'[s][i].count = Cardinality(AppearancesIn(archive, i, Stored)) + 1
               /\ archive'[s][i].clusters = edition[i].clusters
               /\ archive'[s][i].score = edition[i].score
    <2>1. archive'[s] = [j \in Items |-> IF edition[j] = None THEN None
                                         ELSE Entry(edition[j], Tracked(archive, s)[j] + 1)]
      BY <1>1, <1>2 DEF DaysType
    <2>2. archive'[s][i] = IF edition[i] = None THEN None
                           ELSE Entry(edition[i], Tracked(archive, s)[i] + 1)
      BY <2>1
    <2>3. Tracked(archive, s)[i] = Cardinality(AppearancesIn(archive, i, Stored))
      BY <1>2, PublishCounts
    <2>4. edition[i] # None
      BY <1>6, <2>2
    <2>5. archive'[s][i] = Entry(edition[i], Cardinality(AppearancesIn(archive, i, Stored)) + 1)
      BY <2>2, <2>3, <2>4
    <2> QED BY <2>4, <2>5 DEF Entry
  \* What the earlier editions count is not disturbed.
  <1>7. ASSUME NEW t \in Stored, NEW i \in Items
        PROVE  AppearancesIn(archive', i, UpTo(Stored', t)) = AppearancesIn(archive, i, UpTo(Stored, t))
    <2>1. UpTo(Stored', t) = UpTo(Stored, t)
      BY <1>3, <1>4, <1>5 DEF UpTo
    <2> QED BY <1>5, <2>1 DEF AppearancesIn, UpTo
  \* The new edition counts itself and the earlier ones.
  <1>8. ASSUME NEW i \in Items, s \in Stored', archive'[s][i] # None
        PROVE  Cardinality(AppearancesIn(archive', i, UpTo(Stored', s)))
                 = Cardinality(AppearancesIn(archive, i, Stored)) + 1
    <2> DEFINE A == AppearancesIn(archive, i, Stored)
    <2>1. UpTo(Stored', s) = Stored \cup {s}
      <3>1. \A t \in Stored : t <= s
        BY <1>3, <1>4
      <3>2. s <= s /\ s \in Stored'
        BY <1>4, <1>8
      <3> QED BY <1>4, <1>5, <3>1, <3>2 DEF UpTo
    <2>2. AppearancesIn(archive', i, UpTo(Stored', s)) = A \cup {s}
      BY <1>5, <1>8, <2>1 DEF AppearancesIn
    <2>3. A \in SUBSET Slots /\ s \notin A
      BY <1>2, <1>3 DEF AppearancesIn
    <2>4. IsFiniteSet(A)
      BY <2>3, DaysFinite
    <2> HIDE DEF A
    <2>5. Cardinality(A \cup {s}) = Cardinality(A) + 1
      BY <2>3, <2>4, FS_AddElement
    <2> QED BY <2>2, <2>5 DEF A
  <1>9. \A t \in Stored' : t <= now'
    BY <1>1, <1>2, <1>4 DEF EntriesExact
  <1>10. ASSUME NEW t \in Stored', NEW i \in Items, archive'[t][i] # None
         PROVE  archive'[t][i].count = Cardinality(AppearancesIn(archive', i, UpTo(Stored', t)))
    <2>1. CASE t = s
      <3>1. s \in Stored' /\ archive'[s][i] # None
        BY <1>10, <2>1
      <3>2. archive'[s][i].count = Cardinality(AppearancesIn(archive, i, Stored)) + 1
        BY <1>6, <3>1
      <3> QED BY <1>8, <2>1, <3>1, <3>2
    <2>2. CASE t # s
      <3>1. t \in Stored /\ archive'[t] = archive[t]
        BY <1>4, <1>5, <2>2
      <3>2. archive[t][i].count = Cardinality(AppearancesIn(archive, i, UpTo(Stored, t)))
        BY <1>1, <1>10, <3>1 DEF EntriesExact, Counted
      <3> QED BY <1>7, <3>1, <3>2
    <2> QED BY <2>1, <2>2
  <1>11. ASSUME NEW t \in Stored', NEW i \in Items, archive'[t][i] # None
         PROVE  /\ archive'[t][i].clusters \in Nat /\ archive'[t][i].clusters >= RelaxedClusters
                /\ archive'[t][i].score \in Nat /\ archive'[t][i].score >= MinScore
    <2>1. CASE t = s
      <3>1. /\ edition[i] \in Contents[i]
            /\ archive'[s][i].clusters = edition[i].clusters
            /\ archive'[s][i].score = edition[i].score
        <4>1. archive'[s][i] # None
          BY <1>11, <2>1
        <4> QED BY <1>2, <1>6, <4>1
      <3> QED BY <2>1, <3>1, ReadersAssumption
    <2>2. CASE t # s
      BY <1>1, <1>4, <1>5, <1>11, <2>2 DEF EntriesExact
    <2> QED BY <2>1, <2>2
  <1>12. Counted(archive, Stored)'
    BY <1>10 DEF Counted, AppearancesIn, UpTo
  <1> QED BY <1>9, <1>11, <1>12 DEF EntriesExact

LEMMA ArchiveAlways == Spec => []ArchiveInv
PROOF
  <1>1. Init => ArchiveInv
    <2> SUFFICES ASSUME Init PROVE ArchiveInv
      OBVIOUS
    <2>1. Stored = {} /\ DaysType
      BY DEF Init, Stored, DaysType
    <2> QED BY <2>1 DEF ArchiveInv, EntriesExact, Counted
  <1>2. ArchiveInv /\ [Next]_vars => ArchiveInv'
    <2> SUFFICES ASSUME ArchiveInv, [Next]_vars PROVE ArchiveInv'
      OBVIOUS
    <2>1. DaysType /\ EntriesExact /\ DaysType'
      BY DaysStep DEF ArchiveInv
    <2>2. CASE Tick
      <3>1. UNCHANGED archive /\ now' = now + 1 /\ now \in Nat
        BY <2>1, <2>2 DEF Tick, DaysType
      <3>2. Stored' = Stored /\ (Counted(archive, Stored) => Counted(archive, Stored)')
        BY <3>1 DEF Stored, Counted, AppearancesIn, UpTo
      <3>3. \A s \in Stored : s <= now + 1
        <4>1. \A s \in Stored : s \in Nat /\ s <= now
          BY <2>1, DaysFinite DEF EntriesExact, Stored
        <4> QED BY <3>1, <4>1
      <3>4. EntriesExact'
        BY <2>1, <3>1, <3>2, <3>3 DEF EntriesExact
      <3> QED BY <2>1, <3>4 DEF ArchiveInv
    <2>3. CASE Publish
      BY <2>1, <2>3, PublishEntries DEF ArchiveInv
    <2>4. CASE UNCHANGED <<now, archive>>
      BY <2>1, <2>4 DEF ArchiveInv, EntriesExact, Stored, Counted, AppearancesIn, UpTo
    <2> QED BY <2>2, <2>3, <2>4 DEF Next, vars, Start, GetLatest, GetHistory, Save, Fail, Crash
  <1> QED BY <1>1, <1>2, PTL DEF Spec

-----------------------------------------------------------------------------
(* The reference index and the history.                                    *)

Appearances(i) == AppearancesIn(archive, i, Published(archive, now))

\* What the reads of an item say: its last edition counts all, and so does its
\* lifecycle at least.
LEMMA ReadsExact ==
  ASSUME ArchiveInv, NEW i \in Items, Appearances(i) # {}
  PROVE  /\ LastOf(archive, i, now).count = Cardinality(Appearances(i))
         /\ Lifecycle(archive, i, now).count \in Int
         /\ Lifecycle(archive, i, now).count >= Cardinality(Appearances(i))
         /\ Cardinality(Appearances(i)) \in Nat
         /\ LastOf(archive, i, now).at \in Nat
         /\ LastOf(archive, i, now).score \in Nat /\ LastOf(archive, i, now).score >= MinScore
         /\ LastOf(archive, i, now).clusters >= RelaxedClusters
PROOF
  <1> DEFINE A == Appearances(i)
             m == Max(A)
  <1>1. DaysType /\ EntriesExact
    BY DEF ArchiveInv
  <1>2. /\ Stored = Published(archive, now) /\ Stored \in SUBSET Slots
        /\ A \in SUBSET Stored /\ A \in SUBSET Slots
        /\ \A t \in A : archive[t][i] # None
    BY <1>1, StoredIsPublished DEF Appearances, AppearancesIn
  <1>3. A = AppearancesIn(archive, i, Stored)
    BY <1>2 DEF Appearances
  <1>4. LastOf(archive, i, now) = [clusters |-> archive[m][i].clusters, score |-> archive[m][i].score,
                                   count |-> archive[m][i].count, at |-> m]
    BY DEF LastOf, Appearances
  <1>5. Lifecycle(archive, i, now).count
          = Max({archive[s][i].count : s \in A} \cup {Cardinality(A)})
    BY DEF Lifecycle, Appearances
  <1>6. IsFiniteSet(A) /\ Cardinality(A) \in Nat
    <2> HIDE DEF A
    <2> QED BY <1>2, DaysFinite, FS_CardinalityType
  <1>7. m \in A /\ m \in Nat
    <2>1. A # {}
      OBVIOUS
    <2> HIDE DEF A
    <2> QED BY <1>2, <2>1, DaysFinite, MaxFacts
  <1>8. archive[m][i].count = Cardinality(A)
    <2>1. CountAfter(archive, i, Stored) = Cardinality(A)
      <3>1. Counted(archive, Stored)
        BY <1>1 DEF EntriesExact
      <3> HIDE DEF A
      <3> QED BY <1>2, <1>3, <3>1, CountOfAll
    <2>2. CountAfter(archive, i, Stored) = IF A = {} THEN 0 ELSE archive[Max(A)][i].count
      BY <1>3, Zenon DEF CountAfter
    <2> QED BY <2>1, <2>2
  <1> HIDE DEF m
  <1>9. /\ Max({archive[s][i].count : s \in A} \cup {Cardinality(A)}) \in Int
        /\ Max({archive[s][i].count : s \in A} \cup {Cardinality(A)}) >= Cardinality(A)
    <2> DEFINE counts == {archive[s][i].count : s \in A}
               f == [s \in A |-> archive[s][i].count]
    <2>1. \A s \in A : archive[s][i].count \in Nat \ {0}
      BY <1>1, <1>2, CountsGrow DEF EntriesExact
    <2>2. f \in Surjection(A, counts)
      BY DEF Surjection
    <2>3. IsFiniteSet(counts)
      BY <1>6, <2>2, FS_Surjection
    <2>4. counts \cup {Cardinality(A)} \in SUBSET Int
      BY <1>6, <2>1
    <2> HIDE DEF counts
    <2>5. IsFiniteSet(counts \cup {Cardinality(A)})
      BY <2>3, FS_AddElement
    <2>6. /\ Max(counts \cup {Cardinality(A)}) \in Int
          /\ Max(counts \cup {Cardinality(A)}) >= Cardinality(A)
      BY <2>4, <2>5, MaxFacts
    <2> QED BY <2>6 DEF counts
  <1>10. /\ archive[m][i].clusters >= RelaxedClusters
         /\ archive[m][i].score \in Nat /\ archive[m][i].score >= MinScore
    BY <1>1, <1>2, <1>7 DEF EntriesExact
  <1> QED BY <1>4, <1>5, <1>6, <1>7, <1>8, <1>9, <1>10

\* compareReferenceItems puts one of two items first.
LEMMA PrecedesOrders ==
  ASSUME NEW T \in SUBSET Items,
         \A i \in T : /\ LastOf(archive, i, now).score \in Nat
                      /\ LastOf(archive, i, now).count \in Nat
                      /\ LastOf(archive, i, now).at \in Nat
  PROVE  /\ \A i, j \in T : i # j => Precedes(archive, now, i, j) \/ Precedes(archive, now, j, i)
         /\ \A i, j, k \in T : Precedes(archive, now, i, j) /\ Precedes(archive, now, j, k)
                                 => Precedes(archive, now, i, k)
PROOF
  <1>1. \A i \in T : Rank[i] \in Nat
    BY EditionReadersAssumption
  <1>2. \A i, j \in T : i # j => Rank[i] # Rank[j]
    BY EditionReadersAssumption
  <1>3. ASSUME NEW i \in T, NEW j \in T, i # j
        PROVE  Precedes(archive, now, i, j) \/ Precedes(archive, now, j, i)
    BY <1>1, <1>2, <1>3 DEF Precedes
  <1>4. ASSUME NEW i \in T, NEW j \in T, NEW k \in T,
               Precedes(archive, now, i, j), Precedes(archive, now, j, k)
        PROVE  Precedes(archive, now, i, k)
    BY <1>1, <1>4 DEF Precedes
  <1> QED BY <1>3, <1>4

LEMMA FirstPrecedes ==
  ASSUME NEW T \in SUBSET Items, T # {},
         \A i \in T : /\ LastOf(archive, i, now).score \in Nat
                      /\ LastOf(archive, i, now).count \in Nat
                      /\ LastOf(archive, i, now).at \in Nat
  PROVE  \E i \in T : \A j \in T \ {i} : Precedes(archive, now, i, j)
PROOF
  <1> DEFINE R == {p \in T \X T : Precedes(archive, now, p[1], p[2])}
  <1>1. \A i, j \in T : <<i, j>> \in R <=> Precedes(archive, now, i, j)
    OBVIOUS
  <1>2. IsFiniteSet(T)
    BY EditionReadersAssumption, FS_Subset
  <1> HIDE DEF R
  <1>3. \A i, j \in T : i # j => <<i, j>> \in R \/ <<j, i>> \in R
    BY <1>1, PrecedesOrders
  <1>4. \A i, j, k \in T : <<i, j>> \in R /\ <<j, k>> \in R => <<i, k>> \in R
    BY <1>1, PrecedesOrders
  <1>5. PICK i \in T : \A j \in T \ {i} : <<i, j>> \in R
    BY <1>2, <1>3, <1>4, FiniteHasFirst
  <1> QED BY <1>1, <1>5

\* The counts the publications gave an item and the reads of the item, the history and
\* the reference index agree: an item with a long enough lifecycle and a corroborated
\* last edition is in exactly one of history and index, and a scarce category that had
\* a persistent item is not absent from both.
THEOREM DurableItemsReachable == Spec => []DurableItemsStayInReach
PROOF
  <1>1. ArchiveInv => DurableItemsStayInReach
    <2> DEFINE recent == {i \in Items : AppearancesIn(archive, i, History(archive, now)) # {}}
               durable == {i \in Items :
                             /\ Cardinality(AppearancesIn(archive, i, Published(archive, now))) >= MinEditions
                             /\ Lifecycle(archive, i, now).count >= MinEditions}
               index(active) == ReferenceItems(archive, now, Underrepresented(active))
               strict == StrictItems(archive, now)
    <2> SUFFICES ASSUME ArchiveInv, NEW active \in [Categories -> 0 .. MinActiveSources]
                 PROVE  /\ index(active) \cap recent = {}
                        /\ index(active) \subseteq durable
                        /\ {i \in durable : LastOf(archive, i, now).clusters >= MinClusters}
                             \subseteq index(active) \cup recent
                        /\ \A i \in durable \ recent :
                             active[Category[i]] \in 1 .. MinActiveSources - 1 =>
                               \E j \in index(active) : Category[j] = Category[i]
      BY Zenon DEF DurableItemsStayInReach
    <2>1. recent = RecentItems(archive, now)
      BY DEF RecentItems, History, AppearancesIn
    <2>2. Aged(archive, now) = {i \in Items : Appearances(i) # {}} \ recent
      BY <2>1 DEF Aged, Appearances
    <2>3. \A i \in durable : i \in Items /\ Appearances(i) # {}
      <3>1. ~ (0 >= MinEditions)
        BY EditionReadersAssumption
      <3> QED BY <3>1, FS_EmptySet DEF Appearances
    <2>4. \A i \in Aged(archive, now) :
            Persistent(LastOf(archive, i, now)) <=> i \in durable
      <3> SUFFICES ASSUME NEW i \in Aged(archive, now)
                   PROVE  Persistent(LastOf(archive, i, now)) <=> i \in durable
        OBVIOUS
      <3>1. i \in Items /\ Appearances(i) # {}
        BY <2>2
      <3> DEFINE n == Cardinality(Appearances(i))
                 l == Lifecycle(archive, i, now).count
      <3>2. /\ LastOf(archive, i, now).count = n /\ l \in Int /\ l >= n /\ n \in Nat
            /\ LastOf(archive, i, now).score >= MinScore
        BY <3>1, ReadsExact
      <3>3. i \in durable <=> n >= MinEditions /\ l >= MinEditions
        BY <3>1 DEF Appearances
      <3>4. Persistent(LastOf(archive, i, now)) <=> n >= MinEditions
        BY <3>2 DEF Persistent
      <3> HIDE DEF durable, l, n
      <3> QED BY <3>2, <3>3, <3>4, EditionReadersAssumption
    <2> HIDE DEF recent, durable
    <2>5. strict = {i \in Aged(archive, now) \cap durable : Corroborated(LastOf(archive, i, now))}
      BY <2>4 DEF StrictItems
    <2>6. ASSUME NEW c, NEW i \in Fallbacks(archive, now, c)
          PROVE  i \in Aged(archive, now) \cap durable /\ Category[i] = c
      BY <2>4 DEF Fallbacks, FallbackEligible
    <2>7. index(active) \subseteq Aged(archive, now) \cap durable
      BY <2>5, <2>6 DEF ReferenceItems
    <2>8. {i \in durable : LastOf(archive, i, now).clusters >= MinClusters}
            \subseteq index(active) \cup recent
      <3> SUFFICES ASSUME NEW i \in durable, LastOf(archive, i, now).clusters >= MinClusters,
                          i \notin recent
                   PROVE  i \in strict
        BY DEF ReferenceItems
      <3> QED BY <2>2, <2>3, <2>5 DEF Corroborated
    <2>9. ASSUME NEW i \in durable \ recent, active[Category[i]] \in 1 .. MinActiveSources - 1
          PROVE  \E j \in index(active) : Category[j] = Category[i]
      <3> DEFINE c == Category[i]
                 eligible == {j \in Aged(archive, now) :
                                Category[j] = c /\ FallbackEligible(LastOf(archive, j, now))}
      <3>1. i \in Aged(archive, now) /\ i \in Items /\ Appearances(i) # {}
        BY <2>2, <2>3
      <3>2. c \in Underrepresented(active)
        <4>1. c \in Categories
          BY <3>1 DEF Categories
        <4>2. CoverageStatus(active[c]) = "underrepresented"
          <5>1. active[c] \in Int /\ active[c] # 0 /\ active[c] < MinActiveSources
            BY <2>9, EditionReadersAssumption
          <5> QED BY <5>1 DEF CoverageStatus
        <4> QED BY <4>1, <4>2 DEF Underrepresented
      <3>3. CASE \E j \in strict : Category[j] = c
        BY <3>3 DEF ReferenceItems
      <3>4. CASE ~ \E j \in strict : Category[j] = c
        <4>1. i \in eligible
          <5>1. Persistent(LastOf(archive, i, now)) /\ ~ Corroborated(LastOf(archive, i, now))
            BY <2>4, <2>5, <3>1, <3>4
          <5>2. LastOf(archive, i, now).clusters >= RelaxedClusters
            BY <3>1, ReadsExact
          <5> QED BY <3>1, <5>1, <5>2 DEF FallbackEligible
        <4>2. eligible \in SUBSET Items /\ \A j \in eligible : Appearances(j) # {}
          BY <2>2
        <4>3. \E j \in eligible : \A k \in eligible \ {j} : Precedes(archive, now, j, k)
          <5> HIDE DEF eligible
          <5>1. \A j \in eligible : /\ LastOf(archive, j, now).score \in Nat
                                    /\ LastOf(archive, j, now).count \in Nat
                                    /\ LastOf(archive, j, now).at \in Nat
            BY <4>2, ReadsExact
          <5> QED BY <4>1, <4>2, <5>1, FirstPrecedes
        <4>4. PICK j \in eligible : j \in Fallbacks(archive, now, c)
          BY <4>3 DEF Fallbacks
        <4>5. c \in Underrepresented(active) \ {Category[k] : k \in strict}
          BY <3>2, <3>4
        <4>6. j \in index(active)
          BY <4>4, <4>5 DEF ReferenceItems
        <4> QED BY <4>6
      <3> QED BY <3>3, <3>4
    <2>10. index(active) \cap recent = {}
      BY <2>2, <2>7
    <2> QED BY <2>7, <2>8, <2>9, <2>10
  <1> QED BY <1>1, ArchiveAlways, PTL

-----------------------------------------------------------------------------
(* Summaries and aggregations count what they are made of.                 *)

LEMMA RangeFinite ==
  ASSUME NEW X, IsFiniteSet(X), NEW keyOf, DOMAIN keyOf = X
  PROVE  IsFiniteSet(Range(keyOf)) /\ \A x \in X : keyOf[x] \in Range(keyOf)
BY ValuesFinite DEF Range

\* The counts by a key are those of the parts.
LEMMA CountsAddUp ==
  ASSUME NEW X, IsFiniteSet(X), NEW keyOf, DOMAIN keyOf = X
  PROVE  TotalOf(CountsBy(keyOf)) = Cardinality(X)
PROOF
  <1>1. CountsBy(keyOf) = Parts(X, keyOf, Range(keyOf))
    BY DEF CountsBy, Parts
  <1>2. TotalOf(CountsBy(keyOf)) = SumFunctionOnSet(Parts(X, keyOf, Range(keyOf)), Range(keyOf))
    BY <1>1 DEF TotalOf, SumFunction, Parts
  <1> QED BY <1>2, RangeFinite, PartsAddUp

LEMMA SummaryCounts ==
  ASSUME NEW X, IsFiniteSet(X)
  PROVE  /\ Consistent(Summary(X)) /\ Summary(X).total = Cardinality(X)
         /\ DOMAIN Summary(X).both = {<<e.category, e.reason>> : e \in X}
PROOF
  <1> DEFINE both == [e \in X |-> <<e.category, e.reason>>]
             categories == [e \in X |-> e.category]
             reasons == [e \in X |-> e.reason]
  <1>1. /\ TotalOf(CountsBy(both)) = Cardinality(X)
        /\ TotalOf(CountsBy(categories)) = Cardinality(X)
        /\ TotalOf(CountsBy(reasons)) = Cardinality(X)
    BY CountsAddUp
  <1>2. DOMAIN CountsBy(both) = {<<e.category, e.reason>> : e \in X}
    BY DEF CountsBy, Range
  <1>3. Summary(X) = [total |-> TotalOf(CountsBy(both)), both |-> CountsBy(both),
                      categories |-> CountsBy(categories), reasons |-> CountsBy(reasons)]
    BY DEF Summary
  <1> HIDE DEF both, categories, reasons
  <1> QED BY <1>1, <1>2, <1>3 DEF Consistent

WithKey(X, keyOf, k) == {e \in X : keyOf[e] = k}

\* The times of what has the key.
TimesOf(X, keyOf, k) == {e.at : e \in WithKey(X, keyOf, k)}

ExclusionsBy(G) == [k \in DOMAIN G |-> G[k].exclusions]

\* Aggregated by a key, every exclusion counts once.
LEMMA GroupsAddUp ==
  ASSUME NEW X, IsFiniteSet(X), NEW keyOf, DOMAIN keyOf = X, NEW keysOf,
         DOMAIN keysOf = X, \A e \in X : keysOf[e] = {keyOf[e]}
  PROVE  /\ DOMAIN GroupBy(keysOf) = Range(keyOf)
         /\ \A k \in DOMAIN GroupBy(keysOf) : GroupBy(keysOf)[k] = Tally(WithKey(X, keyOf, k))
         /\ TotalOf(ExclusionsBy(GroupBy(keysOf))) = Cardinality(X)
PROOF
  <1> DEFINE K == Range(keyOf)
             G == GroupBy(keysOf)
             counts == ExclusionsBy(G)
  <1>1. UNION Range(keysOf) = K /\ K = {keyOf[e] : e \in X}
    <2>1. K = {keyOf[e] : e \in X}
      BY DEF Range
    <2>2. Range(keysOf) = {{keyOf[e]} : e \in X}
      BY DEF Range
    <2> HIDE DEF K
    <2>3. \A k : k \in UNION Range(keysOf) <=> \E e \in X : k = keyOf[e]
      BY <2>2
    <2>4. UNION Range(keysOf) = {keyOf[e] : e \in X}
      BY <2>3
    <2> QED BY <2>1, <2>4
  <1>2. \A k : {e \in DOMAIN keysOf : k \in keysOf[e]} = {e \in X : keyOf[e] = k}
    OBVIOUS
  <1>3. G = [k \in K |-> Tally({e \in X : keyOf[e] = k})]
    <2> HIDE DEF K
    <2> QED BY <1>1, <1>2 DEF GroupBy
  <1>4. DOMAIN G = K /\ \A k \in K : G[k] = Tally({e \in X : keyOf[e] = k})
    BY <1>3
  <1>5. \A k \in K : G[k].exclusions = Cardinality({e \in X : keyOf[e] = k})
    <2>1. \A E : Tally(E).exclusions = Cardinality(E)
      BY DEF Tally
    <2> HIDE DEF G, K
    <2> QED BY <1>4, <2>1
  <1>6. counts = Parts(X, keyOf, K)
    <2> HIDE DEF G, K
    <2> QED BY <1>4, <1>5 DEF Parts, ExclusionsBy
  <1>7. TotalOf(counts) = SumFunctionOnSet(counts, K)
    <2> HIDE DEF G, K
    <2> QED BY <1>4 DEF TotalOf, SumFunction, ExclusionsBy
  <1>8. TotalOf(counts) = Cardinality(X)
    BY <1>6, <1>7, RangeFinite, PartsAddUp
  <1> QED BY <1>4, <1>8 DEF WithKey

\* The counts of what corresponds one to one.
LEMMA SameCounts ==
  ASSUME NEW X, NEW Y, IsFiniteSet(X), NEW h \in Bijection(X, Y),
         NEW f, NEW g, DOMAIN f = X, DOMAIN g = Y, \A x \in X : g[h[x]] = f[x]
  PROVE  CountsBy(g) = CountsBy(f)
PROOF
  <1>1. \A x \in X : h[x] \in Y
    BY DEF Bijection, Injection
  <1>2. \A y \in Y : \E x \in X : h[x] = y
    BY DEF Bijection, Surjection
  <1>3. Range(g) = Range(f)
    BY <1>1, <1>2 DEF Range
  <1>4. ASSUME NEW k
        PROVE  Cardinality({y \in Y : g[y] = k}) = Cardinality({x \in X : f[x] = k})
    <2> DEFINE A == {x \in X : f[x] = k}
               B == {y \in Y : g[y] = k}
               i == [x \in A |-> h[x]]
    <2>1. i \in [A -> B]
      BY <1>1
    <2>2. \A x, y \in A : i[x] = i[y] => x = y
      BY DEF Bijection, Injection, IsInjective
    <2>3. \A y \in B : \E x \in A : i[x] = y
      BY <1>2
    <2>4. i \in Bijection(A, B)
      <3> HIDE DEF i, A, B
      <3> QED BY <2>1, <2>2, <2>3 DEF Bijection, Injection, Surjection, IsInjective
    <2>5. IsFiniteSet(A)
      BY FS_Subset
    <2> HIDE DEF A, B, i
    <2>6. Cardinality(B) = Cardinality(A)
      BY <2>4, <2>5, FS_Bijection DEF ExistsBijection
    <2> QED BY <2>6 DEF A, B
  <1> QED BY <1>3, <1>4 DEF CountsBy

-----------------------------------------------------------------------------
(* What the editions leave out and the reads find.                         *)

\* What the edition of s leaves out.
LeftOut(s) == UNION {Refusals[i][s] : i \in {j \in Items : archive[s][j] = None}}

IsExclusion(e) == e = CreateExclusion(e.record, e.item, e.category, e.reason, e.kinds)

LEMMA LeftOutFacts ==
  ASSUME NEW s \in Slots
  PROVE  /\ IsFiniteSet(LeftOut(s))
         /\ \A e \in LeftOut(s) : IsExclusion(e) /\ e.item \in Items /\ archive[s][e.item] = None
         /\ \A i \in Items : archive[s][i] = None => \E e \in LeftOut(s) : e.item = i
PROOF
  <1> DEFINE I == {j \in Items : archive[s][j] = None}
             parts == [i \in I |-> Refusals[i][s]]
  <1>1. \A i \in Items : /\ IsFiniteSet(Refusals[i][s]) /\ Refusals[i][s] # {}
                         /\ \A e \in Refusals[i][s] : IsExclusion(e) /\ e.item = i
    <2> SUFFICES ASSUME NEW i \in Items
                 PROVE  /\ IsFiniteSet(Refusals[i][s]) /\ Refusals[i][s] # {}
                        /\ \A e \in Refusals[i][s] : IsExclusion(e) /\ e.item = i
      OBVIOUS
    <2>1. /\ IsFiniteSet(Refusals[i][s]) /\ Refusals[i][s] # {}
          /\ \A e \in Refusals[i][s] :
               e = CreateExclusion(e.record, i, e.category, e.reason, e.kinds)
      BY RefusalsAssumption
    <2>2. ASSUME NEW e \in Refusals[i][s]
          PROVE  e.item = i
      <3>1. e = CreateExclusion(e.record, i, e.category, e.reason, e.kinds)
        BY <2>1
      <3> QED BY <3>1 DEF CreateExclusion
    <2> QED BY <2>1, <2>2 DEF IsExclusion
  <1>2. IsFiniteSet(I)
    BY EditionReadersAssumption, FS_Subset
  <1>3. IsFiniteSet({parts[i] : i \in I})
    BY <1>2, ValuesFinite
  <1>4. LeftOut(s) = UNION {parts[i] : i \in I}
    BY DEF LeftOut
  <1>5. IsFiniteSet(LeftOut(s))
    <2>1. \A T \in {parts[i] : i \in I} : IsFiniteSet(T)
      BY <1>1
    <2> HIDE DEF parts, I
    <2> QED BY <1>3, <1>4, <2>1, FS_UNION
  <1> QED BY <1>1, <1>5 DEF LeftOut

\* An exclusion keeps what it is when it is put beside its time.
LEMMA ExcludedAtFacts ==
  ASSUME NEW s, NEW e
  PROVE  LET x == ExcludedAt(s, e) IN
         /\ x.at = s /\ x.item = e.item /\ x.category = e.category /\ x.reason = e.reason
BY DEF ExcludedAt

LEMMA ExcludedAtOnce ==
  ASSUME NEW s, NEW e, IsExclusion(e), NEW f, IsExclusion(f), ExcludedAt(s, e) = ExcludedAt(s, f)
  PROVE  e = f
PROOF
  <1>1. /\ e.record = f.record /\ e.item = f.item /\ e.category = f.category
        /\ e.reason = f.reason /\ e.kinds = f.kinds
    BY DEF ExcludedAt
  <1> QED BY <1>1 DEF IsExclusion

LEMMA LogDays ==
  ASSUME DaysType
  PROVE  /\ Published(Log, now) = Published(archive, now)
         /\ \A s \in Published(archive, now) :
              /\ Log[s].exclusions = LeftOut(s)
              /\ Log[s].summary = Summary(LeftOut(s))
PROOF
  <1>1. ASSUME NEW s \in Slots
        PROVE  /\ Log[s] = IF archive[s] = None THEN None
                           ELSE [exclusions |-> LeftOut(s), summary |-> Summary(LeftOut(s))]
               /\ [exclusions |-> LeftOut(s), summary |-> Summary(LeftOut(s))] # None
    <2>1. LeftOut(s) \in SUBSET UNION {Refusals[i][s] : i \in Items}
      BY DEF LeftOut
    <2>2. [exclusions |-> LeftOut(s), summary |-> Summary(LeftOut(s))] # None
      BY <2>1, RefusalsAssumption
    <2> QED BY <2>2 DEF Log, LeftOut
  <1>2. DOMAIN Log = Slots
    BY DEF Log
  <1>3. Published(archive, now) \in SUBSET Slots
    BY PublishedDays
  <1>4. ASSUME NEW s \in Published(archive, now)
        PROVE  /\ Log[s].exclusions = LeftOut(s)
               /\ Log[s].summary = Summary(LeftOut(s))
    <2>1. s \in Slots /\ archive[s] # None
      BY <1>3 DEF Published
    <2>2. Log[s] = [exclusions |-> LeftOut(s), summary |-> Summary(LeftOut(s))]
      BY <1>1, <2>1
    <2> QED BY <2>2
  <1>5. Published(Log, now) = {s \in Slots : archive[s] # None /\ s <= now}
    BY <1>1, <1>2 DEF Published
  <1> QED BY <1>4, <1>5, PublishedDays

\* What a query finds.
LEMMA FoundFacts ==
  ASSUME DaysType, NEW q
  PROVE  /\ Scanned(Log, q, now) \in SUBSET Slots /\ IsFiniteSet(Scanned(Log, q, now))
         /\ \A s \in Scanned(Log, q, now) : s \in Published(archive, now)
         /\ IsFiniteSet(Found(Log, q, now))
         /\ \A s, e : s \in Scanned(Log, q, now) /\ e \in LeftOut(s) /\ MatchesFilters(e, q) =>
              ExcludedAt(s, e) \in Found(Log, q, now)
         /\ \A x \in Found(Log, q, now) :
              /\ x.at \in Scanned(Log, q, now)
              /\ \E e \in LeftOut(x.at) : x = ExcludedAt(x.at, e) /\ MatchesFilters(e, q)
PROOF
  <1> DEFINE S == Scanned(Log, q, now)
             M(s) == {x \in Log[s].exclusions : MatchesFilters(x, q)}
             of == [s \in S |-> {ExcludedAt(s, e) : e \in M(s)}]
  <1>1. S \in SUBSET Published(archive, now)
    BY LogDays DEF Scanned
  <1>2. S \in SUBSET Slots /\ IsFiniteSet(S)
    BY <1>1, PublishedDays, DaysFinite
  <1>3. \A s \in S : M(s) = {x \in LeftOut(s) : MatchesFilters(x, q)}
    BY <1>1, LogDays
  <1>4. Found(Log, q, now) = UNION {of[s] : s \in S}
    BY DEF Found
  <1> HIDE DEF S
  <1>5. \A s \in S : IsFiniteSet(of[s])
    <2> SUFFICES ASSUME NEW s \in S PROVE IsFiniteSet(of[s])
      OBVIOUS
    <2>1. IsFiniteSet(M(s))
      BY <1>2, <1>3, LeftOutFacts, FS_Subset
    <2> DEFINE h == [e \in M(s) |-> ExcludedAt(s, e)]
    <2>2. of[s] = {h[e] : e \in M(s)}
      OBVIOUS
    <2> HIDE DEF h, M, of
    <2> QED BY <2>1, <2>2, ValuesFinite
  <1>6. IsFiniteSet(Found(Log, q, now))
    <2> HIDE DEF of
    <2>1. IsFiniteSet({of[s] : s \in S})
      BY <1>2, ValuesFinite
    <2>2. \A T \in {of[s] : s \in S} : IsFiniteSet(T)
      BY <1>5
    <2> QED BY <1>4, <2>1, <2>2, FS_UNION
  <1>7. ASSUME NEW s, NEW e, s \in S, e \in LeftOut(s), MatchesFilters(e, q)
        PROVE  ExcludedAt(s, e) \in Found(Log, q, now)
    BY <1>3, <1>4, <1>7
  <1>8. ASSUME NEW x \in Found(Log, q, now)
        PROVE  /\ x.at \in S
               /\ \E e \in LeftOut(x.at) : x = ExcludedAt(x.at, e) /\ MatchesFilters(e, q)
    <2>1. PICK s \in S : x \in of[s]
      BY <1>4
    <2>2. PICK e \in M(s) : x = ExcludedAt(s, e)
      BY <2>1
    <2>3. x.at = s
      BY <2>2, ExcludedAtFacts
    <2> QED BY <1>3, <2>2, <2>3
  <1> QED BY <1>1, <1>2, <1>6, <1>7, <1>8 DEF S

LEMMA UnfilteredMatches ==
  ASSUME NEW e
  PROVE  MatchesFilters(e, Unfiltered)
BY DEF MatchesFilters, Unfiltered

LEMMA SameSummary ==
  ASSUME NEW s, NEW X, IsFiniteSet(X), \A e \in X : IsExclusion(e)
  PROVE  Summary({ExcludedAt(s, e) : e \in X}) = Summary(X)
PROOF
  <1> DEFINE Y == {ExcludedAt(s, e) : e \in X}
             h == [e \in X |-> ExcludedAt(s, e)]
             both(Z) == [e \in Z |-> <<e.category, e.reason>>]
             categories(Z) == [e \in Z |-> e.category]
             reasons(Z) == [e \in Z |-> e.reason]
  <1>1. h \in Bijection(X, Y)
    <2>1. h \in [X -> Y] /\ \A y \in Y : \E e \in X : h[e] = y
      OBVIOUS
    <2>2. \A e, f \in X : h[e] = h[f] => e = f
      BY ExcludedAtOnce
    <2> HIDE DEF h, Y
    <2> QED BY <2>1, <2>2 DEF Bijection, Injection, Surjection, IsInjective
  <1>2. \A e \in X : /\ h[e] \in Y
                     /\ h[e].category = e.category /\ h[e].reason = e.reason
    BY ExcludedAtFacts
  <1> HIDE DEF h, Y
  <1>3. /\ CountsBy(both(Y)) = CountsBy(both(X))
        /\ CountsBy(categories(Y)) = CountsBy(categories(X))
        /\ CountsBy(reasons(Y)) = CountsBy(reasons(X))
    <2>1. \A e \in X : /\ both(Y)[h[e]] = both(X)[e]
                       /\ categories(Y)[h[e]] = categories(X)[e]
                       /\ reasons(Y)[h[e]] = reasons(X)[e]
      BY <1>2
    <2>2. /\ DOMAIN both(X) = X /\ DOMAIN both(Y) = Y
          /\ DOMAIN categories(X) = X /\ DOMAIN categories(Y) = Y
          /\ DOMAIN reasons(X) = X /\ DOMAIN reasons(Y) = Y
      OBVIOUS
    <2> HIDE DEF both, categories, reasons
    <2>3. CountsBy(both(Y)) = CountsBy(both(X))
      BY <1>1, <2>1, <2>2, SameCounts
    <2>4. CountsBy(categories(Y)) = CountsBy(categories(X))
      BY <1>1, <2>1, <2>2, SameCounts
    <2>5. CountsBy(reasons(Y)) = CountsBy(reasons(X))
      BY <1>1, <2>1, <2>2, SameCounts
    <2> QED BY <2>3, <2>4, <2>5
  <1> QED BY <1>3 DEF Summary, Y

\* The summary stored with an edition is that of what an unfiltered query finds.
LEMMA StoredIsMatching ==
  ASSUME DaysType, NEW s \in Scanned(Log, Unfiltered, now)
  PROVE  Log[s].summary = Summary({e \in Found(Log, Unfiltered, now) : e.at = s})
PROOF
  <1>1. s \in Slots /\ Log[s].summary = Summary(LeftOut(s))
    BY FoundFacts, LogDays
  <1>2. {e \in Found(Log, Unfiltered, now) : e.at = s} = {ExcludedAt(s, e) : e \in LeftOut(s)}
    <2>1. ASSUME NEW e \in LeftOut(s)
          PROVE  ExcludedAt(s, e) \in Found(Log, Unfiltered, now) /\ ExcludedAt(s, e).at = s
      BY FoundFacts, UnfilteredMatches, ExcludedAtFacts
    <2>2. ASSUME NEW x \in Found(Log, Unfiltered, now), x.at = s
          PROVE  \E e \in LeftOut(s) : x = ExcludedAt(s, e)
      BY <2>2, FoundFacts
    <2> QED BY <2>1, <2>2
  <1> QED BY <1>1, <1>2, LeftOutFacts, SameSummary

\* The window of an unfiltered query is that of the history, with its first moment.
LEMMA HistoryIsScanned ==
  ASSUME DaysType
  PROVE  /\ History(archive, now) \subseteq Scanned(Log, Unfiltered, now)
         /\ Scanned(Log, Unfiltered, now) \ History(archive, now) \subseteq {now - Window}
PROOF
  <1>1. From(Unfiltered, now) = now - Window /\ To(Unfiltered, now) = now
    BY DEF From, To, Unfiltered
  <1>2. /\ History(archive, now) = {s \in Published(archive, now) : s > now - Window}
        /\ Scanned(Log, Unfiltered, now) = {s \in Published(archive, now) : now - Window <= s /\ s <= now}
    BY <1>1, PublishedDays, LogDays DEF Scanned
  <1>3. \A s \in Published(archive, now) : s \in Nat /\ s <= now
    BY PublishedDays, DaysFinite
  <1>4. now \in Nat /\ Window \in Nat
    BY EditionReadersAssumption DEF DaysType
  <1> QED BY <1>2, <1>3, <1>4

\* Of an edition in the window the reads have an exclusion of every item that it leaves
\* out, and of no other.
LEMMA FoundIsLeftOut ==
  ASSUME DaysType, NEW s \in Scanned(Log, Unfiltered, now), NEW i \in Items
  PROVE  (archive[s][i] = None) <=>
           \E e \in Found(Log, Unfiltered, now) : e.at = s /\ e.item = i
PROOF
  <1>1. s \in Slots
    BY FoundFacts
  <1>2. ASSUME archive[s][i] = None
        PROVE  \E e \in Found(Log, Unfiltered, now) : e.at = s /\ e.item = i
    <2>1. PICK e \in LeftOut(s) : e.item = i
      BY <1>1, <1>2, LeftOutFacts
    <2>2. ExcludedAt(s, e) \in Found(Log, Unfiltered, now)
      BY FoundFacts, UnfilteredMatches
    <2> QED BY <2>1, <2>2, ExcludedAtFacts
  <1>3. ASSUME NEW x \in Found(Log, Unfiltered, now), x.at = s, x.item = i
        PROVE  archive[s][i] = None
    <2>1. PICK e \in LeftOut(s) : x = ExcludedAt(s, e)
      BY <1>3, FoundFacts
    <2>2. e.item = i
      BY <1>3, <2>1, ExcludedAtFacts
    <2> QED BY <1>1, <2>2, LeftOutFacts
  <1> QED BY <1>2, <1>3

-----------------------------------------------------------------------------
(* What a query is answered.                                               *)

\* What the answers are made of.
LEMMA AnswerParts ==
  ASSUME NEW q
  PROVE  LET r == Report(Log, q, now)
             found == Found(Log, q, now)
             scanned == Scanned(Log, q, now)
             a == AnalyticsAnswer(r.analytics)
             brief == SummaryAnswer(r.analytics)
             byItem == GroupBy([e \in found |-> {e.item}])
             byBoth == GroupBy([e \in found |-> {<<e.category, e.reason>>}])
         IN /\ r.analytics.found = found /\ r.analytics.scanned = scanned
            /\ ReportAnswer(r).summary = Summary(found)
            /\ r.editions = [s \in scanned |->
                 [stored |-> Log[s].summary, matching |-> Summary({e \in found : e.at = s})]]
            /\ a.totals = Totals(found)
            /\ a["reasons"] = CountsOnly(GroupBy([e \in found |-> {e.reason}]))
            /\ a["categories"] = CountsOnly(GroupBy([e \in found |-> {e.category}]))
            /\ a["phases"] = CountsOnly(GroupBy([e \in found |-> {e.phase}]))
            /\ a["both"] = byBoth
            /\ a["editions"] = CountsOnly(GroupBy([e \in found |-> {e.at}]))
            /\ a.recurringItems = Restrict(byItem, Recurring(byItem))
            /\ r.analytics.recurringItems = Restrict(byItem, Recurring(byItem))
            /\ a.blindSpots = Restrict(byBoth, Recurring(byBoth))
            /\ brief.summary = Summary(found) /\ brief.matched = Totals(found).matched
            /\ brief.groups = Cardinality(DOMAIN Summary(found).both)
PROOF
  <1> DEFINE A == Analytics(Log, q, now)
             r == Report(Log, q, now)
             found == Found(Log, q, now)
             scanned == Scanned(Log, q, now)
             byItem == GroupBy([e \in found |-> {e.item}])
             byBoth == GroupBy([e \in found |-> {<<e.category, e.reason>>}])
  <1>1. r = [analytics |-> A, summary |-> Summary(A.found), editions |-> EditionSummaries(Log, q, now, A)]
    BY DEF Report
  <1>2. A = [scanned |-> scanned, found |-> found, totals |-> Totals(found),
             reasons |-> GroupBy([e \in found |-> {e.reason}]),
             categories |-> GroupBy([e \in found |-> {e.category}]),
             phases |-> GroupBy([e \in found |-> {e.phase}]),
             kinds |-> GroupBy([e \in found |-> e.kinds]),
             both |-> byBoth,
             editions |-> GroupBy([e \in found |-> {e.at}]),
             recurringItems |-> Restrict(byItem, Recurring(byItem)),
             blindSpots |-> Restrict(byBoth, Recurring(byBoth))]
    BY DEF Analytics
  <1>3. A.found = found /\ A.scanned = scanned /\ A.totals = Totals(found)
    BY <1>2
  <1>4. r.editions = [s \in scanned |->
          [stored |-> Log[s].summary, matching |-> Summary({e \in found : e.at = s})]]
    <2> HIDE DEF A, found, scanned
    <2> QED BY <1>1, <1>3 DEF EditionSummaries, Summarized, scanned
  <1>5. /\ SummaryAnswer(A).summary = Summary(found)
        /\ SummaryAnswer(A).matched = Totals(found).matched
        /\ SummaryAnswer(A).groups = Cardinality(DOMAIN Summary(found).both)
    <2> HIDE DEF A, found, scanned
    <2> QED BY <1>3 DEF SummaryAnswer
  <1>6. /\ AnalyticsAnswer(A).totals = A.totals
        /\ AnalyticsAnswer(A)["reasons"] = CountsOnly(A.reasons)
        /\ AnalyticsAnswer(A)["categories"] = CountsOnly(A.categories)
        /\ AnalyticsAnswer(A)["phases"] = CountsOnly(A.phases)
        /\ AnalyticsAnswer(A)["both"] = A.both
        /\ AnalyticsAnswer(A)["editions"] = CountsOnly(A.editions)
        /\ AnalyticsAnswer(A).recurringItems = A.recurringItems
        /\ AnalyticsAnswer(A).blindSpots = A.blindSpots
    <2>1. DOMAIN A = {"scanned", "found", "totals", "reasons", "categories", "phases", "kinds",
                      "both", "editions", "recurringItems", "blindSpots"}
      BY <1>2
    <2> HIDE DEF A
    <2> QED BY <2>1 DEF AnalyticsAnswer
  <1>7. /\ A.reasons = GroupBy([e \in found |-> {e.reason}])
        /\ A.categories = GroupBy([e \in found |-> {e.category}])
        /\ A.phases = GroupBy([e \in found |-> {e.phase}])
        /\ A.both = byBoth
        /\ A.editions = GroupBy([e \in found |-> {e.at}])
        /\ A.recurringItems = Restrict(byItem, Recurring(byItem))
        /\ A.blindSpots = Restrict(byBoth, Recurring(byBoth))
    BY <1>2
  <1>8. r.analytics = A /\ ReportAnswer(r).summary = Summary(found)
    <2> HIDE DEF A, found, r
    <2> QED BY <1>1, <1>3 DEF ReportAnswer
  <1> HIDE DEF A, found, r, byItem, byBoth, scanned
  <1>9. /\ r.analytics.found = found /\ r.analytics.scanned = scanned
        /\ AnalyticsAnswer(r.analytics) = AnalyticsAnswer(A)
        /\ SummaryAnswer(r.analytics) = SummaryAnswer(A)
        /\ r.analytics.recurringItems = A.recurringItems
    BY <1>3, <1>8
  <1> QED BY <1>3, <1>4, <1>5, <1>6, <1>7, <1>8, <1>9 DEF found, r, byItem, byBoth, scanned

\* Every aggregation by one field counts every exclusion once.
LEMMA AnswersAddUp ==
  ASSUME NEW X, IsFiniteSet(X), NEW keyOf, DOMAIN keyOf = X, NEW keysOf,
         DOMAIN keysOf = X, \A e \in X : keysOf[e] = {keyOf[e]}, NEW G, G = GroupBy(keysOf)
  PROVE  /\ DOMAIN G = Range(keyOf) /\ DOMAIN CountsOnly(G) = DOMAIN G
         /\ TotalOf(ExclusionsBy(G)) = Cardinality(X)
         /\ TotalOf(ExclusionsBy(CountsOnly(G))) = Cardinality(X)
PROOF
  <1>1. /\ DOMAIN G = Range(keyOf)
        /\ TotalOf(ExclusionsBy(G)) = Cardinality(X)
    BY GroupsAddUp
  <1>2. DOMAIN CountsOnly(G) = DOMAIN G /\ \A k \in DOMAIN G : CountsOnly(G)[k].exclusions = G[k].exclusions
    BY DEF CountsOnly
  <1>3. ExclusionsBy(CountsOnly(G)) = ExclusionsBy(G)
    BY <1>2 DEF ExclusionsBy
  <1> QED BY <1>1, <1>2, <1>3

LEMMA ByField ==
  ASSUME DaysType, NEW q
  PROVE  LET found == Found(Log, q, now)
             a == AnalyticsAnswer(Report(Log, q, now).analytics)
         IN /\ \A by \in {"reasons", "categories", "phases", "both", "editions"} :
                 Cardinality(found) = TotalOf(ExclusionsBy(a[by]))
            /\ DOMAIN a["both"] = {<<e.category, e.reason>> : e \in found}
            /\ DOMAIN a["editions"] = {e.at : e \in found}
PROOF
  <1> DEFINE found == Found(Log, q, now)
             a == AnalyticsAnswer(Report(Log, q, now).analytics)
             reason == [e \in found |-> e.reason]
             category == [e \in found |-> e.category]
             phase == [e \in found |-> e.phase]
             both == [e \in found |-> <<e.category, e.reason>>]
             at == [e \in found |-> e.at]
  <1>1. IsFiniteSet(found)
    BY FoundFacts
  <1>2. /\ a["reasons"] = CountsOnly(GroupBy([e \in found |-> {reason[e]}]))
        /\ a["categories"] = CountsOnly(GroupBy([e \in found |-> {category[e]}]))
        /\ a["phases"] = CountsOnly(GroupBy([e \in found |-> {phase[e]}]))
        /\ a["both"] = GroupBy([e \in found |-> {both[e]}])
        /\ a["editions"] = CountsOnly(GroupBy([e \in found |-> {at[e]}]))
    <2>1. /\ [e \in found |-> {reason[e]}] = [e \in found |-> {e.reason}]
          /\ [e \in found |-> {category[e]}] = [e \in found |-> {e.category}]
          /\ [e \in found |-> {phase[e]}] = [e \in found |-> {e.phase}]
          /\ [e \in found |-> {both[e]}] = [e \in found |-> {<<e.category, e.reason>>}]
          /\ [e \in found |-> {at[e]}] = [e \in found |-> {e.at}]
      OBVIOUS
    <2>2. /\ a["reasons"] = CountsOnly(GroupBy([e \in found |-> {e.reason}]))
          /\ a["categories"] = CountsOnly(GroupBy([e \in found |-> {e.category}]))
          /\ a["phases"] = CountsOnly(GroupBy([e \in found |-> {e.phase}]))
          /\ a["both"] = GroupBy([e \in found |-> {<<e.category, e.reason>>}])
          /\ a["editions"] = CountsOnly(GroupBy([e \in found |-> {e.at}]))
      BY AnswerParts
    <2> HIDE DEF a, found, reason, category, phase, both, at
    <2> QED BY <2>1, <2>2
  <1>3. /\ DOMAIN reason = found /\ DOMAIN category = found /\ DOMAIN phase = found
        /\ DOMAIN both = found /\ DOMAIN at = found
    OBVIOUS
  <1>4. /\ Range(both) = {<<e.category, e.reason>> : e \in found}
        /\ Range(at) = {e.at : e \in found}
    BY DEF Range
  <1> DEFINE ofReason == [e \in found |-> {reason[e]}]
             ofCategory == [e \in found |-> {category[e]}]
             ofPhase == [e \in found |-> {phase[e]}]
             ofTime == [e \in found |-> {at[e]}]
             ofBoth == [e \in found |-> {both[e]}]
  <1> HIDE DEF found, a, reason, category, phase, both, at
  <1>5. Cardinality(found) = TotalOf(ExclusionsBy(a["reasons"]))
    <2> DEFINE G == GroupBy(ofReason)
    <2>1. /\ G = GroupBy(ofReason) /\ DOMAIN ofReason = found /\ \A e \in found : ofReason[e] = {reason[e]}
          /\ a["reasons"] = CountsOnly(G)
      BY <1>2
    <2> HIDE DEF ofReason, G
    <2>2. Cardinality(found) = TotalOf(ExclusionsBy(CountsOnly(G)))
      BY <1>1, <1>3, <2>1, AnswersAddUp
    <2> QED BY <2>1, <2>2
  <1>6. Cardinality(found) = TotalOf(ExclusionsBy(a["categories"]))
    <2> DEFINE G == GroupBy(ofCategory)
    <2>1. /\ G = GroupBy(ofCategory) /\ DOMAIN ofCategory = found /\ \A e \in found : ofCategory[e] = {category[e]}
          /\ a["categories"] = CountsOnly(G)
      BY <1>2
    <2> HIDE DEF ofCategory, G
    <2>2. Cardinality(found) = TotalOf(ExclusionsBy(CountsOnly(G)))
      BY <1>1, <1>3, <2>1, AnswersAddUp
    <2> QED BY <2>1, <2>2
  <1>7. Cardinality(found) = TotalOf(ExclusionsBy(a["phases"]))
    <2> DEFINE G == GroupBy(ofPhase)
    <2>1. /\ G = GroupBy(ofPhase) /\ DOMAIN ofPhase = found /\ \A e \in found : ofPhase[e] = {phase[e]}
          /\ a["phases"] = CountsOnly(G)
      BY <1>2
    <2> HIDE DEF ofPhase, G
    <2>2. Cardinality(found) = TotalOf(ExclusionsBy(CountsOnly(G)))
      BY <1>1, <1>3, <2>1, AnswersAddUp
    <2> QED BY <2>1, <2>2
  <1>8. /\ Cardinality(found) = TotalOf(ExclusionsBy(a["both"]))
        /\ DOMAIN a["both"] = Range(both)
    <2> DEFINE G == GroupBy(ofBoth)
    <2>1. /\ G = GroupBy(ofBoth) /\ DOMAIN ofBoth = found /\ \A e \in found : ofBoth[e] = {both[e]}
          /\ a["both"] = G
      BY <1>2
    <2> HIDE DEF ofBoth, G
    <2>2. /\ Cardinality(found) = TotalOf(ExclusionsBy(G))
          /\ DOMAIN G = Range(both)
      BY <1>1, <1>3, <2>1, AnswersAddUp
    <2> QED BY <2>1, <2>2
  <1>9. /\ Cardinality(found) = TotalOf(ExclusionsBy(a["editions"]))
        /\ DOMAIN a["editions"] = Range(at)
    <2> DEFINE G == GroupBy(ofTime)
    <2>1. /\ G = GroupBy(ofTime) /\ DOMAIN ofTime = found /\ \A e \in found : ofTime[e] = {at[e]}
          /\ a["editions"] = CountsOnly(G)
      BY <1>2
    <2> HIDE DEF ofTime, G
    <2>2. /\ Cardinality(found) = TotalOf(ExclusionsBy(CountsOnly(G)))
          /\ DOMAIN CountsOnly(G) = Range(at)
      BY <1>1, <1>3, <2>1, AnswersAddUp
    <2> QED BY <2>1, <2>2
  <1> QED BY <1>4, <1>5, <1>6, <1>7, <1>8, <1>9 DEF found, a

\* The summaries by edition are consistent and count every exclusion once.
LEMMA ByEdition ==
  ASSUME DaysType, NEW q
  PROVE  LET found == Found(Log, q, now)
             editions == Report(Log, q, now).editions
         IN /\ \A s \in DOMAIN editions : Consistent(editions[s].matching)
            /\ Cardinality(found) = TotalOf([s \in DOMAIN editions |-> editions[s].matching.total])
PROOF
  <1> DEFINE found == Found(Log, q, now)
             S == Scanned(Log, q, now)
             editions == Report(Log, q, now).editions
             at == [e \in found |-> e.at]
             matching(s) == {e \in found : e.at = s}
             totals == [s \in DOMAIN editions |-> editions[s].matching.total]
  <1>1. /\ IsFiniteSet(found) /\ IsFiniteSet(S)
        /\ \A e \in found : at[e] \in S
    BY FoundFacts
  <1>2. editions = [s \in S |-> [stored |-> Log[s].summary, matching |-> Summary(matching(s))]]
    BY AnswerParts
  <1>3. \A s : matching(s) = {e \in found : at[e] = s}
    OBVIOUS
  <1> HIDE DEF found, S, editions, at, matching
  <1>4. \A s \in S : /\ IsFiniteSet(matching(s)) /\ editions[s].matching = Summary(matching(s))
    BY <1>1, <1>2, <1>3, FS_Subset
  <1>5. \A s \in S : /\ Consistent(editions[s].matching)
                     /\ editions[s].matching.total = Cardinality(matching(s))
    BY <1>4, SummaryCounts
  <1>6. DOMAIN editions = S
    BY <1>2
  <1>7. totals = Parts(found, at, S)
    BY <1>3, <1>5, <1>6 DEF Parts
  <1>8. TotalOf(totals) = SumFunctionOnSet(totals, S)
    BY <1>6 DEF TotalOf, SumFunction
  <1>9. TotalOf(totals) = Cardinality(found)
    BY <1>1, <1>7, <1>8, PartsAddUp
  <1> QED BY <1>5, <1>6, <1>9 DEF found, editions

\* What recurs is in as many editions, in order of their times.
LEMMA RecurringFacts ==
  ASSUME DaysType, NEW q, NEW keyOf, DOMAIN keyOf = Found(Log, q, now), NEW keysOf,
         DOMAIN keysOf = Found(Log, q, now),
         \A e \in Found(Log, q, now) : keysOf[e] = {keyOf[e]}, NEW G, G = GroupBy(keysOf)
  PROVE  \A k \in DOMAIN G :
           LET times == TimesOf(Found(Log, q, now), keyOf, k) IN
           /\ times \in SUBSET Scanned(Log, q, now) /\ IsFiniteSet(times)
           /\ k \in Recurring(G) <=> Cardinality(times) >= MinRecurringEditions
           /\ MinRecurringEditions > 1 /\ k \in Recurring(G) => G[k].first < G[k].last
PROOF
  <1> DEFINE found == Found(Log, q, now)
             times(k) == TimesOf(found, keyOf, k)
  <1>1. SUFFICES ASSUME NEW k \in DOMAIN G
                 PROVE  /\ times(k) \in SUBSET Scanned(Log, q, now) /\ IsFiniteSet(times(k))
                        /\ k \in Recurring(G) <=> Cardinality(times(k)) >= MinRecurringEditions
                        /\ MinRecurringEditions > 1 /\ k \in Recurring(G) => G[k].first < G[k].last
    BY DEF found
  <1>2. /\ IsFiniteSet(found) /\ \A e \in found : e.at \in Scanned(Log, q, now)
        /\ Scanned(Log, q, now) \in SUBSET Slots /\ IsFiniteSet(Scanned(Log, q, now))
    BY FoundFacts
  <1>3. times(k) \in SUBSET Scanned(Log, q, now) /\ times(k) \in SUBSET Slots
    BY <1>2 DEF WithKey, TimesOf
  <1>4. times(k) \in SUBSET Int /\ IsFiniteSet(times(k))
    BY <1>3, DaysFinite
  <1>5. G[k] = Tally(WithKey(found, keyOf, k))
    BY <1>2, GroupsAddUp
  <1>6. /\ G[k].editions = Cardinality(times(k))
        /\ G[k].first = Min(times(k)) /\ G[k].last = Max(times(k))
    <2>1. \A E : LET T == {e.at : e \in E} IN
            /\ Tally(E).editions = Cardinality(T)
            /\ Tally(E).first = Min(T) /\ Tally(E).last = Max(T)
      BY DEF Tally
    <2> HIDE DEF found
    <2> QED BY <1>5, <2>1 DEF TimesOf
  <1> HIDE DEF times, found
  <1>7. k \in Recurring(G) <=> Cardinality(times(k)) >= MinRecurringEditions
    BY <1>6 DEF Recurring
  <1>8. ASSUME MinRecurringEditions > 1, k \in Recurring(G)
        PROVE  G[k].first < G[k].last
    <2>1. Cardinality(times(k)) > 1
      BY <1>4, <1>7, <1>8, FS_CardinalityType, ExclusionReportsAssumption
    <2>2. times(k) # {} /\ \A t : times(k) # {t}
      BY <2>1, FS_EmptySet, FS_Singleton
    <2>3. /\ Min(times(k)) \in times(k) /\ Max(times(k)) \in times(k)
          /\ \A t \in times(k) : Min(times(k)) <= t /\ t <= Max(times(k))
      BY <1>4, <2>2, MinFacts, MaxFacts
    <2>4. Min(times(k)) # Max(times(k))
      BY <1>4, <2>2, <2>3
    <2> QED BY <1>4, <1>6, <2>3, <2>4
  <1> QED BY <1>3, <1>4, <1>7, <1>8

\* What one query is answered agrees with itself, with the editions and with the wider query.
LEMMA QueryAgrees ==
  ASSUME DaysType, NEW q
  PROVE  LET all == Report(Log, Unfiltered, now)
             r == Report(Log, q, now)
             a == AnalyticsAnswer(r.analytics)
             brief == SummaryAnswer(r.analytics)
             total == a.totals.exclusions
             recurring == DOMAIN a.recurringItems
         IN /\ ReportAnswer(r).summary = brief.summary
            /\ Consistent(brief.summary) /\ brief.summary.total = total
            /\ brief.groups = Cardinality(DOMAIN a.both)
            /\ brief.matched = Cardinality(DOMAIN a.editions)
            /\ \A s \in DOMAIN r.editions : Consistent(r.editions[s].matching)
            /\ total = TotalOf([s \in DOMAIN r.editions |-> r.editions[s].matching.total])
            /\ \A by \in {"reasons", "categories", "phases", "both", "editions"} :
                 total = TotalOf([k \in DOMAIN a[by] |-> a[by][k].exclusions])
            /\ \A i \in recurring :
                 Cardinality({s \in r.analytics.scanned : archive[s][i] = None}) >= MinRecurringEditions
            /\ q.from = None => recurring \subseteq DOMAIN all.analytics.recurringItems
            /\ MinRecurringEditions > 1 =>
                 \A b \in DOMAIN a.blindSpots : a.both[b].first < a.both[b].last
PROOF
  <1> DEFINE all == Report(Log, Unfiltered, now)
             r == Report(Log, q, now)
             a == AnalyticsAnswer(r.analytics)
             brief == SummaryAnswer(r.analytics)
             found(p) == Found(Log, p, now)
             scanned(p) == Scanned(Log, p, now)
             item(p) == [e \in found(p) |-> e.item]
             byItem(p) == GroupBy([e \in found(p) |-> {e.item}])
             times(p, i) == TimesOf(found(p), item(p), i)
  <1>1. /\ a.totals.exclusions = Cardinality(found(q))
        /\ brief.matched = Cardinality({e.at : e \in found(q)})
    <2>1. a.totals = Totals(found(q)) /\ brief.matched = Totals(found(q)).matched
      BY AnswerParts
    <2> HIDE DEF a, brief, found
    <2> QED BY <2>1 DEF Totals
  <1>2. /\ ReportAnswer(r).summary = brief.summary
        /\ Consistent(brief.summary) /\ brief.summary.total = Cardinality(found(q))
        /\ brief.groups = Cardinality({<<e.category, e.reason>> : e \in found(q)})
    <2>1. /\ ReportAnswer(r).summary = Summary(found(q)) /\ brief.summary = Summary(found(q))
          /\ brief.groups = Cardinality(DOMAIN Summary(found(q)).both)
      BY AnswerParts
    <2>2. IsFiniteSet(found(q))
      BY FoundFacts
    <2> HIDE DEF r, brief, found
    <2> QED BY <2>1, <2>2, SummaryCounts
  <1>3. /\ DOMAIN a["both"] = {<<e.category, e.reason>> : e \in found(q)}
        /\ DOMAIN a["editions"] = {e.at : e \in found(q)}
        /\ \A by \in {"reasons", "categories", "phases", "both", "editions"} :
             Cardinality(found(q)) = TotalOf([k \in DOMAIN a[by] |-> a[by][k].exclusions])
    BY ByField DEF ExclusionsBy
  <1>4. /\ \A s \in DOMAIN r.editions : Consistent(r.editions[s].matching)
        /\ Cardinality(found(q)) = TotalOf([s \in DOMAIN r.editions |-> r.editions[s].matching.total])
    BY ByEdition
  <1>5. ASSUME NEW p
        PROVE  DOMAIN byItem(p) = Range(item(p))
               /\ \A i \in DOMAIN byItem(p) :
                    /\ times(p, i) \in SUBSET scanned(p) /\ IsFiniteSet(times(p, i))
                    /\ i \in Recurring(byItem(p)) <=> Cardinality(times(p, i)) >= MinRecurringEditions
    <2> DEFINE keysOf == [e \in found(p) |-> {e.item}]
               keyOf == item(p)
               G == byItem(p)
    <2>1. /\ DOMAIN keyOf = found(p) /\ DOMAIN keysOf = found(p)
          /\ \A e \in found(p) : keysOf[e] = {keyOf[e]}
          /\ G = GroupBy(keysOf)
      OBVIOUS
    <2>2. IsFiniteSet(found(p))
      BY FoundFacts
    <2> HIDE DEF keysOf, keyOf, G
    <2>3. DOMAIN G = Range(keyOf)
      BY <2>1, <2>2, GroupsAddUp
    <2>4. \A i \in DOMAIN G :
            LET T == TimesOf(Found(Log, p, now), keyOf, i) IN
            /\ T \in SUBSET Scanned(Log, p, now) /\ IsFiniteSet(T)
            /\ i \in Recurring(G) <=> Cardinality(T) >= MinRecurringEditions
      BY <2>1, RecurringFacts
    <2> QED BY <2>3, <2>4 DEF G, keyOf
  <1>6. /\ r.analytics.scanned = scanned(q)
        /\ DOMAIN a.recurringItems = Recurring(byItem(q))
        /\ DOMAIN all.analytics.recurringItems = Recurring(byItem(Unfiltered))
    <2>1. /\ r.analytics.scanned = scanned(q)
          /\ a.recurringItems = Restrict(byItem(q), Recurring(byItem(q)))
          /\ all.analytics.recurringItems = Restrict(byItem(Unfiltered), Recurring(byItem(Unfiltered)))
      BY AnswerParts
    <2> HIDE DEF a, r, all, byItem, scanned
    <2> QED BY <2>1 DEF Restrict
  <1>7. ASSUME NEW p, NEW i, NEW e \in WithKey(found(p), item(p), i)
        PROVE  e \in found(p) /\ e.item = i
    BY DEF WithKey
  <1>8. ASSUME NEW i \in Recurring(byItem(q))
        PROVE  Cardinality({s \in scanned(q) : archive[s][i] = None}) >= MinRecurringEditions
    <2> DEFINE T == {s \in scanned(q) : archive[s][i] = None}
    <2>1. i \in DOMAIN byItem(q)
      BY DEF Recurring
    <2>2. /\ times(q, i) \in SUBSET scanned(q) /\ IsFiniteSet(times(q, i))
          /\ Cardinality(times(q, i)) >= MinRecurringEditions
      <3> HIDE DEF byItem, times, scanned
      <3> QED BY <1>5, <2>1
    <2>3. ASSUME NEW e \in WithKey(found(q), item(q), i)
          PROVE  e.at \in T
      <3>1. e \in found(q) /\ e.item = i
        BY <1>7
      <3>2. e.at \in scanned(q) /\ e.at \in Slots
        BY <3>1, FoundFacts
      <3>3. PICK x \in LeftOut(e.at) : e = ExcludedAt(e.at, x)
        BY <3>1, FoundFacts
      <3>4. x.item = i
        BY <3>1, <3>3, ExcludedAtFacts
      <3> QED BY <3>2, <3>4, LeftOutFacts
    <2>4. times(q, i) \in SUBSET T /\ T \in SUBSET scanned(q)
      BY <2>3 DEF TimesOf
    <2>5. IsFiniteSet(T)
      BY <2>4, FoundFacts, FS_Subset
    <2> HIDE DEF times, T
    <2>6. /\ Cardinality(times(q, i)) <= Cardinality(T)
          /\ Cardinality(times(q, i)) \in Nat /\ Cardinality(T) \in Nat
      BY <2>2, <2>4, <2>5, FS_Subset, FS_CardinalityType
    <2> QED BY <2>2, <2>6, ExclusionReportsAssumption DEF T
  <1>9. ASSUME q.from = None, NEW i \in Recurring(byItem(q))
        PROVE  i \in Recurring(byItem(Unfiltered))
    <2>1. ASSUME NEW x \in found(q)
          PROVE  x \in found(Unfiltered)
      <3>1. PICK e \in LeftOut(x.at) : x = ExcludedAt(x.at, e)
        BY FoundFacts
      <3>2. x.at \in scanned(q) /\ x.at \in Published(archive, now)
        BY FoundFacts
      <3>3. From(q, now) = From(Unfiltered, now) /\ To(Unfiltered, now) = now
        BY <1>9 DEF From, To, Unfiltered
      <3>4. x.at <= now
        BY <3>2, PublishedDays
      <3>5. x.at \in scanned(Unfiltered)
        BY <3>2, <3>3, <3>4 DEF Scanned
      <3> QED BY <3>1, <3>5, FoundFacts, UnfilteredMatches
    <2>2. i \in DOMAIN byItem(q)
      BY DEF Recurring
    <2>3. /\ Cardinality(times(q, i)) >= MinRecurringEditions
          /\ IsFiniteSet(times(q, i)) /\ DOMAIN byItem(q) = Range(item(q))
      <3> HIDE DEF byItem, times, scanned, item
      <3> QED BY <1>5, <2>2
    <2>4. PICK x \in found(q) : x.item = i
      BY <2>2, <2>3 DEF Range
    <2>5. i \in Range(item(Unfiltered))
      <3>1. x \in found(Unfiltered) /\ item(Unfiltered)[x] = i
        BY <2>1, <2>4
      <3> QED BY <3>1 DEF Range
    <2>6. i \in DOMAIN byItem(Unfiltered)
      BY <1>5, <2>5
    <2>7. times(q, i) \in SUBSET times(Unfiltered, i)
      BY <2>1 DEF WithKey, TimesOf
    <2>8. /\ IsFiniteSet(times(Unfiltered, i))
          /\ i \in Recurring(byItem(Unfiltered)) <=>
               Cardinality(times(Unfiltered, i)) >= MinRecurringEditions
      <3> HIDE DEF byItem, times, scanned, item
      <3> QED BY <1>5, <2>6
    <2> HIDE DEF times, byItem
    <2>9. /\ Cardinality(times(q, i)) <= Cardinality(times(Unfiltered, i))
          /\ Cardinality(times(q, i)) \in Nat /\ Cardinality(times(Unfiltered, i)) \in Nat
      BY <2>3, <2>7, <2>8, FS_Subset, FS_CardinalityType
    <2> QED BY <2>3, <2>8, <2>9, ExclusionReportsAssumption
  <1>10. ASSUME MinRecurringEditions > 1, NEW b \in DOMAIN a.blindSpots
         PROVE  a["both"][b].first < a["both"][b].last
    <2> DEFINE keysOf == [e \in found(q) |-> {<<e.category, e.reason>>}]
               keyOf == [e \in found(q) |-> <<e.category, e.reason>>]
               G == GroupBy(keysOf)
    <2>1. /\ DOMAIN keyOf = Found(Log, q, now) /\ DOMAIN keysOf = Found(Log, q, now)
          /\ \A e \in Found(Log, q, now) : keysOf[e] = {keyOf[e]}
          /\ G = GroupBy(keysOf)
      OBVIOUS
    <2>2. a["both"] = G /\ a.blindSpots = Restrict(G, Recurring(G))
      BY AnswerParts
    <2> HIDE DEF keysOf, keyOf, G, a
    <2>3. b \in Recurring(G) /\ b \in DOMAIN G
      BY <1>10, <2>2 DEF Restrict, Recurring
    <2>4. G[b].first < G[b].last
      <3>1. MinRecurringEditions > 1 /\ b \in Recurring(G) => G[b].first < G[b].last
        BY <2>1, <2>3, RecurringFacts
      <3> QED BY <1>10, <2>3, <3>1
    <2> QED BY <2>2, <2>4
  <1> HIDE DEF all, r, a, brief, found, scanned, byItem, times
  <1> QED BY <1>1, <1>2, <1>3, <1>4, <1>6, <1>8, <1>9, <1>10
          DEF all, r, a, brief

\* For every set of exclusions of every item and day, every window, threshold and query:
\* the reads of the exclusions agree.
THEOREM ExclusionReads == Spec => []ExclusionReadsAgree
PROOF
  <1>1. DaysType => ExclusionReadsAgree
    <2> SUFFICES ASSUME DaysType PROVE ExclusionReadsAgree
      OBVIOUS
    <2> DEFINE all == Report(Log, Unfiltered, now)
    <2>1. /\ all.analytics.found = Found(Log, Unfiltered, now)
          /\ all.analytics.scanned = Scanned(Log, Unfiltered, now)
          /\ all.editions = [s \in Scanned(Log, Unfiltered, now) |->
               [stored |-> Log[s].summary,
                matching |-> Summary({e \in Found(Log, Unfiltered, now) : e.at = s})]]
      BY AnswerParts
    <2> HIDE DEF all
    <2>2. /\ History(archive, now) \subseteq all.analytics.scanned
          /\ all.analytics.scanned \ History(archive, now) \subseteq {now - Window}
      BY <2>1, HistoryIsScanned
    <2>3. \A s \in History(archive, now), i \in Items :
            (archive[s][i] = None) <=> \E e \in all.analytics.found : e.at = s /\ e.item = i
      <3> SUFFICES ASSUME NEW s \in History(archive, now), NEW i \in Items
                   PROVE  (archive[s][i] = None) <=>
                            \E e \in all.analytics.found : e.at = s /\ e.item = i
        OBVIOUS
      <3>1. s \in Scanned(Log, Unfiltered, now)
        BY <2>1, <2>2
      <3> QED BY <2>1, <3>1, FoundIsLeftOut
    <2>4. \A s \in DOMAIN all.editions : all.editions[s].stored = all.editions[s].matching
      <3> DEFINE matching(s) == Summary({e \in Found(Log, Unfiltered, now) : e.at = s})
                 S == Scanned(Log, Unfiltered, now)
      <3>1. \A s \in S : Log[s].summary = matching(s)
        BY StoredIsMatching
      <3>2. all.editions = [s \in S |-> [stored |-> Log[s].summary, matching |-> matching(s)]]
        BY <2>1
      <3> HIDE DEF matching, S
      <3> QED BY <3>1, <3>2
    <2> QED BY <2>2, <2>3, <2>4, QueryAgrees DEF ExclusionReadsAgree, all
  <1>2. Init => DaysType
    BY DEF Init, DaysType
  <1>3. Spec => []DaysType
    BY <1>2, DaysStep, PTL DEF Spec
  <1> QED BY <1>1, <1>3, PTL
=============================================================================
