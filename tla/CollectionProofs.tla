--------------------------- MODULE CollectionProofs ---------------------------
(***************************************************************************)
(* Proofs about Collection: what an adapter that answered gives is all     *)
(* that its sources list within the limits, or nothing; what is curated    *)
(* of it falls into the groups of what shares an identity, and every item  *)
(* is published or excluded, whatever order they came in.                  *)
(***************************************************************************)
EXTENDS Collection, FoldTheorems

-----------------------------------------------------------------------------
(* Counting in sequences.                                                  *)

Ones(s, r) == [i \in 1 .. Len(s) |-> IF s[i] = r THEN 1 ELSE 0]

Sizes(items, r) == [i \in 1 .. Len(items) |-> IF items[i].record = r THEN items[i].times ELSE 0]

LEMMA OnesSummable ==
  ASSUME NEW S, NEW s \in Seq(S), NEW r
  PROVE  /\ 1 .. Len(s) \in SUBSET Int /\ DOMAIN s = 1 .. Len(s)
         /\ Summable(Ones(s, r), 1 .. Len(s))
PROOF
  <1>1. Len(s) \in Nat /\ DOMAIN s = 1 .. Len(s)
    OBVIOUS
  <1>2. IsFiniteSet(1 .. Len(s)) /\ 1 .. Len(s) \in SUBSET Int
    BY <1>1, FS_Interval
  <1>3. \A i \in 1 .. Len(s) : Ones(s, r)[i] \in Nat
    BY DEF Ones
  <1> QED BY <1>1, <1>2, <1>3 DEF Summable

\* How often a sequence has r is the sum of a one for each place that has it.
LEMMA CountIsSum ==
  ASSUME NEW S, NEW s \in Seq(S), NEW r
  PROVE  Count(s, r) = SumFunctionOnSet(Ones(s, r), 1 .. Len(s))
PROOF
  <1> DEFINE D == 1 .. Len(s)
             Counts(h) == h = [U \in SUBSET D |->
                            IF U = {} THEN 0
                            ELSE h[U \ {Max(U)}] + (IF s[Max(U)] = r THEN 1 ELSE 0)]
             it == CHOOSE h : Counts(h)
  <1>1. D \in SUBSET Int /\ DOMAIN s = D /\ Summable(Ones(s, r), D) /\ IsFiniteSet(D)
    BY OnesSummable DEF Summable
  <1>2. Count(s, r) = it[D]
    BY <1>1 DEF Count, FoldLeft, MapThenFoldSet
  <1>3. ASSUME NEW h
        PROVE  Counts(h) <=> LeftSums(Ones(s, r), D, h)
    <2>1. \A U \in SUBSET D : U # {} => Ones(s, r)[Max(U)] = IF s[Max(U)] = r THEN 1 ELSE 0
      <3> SUFFICES ASSUME NEW U \in SUBSET D, U # {}
                   PROVE  Ones(s, r)[Max(U)] = IF s[Max(U)] = r THEN 1 ELSE 0
        OBVIOUS
      <3>1. Max(U) \in U
        BY <1>1, FS_Subset, MaxFacts
      <3> QED BY <3>1 DEF Ones
    <2> HIDE DEF D
    <2> QED BY <2>1 DEF LeftSums
  <1> HIDE DEF Counts, D
  <1>4. Counts(it)
    BY <1>1, <1>3, LeftSumsAre
  <1> HIDE DEF it
  <1> QED BY <1>1, <1>2, <1>3, <1>4, LeftSumsAre DEF D

LEMMA CountNone ==
  ASSUME NEW r
  PROVE  Count(<<>>, r) = 0
PROOF
  <1>1. <<>> \in Seq({}) /\ 1 .. Len(<<>>) = {}
    OBVIOUS
  <1>2. Count(<<>>, r) = SumFunctionOnSet(Ones(<<>>, r), 1 .. Len(<<>>))
    BY <1>1, CountIsSum
  <1> QED BY <1>1, <1>2, SumEmpty

LEMMA CountType ==
  ASSUME NEW S, NEW s \in Seq(S), NEW r
  PROVE  Count(s, r) \in Nat
BY OnesSummable, CountIsSum, SumType

LEMMA CountAppend ==
  ASSUME NEW S, NEW s \in Seq(S), NEW x \in S, NEW r
  PROVE  /\ Append(s, x) \in Seq(S)
         /\ Count(Append(s, x), r) = Count(s, r) + (IF x = r THEN 1 ELSE 0)
PROOF
  <1> DEFINE t == Append(s, x)
             n == Len(s)
  <1>1. /\ n \in Nat /\ t \in Seq(S) /\ Len(t) = n + 1 /\ t[n + 1] = x
        /\ \A i \in 1 .. n : t[i] = s[i]
    OBVIOUS
  <1> HIDE DEF t, n
  <1>2. Summable(Ones(t, r), 1 .. (n + 1)) /\ n + 1 \in 1 .. (n + 1)
    BY <1>1, OnesSummable
  <1>3. /\ Summable(Ones(t, r), 1 .. n)
        /\ SumFunctionOnSet(Ones(t, r), 1 .. (n + 1)) = Ones(t, r)[n + 1] + SumFunctionOnSet(Ones(t, r), 1 .. n)
    BY <1>1, <1>2, SumOneMore
  <1>5. \A i \in 1 .. n : Ones(s, r)[i] = Ones(t, r)[i]
    BY <1>1 DEF Ones, n
  <1>6. SumFunctionOnSet(Ones(s, r), 1 .. n) = SumFunctionOnSet(Ones(t, r), 1 .. n)
    BY <1>3, <1>5, SumSame
  <1>7. Ones(t, r)[n + 1] = IF x = r THEN 1 ELSE 0
    BY <1>1, <1>2 DEF Ones
  <1>8. /\ Count(t, r) = SumFunctionOnSet(Ones(t, r), 1 .. (n + 1))
        /\ Count(s, r) = SumFunctionOnSet(Ones(s, r), 1 .. n)
        /\ Count(s, r) \in Nat
    BY <1>1, CountIsSum, CountType DEF n
  <1>9. Count(t, r) = Ones(t, r)[n + 1] + Count(s, r)
    BY <1>3, <1>6, <1>8
  <1>10. Count(t, r) = Count(s, r) + (IF x = r THEN 1 ELSE 0)
    BY <1>7, <1>8, <1>9
  <1> QED BY <1>1, <1>10 DEF t

\* A sequence and another one after it.
LEMMA CountConcat ==
  ASSUME NEW S, NEW s \in Seq(S), NEW t \in Seq(S), NEW r
  PROVE  s \o t \in Seq(S) /\ Count(s \o t, r) = Count(s, r) + Count(t, r)
PROOF
  <1> DEFINE N == Len(t)
             Part(n) == SubSeq(t, 1, n)
             Whole(n) == s \o Part(n)
             Good == {n \in 0 .. N : Count(Whole(n), r) = Count(s, r) + Count(Part(n), r)}
  <1>1. N \in Nat /\ Part(0) = <<>> /\ Part(N) = t /\ Whole(0) = s /\ Whole(N) = s \o t
    OBVIOUS
  <1>2. \A n \in 0 .. N : Part(n) \in Seq(S) /\ Whole(n) \in Seq(S)
    OBVIOUS
  <1>3. ASSUME NEW n \in 0 .. N, n < N
        PROVE  /\ t[n + 1] \in S /\ Part(n + 1) = Append(Part(n), t[n + 1])
               /\ Whole(n + 1) = Append(Whole(n), t[n + 1])
    BY <1>3
  <1>4. Count(s, r) \in Nat /\ \A n \in 0 .. N : Count(Part(n), r) \in Nat
    BY <1>2, CountType
  <1> HIDE DEF N, Part, Whole
  <1>5. 0 \in Good
    <2>1. Count(Part(0), r) = 0
      BY <1>1, CountNone
    <2>2. Count(Whole(0), r) = Count(s, r)
      BY <1>1
    <2> QED BY <1>1, <1>4, <2>1, <2>2
  <1>6. ASSUME NEW n \in 0 .. N, n < N, n \in Good
        PROVE  n + 1 \in Good
    <2> DEFINE x == t[n + 1]
               d == IF x = r THEN 1 ELSE 0
    <2>1. x \in S /\ Part(n) \in Seq(S) /\ Whole(n) \in Seq(S)
      BY <1>2, <1>3, <1>6
    <2> HIDE DEF x
    <2>2. Count(Append(Part(n), x), r) = Count(Part(n), r) + d
      BY <2>1, CountAppend
    <2>3. Count(Append(Whole(n), x), r) = Count(Whole(n), r) + d
      BY <2>1, CountAppend
    <2>4. n + 1 \in 0 .. N /\ d \in Nat
      BY <1>1, <1>6
    <2>5. Part(n + 1) = Append(Part(n), x) /\ Whole(n + 1) = Append(Whole(n), x)
      BY <1>3, <1>6 DEF x
    <2> HIDE DEF d
    <2>6. Count(Part(n + 1), r) = Count(Part(n), r) + d
      BY <2>2, <2>5
    <2>7. Count(Whole(n + 1), r) = Count(Whole(n), r) + d
      BY <2>3, <2>5
    <2>8. Count(Whole(n), r) = Count(s, r) + Count(Part(n), r)
      BY <1>6
    <2>9. Count(Part(n), r) \in Nat
      BY <1>4
    <2>10. Count(Whole(n + 1), r) = Count(s, r) + Count(Part(n + 1), r)
      BY <1>4, <2>4, <2>6, <2>7, <2>8, <2>9
    <2> QED BY <2>4, <2>10
  <1>7. N \in Good
    <2> HIDE DEF Good
    <2> QED BY <1>1, <1>5, <1>6, HoldsUpTo
  <1>8. s \o t \in Seq(S) /\ Part(N) = t
    BY <1>1
  <1> QED BY <1>1, <1>7, <1>8

\* The first part of a sequence has r no more often.
LEMMA CountPrefix ==
  ASSUME NEW S, NEW s \in Seq(S), NEW m \in Nat, NEW n \in Nat, m <= n, n <= Len(s), NEW r
  PROVE  /\ SubSeq(s, 1, m) \in Seq(S) /\ SubSeq(s, 1, n) \in Seq(S)
         /\ Count(SubSeq(s, 1, m), r) <= Count(SubSeq(s, 1, n), r)
PROOF
  <1> DEFINE p == SubSeq(s, 1, m)
             q == SubSeq(s, m + 1, n)
             w == SubSeq(s, 1, n)
  <1>1. p \in Seq(S) /\ q \in Seq(S) /\ w = p \o q /\ w \in Seq(S)
    OBVIOUS
  <1> HIDE DEF p, q, w
  <1>2. Count(p, r) \in Nat /\ Count(q, r) \in Nat
    BY <1>1, CountType
  <1>3. Count(p \o q, r) = Count(p, r) + Count(q, r)
    BY <1>1, CountConcat
  <1>4. Count(w, r) = Count(p, r) + Count(q, r)
    BY <1>1, <1>3
  <1> QED BY <1>1, <1>2, <1>4 DEF p, w

-----------------------------------------------------------------------------
(* What the items of an adapter were mentioned.                            *)

Entries == [record : Records, times : Nat]

LEMMA SizesSummable ==
  ASSUME NEW items \in Seq(Entries), NEW r
  PROVE  /\ 1 .. Len(items) \in SUBSET Int /\ DOMAIN items = 1 .. Len(items)
         /\ Summable(Sizes(items, r), 1 .. Len(items))
PROOF
  <1>1. Len(items) \in Nat /\ DOMAIN items = 1 .. Len(items)
    OBVIOUS
  <1>2. IsFiniteSet(1 .. Len(items)) /\ 1 .. Len(items) \in SUBSET Int
    BY <1>1, FS_Interval
  <1>3. ASSUME NEW i \in 1 .. Len(items)
        PROVE  Sizes(items, r)[i] \in Nat
    <2>1. items[i] \in Entries
      OBVIOUS
    <2>2. items[i].times \in Nat
      BY <2>1 DEF Entries
    <2> QED BY <2>2 DEF Sizes
  <1> QED BY <1>1, <1>2, <1>3 DEF Summable

LEMMA TimesIsSum ==
  ASSUME NEW items \in Seq(Entries), NEW r
  PROVE  /\ Times(items, r) = SumFunctionOnSet(Sizes(items, r), 1 .. Len(items))
         /\ Times(items, r) \in Nat
PROOF
  <1> DEFINE D == 1 .. Len(items)
             Adds(h) == h = [U \in SUBSET D |->
                          IF U = {} THEN 0
                          ELSE h[U \ {Max(U)}]
                                 + (IF items[Max(U)].record = r THEN items[Max(U)].times ELSE 0)]
             it == CHOOSE h : Adds(h)
  <1>1. D \in SUBSET Int /\ DOMAIN items = D /\ Summable(Sizes(items, r), D) /\ IsFiniteSet(D)
    BY SizesSummable DEF Summable
  <1>2. Times(items, r) = it[D]
    BY <1>1 DEF Times, FoldLeft, MapThenFoldSet
  <1>3. ASSUME NEW h
        PROVE  Adds(h) <=> LeftSums(Sizes(items, r), D, h)
    <2>1. ASSUME NEW U \in SUBSET D, U # {}
          PROVE  Sizes(items, r)[Max(U)] =
                   IF items[Max(U)].record = r THEN items[Max(U)].times ELSE 0
      <3>1. Max(U) \in U
        BY <1>1, <2>1, FS_Subset, MaxFacts
      <3> QED BY <3>1 DEF Sizes
    <2> HIDE DEF D
    <2> QED BY <2>1 DEF LeftSums
  <1> HIDE DEF Adds, D
  <1>4. Adds(it)
    BY <1>1, <1>3, LeftSumsAre
  <1> HIDE DEF it
  <1>5. Times(items, r) = SumFunctionOnSet(Sizes(items, r), D)
    BY <1>1, <1>2, <1>3, <1>4, LeftSumsAre
  <1> QED BY <1>1, <1>5, SumType DEF D

LEMMA TimesNone ==
  ASSUME NEW r
  PROVE  Times(<<>>, r) = 0
PROOF
  <1>1. <<>> \in Seq(Entries) /\ 1 .. Len(<<>>) = {}
    OBVIOUS
  <1>2. Times(<<>>, r) = SumFunctionOnSet(Sizes(<<>>, r), 1 .. Len(<<>>))
    BY <1>1, TimesIsSum
  <1> QED BY <1>1, <1>2, SumEmpty

\* A record mentioned for the first time.
LEMMA TimesAppend ==
  ASSUME NEW items \in Seq(Entries), NEW x \in Records, NEW r
  PROVE  /\ Append(items, Entry(x, 1)) \in Seq(Entries)
         /\ Times(Append(items, Entry(x, 1)), r) = Times(items, r) + (IF x = r THEN 1 ELSE 0)
PROOF
  <1> DEFINE e == Entry(x, 1)
             t == Append(items, e)
             n == Len(items)
  <1>0. e \in Entries /\ e.record = x /\ e.times = 1
    BY DEF Entries, Entry
  <1> HIDE DEF e
  <1>1. /\ n \in Nat /\ t \in Seq(Entries) /\ Len(t) = n + 1 /\ t[n + 1] = e
        /\ \A i \in 1 .. n : t[i] = items[i]
    BY <1>0
  <1> HIDE DEF t, n
  <1>2. Summable(Sizes(t, r), 1 .. (n + 1)) /\ n + 1 \in 1 .. (n + 1)
    BY <1>1, SizesSummable
  <1>3. /\ Summable(Sizes(t, r), 1 .. n)
        /\ SumFunctionOnSet(Sizes(t, r), 1 .. (n + 1)) = Sizes(t, r)[n + 1] + SumFunctionOnSet(Sizes(t, r), 1 .. n)
    BY <1>1, <1>2, SumOneMore
  <1>5. \A i \in 1 .. n : Sizes(items, r)[i] = Sizes(t, r)[i]
    BY <1>1 DEF Sizes, n
  <1>6. SumFunctionOnSet(Sizes(items, r), 1 .. n) = SumFunctionOnSet(Sizes(t, r), 1 .. n)
    BY <1>3, <1>5, SumSame
  <1>7. Sizes(t, r)[n + 1] = IF x = r THEN 1 ELSE 0
    BY <1>0, <1>1, <1>2 DEF Sizes
  <1>8. /\ Times(t, r) = SumFunctionOnSet(Sizes(t, r), 1 .. (n + 1))
        /\ Times(items, r) = SumFunctionOnSet(Sizes(items, r), 1 .. n)
        /\ Times(items, r) \in Nat
    BY <1>1, TimesIsSum DEF n
  <1>9. Times(t, r) = Sizes(t, r)[n + 1] + Times(items, r)
    BY <1>3, <1>6, <1>8
  <1>10. Times(t, r) = Times(items, r) + (IF x = r THEN 1 ELSE 0)
    BY <1>7, <1>8, <1>9
  <1> QED BY <1>1, <1>10 DEF t, e

\* No record has two items.
Single(items) ==
  \A m, n \in 1 .. Len(items) : items[m].record = items[n].record => m = n

Mentioned(items, x) ==
  [n \in DOMAIN items |-> IF items[n].record = x THEN Entry(x, items[n].times + 1) ELSE items[n]]

\* A record that has an item is mentioned again.
LEMMA TimesMentioned ==
  ASSUME NEW items \in Seq(Entries), Single(items), NEW x \in Records, NEW r,
         NEW p \in 1 .. Len(items), items[p].record = x
  PROVE  /\ Mentioned(items, x) \in Seq(Entries) /\ Single(Mentioned(items, x))
         /\ Times(Mentioned(items, x), r) = Times(items, r) + (IF x = r THEN 1 ELSE 0)
PROOF
  <1> DEFINE t == Mentioned(items, x)
             D == 1 .. Len(items)
  <1>1. Len(items) \in Nat /\ DOMAIN items = D /\ \A i \in D : items[i] \in Entries
    OBVIOUS
  <1>2. \A i \in D : t[i] = IF items[i].record = x THEN Entry(x, items[i].times + 1) ELSE items[i]
    BY <1>1 DEF Mentioned
  <1>3. ASSUME NEW i \in D
        PROVE  /\ t[i] \in Entries /\ t[i].record = items[i].record
               /\ t[i].times = items[i].times + (IF i = p THEN 1 ELSE 0)
    <2>1. items[i].record \in Records /\ items[i].times \in Nat
      BY <1>1 DEF Entries
    <2>2. CASE i = p
      <3>1. t[i] = Entry(x, items[i].times + 1)
        BY <1>2, <2>2
      <3> QED BY <2>1, <2>2, <3>1 DEF Entry, Entries
    <2>3. CASE i # p
      <3>1. t[i] = items[i]
        BY <1>2, <2>3 DEF Single
      <3> QED BY <1>1, <2>1, <2>3, <3>1
    <2> QED BY <2>2, <2>3
  <1>4. t = [i \in D |-> t[i]]
    BY <1>1 DEF Mentioned
  <1> HIDE DEF t
  <1>5. t \in Seq(Entries) /\ Len(t) = Len(items)
    BY <1>1, <1>3, <1>4
  <1>6. Single(t)
    BY <1>3, <1>5 DEF Single
  <1>7. /\ Times(t, r) = SumFunctionOnSet(Sizes(t, r), D)
        /\ Times(items, r) = SumFunctionOnSet(Sizes(items, r), D)
        /\ Summable(Sizes(items, r), D) /\ Times(items, r) \in Nat
    BY <1>5, TimesIsSum, SizesSummable
  <1>8. CASE x = r
    <2>1. Sizes(t, r)[p] = Sizes(items, r)[p] + 1
      BY <1>3, <1>5, <1>8 DEF Sizes
    <2>2. \A i \in D \ {p} : Sizes(t, r)[i] = Sizes(items, r)[i]
      <3> SUFFICES ASSUME NEW i \in D \ {p} PROVE Sizes(t, r)[i] = Sizes(items, r)[i]
        OBVIOUS
      <3>1. t[i].record # r /\ items[i].record # r
        BY <1>3, <1>8 DEF Single
      <3> QED BY <1>5, <3>1 DEF Sizes
    <2>3. SumFunctionOnSet(Sizes(t, r), D) = SumFunctionOnSet(Sizes(items, r), D) + 1
      BY <1>7, <2>1, <2>2, SumPlusOne
    <2> QED BY <1>5, <1>6, <1>7, <1>8, <2>3 DEF t
  <1>9. CASE x # r
    <2>1. \A i \in D : Sizes(t, r)[i] = Sizes(items, r)[i]
      <3> SUFFICES ASSUME NEW i \in D PROVE Sizes(t, r)[i] = Sizes(items, r)[i]
        OBVIOUS
      <3>1. CASE i = p
        <4>1. t[i].record # r /\ items[i].record # r
          BY <1>3, <1>9, <3>1
        <4> QED BY <1>5, <4>1 DEF Sizes
      <3>2. CASE i # p
        <4>1. t[i].record = items[i].record /\ t[i].times = items[i].times + 0 /\ items[i].times \in Nat
          BY <1>1, <1>3, <3>2 DEF Entries
        <4> QED BY <1>5, <4>1 DEF Sizes
      <3> QED BY <3>1, <3>2
    <2>2. SumFunctionOnSet(Sizes(t, r), D) = SumFunctionOnSet(Sizes(items, r), D)
      BY <1>7, <2>1, SumSame
    <2> QED BY <1>5, <1>6, <1>7, <1>9, <2>2 DEF t
  <1> QED BY <1>8, <1>9

LEMMA OnceType ==
  ASSUME NEW rs \in Seq(Records)
  PROVE  [n \in DOMAIN rs |-> Entry(rs[n], 1)] \in Seq(Entries)
PROOF
  <1> DEFINE t == [n \in DOMAIN rs |-> Entry(rs[n], 1)]
  <1>1. Len(rs) \in Nat /\ DOMAIN rs = 1 .. Len(rs) /\ \A n \in 1 .. Len(rs) : rs[n] \in Records
    OBVIOUS
  <1>2. \A n \in 1 .. Len(rs) : t[n] \in Entries
    BY <1>1 DEF Entry, Entries
  <1>3. t = [n \in 1 .. Len(rs) |-> t[n]]
    BY <1>1
  <1> HIDE DEF t
  <1>4. t \in Seq(Entries)
    BY <1>1, <1>2, <1>3
  <1> QED BY <1>4 DEF t

\* Items that are mentioned once each are mentioned as often as they are listed.
LEMMA TimesOnce ==
  ASSUME NEW rs \in Seq(Records), NEW r
  PROVE  Times([n \in DOMAIN rs |-> Entry(rs[n], 1)], r) = Count(rs, r)
PROOF
  <1> DEFINE t == [n \in DOMAIN rs |-> Entry(rs[n], 1)]
             D == 1 .. Len(rs)
  <1>1. Len(rs) \in Nat /\ DOMAIN rs = D /\ \A n \in D : rs[n] \in Records
    OBVIOUS
  <1>2. \A n \in D : t[n] \in Entries /\ t[n].record = rs[n] /\ t[n].times = 1
    BY <1>1 DEF Entry, Entries
  <1>3. t = [n \in D |-> t[n]]
    BY <1>1
  <1> HIDE DEF t
  <1>4. t \in Seq(Entries) /\ Len(t) = Len(rs)
    BY <1>1, <1>2, <1>3
  <1>5. \A n \in D : Sizes(t, r)[n] = Ones(rs, r)[n]
    BY <1>2, <1>4 DEF Sizes, Ones
  <1>6. Summable(Ones(rs, r), D) /\ Count(rs, r) = SumFunctionOnSet(Ones(rs, r), D)
    BY OnesSummable, CountIsSum
  <1>7. Times(t, r) = SumFunctionOnSet(Sizes(t, r), D)
    BY <1>4, TimesIsSum
  <1>8. Times(t, r) = Count(rs, r)
    BY <1>5, <1>6, <1>7, SumSame
  <1> QED BY <1>8 DEF t

-----------------------------------------------------------------------------
(* The folds of an adapter, step by step.                                  *)

\* Of the records read, the relevant ones are kept in their order.
LEMMA KeptSteps ==
  ASSUME NEW S, NEW read \in Seq(S)
  PROVE  \E g : /\ g[0] = <<>> /\ g[Len(read)] = Kept(read)
                /\ \A n \in 0 .. Len(read) : n < Len(read) =>
                     g[n + 1] = IF read[n + 1] \in Relevant THEN Append(g[n], read[n + 1]) ELSE g[n]
PROOF
  <1> DEFINE N == Len(read)
             D == 1 .. N
             Keeping(h) == h = [U \in SUBSET D |->
                           IF U = {} THEN <<>>
                           ELSE IF read[Max(U)] \in Relevant
                                THEN Append(h[U \ {Max(U)}], read[Max(U)]) ELSE h[U \ {Max(U)}]]
             it == CHOOSE h : Keeping(h)
             V == Seq(S)
             F == [n \in D |-> [v \in V |-> IF read[n] \in Relevant THEN Append(v, read[n]) ELSE v]]
  <1>1. N \in Nat /\ DOMAIN read = D /\ <<>> \in V /\ \A n \in D : read[n] \in S
    OBVIOUS
  <1>2. Kept(read) = it[D]
    BY <1>1 DEF Kept, FoldLeft, MapThenFoldSet
  <1>3. \A n \in D, v \in V : F[n][v] \in V
    BY <1>1
  <1>4. Keeping(it)
    <2> HIDE DEF F, V
    <2>1. PICK h : Folds(<<>>, F, 1 .. N, h) /\ \A U \in SUBSET (1 .. N) : h[U] \in V
      BY <1>1, <1>3, FoldRuns
    <2>2. ASSUME NEW U \in SUBSET D, U # {}
          PROVE  F[Max(U)][h[U \ {Max(U)}]] = IF read[Max(U)] \in Relevant
                   THEN Append(h[U \ {Max(U)}], read[Max(U)]) ELSE h[U \ {Max(U)}]
      <3>0. IsFiniteSet(D) /\ D \in SUBSET Int
        BY <1>1, FS_Interval
      <3>1. Max(U) \in D
        <4> HIDE DEF D
        <4>1. IsFiniteSet(U) /\ U \in SUBSET Int
          BY <2>2, <3>0, FS_Subset
        <4> QED BY <2>2, <4>1, MaxFacts
      <3>2. h[U \ {Max(U)}] \in V
        BY <2>1
      <3> QED BY <3>1, <3>2 DEF F
    <2> HIDE DEF D
    <2>3. h = [U \in SUBSET D |-> IF U = {} THEN <<>> ELSE F[Max(U)][h[U \ {Max(U)}]]]
      BY <2>1 DEF Folds, D
    <2>4. Keeping(h)
      BY <2>2, <2>3
    <2> QED BY <2>4
  <1> DEFINE g == [n \in 0 .. N |-> it[1 .. n]]
  <1> HIDE DEF it
  <1>5. g[0] = <<>> /\ g[N] = Kept(read)
    <2>1. 1 .. 0 = {} /\ {} \in SUBSET D
      OBVIOUS
    <2> QED BY <1>1, <1>2, <1>4, <2>1
  <1>6. ASSUME NEW n \in 0 .. N, n < N
        PROVE  g[n + 1] = IF read[n + 1] \in Relevant THEN Append(g[n], read[n + 1]) ELSE g[n]
    <2> DEFINE U == 1 .. (n + 1)
    <2>1. U \in SUBSET D /\ U # {} /\ n \in Nat /\ n + 1 \in 0 .. N
      BY <1>1, <1>6
    <2>2. Max(U) = n + 1 /\ U \ {n + 1} = 1 .. n
      BY <2>1, MaxOfInterval
    <2>3. g[n + 1] = it[U] /\ g[n] = it[1 .. n]
      BY <2>1
    <2> HIDE DEF U, D, g
    <2>4. it[U] = IF read[Max(U)] \in Relevant
                  THEN Append(it[U \ {Max(U)}], read[Max(U)]) ELSE it[U \ {Max(U)}]
      BY <1>4, <2>1
    <2> QED BY <2>2, <2>3, <2>4
  <1> HIDE DEF g
  <1> QED BY <1>5, <1>6 DEF N


\* What the jobs of an adapter read is joined in their order.
LEMMA JoinedSteps ==
  ASSUME NEW a \in Adapters, NEW js, NEW S, \A j \in Jobs : js[j].got \in Seq(S)
  PROVE  \E g : /\ g[0] = <<>> /\ g[Len(JobsOf[a])] = Joined(a, js)
                /\ \A n \in 0 .. Len(JobsOf[a]) : n < Len(JobsOf[a]) =>
                     /\ JobsOf[a][n + 1] \in Jobs
                     /\ g[n + 1] = g[n] \o js[JobsOf[a][n + 1]].got
PROOF
  <1> DEFINE N == Len(JobsOf[a])
             D == 1 .. N
             Joins(h) == h = [U \in SUBSET D |->
                           IF U = {} THEN <<>>
                           ELSE h[U \ {Max(U)}] \o js[JobsOf[a][Max(U)]].got]
             it == CHOOSE h : Joins(h)
             V == Seq(S)
             F == [n \in D |-> [v \in V |-> v \o js[JobsOf[a][n]].got]]
  <1>1. N \in Nat /\ DOMAIN JobsOf[a] = D /\ <<>> \in V /\ \A n \in D : JobsOf[a][n] \in Jobs
    BY SourceFetchAssumption
  <1>0. N \in Nat
    BY <1>1
  <1> HIDE DEF N
  <1>2. Joined(a, js) = it[D]
    BY <1>1 DEF Joined, FoldLeft, MapThenFoldSet
  <1>3. \A n \in D, v \in V : F[n][v] \in V
    BY <1>1
  <1>4. Joins(it)
    <2> HIDE DEF F, V
    <2>1. PICK h : Folds(<<>>, F, 1 .. N, h) /\ \A U \in SUBSET (1 .. N) : h[U] \in V
      BY <1>1, <1>3, FoldRuns
    <2>2. ASSUME NEW U \in SUBSET D, U # {}
          PROVE  F[Max(U)][h[U \ {Max(U)}]] = h[U \ {Max(U)}] \o js[JobsOf[a][Max(U)]].got
      <3>0. IsFiniteSet(D) /\ D \in SUBSET Int
        BY <1>1, FS_Interval
      <3>1. Max(U) \in D
        <4> HIDE DEF D
        <4>1. IsFiniteSet(U) /\ U \in SUBSET Int
          BY <2>2, <3>0, FS_Subset
        <4> QED BY <2>2, <4>1, MaxFacts
      <3>2. h[U \ {Max(U)}] \in V
        BY <2>1
      <3> QED BY <3>1, <3>2 DEF F
    <2> HIDE DEF D
    <2>3. h = [U \in SUBSET D |-> IF U = {} THEN <<>> ELSE F[Max(U)][h[U \ {Max(U)}]]]
      BY <2>1 DEF Folds, D
    <2>4. Joins(h)
      BY <2>2, <2>3
    <2> QED BY <2>4
  <1> DEFINE g == [n \in 0 .. N |-> it[1 .. n]]
  <1> HIDE DEF it
  <1>5. g[0] = <<>> /\ g[N] = Joined(a, js)
    <2>1. 1 .. 0 = {} /\ {} \in SUBSET D
      OBVIOUS
    <2> QED BY <1>0, <1>2, <1>4, <2>1
  <1>6. ASSUME NEW n \in 0 .. N, n < N
        PROVE  g[n + 1] = g[n] \o js[JobsOf[a][n + 1]].got
    <2> DEFINE U == 1 .. (n + 1)
    <2>0. n \in Nat /\ n + 1 \in 1 .. N /\ n + 1 \in 1 .. (n + 1)
      BY <1>0, <1>6
    <2>1. U \in SUBSET D /\ U # {} /\ n \in Nat /\ n + 1 \in 0 .. N
      <3>1. \A i \in U : i \in D
        BY <1>0, <2>0
      <3> QED BY <1>0, <2>0, <3>1
    <2>2. Max(U) = n + 1 /\ U \ {n + 1} = 1 .. n
      BY <2>1, MaxOfInterval
    <2>3. g[n + 1] = it[U] /\ g[n] = it[1 .. n]
      BY <2>1
    <2> HIDE DEF U, D, g
    <2>4. it[U] = it[U \ {Max(U)}] \o js[JobsOf[a][Max(U)]].got
      BY <1>4, <2>1
    <2> QED BY <2>2, <2>3, <2>4
  <1> HIDE DEF g
  <1>7. \A n \in 0 .. N : n < N => JobsOf[a][n + 1] \in Jobs
    BY <1>1
  <1> QED BY <1>5, <1>6, <1>7 DEF N

LEMMA MentionType ==
  ASSUME NEW items \in Seq(Entries), NEW x \in Records
  PROVE  Mention(items, x) \in Seq(Entries)
PROOF
  <1>0. /\ DOMAIN items = 1 .. Len(items) /\ Len(items) \in Nat
        /\ \A n \in 1 .. Len(items) : items[n] \in Entries
    OBVIOUS
  <1>1. \A n \in 1 .. Len(items) : items[n].record \in Records /\ items[n].times \in Nat
    BY <1>0 DEF Entries
  <1>2. Append(items, Entry(x, 1)) \in Seq(Entries)
    BY DEF Entry, Entries
  <1> DEFINE t == [n \in DOMAIN items |-> IF items[n].record = x THEN Entry(x, items[n].times + 1) ELSE items[n]]
  <1>3. \A n \in 1 .. Len(items) : t[n] \in Entries
    BY <1>0, <1>1 DEF Entry, Entries
  <1>4. t = [n \in 1 .. Len(items) |-> t[n]]
    BY <1>0
  <1> HIDE DEF t
  <1>5. t \in Seq(Entries)
    BY <1>0, <1>3, <1>4
  <1> QED BY <1>2, <1>5 DEF Mention, t

LEMMA MentionCounts ==
  ASSUME NEW items \in Seq(Entries), Single(items), NEW x \in Records, NEW r
  PROVE  /\ Single(Mention(items, x))
         /\ Times(Mention(items, x), r) = Times(items, r) + (IF x = r THEN 1 ELSE 0)
PROOF
  <1>1. DOMAIN items = 1 .. Len(items) /\ Len(items) \in Nat
    OBVIOUS
  <1>2. CASE \E n \in 1 .. Len(items) : items[n].record = x
    <2>1. PICK p \in 1 .. Len(items) : items[p].record = x
      BY <1>2
    <2>2. Mention(items, x) = Mentioned(items, x)
      BY <1>1, <1>2 DEF Mention, Mentioned
    <2> QED BY <2>1, <2>2, TimesMentioned
  <1>3. CASE \A n \in 1 .. Len(items) : items[n].record # x
    <2> DEFINE e == Entry(x, 1)
               t == Append(items, e)
    <2>1. Mention(items, x) = t
      BY <1>1, <1>3 DEF Mention
    <2>2. e.record = x /\ e \in Entries
      BY DEF Entry, Entries
    <2>3. Times(t, r) = Times(items, r) + (IF x = r THEN 1 ELSE 0)
      BY TimesAppend
    <2> HIDE DEF e
    <2>4. Len(t) = Len(items) + 1 /\ t[Len(items) + 1] = e /\ \A i \in 1 .. Len(items) : t[i] = items[i]
      BY <2>2
    <2> HIDE DEF t
    <2>5. ASSUME NEW m \in 1 .. Len(t), NEW n \in 1 .. Len(t), t[m].record = t[n].record
          PROVE  m = n
      <3>1. \A i \in 1 .. Len(t) : i \in 1 .. Len(items) \/ i = Len(items) + 1
        BY <1>1, <2>4
      <3>2. CASE m \in 1 .. Len(items) /\ n \in 1 .. Len(items)
        BY <2>4, <2>5, <3>2 DEF Single
      <3>3. CASE m \in 1 .. Len(items) /\ n = Len(items) + 1
        BY <1>3, <2>2, <2>4, <2>5, <3>3
      <3>4. CASE m = Len(items) + 1 /\ n \in 1 .. Len(items)
        BY <1>3, <2>2, <2>4, <2>5, <3>4
      <3> QED BY <3>1, <3>2, <3>3, <3>4
    <2>6. Single(t)
      BY <2>5 DEF Single
    <2> QED BY <2>1, <2>3, <2>6
  <1> QED BY <1>2, <1>3

\* Records become items one after the other.
LEMMA MergedSteps ==
  ASSUME NEW read \in Seq(Records)
  PROVE  \E g : /\ g[0] = <<>> /\ g[Len(read)] = MergeRecords(read)
                /\ \A n \in 0 .. Len(read) : n < Len(read) =>
                     g[n + 1] = Mention(g[n], read[n + 1])
PROOF
  <1> DEFINE N == Len(read)
             D == 1 .. N
             Merges(h) == h = [U \in SUBSET D |->
                           IF U = {} THEN <<>>
                           ELSE Mention(h[U \ {Max(U)}], read[Max(U)])]
             it == CHOOSE h : Merges(h)
             V == Seq(Entries)
             F == [n \in D |-> [v \in V |-> Mention(v, read[n])]]
  <1>1. N \in Nat /\ DOMAIN read = D /\ <<>> \in V /\ \A n \in D : read[n] \in Records
    OBVIOUS
  <1>2. MergeRecords(read) = it[D]
    BY <1>1 DEF MergeRecords, FoldLeft, MapThenFoldSet
  <1>3. \A n \in D, v \in V : F[n][v] \in V
    BY <1>1, MentionType
  <1>4. Merges(it)
    <2> HIDE DEF F, V
    <2>1. PICK h : Folds(<<>>, F, 1 .. N, h) /\ \A U \in SUBSET (1 .. N) : h[U] \in V
      BY <1>1, <1>3, FoldRuns
    <2>2. ASSUME NEW U \in SUBSET D, U # {}
          PROVE  F[Max(U)][h[U \ {Max(U)}]] = Mention(h[U \ {Max(U)}], read[Max(U)])
      <3>0. IsFiniteSet(D) /\ D \in SUBSET Int
        BY <1>1, FS_Interval
      <3>1. Max(U) \in D
        <4> HIDE DEF D
        <4>1. IsFiniteSet(U) /\ U \in SUBSET Int
          BY <2>2, <3>0, FS_Subset
        <4> QED BY <2>2, <4>1, MaxFacts
      <3>2. h[U \ {Max(U)}] \in V
        BY <2>1
      <3> QED BY <3>1, <3>2 DEF F
    <2> HIDE DEF D
    <2>3. h = [U \in SUBSET D |-> IF U = {} THEN <<>> ELSE F[Max(U)][h[U \ {Max(U)}]]]
      BY <2>1 DEF Folds, D
    <2>4. Merges(h)
      BY <2>2, <2>3
    <2> QED BY <2>4
  <1> DEFINE g == [n \in 0 .. N |-> it[1 .. n]]
  <1> HIDE DEF it
  <1>5. g[0] = <<>> /\ g[N] = MergeRecords(read)
    <2>1. 1 .. 0 = {} /\ {} \in SUBSET D
      OBVIOUS
    <2> QED BY <1>1, <1>2, <1>4, <2>1
  <1>6. ASSUME NEW n \in 0 .. N, n < N
        PROVE  g[n + 1] = Mention(g[n], read[n + 1])
    <2> DEFINE U == 1 .. (n + 1)
    <2>1. U \in SUBSET D /\ U # {} /\ n \in Nat /\ n + 1 \in 0 .. N
      BY <1>1, <1>6
    <2>2. Max(U) = n + 1 /\ U \ {n + 1} = 1 .. n
      BY <2>1, MaxOfInterval
    <2>3. g[n + 1] = it[U] /\ g[n] = it[1 .. n]
      BY <2>1
    <2> HIDE DEF U, D, g
    <2>4. it[U] = Mention(it[U \ {Max(U)}], read[Max(U)])
      BY <1>4, <2>1
    <2> QED BY <2>2, <2>3, <2>4
  <1> HIDE DEF g
  <1> QED BY <1>5, <1>6 DEF N

-----------------------------------------------------------------------------
(* What the folds make of the counts.                                      *)

\* The first n of a sequence, and one more.
LEMMA OneMore ==
  ASSUME NEW S, NEW s \in Seq(S), NEW n \in 0 .. Len(s), n < Len(s), NEW r
  PROVE  /\ s[n + 1] \in S
         /\ Count(SubSeq(s, 1, n + 1), r) =
              Count(SubSeq(s, 1, n), r) + (IF s[n + 1] = r THEN 1 ELSE 0)
PROOF
  <1> DEFINE p == SubSeq(s, 1, n)
             x == s[n + 1]
  <1>1. p \in Seq(S) /\ x \in S /\ SubSeq(s, 1, n + 1) = Append(p, x)
    OBVIOUS
  <1> HIDE DEF p, x
  <1>2. Count(Append(p, x), r) = Count(p, r) + (IF x = r THEN 1 ELSE 0)
    BY <1>1, CountAppend
  <1> QED BY <1>1, <1>2 DEF p, x

LEMMA Ends ==
  ASSUME NEW S, NEW s \in Seq(S)
  PROVE  Len(s) \in Nat /\ SubSeq(s, 1, 0) = <<>> /\ SubSeq(s, 1, Len(s)) = s
OBVIOUS

\* Of a relevant record nothing is lost.
LEMMA KeptCounts ==
  ASSUME NEW S, NEW read \in Seq(S)
  PROVE  Kept(read) \in Seq(S) /\ \A r \in Relevant : Count(Kept(read), r) = Count(read, r)
PROOF
  <1> DEFINE N == Len(read)
  <1>1. N \in Nat /\ SubSeq(read, 1, 0) = <<>> /\ SubSeq(read, 1, N) = read
    BY Ends
  <1>2. PICK g : /\ g[0] = <<>> /\ g[N] = Kept(read)
                 /\ \A n \in 0 .. N : n < N =>
                      g[n + 1] = IF read[n + 1] \in Relevant THEN Append(g[n], read[n + 1]) ELSE g[n]
    BY KeptSteps
  <1> DEFINE Good == {n \in 0 .. N : /\ g[n] \in Seq(S)
                                     /\ \A r \in Relevant : Count(g[n], r) = Count(SubSeq(read, 1, n), r)}
  <1>3. 0 \in Good
    <2>1. g[0] \in Seq(S) /\ 0 \in 0 .. N
      BY <1>1, <1>2
    <2>2. g[0] = SubSeq(read, 1, 0)
      BY <1>1, <1>2
    <2> HIDE DEF N
    <2> QED BY <2>1, <2>2
  <1>4. ASSUME NEW n \in 0 .. N, n < N, n \in Good
        PROVE  n + 1 \in Good
    <2>1. n + 1 \in 0 .. N
      BY <1>1, <1>4
    <2>2. read[n + 1] \in S
      BY <1>4, OneMore
    <2>3. CASE read[n + 1] \in Relevant
      <3>1. g[n + 1] = Append(g[n], read[n + 1]) /\ g[n] \in Seq(S)
        BY <1>2, <1>4, <2>3
      <3>2. ASSUME NEW r \in Relevant
            PROVE  Count(g[n + 1], r) = Count(SubSeq(read, 1, n + 1), r)
        <4>1. Count(g[n + 1], r) = Count(g[n], r) + (IF read[n + 1] = r THEN 1 ELSE 0)
          BY <2>2, <3>1, CountAppend
        <4>2. Count(SubSeq(read, 1, n + 1), r) =
                Count(SubSeq(read, 1, n), r) + (IF read[n + 1] = r THEN 1 ELSE 0)
          BY <1>4, OneMore
        <4>3. Count(g[n], r) = Count(SubSeq(read, 1, n), r)
          BY <1>4
        <4> QED BY <4>1, <4>2, <4>3
      <3>3. g[n + 1] \in Seq(S)
        BY <2>2, <3>1
      <3> QED BY <2>1, <3>2, <3>3
    <2>4. CASE read[n + 1] \notin Relevant
      <3>1. g[n + 1] = g[n] /\ g[n] \in Seq(S)
        BY <1>2, <1>4, <2>4
      <3>2. ASSUME NEW r \in Relevant
            PROVE  Count(g[n + 1], r) = Count(SubSeq(read, 1, n + 1), r)
        <4>1. read[n + 1] # r
          BY <2>4
        <4>2. Count(SubSeq(read, 1, n + 1), r) = Count(SubSeq(read, 1, n), r) + 0
          BY <1>4, <4>1, OneMore
        <4>3. SubSeq(read, 1, n) \in Seq(S)
          BY <1>4
        <4>4. Count(SubSeq(read, 1, n), r) \in Nat /\ Count(g[n], r) = Count(SubSeq(read, 1, n), r)
          BY <1>4, <4>3, CountType
        <4> QED BY <3>1, <4>2, <4>4
      <3> QED BY <2>1, <3>1, <3>2
    <2> QED BY <2>3, <2>4
  <1>5. N \in Good
    <2> HIDE DEF Good, N
    <2> QED BY <1>1, <1>3, <1>4, HoldsUpTo
  <1> QED BY <1>1, <1>2, <1>5

\* Every mention of a record counts.
LEMMA MergedCounts ==
  ASSUME NEW read \in Seq(Records), NEW r
  PROVE  MergeRecords(read) \in Seq(Entries) /\ Times(MergeRecords(read), r) = Count(read, r)
PROOF
  <1> DEFINE N == Len(read)
  <1>1. N \in Nat /\ SubSeq(read, 1, 0) = <<>> /\ SubSeq(read, 1, N) = read
    BY Ends
  <1>2. PICK g : /\ g[0] = <<>> /\ g[N] = MergeRecords(read)
                 /\ \A n \in 0 .. N : n < N => g[n + 1] = Mention(g[n], read[n + 1])
    BY MergedSteps
  <1> DEFINE Good == {n \in 0 .. N : /\ g[n] \in Seq(Entries) /\ Single(g[n])
                                     /\ Times(g[n], r) = Count(SubSeq(read, 1, n), r)}
  <1>3. 0 \in Good
    <2>1. <<>> \in Seq(Entries) /\ Single(<<>>)
      BY DEF Single
    <2>2. Times(<<>>, r) = Count(<<>>, r) /\ 0 \in 0 .. N
      BY <1>1, TimesNone, CountNone
    <2>3. g[0] = <<>> /\ SubSeq(read, 1, 0) = <<>>
      BY <1>1, <1>2
    <2>4. Times(g[0], r) = Count(SubSeq(read, 1, 0), r)
      BY <2>2, <2>3
    <2> HIDE DEF N
    <2> QED BY <2>1, <2>2, <2>3, <2>4
  <1>4. ASSUME NEW n \in 0 .. N, n < N, n \in Good
        PROVE  n + 1 \in Good
    <2>1. n + 1 \in 0 .. N
      BY <1>1, <1>4
    <2>2. read[n + 1] \in Records
      BY <1>4, OneMore
    <2>3. g[n + 1] = Mention(g[n], read[n + 1]) /\ g[n] \in Seq(Entries) /\ Single(g[n])
      BY <1>2, <1>4
    <2>4. g[n + 1] \in Seq(Entries)
      BY <2>2, <2>3, MentionType
    <2>5. /\ Single(g[n + 1])
          /\ Times(g[n + 1], r) = Times(g[n], r) + (IF read[n + 1] = r THEN 1 ELSE 0)
      BY <2>2, <2>3, MentionCounts
    <2>6. Count(SubSeq(read, 1, n + 1), r) =
            Count(SubSeq(read, 1, n), r) + (IF read[n + 1] = r THEN 1 ELSE 0)
      BY <1>4, OneMore
    <2>7. Times(g[n], r) = Count(SubSeq(read, 1, n), r)
      BY <1>4
    <2>8. Times(g[n + 1], r) = Count(SubSeq(read, 1, n + 1), r)
      BY <2>5, <2>6, <2>7
    <2> QED BY <2>1, <2>4, <2>5, <2>8
  <1>5. N \in Good
    <2> HIDE DEF Good, N
    <2> QED BY <1>1, <1>3, <1>4, HoldsUpTo
  <1> QED BY <1>1, <1>2, <1>5

\* What each job of an adapter read of a record.
Read(a, js, r) == [n \in 1 .. Len(JobsOf[a]) |-> Count(js[JobsOf[a][n]].got, r)]

\* What the listing of each of its jobs has of it.
Lists(l, a, r) == [n \in 1 .. Len(JobsOf[a]) |-> Listed(l, JobsOf[a][n], r)]

LEMMA JobsInOrder ==
  ASSUME NEW a \in Adapters
  PROVE  /\ Len(JobsOf[a]) \in Nat /\ DOMAIN JobsOf[a] = 1 .. Len(JobsOf[a])
         /\ \A n \in 1 .. Len(JobsOf[a]) : JobsOf[a][n] \in Jobs /\ JobsOf[a][n] \in Range(JobsOf[a])
         /\ \A j \in Range(JobsOf[a]) : j \in Jobs /\ \E n \in 1 .. Len(JobsOf[a]) : j = JobsOf[a][n]
         /\ IsFiniteSet(1 .. Len(JobsOf[a])) /\ 1 .. Len(JobsOf[a]) \in SUBSET Int
PROOF
  <1>1. JobsOf[a] \in Seq(Jobs)
    BY SourceFetchAssumption
  <1> DEFINE s == JobsOf[a]
  <1> HIDE DEF s
  <1>2. Len(s) \in Nat /\ DOMAIN s = 1 .. Len(s) /\ \A n \in 1 .. Len(s) : s[n] \in Jobs
    BY <1>1 DEF s
  <1>3. Range(s) = {s[n] : n \in 1 .. Len(s)}
    BY <1>2 DEF Range
  <1>4. IsFiniteSet(1 .. Len(s)) /\ 1 .. Len(s) \in SUBSET Int
    BY <1>2, FS_Interval
  <1> QED BY <1>2, <1>3, <1>4 DEF s

\* What the jobs of an adapter read of a record is the sum of what each read of it.
LEMMA JoinedCounts ==
  ASSUME NEW a \in Adapters, NEW js, \A j \in Jobs : js[j].got \in Seq(Records), NEW r
  PROVE  /\ Joined(a, js) \in Seq(Records)
         /\ Summable(Read(a, js, r), 1 .. Len(JobsOf[a]))
         /\ Count(Joined(a, js), r) = SumFunctionOnSet(Read(a, js, r), 1 .. Len(JobsOf[a]))
PROOF
  <1> DEFINE N == Len(JobsOf[a])
             f == Read(a, js, r)
  <1>1. N \in Nat /\ IsFiniteSet(1 .. N) /\ \A n \in 1 .. N : JobsOf[a][n] \in Jobs
    BY JobsInOrder
  <1>2. PICK g : /\ g[0] = <<>> /\ g[N] = Joined(a, js)
                 /\ \A n \in 0 .. N : n < N => /\ JobsOf[a][n + 1] \in Jobs
                                               /\ g[n + 1] = g[n] \o js[JobsOf[a][n + 1]].got
    BY JoinedSteps
  <1>3. \A n \in 1 .. N : f[n] = Count(js[JobsOf[a][n]].got, r)
    BY DEF Read
  <1> HIDE DEF N, f
  <1>4. Summable(f, 1 .. N)
    <2>1. \A n \in 1 .. N : f[n] \in Nat
      BY <1>1, <1>3, CountType
    <2> QED BY <1>1, <2>1 DEF Summable
  <1> DEFINE Good == {n \in 0 .. N : /\ g[n] \in Seq(Records)
                                     /\ Count(g[n], r) = SumFunctionOnSet(f, 1 .. n)}
  <1>5. 0 \in Good
    <2>1. <<>> \in Seq(Records) /\ Count(<<>>, r) = 0
      BY CountNone
    <2>2. 1 .. 0 = {} /\ 0 \in 0 .. N
      BY <1>1
    <2>3. SumFunctionOnSet(f, 1 .. 0) = 0
      BY <2>2, SumEmpty
    <2> QED BY <1>2, <2>1, <2>2, <2>3
  <1>6. ASSUME NEW n \in 0 .. N, n < N, n \in Good
        PROVE  n + 1 \in Good
    <2>1. n + 1 \in 0 .. N /\ n + 1 \in 1 .. N /\ n \in Nat
      BY <1>1, <1>6
    <2> DEFINE got == js[JobsOf[a][n + 1]].got
    <2>2. g[n + 1] = g[n] \o got /\ got \in Seq(Records) /\ g[n] \in Seq(Records)
      BY <1>2, <1>6
    <2>3. f[n + 1] = Count(got, r)
      BY <1>3, <2>1
    <2> HIDE DEF got
    <2>4. g[n + 1] \in Seq(Records) /\ Count(g[n + 1], r) = Count(g[n], r) + Count(got, r)
      BY <2>2, CountConcat
    <2>5. Summable(f, 1 .. (n + 1))
      <3>1. 1 .. (n + 1) \subseteq 1 .. N
        BY <1>1, <2>1
      <3> QED BY <1>4, <3>1, SumMonotone
    <2>6. SumFunctionOnSet(f, 1 .. (n + 1)) = f[n + 1] + SumFunctionOnSet(f, 1 .. n)
      BY <2>1, <2>5, SumOneMore
    <2>7. Count(g[n], r) = SumFunctionOnSet(f, 1 .. n) /\ Count(g[n], r) \in Nat /\ Count(got, r) \in Nat
      BY <1>6, <2>2, CountType
    <2>8. Count(g[n + 1], r) = SumFunctionOnSet(f, 1 .. (n + 1))
      BY <2>3, <2>4, <2>6, <2>7
    <2> QED BY <2>1, <2>4, <2>8
  <1>7. N \in Good
    <2> HIDE DEF Good
    <2> QED BY <1>1, <1>5, <1>6, HoldsUpTo
  <1>8. g[N] \in Seq(Records) /\ Count(g[N], r) = SumFunctionOnSet(f, 1 .. N)
    BY <1>7
  <1> QED BY <1>2, <1>4, <1>8 DEF f, N

\* The items of an adapter mention a relevant record as often as its jobs read it.
LEMMA ItemsCount ==
  ASSUME NEW a \in Adapters, NEW js, \A j \in Jobs : js[j].got \in Seq(Records), NEW r \in Relevant
  PROVE  /\ Summable(Read(a, js, r), 1 .. Len(JobsOf[a]))
         /\ Times(ItemsOf(a, js), r) = SumFunctionOnSet(Read(a, js, r), 1 .. Len(JobsOf[a]))
PROOF
  <1> DEFINE records == Kept(Joined(a, js))
  <1>1. /\ Joined(a, js) \in Seq(Records) /\ Summable(Read(a, js, r), 1 .. Len(JobsOf[a]))
        /\ Count(Joined(a, js), r) = SumFunctionOnSet(Read(a, js, r), 1 .. Len(JobsOf[a]))
    BY JoinedCounts
  <1>2. records \in Seq(Records) /\ Count(records, r) = Count(Joined(a, js), r)
    BY <1>1, KeptCounts
  <1> HIDE DEF records
  <1>3. /\ Times(MergeRecords(records), r) = Count(records, r)
        /\ Times([n \in DOMAIN records |-> Entry(records[n], 1)], r) = Count(records, r)
    BY <1>2, MergedCounts, TimesOnce
  <1>4. ItemsOf(a, js) = IF a = GitHub THEN MergeRecords(records)
                         ELSE [n \in DOMAIN records |-> Entry(records[n], 1)]
    BY DEF ItemsOf, records
  <1>5. Times(ItemsOf(a, js), r) = Count(records, r)
    BY <1>3, <1>4
  <1> QED BY <1>1, <1>2, <1>5

\* Adding up what the listings of an adapter's jobs have.
LEMMA ListedIsSum ==
  ASSUME NEW l, NEW a \in Adapters, NEW r, Summable(Lists(l, a, r), 1 .. Len(JobsOf[a]))
  PROVE  ListedBy(l, a, r) = SumFunctionOnSet(Lists(l, a, r), 1 .. Len(JobsOf[a]))
PROOF
  <1> DEFINE D == 1 .. Len(JobsOf[a])
             Adds(h) == h = [U \in SUBSET D |->
                          IF U = {} THEN 0 ELSE h[U \ {Max(U)}] + Listed(l, JobsOf[a][Max(U)], r)]
             it == CHOOSE h : Adds(h)
  <1>1. D \in SUBSET Int /\ DOMAIN JobsOf[a] = D /\ IsFiniteSet(D)
    BY JobsInOrder
  <1>2. ListedBy(l, a, r) = it[D]
    BY <1>1 DEF ListedBy, FoldLeft, MapThenFoldSet
  <1>3. ASSUME NEW h
        PROVE  Adds(h) <=> LeftSums(Lists(l, a, r), D, h)
    <2>1. ASSUME NEW U \in SUBSET D, U # {}
          PROVE  Lists(l, a, r)[Max(U)] = Listed(l, JobsOf[a][Max(U)], r)
      <3>1. Max(U) \in U
        BY <1>1, <2>1, FS_Subset, MaxFacts
      <3> QED BY <3>1 DEF Lists
    <2> HIDE DEF D
    <2> QED BY <2>1 DEF LeftSums
  <1>4. Summable(Lists(l, a, r), D)
    OBVIOUS
  <1> HIDE DEF Adds, D
  <1>5. Adds(it)
    BY <1>1, <1>3, <1>4, LeftSumsAre
  <1> HIDE DEF it
  <1> QED BY <1>1, <1>2, <1>3, <1>4, <1>5, LeftSumsAre DEF D

-----------------------------------------------------------------------------
(* The loops.                                                              *)

Loops == [state : {"idle", "asking", "sleeping", "done", "failed"}, page : Nat \ {0},
          attempt : Nat, wake : Nat, got : Seq(Records)]

\* Where the next page of a loop begins.
ReadBefore(j, loop) == (loop.page - 1) * PageSize[j]

\* A loop has the pages before the one it asks for, all full, and at the end its share.
Reads(l, j, loop) ==
  IF loop.state = "done" THEN loop.got = SubSeq(l[j], 1, Share(l[j], j))
  ELSE /\ ReadBefore(j, loop) <= Share(l[j], j)
       /\ loop.got = SubSeq(l[j], 1, ReadBefore(j, loop))

InOrder(l, js) == js \in [Jobs -> Loops] /\ \A j \in Jobs : Reads(l, j, js[j])

\* A loop that has the beginning of its share has a record no more often.
LEMMA ReadsBeginning ==
  ASSUME NEW l \in [Jobs -> Seq(Records)], NEW j \in Jobs, NEW loop \in Loops, Reads(l, j, loop), NEW r
  PROVE  /\ Listed(l, j, r) \in Nat
         /\ Count(loop.got, r) <= Listed(l, j, r)
         /\ loop.state = "done" => Count(loop.got, r) = Listed(l, j, r)
PROOF
  <1>1. l[j] \in Seq(Records) /\ Limit[j] \in Nat /\ PageSize[j] \in Nat
    BY SourceFetchAssumption
  <1>2. Share(l[j], j) \in Nat /\ Share(l[j], j) <= Len(l[j])
    BY <1>1 DEF Share
  <1>3. Listed(l, j, r) = Count(SubSeq(l[j], 1, Share(l[j], j)), r)
    BY DEF Listed, Share
  <1>4. SubSeq(l[j], 1, Share(l[j], j)) \in Seq(Records)
    BY <1>1, <1>2, CountPrefix
  <1>5. Listed(l, j, r) \in Nat
    BY <1>3, <1>4, CountType
  <1>6. CASE loop.state = "done"
    <2>1. Count(loop.got, r) = Listed(l, j, r)
      BY <1>3, <1>6 DEF Reads
    <2> QED BY <1>5, <2>1
  <1>7. CASE loop.state # "done"
    <2> DEFINE m == ReadBefore(j, loop)
    <2>1. loop.page - 1 \in Nat
      BY DEF Loops
    <2>2. m \in Nat
      BY <1>1, <2>1 DEF ReadBefore
    <2>3. m <= Share(l[j], j) /\ loop.got = SubSeq(l[j], 1, m)
      BY <1>7 DEF Reads
    <2> HIDE DEF m
    <2>4. Count(SubSeq(l[j], 1, m), r) <= Count(SubSeq(l[j], 1, Share(l[j], j)), r)
      BY <1>1, <1>2, <2>2, <2>3, CountPrefix
    <2> QED BY <1>3, <1>5, <1>7, <2>3, <2>4
  <1> QED BY <1>6, <1>7

\* What an adapter makes of its loops is no more than its listings have, and all of
\* it when every loop is done.
LEMMA ItemsAreListed ==
  ASSUME NEW l \in [Jobs -> Seq(Records)], NEW a \in Adapters, NEW js, InOrder(l, js), NEW r \in Relevant
  PROVE  /\ Times(ItemsOf(a, js), r) <= ListedBy(l, a, r)
         /\ (\A j \in Range(JobsOf[a]) : js[j].state = "done") =>
              Times(ItemsOf(a, js), r) = ListedBy(l, a, r)
PROOF
  <1> DEFINE D == 1 .. Len(JobsOf[a])
             f == Read(a, js, r)
             g == Lists(l, a, r)
  <1>1. /\ IsFiniteSet(D)
        /\ \A n \in D : JobsOf[a][n] \in Jobs /\ JobsOf[a][n] \in Range(JobsOf[a])
    BY JobsInOrder
  <1>2. \A j \in Jobs : js[j] \in Loops /\ Reads(l, j, js[j])
    BY DEF InOrder
  <1>3. \A j \in Jobs : js[j].got \in Seq(Records)
    BY <1>2 DEF Loops
  <1>4. Summable(f, D) /\ Times(ItemsOf(a, js), r) = SumFunctionOnSet(f, D)
    BY <1>3, ItemsCount
  <1>5. \A n \in D : /\ f[n] = Count(js[JobsOf[a][n]].got, r)
                     /\ g[n] = Listed(l, JobsOf[a][n], r)
    BY DEF Read, Lists
  <1> HIDE DEF f, g
  <1>6. ASSUME NEW n \in D
        PROVE  /\ g[n] \in Nat /\ f[n] <= g[n]
               /\ js[JobsOf[a][n]].state = "done" => f[n] = g[n]
    <2> DEFINE j == JobsOf[a][n]
    <2>1. j \in Jobs /\ js[j] \in Loops /\ Reads(l, j, js[j])
      BY <1>1, <1>2
    <2>2. f[n] = Count(js[j].got, r) /\ g[n] = Listed(l, j, r)
      BY <1>5
    <2> HIDE DEF j
    <2>3. /\ Listed(l, j, r) \in Nat /\ Count(js[j].got, r) <= Listed(l, j, r)
          /\ js[j].state = "done" => Count(js[j].got, r) = Listed(l, j, r)
      BY <2>1, ReadsBeginning
    <2> QED BY <2>2, <2>3 DEF j
  <1> HIDE DEF D
  <1>7. Summable(g, D)
    BY <1>1, <1>6 DEF Summable
  <1>8. ListedBy(l, a, r) = SumFunctionOnSet(g, D)
    BY <1>7, ListedIsSum DEF g, D
  <1>9. SumFunctionOnSet(f, D) <= SumFunctionOnSet(g, D)
    BY <1>4, <1>6, <1>7, SumPointwise
  <1>10. ASSUME \A j \in Range(JobsOf[a]) : js[j].state = "done"
         PROVE  SumFunctionOnSet(f, D) = SumFunctionOnSet(g, D)
    <2>1. \A n \in D : f[n] = g[n]
      BY <1>1, <1>6, <1>10
    <2> QED BY <1>7, <2>1, SumSame
  <1> QED BY <1>4, <1>8, <1>9, <1>10

\* Where one page ends, and where its loop is then.
LEMMA PageEnds ==
  ASSUME NEW page \in Nat \ {0}, NEW size \in Nat
  PROVE  /\ (page - 1) * size \in Nat /\ page * size \in Nat
         /\ page * size = (page - 1) * size + size
         /\ ((page + 1) - 1) * size = page * size
PROOF
  <1>1. /\ page * size \in Nat /\ (page - 1) * size \in Nat
    OBVIOUS
  <1>2. page * size = (page - 1) * size + size
    OBVIOUS
  <1>3. (page + 1) - 1 = page
    OBVIOUS
  <1> QED BY <1>1, <1>2, <1>3

LEMMA SubSeqsJoin ==
  ASSUME NEW S, NEW s \in Seq(S), NEW m \in Nat, NEW n \in Nat, m <= n, n <= Len(s)
  PROVE  /\ SubSeq(s, 1, m) \o SubSeq(s, m + 1, n) = SubSeq(s, 1, n)
         /\ Len(SubSeq(s, m + 1, n)) = n - m
         /\ SubSeq(s, m + 1, n) \in Seq(S)
OBVIOUS

\* After the last page a loop has its share; after any other it has that page too.
LEMMA PageIsRead ==
  ASSUME listing \in [Jobs -> Seq(Records)], NEW j \in Jobs, NEW loop \in Loops,
         Reads(listing, j, loop), loop.state = "asking",
         NEW total \in {0, Len(listing[j])}
  PROVE  /\ loop.got \o PageOf(j, loop.page) \in Seq(Records)
         /\ IF LastPage(j, loop.page, PageOf(j, loop.page), total)
            THEN loop.got \o PageOf(j, loop.page) = SubSeq(listing[j], 1, Share(listing[j], j))
            ELSE /\ loop.page * PageSize[j] <= Share(listing[j], j)
                 /\ loop.got \o PageOf(j, loop.page) = SubSeq(listing[j], 1, loop.page * PageSize[j])
PROOF
  <1> DEFINE l == listing[j]
             n == Len(l)
             size == PageSize[j]
             limit == Limit[j]
             before == (loop.page - 1) * size
             after == loop.page * size
             bound == IF after < limit THEN after ELSE limit
             end == IF bound < n THEN bound ELSE n
             records == SubSeq(l, before + 1, end)
             share == IF limit < n THEN limit ELSE n
  <1>1. /\ l \in Seq(Records) /\ n \in Nat /\ size \in Nat /\ size > 0 /\ limit \in Nat
        /\ loop.page \in Nat \ {0}
    BY SourceFetchAssumption DEF Loops
  <1>2. PageOf(j, loop.page) = records /\ Share(listing[j], j) = share
    BY DEF PageOf, Share
  <1>3. before <= share /\ loop.got = SubSeq(l, 1, before)
    BY DEF Reads, ReadBefore, Share
  <1>4. LastPage(j, loop.page, records, total) <=>
          \/ Len(records) < size
          \/ after >= limit
          \/ total > 0 /\ after >= total
    BY DEF LastPage
  <1>5. total \in {0, n}
    OBVIOUS
  <1> HIDE DEF l, size, limit
  <1>6. before \in Nat /\ after \in Nat /\ after = before + size
    BY <1>1, PageEnds
  <1> HIDE DEF before, after, n
  <1>7. end \in Nat /\ before <= end /\ end <= n /\ share \in Nat
    BY <1>1, <1>3, <1>6
  <1> HIDE DEF end, share
  <1>8. /\ SubSeq(l, 1, before) \o records = SubSeq(l, 1, end) /\ Len(records) = end - before
    BY <1>1, <1>6, <1>7, SubSeqsJoin DEF n
  <1>9. SubSeq(l, 1, end) \in Seq(Records)
    BY <1>1, <1>7, CountPrefix DEF n
  <1> HIDE DEF records
  <1>10. loop.got \o records = SubSeq(l, 1, end)
    BY <1>3, <1>8
  <1>11. CASE LastPage(j, loop.page, records, total)
    <2>1. end = share
      BY <1>1, <1>4, <1>5, <1>6, <1>7, <1>8, <1>11 DEF end, share
    <2> QED BY <1>2, <1>9, <1>10, <1>11, <2>1 DEF l
  <1>12. CASE ~ LastPage(j, loop.page, records, total)
    <2>1. end = after /\ after <= share
      BY <1>1, <1>4, <1>6, <1>7, <1>8, <1>12 DEF end, share
    <2> QED BY <1>2, <1>9, <1>10, <1>12, <2>1 DEF l, after, size
  <1> QED BY <1>11, <1>12

-----------------------------------------------------------------------------
(* The inductive invariant.                                                *)

Batches == [status : {"open", "succeeded", "failed"}, items : Seq(Entries)]

CollectionInv ==
  /\ clock \in Nat
  /\ listing \in [Jobs -> Seq(Records)]
  /\ InOrder(listing, jobs)
  /\ batches \in [Adapters -> Batches]
  /\ WholeOrNothing

\* A loop that has not asked yet.
LEMMA FreshLoop ==
  ASSUME NEW l \in [Jobs -> Seq(Records)], NEW j \in Jobs
  PROVE  /\ Idle \in Loops /\ Reads(l, j, Idle)
         /\ Asking \in Loops /\ Reads(l, j, Asking)
PROOF
  <1>1. l[j] \in Seq(Records) /\ Limit[j] \in Nat /\ PageSize[j] \in Nat
    BY SourceFetchAssumption
  <1>2. Share(l[j], j) \in Nat
    BY <1>1 DEF Share
  <1>3. Idle \in Loops /\ Asking \in Loops
    <2>1. Asking = [state |-> "asking", page |-> 1, attempt |-> 0, wake |-> 0, got |-> <<>>]
      BY DEF Asking, Idle
    <2>2. <<>> \in Seq(Records) /\ 1 \in Nat \ {0} /\ 0 \in Nat
      OBVIOUS
    <2>3. Idle \in Loops
      BY <2>2 DEF Idle, Loops
    <2> QED BY <2>1, <2>2, <2>3 DEF Loops
  <1>4. SubSeq(l[j], 1, 0) = <<>>
    BY <1>1, Ends
  <1>5. (1 - 1) * PageSize[j] = 0
    BY <1>1
  <1>6. /\ Idle.state # "done" /\ Idle.page = 1 /\ Idle.got = <<>>
        /\ Asking.state # "done" /\ Asking.page = 1 /\ Asking.got = <<>>
    BY DEF Idle, Asking
  <1>7. ReadBefore(j, Idle) = 0 /\ ReadBefore(j, Asking) = 0
    BY <1>5, <1>6 DEF ReadBefore
  <1> QED BY <1>2, <1>3, <1>4, <1>6, <1>7 DEF Reads

\* A loop that reads nothing in a step and is not done after it.
LEMMA SameReads ==
  ASSUME NEW l, NEW j, NEW loop, NEW next, Reads(l, j, loop), loop.state # "done",
         next.state # "done", next.page = loop.page, next.got = loop.got
  PROVE  Reads(l, j, next)
BY DEF Reads, ReadBefore

LEMMA OneLoop ==
  ASSUME NEW l, NEW js, InOrder(l, js), NEW j \in Jobs, NEW loop \in Loops, Reads(l, j, loop)
  PROVE  InOrder(l, [js EXCEPT ![j] = loop])
BY DEF InOrder

LEMMA StartedInOrder ==
  ASSUME NEW l \in [Jobs -> Seq(Records)], NEW js, InOrder(l, js)
  PROVE  InOrder(l, Started(js))
PROOF
  <1>1. \A j \in Jobs : /\ js[j] \in Loops /\ Reads(l, j, js[j])
                        /\ Asking \in Loops /\ Reads(l, j, Asking)
    BY FreshLoop DEF InOrder
  <1>2. \A j \in Jobs : Started(js)[j] \in {js[j], Asking}
    BY DEF Started
  <1>3. Started(js) = [j \in Jobs |-> Started(js)[j]]
    BY DEF Started
  <1> QED BY <1>1, <1>2, <1>3 DEF InOrder

LEMMA ItemsType ==
  ASSUME NEW a \in Adapters, NEW l, NEW js, InOrder(l, js)
  PROVE  ItemsOf(a, js) \in Seq(Entries)
PROOF
  <1> DEFINE records == Kept(Joined(a, js))
  <1>1. \A j \in Jobs : js[j].got \in Seq(Records)
    BY DEF InOrder, Loops
  <1>2. Joined(a, js) \in Seq(Records)
    BY <1>1, JoinedCounts
  <1>3. records \in Seq(Records)
    BY <1>2, KeptCounts
  <1> HIDE DEF records
  <1>4. MergeRecords(records) \in Seq(Entries)
    BY <1>3, MergedCounts
  <1>5. [n \in DOMAIN records |-> Entry(records[n], 1)] \in Seq(Entries)
    BY <1>3, OnceType
  <1> QED BY <1>4, <1>5 DEF ItemsOf, records

\* Items that an adapter may give: all of the listings, of the web no more.
Whole(a, items) ==
  /\ items \in Seq(Entries)
  /\ \A r \in Relevant :
       IF a = Web THEN Times(items, r) <= ListedBy(listing, a, r)
       ELSE Times(items, r) = ListedBy(listing, a, r)

LEMMA BatchesStep ==
  ASSUME CollectionInv, listing' = listing, NEW a \in Adapters,
         \/ batches' = batches
         \/ batches' = [batches EXCEPT ![a] = Failed]
         \/ \E items : Whole(a, items) /\ batches' = [batches EXCEPT ![a] = Succeeded(items)]
  PROVE  batches' \in [Adapters -> Batches] /\ WholeOrNothing'
PROOF
  <1>1. batches \in [Adapters -> Batches] /\ WholeOrNothing
    BY DEF CollectionInv
  <1>2. CASE batches' = batches
    BY <1>1, <1>2 DEF WholeOrNothing, Answered
  <1>3. CASE batches' = [batches EXCEPT ![a] = Failed]
    <2>1. Failed \in Batches /\ Failed.status # "succeeded"
      BY DEF Failed, Batches
    <2>2. batches' \in [Adapters -> Batches]
      BY <1>1, <1>3, <2>1
    <2>3. \A b \in Adapters : b # a => batches'[b] = batches[b]
      BY <1>1, <1>3
    <2>4. batches'[a] = Failed
      BY <1>1, <1>3
    <2> QED BY <1>1, <2>1, <2>2, <2>3, <2>4 DEF WholeOrNothing, Answered
  <1>4. CASE \E items : Whole(a, items) /\ batches' = [batches EXCEPT ![a] = Succeeded(items)]
    <2>1. PICK items : Whole(a, items) /\ batches' = [batches EXCEPT ![a] = Succeeded(items)]
      BY <1>4
    <2>2. Succeeded(items) \in Batches /\ Succeeded(items).items = items
      BY <2>1 DEF Succeeded, Batches, Whole
    <2>3. /\ batches' \in [Adapters -> Batches] /\ batches'[a] = Succeeded(items)
          /\ \A b \in Adapters : b # a => batches'[b] = batches[b]
      BY <1>1, <2>1, <2>2
    <2>4. ASSUME NEW b \in Answered', NEW r \in Relevant
          PROVE  IF b = Web THEN Times(batches'[b].items, r) <= ListedBy(listing, b, r)
                 ELSE Times(batches'[b].items, r) = ListedBy(listing, b, r)
      <3>1. CASE b = a
        <4>1. batches'[b].items = items
          BY <2>2, <2>3, <3>1
        <4> QED BY <2>1, <3>1, <4>1 DEF Whole
      <3>2. CASE b # a
        <4>1. b \in Answered /\ batches'[b] = batches[b]
          BY <2>3, <3>2 DEF Answered
        <4> QED BY <1>1, <4>1 DEF WholeOrNothing
      <3> QED BY <3>1, <3>2
    <2>5. WholeOrNothing'
      BY <2>4 DEF WholeOrNothing
    <2> QED BY <2>3, <2>5
  <1> QED BY <1>2, <1>3, <1>4

LEMMA CollectionInvInit == Init => CollectionInv
PROOF
  <1> SUFFICES ASSUME Init PROVE CollectionInv
    OBVIOUS
  <1>1. clock \in Nat /\ listing \in [Jobs -> Seq(Records)]
    BY SourceFetchAssumption DEF Init, FetchInit
  <1>2. InOrder(listing, jobs)
    <2>1. \A j \in Jobs : jobs[j] \in {Idle, Asking}
      BY DEF Init, FetchInit
    <2>2. jobs = [j \in Jobs |-> jobs[j]]
      BY DEF Init, FetchInit
    <2>3. \A j \in Jobs : jobs[j] \in Loops /\ Reads(listing, j, jobs[j])
      BY <1>1, <2>1, FreshLoop
    <2> QED BY <2>2, <2>3 DEF InOrder
  <1>3. batches \in [Adapters -> Batches] /\ \A a \in Adapters : batches[a] = Open
    BY DEF Init, FetchInit, Open, Batches
  <1>4. WholeOrNothing
    BY <1>3 DEF WholeOrNothing, Answered, Open
  <1> QED BY <1>1, <1>2, <1>3, <1>4 DEF CollectionInv

LEMMA AdapterOfJob ==
  ASSUME NEW j \in Jobs
  PROVE  AdapterOf(j) \in Adapters
PROOF
  <1>1. \E a \in Adapters : j \in Range(JobsOf[a])
    BY DEF Jobs
  <1> QED BY <1>1 DEF AdapterOf

LEMMA AnswerKeeps ==
  ASSUME CollectionInv, NEW j \in Jobs, Answer(j)
  PROVE  CollectionInv'
PROOF
  <1> DEFINE a == AdapterOf(j)
             records == PageOf(j, jobs[j].page)
  <1>1. PICK total \in (IF AdapterOf(j) = GitHub THEN {0, Len(listing[j])} ELSE {0}) :
          LET read == [jobs[j] EXCEPT !.got = @ \o records]
              js == Started([jobs EXCEPT ![j] =
                      IF LastPage(j, @.page, records, total)
                      THEN [read EXCEPT !.state = "done"]
                      ELSE [read EXCEPT !.page = @ + 1, !.attempt = 0]])
          IN jobs' = js /\ batches' = Collected(AdapterOf(j), js)
    BY DEF Answer
  <1> DEFINE last == LastPage(j, jobs[j].page, records, total)
             read == [jobs[j] EXCEPT !.got = @ \o records]
             loop == IF last THEN [read EXCEPT !.state = "done"]
                     ELSE [read EXCEPT !.page = @ + 1, !.attempt = 0]
             next == [jobs EXCEPT ![j] = loop]
             js == Started(next)
  <1>2. jobs' = js /\ batches' = Collected(a, js)
    BY <1>1
  <1>3. /\ clock' = clock /\ listing' = listing /\ jobs[j].state = "asking"
        /\ clock \in Nat /\ listing \in [Jobs -> Seq(Records)] /\ InOrder(listing, jobs)
        /\ batches \in [Adapters -> Batches]
    BY DEF Answer, CollectionInv
  <1>4. a \in Adapters
    BY AdapterOfJob
  <1> HIDE DEF a
  <1>5. jobs[j] \in Loops /\ Reads(listing, j, jobs[j])
    BY <1>3 DEF InOrder
  <1>6. /\ jobs[j].got \o records \in Seq(Records)
        /\ IF last THEN jobs[j].got \o records = SubSeq(listing[j], 1, Share(listing[j], j))
           ELSE /\ jobs[j].page * PageSize[j] <= Share(listing[j], j)
                /\ jobs[j].got \o records = SubSeq(listing[j], 1, jobs[j].page * PageSize[j])
    BY <1>3, <1>5, PageIsRead
  <1> HIDE DEF last, records
  <1>7. loop \in Loops /\ Reads(listing, j, loop)
    <2> DEFINE got == jobs[j].got \o records
    <2>1. /\ jobs[j].page \in Nat \ {0} /\ jobs[j].wake \in Nat /\ jobs[j].attempt \in Nat
          /\ PageSize[j] \in Nat
      BY <1>5, SourceFetchAssumption DEF Loops
    <2>2. CASE last
      <3>1. loop = [state |-> "done", page |-> jobs[j].page, attempt |-> jobs[j].attempt,
                    wake |-> jobs[j].wake, got |-> got]
        BY <1>5, <2>2 DEF Loops
      <3>2. got \in Seq(Records) /\ got = SubSeq(listing[j], 1, Share(listing[j], j))
        BY <1>6, <2>2
      <3> HIDE DEF got, loop
      <3> QED BY <2>1, <3>1, <3>2 DEF Loops, Reads
    <2>3. CASE ~ last
      <3>1. loop = [state |-> "asking", page |-> jobs[j].page + 1, attempt |-> 0,
                    wake |-> jobs[j].wake, got |-> got]
        BY <1>3, <1>5, <2>3 DEF Loops
      <3>2. /\ got \in Seq(Records)
            /\ jobs[j].page * PageSize[j] <= Share(listing[j], j)
            /\ got = SubSeq(listing[j], 1, jobs[j].page * PageSize[j])
        BY <1>6, <2>3
      <3>3. ((jobs[j].page + 1) - 1) * PageSize[j] = jobs[j].page * PageSize[j]
        BY <2>1, PageEnds
      <3>4. jobs[j].page + 1 \in Nat \ {0}
        BY <2>1
      <3> HIDE DEF got, loop
      <3>5. loop \in Loops
        BY <2>1, <3>1, <3>2, <3>4 DEF Loops
      <3>6. loop.state = "asking" /\ ReadBefore(j, loop) = jobs[j].page * PageSize[j] /\ loop.got = got
        BY <3>1, <3>3 DEF ReadBefore
      <3> QED BY <3>2, <3>5, <3>6 DEF Reads
    <2> QED BY <2>2, <2>3
  <1> HIDE DEF loop
  <1>8. InOrder(listing, next)
    BY <1>3, <1>7, OneLoop
  <1> HIDE DEF next
  <1>9. InOrder(listing, js)
    BY <1>3, <1>8, StartedInOrder
  <1> HIDE DEF js
  <1>10. \/ batches' = batches
         \/ \E items : Whole(a, items) /\ batches' = [batches EXCEPT ![a] = Succeeded(items)]
    <2>1. CASE batches[a] = Open /\ a # Web /\ \A i \in Range(JobsOf[a]) : js[i].state = "done"
      <3>1. batches' = [batches EXCEPT ![a] = Succeeded(ItemsOf(a, js))]
        BY <1>2, <2>1 DEF Collected
      <3>2. \A r \in Relevant : Times(ItemsOf(a, js), r) = ListedBy(listing, a, r)
        BY <1>3, <1>4, <1>9, <2>1, ItemsAreListed
      <3>3. ItemsOf(a, js) \in Seq(Entries)
        BY <1>4, <1>9, ItemsType
      <3>4. Whole(a, ItemsOf(a, js))
        BY <2>1, <3>2, <3>3 DEF Whole
      <3> QED BY <3>1, <3>4
    <2>2. CASE ~ (batches[a] = Open /\ a # Web /\ \A i \in Range(JobsOf[a]) : js[i].state = "done")
      <3>1. batches' = batches
        BY <1>2, <2>2 DEF Collected
      <3> QED BY <3>1
    <2> QED BY <2>1, <2>2
  <1>11. batches' \in [Adapters -> Batches] /\ WholeOrNothing'
    BY <1>3, <1>4, <1>10, BatchesStep
  <1> QED BY <1>2, <1>3, <1>9, <1>11 DEF CollectionInv

\* A request that is refused or fails changes neither the page of its loop nor what
\* it has read.
LEMMA LoopWaits ==
  ASSUME CollectionInv, NEW j \in Jobs, NEW next, jobs[j].state # "done",
         next \in Loops, next.state # "done", next.page = jobs[j].page, next.got = jobs[j].got,
         jobs' = [jobs EXCEPT ![j] = next], listing' = listing
  PROVE  InOrder(listing, jobs)'
PROOF
  <1>1. InOrder(listing, jobs)
    BY DEF CollectionInv
  <1>2. Reads(listing, j, jobs[j])
    BY <1>1 DEF InOrder
  <1>3. Reads(listing, j, next)
    BY <1>2, SameReads
  <1>4. InOrder(listing, [jobs EXCEPT ![j] = next])
    BY <1>1, <1>3, OneLoop
  <1> QED BY <1>4

LEMMA GiveUpKeeps ==
  ASSUME CollectionInv, NEW j \in Jobs, jobs[j].state = "asking", GiveUp(j), listing' = listing
  PROVE  InOrder(listing, jobs)' /\ batches' \in [Adapters -> Batches] /\ WholeOrNothing'
PROOF
  <1> DEFINE next == [jobs[j] EXCEPT !.state = "failed"]
  <1>1. jobs \in [Jobs -> Loops]
    BY DEF CollectionInv, InOrder
  <1>2. jobs' = [jobs EXCEPT ![j] = next]
    BY DEF GiveUp
  <1>3. /\ next \in Loops /\ next.state = "failed"
        /\ next.page = jobs[j].page /\ next.got = jobs[j].got
    BY <1>1 DEF Loops
  <1> HIDE DEF next
  <1>4. InOrder(listing, jobs)'
    BY <1>2, <1>3, LoopWaits
  <1>5. AdapterOf(j) \in Adapters
    BY AdapterOfJob
  <1>6. batches' = batches \/ batches' = [batches EXCEPT ![AdapterOf(j)] = Failed]
    BY DEF GiveUp, Rejected
  <1>7. batches' \in [Adapters -> Batches] /\ WholeOrNothing'
    BY <1>5, <1>6, BatchesStep
  <1> QED BY <1>4, <1>7

LEMMA LimitedKeeps ==
  ASSUME CollectionInv, NEW j \in Jobs, Limited(j)
  PROVE  CollectionInv'
PROOF
  <1>1. /\ clock' = clock /\ listing' = listing /\ jobs[j].state = "asking"
        /\ clock \in Nat /\ listing \in [Jobs -> Seq(Records)] /\ jobs \in [Jobs -> Loops]
    BY DEF Limited, CollectionInv, InOrder
  <1>2. CASE GiveUp(j)
    BY <1>1, <1>2, GiveUpKeeps DEF CollectionInv
  <1>3. CASE /\ \E wait \in Waits : jobs' = [jobs EXCEPT ![j].state = "sleeping", ![j].wake = clock + wait]
             /\ UNCHANGED batches
    <2>1. PICK wait \in Waits : jobs' = [jobs EXCEPT ![j].state = "sleeping", ![j].wake = clock + wait]
      BY <1>3
    <2> DEFINE next == [jobs[j] EXCEPT !.state = "sleeping", !.wake = clock + wait]
    <2>2. clock + wait \in Nat
      BY <1>1, SourceFetchAssumption
    <2>3. /\ next \in Loops /\ next.state = "sleeping"
          /\ next.page = jobs[j].page /\ next.got = jobs[j].got
      BY <1>1, <2>2 DEF Loops
    <2>4. jobs' = [jobs EXCEPT ![j] = next]
      BY <1>1, <2>1 DEF Loops
    <2> HIDE DEF next
    <2>5. InOrder(listing, jobs)'
      BY <1>1, <2>3, <2>4, LoopWaits
    <2>6. AdapterOf(j) \in Adapters /\ batches' = batches
      BY <1>3, AdapterOfJob
    <2>7. batches' \in [Adapters -> Batches] /\ WholeOrNothing'
      BY <1>1, <2>6, BatchesStep
    <2> QED BY <1>1, <2>5, <2>7 DEF CollectionInv
  <1> QED BY <1>2, <1>3 DEF Limited

LEMMA WakeKeeps ==
  ASSUME CollectionInv, NEW j \in Jobs, Wake(j)
  PROVE  CollectionInv'
PROOF
  <1> DEFINE again == jobs[j].attempt + 1
             next == [jobs[j] EXCEPT !.state = "asking", !.attempt = again]
  <1>1. /\ clock' = clock /\ listing' = listing /\ jobs[j].state = "sleeping" /\ batches' = batches
        /\ clock \in Nat /\ listing \in [Jobs -> Seq(Records)] /\ jobs \in [Jobs -> Loops]
        /\ jobs' = [jobs EXCEPT ![j].state = "asking", ![j].attempt = @ + 1]
    BY DEF Wake, CollectionInv, InOrder
  <1>0. again \in Nat
    BY <1>1 DEF Loops
  <1>3. jobs' = [jobs EXCEPT ![j] = next]
    BY <1>1 DEF Loops
  <1> HIDE DEF again
  <1>2. /\ next \in Loops /\ next.state = "asking"
        /\ next.page = jobs[j].page /\ next.got = jobs[j].got
    BY <1>0, <1>1 DEF Loops
  <1> HIDE DEF next
  <1>4. InOrder(listing, jobs)'
    BY <1>1, <1>2, <1>3, LoopWaits
  <1>5. AdapterOf(j) \in Adapters
    BY AdapterOfJob
  <1>6. batches' \in [Adapters -> Batches] /\ WholeOrNothing'
    BY <1>1, <1>5, BatchesStep
  <1> QED BY <1>1, <1>4, <1>6 DEF CollectionInv

\* A step that leaves the loops as they are.
LEMMA LoopsStay ==
  ASSUME CollectionInv, jobs' = jobs, listing' = listing, clock' \in Nat,
         batches' \in [Adapters -> Batches], WholeOrNothing'
  PROVE  CollectionInv'
BY DEF CollectionInv

LEMMA WebKeeps ==
  ASSUME CollectionInv, LoadTargets \/ SaveTargets
  PROVE  CollectionInv'
PROOF
  <1>1. /\ clock' = clock /\ listing' = listing /\ Web \in Adapters
        /\ clock \in Nat /\ listing \in [Jobs -> Seq(Records)] /\ InOrder(listing, jobs)
        /\ batches \in [Adapters -> Batches]
    BY DEF LoadTargets, SaveTargets, CollectionInv
  <1>2. CASE LoadTargets
    <2>1. InOrder(listing, jobs)'
      <3>1. jobs' = [j \in Jobs |-> IF j \in approved THEN Asking ELSE jobs[j]]
        BY <1>2 DEF LoadTargets
      <3>2. \A j \in Jobs : jobs'[j] \in Loops /\ Reads(listing, j, jobs'[j])
        BY <1>1, <3>1, FreshLoop DEF InOrder
      <3>3. jobs' \in [Jobs -> Loops]
        BY <3>1, <3>2
      <3>4. InOrder(listing, jobs')
        BY <3>2, <3>3 DEF InOrder
      <3> QED BY <1>1, <3>4
    <2>2. ASSUME NEW r \in Relevant
          PROVE  0 <= ListedBy(listing, Web, r)
      <3> DEFINE D == 1 .. Len(JobsOf[Web])
                 g == Lists(listing, Web, r)
      <3>1. IsFiniteSet(D) /\ \A n \in D : JobsOf[Web][n] \in Jobs
        BY <1>1, JobsInOrder
      <3>2. \A n \in D : g[n] = Listed(listing, JobsOf[Web][n], r)
        BY DEF Lists
      <3>3. \A j \in Jobs : Listed(listing, j, r) \in Nat
        BY <1>1, ReadsBeginning DEF InOrder
      <3> HIDE DEF g, D
      <3>4. Summable(g, D)
        BY <3>1, <3>2, <3>3 DEF Summable
      <3>5. SumFunctionOnSet(g, D) \in Nat
        BY <3>4, SumType
      <3>6. ListedBy(listing, Web, r) = SumFunctionOnSet(g, D)
        BY <1>1, <3>4, ListedIsSum DEF g, D
      <3> QED BY <3>5, <3>6
    <2>3. Whole(Web, <<>>)
      BY <2>2, TimesNone DEF Whole
    <2>4. batches' = batches \/ batches' = [batches EXCEPT ![Web] = Succeeded(<<>>)]
      BY <1>2 DEF LoadTargets
    <2>5. batches' \in [Adapters -> Batches] /\ WholeOrNothing'
      BY <1>1, <2>3, <2>4, BatchesStep
    <2> QED BY <1>1, <2>1, <2>5 DEF CollectionInv
  <1>3. CASE SaveTargets
    <2>1. \A r \in Relevant : Times(ItemsOf(Web, jobs), r) <= ListedBy(listing, Web, r)
      BY <1>1, ItemsAreListed
    <2>2. ItemsOf(Web, jobs) \in Seq(Entries)
      BY <1>1, ItemsType
    <2>3. Whole(Web, ItemsOf(Web, jobs))
      BY <2>1, <2>2 DEF Whole
    <2>4. batches' = batches \/ batches' = [batches EXCEPT ![Web] = Succeeded(ItemsOf(Web, jobs))]
      BY <1>3 DEF SaveTargets
    <2>5. batches' \in [Adapters -> Batches] /\ WholeOrNothing'
      BY <1>1, <2>3, <2>4, BatchesStep
    <2>6. jobs' = jobs
      BY <1>3 DEF SaveTargets
    <2> QED BY <1>1, <2>5, <2>6, LoopsStay
  <1> QED BY <1>2, <1>3

LEMMA TimeOutKeeps ==
  ASSUME CollectionInv, NEW a \in Adapters, TimeOut(a)
  PROVE  CollectionInv'
PROOF
  <1>1. /\ jobs' = jobs /\ listing' = listing /\ clock' = clock /\ clock \in Nat
        /\ batches' = [batches EXCEPT ![a] = Failed]
    BY DEF TimeOut, CollectionInv
  <1>2. batches' \in [Adapters -> Batches] /\ WholeOrNothing'
    BY <1>1, BatchesStep
  <1> QED BY <1>1, <1>2, LoopsStay

LEMMA NothingRead ==
  ASSUME CollectionInv, jobs' = jobs, listing' = listing, batches' = batches, clock' \in Nat
  PROVE  CollectionInv'
PROOF
  <1>1. WholeOrNothing'
    BY DEF CollectionInv, WholeOrNothing, Answered
  <1> QED BY <1>1, LoopsStay DEF CollectionInv

LEMMA CollectionInvStep ==
  CollectionInv /\ [Next]_vars => CollectionInv'
PROOF
  <1> SUFFICES ASSUME CollectionInv, [Next]_vars PROVE CollectionInv'
    OBVIOUS
  <1>0. clock \in Nat
    BY DEF CollectionInv
  <1>1. CASE FetchNext
    <2>1. ASSUME NEW j \in Jobs, Answer(j) PROVE CollectionInv'
      BY <2>1, AnswerKeeps
    <2>2. ASSUME NEW j \in Jobs, Limited(j) PROVE CollectionInv'
      BY <2>2, LimitedKeeps
    <2>3. ASSUME NEW j \in Jobs, Wake(j) PROVE CollectionInv'
      BY <2>3, WakeKeeps
    <2>4. ASSUME NEW j \in Jobs, Fail(j) PROVE CollectionInv'
      <3>1. /\ clock' = clock /\ listing' = listing /\ jobs[j].state = "asking" /\ GiveUp(j)
            /\ clock \in Nat /\ listing \in [Jobs -> Seq(Records)]
        BY <2>4 DEF Fail, CollectionInv
      <3> QED BY <3>1, GiveUpKeeps DEF CollectionInv
    <2>5. ASSUME NEW j \in Jobs, Retire(j) PROVE CollectionInv'
      BY <1>0, <2>5, NothingRead DEF Retire
    <2>6. ASSUME NEW a \in Adapters, TimeOut(a) PROVE CollectionInv'
      BY <2>6, TimeOutKeeps
    <2>7. CASE Tick
      <3>1. clock' \in Nat
        BY <1>0, <2>7 DEF Tick
      <3> QED BY <2>7, <3>1, NothingRead DEF Tick
    <2> QED BY <1>1, <2>1, <2>2, <2>3, <2>4, <2>5, <2>6, <2>7, WebKeeps DEF FetchNext
  <1>2. CASE FetchFailure \/ Curate \/ UNCHANGED vars
    <2>1. jobs' = jobs /\ listing' = listing /\ batches' = batches /\ clock' = clock
      BY <1>2 DEF FetchFailure, Curate, vars, fetchVars
    <2> QED BY <1>0, <2>1, NothingRead
  <1> QED BY <1>1, <1>2 DEF Next, Fetching

-----------------------------------------------------------------------------
(* Parts of sequences.                                                     *)

\* What is picked up to each place of a sequence.
PickedUpTo(s, I, g) ==
  /\ g[0] = <<>> /\ g[Len(s)] = Picked(s, I)
  /\ \A n \in 0 .. Len(s) : n < Len(s) =>
       g[n + 1] = IF s[n + 1] \in I THEN Append(g[n], s[n + 1]) ELSE g[n]

\* Those of a sequence that are in a set are picked in their order.
LEMMA PickedSteps ==
  ASSUME NEW S, NEW s \in Seq(S), NEW I
  PROVE  \E g : PickedUpTo(s, I, g)
PROOF
  <1> DEFINE N == Len(s)
             D == 1 .. N
             Picking(h) == h = [U \in SUBSET D |->
                           IF U = {} THEN <<>>
                           ELSE IF s[Max(U)] \in I
                                THEN Append(h[U \ {Max(U)}], s[Max(U)]) ELSE h[U \ {Max(U)}]]
             it == CHOOSE h : Picking(h)
             V == Seq(S)
             F == [n \in D |-> [v \in V |-> IF s[n] \in I THEN Append(v, s[n]) ELSE v]]
  <1>1. N \in Nat /\ DOMAIN s = D /\ <<>> \in V /\ \A n \in D : s[n] \in S
    OBVIOUS
  <1>2. Picked(s, I) = it[D]
    BY <1>1 DEF Picked, FoldLeft, MapThenFoldSet
  <1>3. \A n \in D, v \in V : F[n][v] \in V
    BY <1>1
  <1>4. Picking(it)
    <2> HIDE DEF F, V
    <2>1. PICK h : Folds(<<>>, F, 1 .. N, h) /\ \A U \in SUBSET (1 .. N) : h[U] \in V
      BY <1>1, <1>3, FoldRuns
    <2>2. ASSUME NEW U \in SUBSET D, U # {}
          PROVE  F[Max(U)][h[U \ {Max(U)}]] = IF s[Max(U)] \in I
                   THEN Append(h[U \ {Max(U)}], s[Max(U)]) ELSE h[U \ {Max(U)}]
      <3>0. IsFiniteSet(D) /\ D \in SUBSET Int
        BY <1>1, FS_Interval
      <3>1. Max(U) \in D
        <4> HIDE DEF D
        <4>1. IsFiniteSet(U) /\ U \in SUBSET Int
          BY <2>2, <3>0, FS_Subset
        <4> QED BY <2>2, <4>1, MaxFacts
      <3>2. h[U \ {Max(U)}] \in V
        BY <2>1
      <3> QED BY <3>1, <3>2 DEF F
    <2> HIDE DEF D
    <2>3. h = [U \in SUBSET D |-> IF U = {} THEN <<>> ELSE F[Max(U)][h[U \ {Max(U)}]]]
      BY <2>1 DEF Folds, D
    <2>4. Picking(h)
      BY <2>2, <2>3
    <2> QED BY <2>4
  <1> DEFINE g == [n \in 0 .. N |-> it[1 .. n]]
  <1> HIDE DEF it
  <1>5. g[0] = <<>> /\ g[N] = Picked(s, I)
    <2>1. 1 .. 0 = {} /\ {} \in SUBSET D
      OBVIOUS
    <2> QED BY <1>1, <1>2, <1>4, <2>1
  <1>6. ASSUME NEW n \in 0 .. N, n < N
        PROVE  g[n + 1] = IF s[n + 1] \in I THEN Append(g[n], s[n + 1]) ELSE g[n]
    <2> DEFINE U == 1 .. (n + 1)
    <2>1. U \in SUBSET D /\ U # {} /\ n \in Nat /\ n + 1 \in 0 .. N
      <3>1. N \in Nat
        BY <1>1
      <3> HIDE DEF N, F, V, g
      <3>2. n \in Nat /\ n + 1 \in 0 .. N
        BY <1>6, <3>1
      <3>3. U \subseteq D
        BY <3>1, <3>2
      <3>4. 1 \in U
        BY <3>2
      <3> QED BY <3>2, <3>3, <3>4
    <2>2. Max(U) = n + 1 /\ U \ {n + 1} = 1 .. n
      BY <2>1, MaxOfInterval
    <2>3. g[n + 1] = it[U] /\ g[n] = it[1 .. n]
      BY <2>1
    <2> HIDE DEF U, D, g
    <2>4. it[U] = IF s[Max(U)] \in I
                  THEN Append(it[U \ {Max(U)}], s[Max(U)]) ELSE it[U \ {Max(U)}]
      BY <1>4, <2>1
    <2> QED BY <2>2, <2>3, <2>4
  <1> HIDE DEF g
  <1> QED BY <1>5, <1>6 DEF N, PickedUpTo

\* What an element more adds to a sequence.
LEMMA Appended ==
  ASSUME NEW S, NEW s \in Seq(S), NEW e \in S
  PROVE  /\ Append(s, e) \in Seq(S) /\ Append(s, e) # <<>>
         /\ Range(Append(s, e)) = Range(s) \cup {e}
         /\ IsInjective(s) /\ e \notin Range(s) => IsInjective(Append(s, e))
PROOF
  <1>1. /\ Append(s, e) \in Seq(S) /\ Append(s, e) # <<>> /\ Len(Append(s, e)) = Len(s) + 1
        /\ \A i \in 1 .. Len(s) : Append(s, e)[i] = s[i]
        /\ Append(s, e)[Len(s) + 1] = e
    OBVIOUS
  <1>2. /\ Len(s) \in Nat /\ DOMAIN s = 1 .. Len(s)
        /\ DOMAIN Append(s, e) = (1 .. Len(s)) \cup {Len(s) + 1}
    BY <1>1
  <1> DEFINE t == Append(s, e)
             m == Len(s) + 1
  <1>3. /\ DOMAIN t = DOMAIN s \cup {m} /\ m \notin DOMAIN s
        /\ \A i \in DOMAIN s : t[i] = s[i]
        /\ t[m] = e
    BY <1>1, <1>2
  <1> HIDE DEF t, m
  <1>4. Range(t) = Range(s) \cup {e}
    BY <1>3 DEF Range
  <1>5. IsInjective(s) /\ e \notin Range(s) => IsInjective(t)
    BY <1>3 DEF Range, IsInjective
  <1> QED BY <1>1, <1>4, <1>5 DEF t

\* A sequence up to its next element.
LEMMA RangeUpTo ==
  ASSUME NEW S, NEW s \in Seq(S)
  PROVE  /\ Len(s) \in Nat /\ DOMAIN s = 1 .. Len(s)
         /\ {s[m] : m \in 1 .. 0} = {} /\ {s[m] : m \in 1 .. Len(s)} = Range(s)
         /\ \A n \in 0 .. Len(s) : n < Len(s) =>
              /\ n + 1 \in 0 .. Len(s) /\ n + 1 \in DOMAIN s /\ s[n + 1] \in S
              /\ {s[m] : m \in 1 .. (n + 1)} = {s[m] : m \in 1 .. n} \cup {s[n + 1]}
              /\ IsInjective(s) => s[n + 1] \notin {s[m] : m \in 1 .. n}
PROOF
  <1>1. Len(s) \in Nat /\ DOMAIN s = 1 .. Len(s)
    OBVIOUS
  <1>2. {s[m] : m \in 1 .. 0} = {} /\ {s[m] : m \in 1 .. Len(s)} = Range(s)
    BY <1>1 DEF Range
  <1>3. ASSUME NEW n \in 0 .. Len(s), n < Len(s)
        PROVE  /\ n + 1 \in 0 .. Len(s) /\ n + 1 \in DOMAIN s /\ s[n + 1] \in S
               /\ {s[m] : m \in 1 .. (n + 1)} = {s[m] : m \in 1 .. n} \cup {s[n + 1]}
               /\ IsInjective(s) => s[n + 1] \notin {s[m] : m \in 1 .. n}
    <2>1. n + 1 \in 0 .. Len(s) /\ n + 1 \in DOMAIN s /\ s[n + 1] \in S
      BY <1>1, <1>3
    <2>2. 1 .. (n + 1) = (1 .. n) \cup {n + 1} /\ n + 1 \notin 1 .. n /\ 1 .. n \subseteq DOMAIN s
      BY <1>1, <1>3
    <2>3. {s[m] : m \in 1 .. (n + 1)} = {s[m] : m \in 1 .. n} \cup {s[n + 1]}
      BY <2>2
    <2>4. IsInjective(s) => s[n + 1] \notin {s[m] : m \in 1 .. n}
      BY <2>1, <2>2 DEF IsInjective
    <2> QED BY <2>1, <2>3, <2>4
  <1> QED BY <1>1, <1>2, <1>3

LEMMA PickedAre ==
  ASSUME NEW S, NEW s \in Seq(S), NEW I
  PROVE  /\ Picked(s, I) \in Seq(S) /\ Range(Picked(s, I)) = Range(s) \cap I
         /\ IsInjective(s) => IsInjective(Picked(s, I))
PROOF
  <1>0. PICK g : PickedUpTo(s, I, g)
    BY PickedSteps
  <1> DEFINE N == Len(s)
             Before(n) == {s[m] : m \in 1 .. n}
  <1>1. /\ g[0] = <<>> /\ g[N] = Picked(s, I)
        /\ \A n \in 0 .. N : n < N =>
             g[n + 1] = IF s[n + 1] \in I THEN Append(g[n], s[n + 1]) ELSE g[n]
    BY <1>0 DEF PickedUpTo
  <1>2. /\ N \in Nat /\ Before(0) = {} /\ Before(N) = Range(s)
        /\ \A n \in 0 .. N : n < N =>
             /\ n + 1 \in 0 .. N /\ s[n + 1] \in S
             /\ Before(n + 1) = Before(n) \cup {s[n + 1]}
             /\ IsInjective(s) => s[n + 1] \notin Before(n)
    BY RangeUpTo
  <1> DEFINE Good == {n \in 0 .. N : /\ g[n] \in Seq(S) /\ Range(g[n]) = Before(n) \cap I
                                     /\ IsInjective(s) => IsInjective(g[n])}
  <1> HIDE DEF N, Before
  <1>3. 0 \in Good
    <2>1. /\ <<>> \in Seq(S) /\ Range(<<>>) = {} /\ IsInjective(<<>>)
          /\ 0 \in 0 .. N
      BY <1>2 DEF Range, IsInjective
    <2> QED BY <1>1, <1>2, <2>1
  <1>4. ASSUME NEW n \in 0 .. N, n < N, n \in Good
        PROVE  n + 1 \in Good
    <2>1. /\ n + 1 \in 0 .. N /\ s[n + 1] \in S
          /\ Before(n + 1) = Before(n) \cup {s[n + 1]}
          /\ IsInjective(s) => s[n + 1] \notin Before(n)
      BY <1>2, <1>4
    <2>2. g[n + 1] = IF s[n + 1] \in I THEN Append(g[n], s[n + 1]) ELSE g[n]
      BY <1>1, <1>4
    <2>3. /\ g[n] \in Seq(S) /\ Range(g[n]) = Before(n) \cap I
          /\ IsInjective(s) => IsInjective(g[n])
      BY <1>4
    <2>4. CASE s[n + 1] \in I
      <3>1. /\ g[n + 1] \in Seq(S) /\ Range(g[n + 1]) = Range(g[n]) \cup {s[n + 1]}
            /\ IsInjective(g[n]) /\ s[n + 1] \notin Range(g[n]) => IsInjective(g[n + 1])
        BY <2>1, <2>2, <2>3, <2>4, Appended
      <3>2. Range(g[n + 1]) = Before(n + 1) \cap I
        BY <2>1, <2>3, <2>4, <3>1
      <3>3. IsInjective(s) => IsInjective(g[n + 1])
        BY <2>1, <2>3, <3>1
      <3> QED BY <2>1, <3>1, <3>2, <3>3
    <2>5. CASE s[n + 1] \notin I
      <3>1. g[n + 1] = g[n] /\ Before(n + 1) \cap I = Before(n) \cap I
        BY <2>1, <2>2, <2>5
      <3> QED BY <2>1, <2>3, <3>1
    <2> QED BY <2>4, <2>5
  <1>5. N \in Good
    <2> HIDE DEF Good
    <2> QED BY <1>2, <1>3, <1>4, HoldsUpTo
  <1> QED BY <1>1, <1>2, <1>5

LEMMA ConcatRange ==
  ASSUME NEW S, NEW s \in Seq(S), NEW t \in Seq(S)
  PROVE  s \o t \in Seq(S) /\ Range(s \o t) = Range(s) \cup Range(t)
PROOF
  <1>1. /\ s \o t \in Seq(S) /\ Len(s \o t) = Len(s) + Len(t)
        /\ \A i \in 1 .. Len(s) + Len(t) :
             (s \o t)[i] = IF i <= Len(s) THEN s[i] ELSE t[i - Len(s)]
    OBVIOUS
  <1>2. /\ Len(s) \in Nat /\ Len(t) \in Nat /\ DOMAIN s = 1 .. Len(s) /\ DOMAIN t = 1 .. Len(t)
        /\ DOMAIN (s \o t) = 1 .. (Len(s) + Len(t))
    BY <1>1
  <1> DEFINE u == s \o t
  <1>3. /\ DOMAIN u = 1 .. (Len(s) + Len(t))
        /\ \A i \in 1 .. Len(s) : i \in DOMAIN u /\ u[i] = s[i]
        /\ \A i \in 1 .. Len(t) : i + Len(s) \in DOMAIN u /\ u[i + Len(s)] = t[i]
        /\ \A i \in DOMAIN u : i \in 1 .. Len(s) \/ i - Len(s) \in 1 .. Len(t)
        /\ \A i \in DOMAIN u : i \notin 1 .. Len(s) => u[i] = t[i - Len(s)]
    BY <1>1, <1>2
  <1> HIDE DEF u
  <1>4. Range(s) \subseteq Range(u) /\ Range(t) \subseteq Range(u)
    BY <1>2, <1>3 DEF Range
  <1>5. ASSUME NEW i \in DOMAIN u
        PROVE  u[i] \in Range(s) \cup Range(t)
    <2>1. CASE i \in 1 .. Len(s)
      BY <1>2, <1>3, <2>1 DEF Range
    <2>2. CASE i \notin 1 .. Len(s)
      BY <1>2, <1>3, <2>2 DEF Range
    <2> QED BY <2>1, <2>2
  <1>6. Range(u) \subseteq Range(s) \cup Range(t)
    BY <1>5 DEF Range
  <1> QED BY <1>1, <1>4, <1>6 DEF u

\* What several sequences have, they have together.
LEMMA LastFirstAre ==
  ASSUME NEW S, NEW s \in Seq(Seq(S)), NEW I \in SUBSET DOMAIN s
  PROVE  /\ LastFirst(s, I) \in Seq(S)
         /\ Range(LastFirst(s, I)) = UNION {Range(s[n]) : n \in I}
PROOF
  <1> DEFINE N == Len(s)
             D == 1 .. N
             Joining(h) == h = [U \in SUBSET I |->
                           IF U = {} THEN <<>> ELSE s[Max(U)] \o h[U \ {Max(U)}]]
             it == CHOOSE h : Joining(h)
             V == Seq(S)
             F == [n \in D |-> [v \in V |-> s[n] \o v]]
             All(U) == UNION {Range(s[n]) : n \in U}
  <1>1. N \in Nat /\ DOMAIN s = D /\ <<>> \in V /\ \A n \in D : s[n] \in V
    OBVIOUS
  <1>2. LastFirst(s, I) = it[I]
    BY DEF LastFirst, MapThenFoldSet
  <1>3. \A n \in D, v \in V : F[n][v] \in V
    BY <1>1
  <1>4. IsFiniteSet(I) /\ I \in SUBSET Int /\ I \in SUBSET D
    <2>1. IsFiniteSet(D) /\ D \in SUBSET Int /\ I \in SUBSET D
      BY <1>1, FS_Interval
    <2> HIDE DEF D
    <2> QED BY <2>1, FS_Subset
  <1>5. ASSUME NEW U \in SUBSET I, U # {}
        PROVE  Max(U) \in U /\ Max(U) \in D /\ U \ {Max(U)} \in SUBSET I
    <2>1. IsFiniteSet(U) /\ U \in SUBSET Int
      BY <1>4, FS_Subset
    <2>2. Max(U) \in U
      BY <1>5, <2>1, MaxFacts
    <2> QED BY <1>4, <2>2
  <1>6. \E h : Joining(h) /\ \A U \in SUBSET I : h[U] \in V
    <2> HIDE DEF F, V
    <2>1. PICK k : Folds(<<>>, F, 1 .. N, k) /\ \A U \in SUBSET (1 .. N) : k[U] \in V
      BY <1>1, <1>3, FoldRuns
    <2> DEFINE h == [U \in SUBSET I |-> k[U]]
               r(U) == IF U = {} THEN <<>> ELSE s[Max(U)] \o h[U \ {Max(U)}]
    <2> HIDE DEF D
    <2>2. k = [U \in SUBSET D |-> IF U = {} THEN <<>> ELSE F[Max(U)][k[U \ {Max(U)}]]]
      BY <2>1 DEF Folds, D
    <2>3. \A U \in SUBSET D : k[U] \in V
      BY <2>1 DEF D
    <2>4. ASSUME NEW U \in SUBSET I
          PROVE  k[U] = r(U)
      <3>1. U \in SUBSET D
        BY <1>4
      <3>2. CASE U = {}
        BY <2>2, <3>1, <3>2
      <3>3. CASE U # {}
        <4>1. Max(U) \in D /\ U \ {Max(U)} \in SUBSET I /\ U \ {Max(U)} \in SUBSET D
          BY <1>4, <1>5, <3>3
        <4>2. k[U] = F[Max(U)][k[U \ {Max(U)}]]
          BY <2>2, <3>1, <3>3
        <4>3. k[U \ {Max(U)}] \in V
          BY <2>3, <4>1
        <4>4. F[Max(U)][k[U \ {Max(U)}]] = s[Max(U)] \o k[U \ {Max(U)}]
          BY <4>1, <4>3 DEF F
        <4>5. h[U \ {Max(U)}] = k[U \ {Max(U)}]
          BY <4>1
        <4> QED BY <3>3, <4>2, <4>4, <4>5
      <3> QED BY <3>2, <3>3
    <2>5. h = [U \in SUBSET I |-> r(U)]
      <3> HIDE DEF r
      <3> QED BY <2>4
    <2>6. \A U \in SUBSET I : h[U] \in V
      BY <1>4, <2>3
    <2>7. Joining(h)
      BY <2>5
    <2> HIDE DEF h
    <2> QED BY <2>6, <2>7
  <1>7. Joining(it)
    BY <1>6
  <1> HIDE DEF it
  <1> DEFINE Good == {U \in SUBSET I : it[U] \in V /\ Range(it[U]) = All(U)}
  <1>8. {} \in Good
    <2>1. it[{}] = <<>> /\ Range(<<>>) = {} /\ All({}) = {}
      BY <1>7 DEF Range
    <2> QED BY <1>1, <2>1
  <1>9. ASSUME NEW U \in SUBSET I, U # {}, U \ {Max(U)} \in Good
        PROVE  U \in Good
    <2> DEFINE m == Max(U)
               W == U \ {m}
    <2>1. m \in U /\ m \in D /\ W \in SUBSET I
      BY <1>5, <1>9
    <2>2. it[W] \in V /\ Range(it[W]) = All(W)
      BY <1>9
    <2>3. it[U] = s[m] \o it[W]
      BY <1>7, <1>9
    <2> HIDE DEF m
    <2>4. it[U] \in V /\ Range(it[U]) = Range(s[m]) \cup Range(it[W])
      <3>1. s[m] \in Seq(S) /\ it[W] \in Seq(S)
        BY <1>1, <2>1, <2>2
      <3> HIDE DEF W
      <3> QED BY <2>3, <3>1, ConcatRange
    <2>5. All(U) = Range(s[m]) \cup All(W)
      BY <2>1
    <2> QED BY <2>2, <2>4, <2>5
  <1>10. I \in Good
    <2> HIDE DEF Good
    <2> QED BY <1>4, <1>8, <1>9, HoldsChronologically
  <1> QED BY <1>2, <1>10

-----------------------------------------------------------------------------
(* Groups whose items are linked, and that share nothing.                  *)

\* Names are finite sets of tokens.
NamesFinite(i) == \A v \in SimilarityReferences(i) : IsFiniteSet(v)

LEMMA SharesBothWays ==
  ASSUME NEW l, NEW r, NamesFinite(l), NamesFinite(r), ItemsShareIdentity(l, r)
  PROVE  ItemsShareIdentity(r, l)
PROOF
  <1>1. SharesExact(l, r) <=> SharesExact(r, l)
    <2>1. l.canonical \cap r.canonical = r.canonical \cap l.canonical /\ l.urls \cap r.urls = r.urls \cap l.urls
      OBVIOUS
    <2> QED BY <2>1 DEF SharesExact
  <1>2. Conflict(l, r) <=> Conflict(r, l)
    <2>1. l.canonical \cap r.canonical = r.canonical \cap l.canonical
      OBVIOUS
    <2> QED BY <2>1 DEF Conflict
  <1>3. CorroboratedAliasOverlap(l, r) => CorroboratedAliasOverlap(r, l)
    <2> SUFFICES ASSUME CorroboratedAliasOverlap(l, r)
                 PROVE  CorroboratedAliasOverlap(r, l)
      OBVIOUS
    <2>1. PICK value \in {a.value : a \in l.aliases} \cap {a.value : a \in r.aliases} :
            /\ IsSpecificAlias(value)
            /\ \A i \in {l, r} : Kinds(i, value) \ {"name_alias"} # {}
            /\ Cardinality(Kinds(l, value) \cup Kinds(r, value)) >= 2
      BY DEF CorroboratedAliasOverlap
    <2>2. Kinds(r, value) \cup Kinds(l, value) = Kinds(l, value) \cup Kinds(r, value)
      OBVIOUS
    <2>3. value \in {a.value : a \in r.aliases} \cap {a.value : a \in l.aliases}
      BY <2>1
    <2>4. \A i \in {r, l} : Kinds(i, value) \ {"name_alias"} # {}
      BY <2>1
    <2> QED BY <2>1, <2>2, <2>3, <2>4 DEF CorroboratedAliasOverlap
  <1>4. NormalizedEntityNameMatch(l, r) => NormalizedEntityNameMatch(r, l)
    BY <1>3 DEF NormalizedEntityNameMatch
  <1>5. TextSimilarityOverlap(l, r) => TextSimilarityOverlap(r, l)
    <2> SUFFICES ASSUME TextSimilarityOverlap(l, r)
                 PROVE  TextSimilarityOverlap(r, l)
      OBVIOUS
    <2>1. PICK v \in SimilarityReferences(l), w \in SimilarityReferences(r) :
            10 * Cardinality(Informative(v) \cap Informative(w))
              >= 4 * (Cardinality(Informative(v)) + Cardinality(Informative(w)))
      BY DEF TextSimilarityOverlap
    <2>2. Informative(w) \cap Informative(v) = Informative(v) \cap Informative(w)
      OBVIOUS
    <2>3. Cardinality(Informative(w)) \in Nat /\ Cardinality(Informative(v)) \in Nat
      <3>1. IsFiniteSet(v) /\ IsFiniteSet(w)
        BY DEF NamesFinite
      <3>2. IsFiniteSet(Informative(v)) /\ IsFiniteSet(Informative(w))
        BY <3>1, FS_Difference DEF Informative
      <3> QED BY <3>2, FS_CardinalityType
    <2>4. Cardinality(Informative(w)) + Cardinality(Informative(v))
            = Cardinality(Informative(v)) + Cardinality(Informative(w))
      BY <2>3
    <2> QED BY <2>1, <2>2, <2>4 DEF TextSimilarityOverlap
  <1> QED BY <1>1, <1>2, <1>4, <1>5 DEF ItemsShareIdentity

-----------------------------------------------------------------------------
\* No part of a set of items has nothing in common with the rest of it.
Linked(A) ==
  \A part \in SUBSET A : part # {} /\ part # A =>
    \E x \in part, y \in A \ part : ItemsShareIdentity(x, y)

\* Groups that are linked, and have nothing in common with each other.
Separate(groups) ==
  /\ \A n \in DOMAIN groups : groups[n] # <<>> /\ Linked(Range(groups[n]))
  /\ \A m, n \in DOMAIN groups : m # n =>
       \A x \in Range(groups[m]), y \in Range(groups[n]) : ~ItemsShareIdentity(x, y)

\* Of two items of S that share their identity, it does not matter which is first.
BothWays(S) == \A x, y \in S : ItemsShareIdentity(x, y) => ItemsShareIdentity(y, x)

InGroups(groups) == UNION {Range(groups[n]) : n \in DOMAIN groups}

Together(i, I, A) == {i} \cup UNION {A[n] : n \in I}

\* Linked sets are linked by an item that shares its identity with an item of each.
LEMMA LinkedByOne ==
  ASSUME NEW S, BothWays(S), NEW i \in S,
         NEW I, NEW A, \A n \in I : A[n] \subseteq S /\ Linked(A[n]),
         \A n \in I : \E x \in A[n] : ItemsShareIdentity(x, i)
  PROVE  Linked(Together(i, I, A))
PROOF
  <1> DEFINE W == {i} \cup UNION {A[n] : n \in I}
  <1> SUFFICES ASSUME NEW part \in SUBSET W, part # {}, part # W
               PROVE  \E x \in part, y \in W \ part : ItemsShareIdentity(x, y)
    BY DEF Linked, Together
  <1>1. \A n \in I : A[n] \subseteq W
    OBVIOUS
  <1>2. ASSUME NEW n \in I, part \cap A[n] # {}, ~(A[n] \subseteq part)
        PROVE  \E x \in part, y \in W \ part : ItemsShareIdentity(x, y)
    <2> DEFINE P == part \cap A[n]
    <2>1. P \in SUBSET A[n] /\ P # {} /\ P # A[n] /\ Linked(A[n])
      BY <1>2
    <2>2. \E x \in P, y \in A[n] \ P : ItemsShareIdentity(x, y)
      <3> HIDE DEF P
      <3> QED BY <2>1 DEF Linked
    <2> QED BY <1>1, <2>2
  <1>3. CASE i \in part
    <2>1. PICK y \in W : y \notin part
      OBVIOUS
    <2>2. PICK n \in I : y \in A[n]
      BY <1>3, <2>1
    <2>3. PICK x \in A[n] : ItemsShareIdentity(x, i)
      OBVIOUS
    <2>4. CASE x \in part
      BY <1>2, <2>1, <2>2, <2>4
    <2>5. CASE x \notin part
      BY <1>1, <1>3, <2>3, <2>5 DEF BothWays
    <2> QED BY <2>4, <2>5
  <1>4. CASE i \notin part
    <2>1. PICK y \in part : TRUE
      OBVIOUS
    <2>2. PICK n \in I : y \in A[n]
      BY <1>4, <2>1
    <2>3. PICK x \in A[n] : ItemsShareIdentity(x, i)
      OBVIOUS
    <2>4. CASE x \in part
      BY <1>4, <2>3, <2>4
    <2>5. CASE x \notin part
      BY <1>2, <2>2, <2>3, <2>5
    <2> QED BY <2>4, <2>5
  <1> QED BY <1>3, <1>4

LEMMA AloneJoins ==
  ASSUME NEW S, BothWays(S), NEW groups \in Seq(Seq(S)), NEW i \in S, Separate(groups),
         Matching(groups, i) = {}
  PROVE  /\ Join(groups, i) \in Seq(Seq(S)) /\ Separate(Join(groups, i))
         /\ InGroups(Join(groups, i)) = InGroups(groups) \cup {i}
PROOF
  <1> DEFINE J == Append(groups, <<i>>)
             m == Len(groups) + 1
  <1>1. Join(groups, i) = J
    BY DEF Join
  <1>2. /\ J \in Seq(Seq(S)) /\ m \in DOMAIN J /\ m \notin DOMAIN groups
        /\ DOMAIN J = DOMAIN groups \cup {m} /\ J[m] = <<i>>
        /\ \A n \in DOMAIN groups : J[n] = groups[n]
    <2>1. <<i>> \in Seq(S)
      OBVIOUS
    <2> QED BY <2>1
  <1>3. <<i>> # <<>> /\ Range(<<i>>) = {i}
    BY DEF Range
  <1> HIDE DEF J, m
  <1>4. Linked({i})
    BY DEF Linked
  <1>5. ASSUME NEW n \in DOMAIN groups, NEW x \in Range(groups[n])
        PROVE  ~ItemsShareIdentity(x, i) /\ ~ItemsShareIdentity(i, x)
    <2>1. ~ItemsShareIdentity(x, i)
      BY <1>5 DEF Matching, Range
    <2>2. x \in S
      BY <1>5 DEF Range
    <2> QED BY <2>1, <2>2 DEF BothWays
  <1>6. \A n \in DOMAIN J : J[n] # <<>> /\ Linked(Range(J[n]))
    BY <1>2, <1>3, <1>4 DEF Separate
  <1>7. ASSUME NEW k \in DOMAIN J, NEW n \in DOMAIN J, k # n,
               NEW x \in Range(J[k]), NEW y \in Range(J[n])
        PROVE  ~ItemsShareIdentity(x, y)
    <2>1. CASE k = m
      <3>1. x = i /\ n \in DOMAIN groups /\ y \in Range(groups[n])
        BY <1>2, <1>3, <1>7, <2>1
      <3> QED BY <1>5, <3>1
    <2>2. CASE n = m
      <3>1. y = i /\ k \in DOMAIN groups /\ x \in Range(groups[k])
        BY <1>2, <1>3, <1>7, <2>2
      <3> QED BY <1>5, <3>1
    <2>3. CASE k # m /\ n # m
      BY <1>2, <1>7, <2>3 DEF Separate
    <2> QED BY <2>1, <2>2, <2>3
  <1>8. InGroups(J) = InGroups(groups) \cup {i}
    BY <1>2, <1>3 DEF InGroups
  <1> QED BY <1>1, <1>2, <1>6, <1>7, <1>8 DEF Separate

LEMMA MatchingJoin ==
  ASSUME NEW S, BothWays(S), NEW groups \in Seq(Seq(S)), NEW i \in S, Separate(groups),
         Matching(groups, i) # {}
  PROVE  /\ Join(groups, i) \in Seq(Seq(S)) /\ Separate(Join(groups, i))
         /\ InGroups(Join(groups, i)) = InGroups(groups) \cup {i}
PROOF
  <1> DEFINE M == Matching(groups, i)
             first == Min(M)
             others == M \ {first}
             joined == Append(groups[first], i) \o LastFirst(groups, others)
             numbers == [n \in DOMAIN groups |-> n]
             stay == Picked(numbers, DOMAIN groups \ others)
             J == [k \in DOMAIN stay |-> IF stay[k] = first THEN joined ELSE groups[stay[k]]]
             A == [n \in M |-> Range(groups[n])]
  <1>1. Join(groups, i) = J
    BY DEF Join
  <1>2. /\ Len(groups) \in Nat /\ DOMAIN groups = 1 .. Len(groups)
        /\ \A n \in DOMAIN groups : groups[n] \in Seq(S)
    OBVIOUS
  <1>3. /\ M \subseteq DOMAIN groups
        /\ \A n \in DOMAIN groups : n \in M <=> \E x \in Range(groups[n]) : ItemsShareIdentity(x, i)
    BY DEF Matching, Range
  <1>4. first \in M
    <2> DEFINE D == DOMAIN groups
    <2>1. IsFiniteSet(D) /\ D \in SUBSET Int
      BY <1>2, FS_Interval
    <2>2. M \subseteq D
      BY <1>3
    <2> HIDE DEF M, D
    <2>3. IsFiniteSet(M) /\ M \in SUBSET Int
      BY <2>1, <2>2, FS_Subset
    <2> QED BY <2>3, MinFacts DEF M
  <1> HIDE DEF M, first
  <1>5. joined \in Seq(S) /\ Range(joined) = {i} \cup UNION {A[n] : n \in M} /\ joined # <<>>
    <2>1. groups[first] \in Seq(S) /\ others \in SUBSET DOMAIN groups
      BY <1>2, <1>3, <1>4
    <2>2. /\ Append(groups[first], i) \in Seq(S)
          /\ Range(Append(groups[first], i)) = Range(groups[first]) \cup {i}
      BY <2>1, Appended
    <2>3. /\ LastFirst(groups, others) \in Seq(S)
          /\ Range(LastFirst(groups, others)) = UNION {Range(groups[n]) : n \in others}
      BY <2>1, LastFirstAre
    <2> DEFINE s == Append(groups[first], i)
               t == LastFirst(groups, others)
    <2> HIDE DEF s, t
    <2>4. /\ joined \in Seq(S)
          /\ Range(joined) = Range(s) \cup Range(t)
      BY <2>2, <2>3, ConcatRange DEF s, t
    <2>5. UNION {A[n] : n \in M} = Range(groups[first]) \cup UNION {Range(groups[n]) : n \in others}
      BY <1>4
    <2>6. Range(joined) = {i} \cup UNION {A[n] : n \in M}
      BY <2>2, <2>3, <2>4, <2>5 DEF s, t
    <2>7. joined # <<>>
      <3>1. Range(<<>>) = {}
        BY DEF Range
      <3> HIDE DEF joined
      <3> QED BY <2>6, <3>1
    <2> QED BY <2>4, <2>6, <2>7
  <1>6. Linked(Range(joined))
    <2>1. \A n \in M : A[n] \subseteq S /\ Linked(A[n])
      BY <1>2, <1>3 DEF Separate, Range
    <2>2. \A n \in M : \E x \in A[n] : ItemsShareIdentity(x, i)
      BY <1>3
    <2> HIDE DEF A, joined
    <2> HIDE DEF stay, J, numbers, others
    <2>3. Linked(Together(i, M, A))
      BY <2>1, <2>2, LinkedByOne
    <2> QED BY <1>5, <2>3 DEF Together
  <1>7. /\ Len(stay) \in Nat /\ DOMAIN stay = 1 .. Len(stay)
        /\ \A n \in DOMAIN groups : n \notin others => \E k \in DOMAIN stay : stay[k] = n
        /\ \A k \in DOMAIN stay : stay[k] \in DOMAIN groups \ others
        /\ \A k, n \in DOMAIN stay : stay[k] = stay[n] => k = n
    <2>1. numbers \in Seq(DOMAIN groups) /\ Range(numbers) = DOMAIN groups /\ IsInjective(numbers)
      BY <1>2 DEF Range, IsInjective
    <2> HIDE DEF numbers, others
    <2>2. stay \in Seq(DOMAIN groups) /\ Range(stay) = DOMAIN groups \cap (DOMAIN groups \ others)
          /\ IsInjective(stay)
      BY <2>1, PickedAre
    <2> HIDE DEF stay
    <2>3. Len(stay) \in Nat /\ DOMAIN stay = 1 .. Len(stay)
      BY <2>2
    <2> QED BY <2>2, <2>3 DEF Range, IsInjective
  <1> HIDE DEF joined, stay, A
  <1>8. J \in Seq(Seq(S)) /\ DOMAIN J = DOMAIN stay
    <2>1. \A k \in DOMAIN stay : (IF stay[k] = first THEN joined ELSE groups[stay[k]]) \in Seq(S)
      BY <1>2, <1>5, <1>7
    <2> QED BY <1>7, <2>1
  <1>9. \A k \in DOMAIN stay : J[k] = IF stay[k] = first THEN joined ELSE groups[stay[k]]
    OBVIOUS
  <1> HIDE DEF J
  <1>10. \A k \in DOMAIN J : J[k] # <<>> /\ Linked(Range(J[k]))
    <2> SUFFICES ASSUME NEW k \in DOMAIN stay
                 PROVE  J[k] # <<>> /\ Linked(Range(J[k]))
      BY <1>8
    <2>1. CASE stay[k] = first
      BY <1>5, <1>6, <1>9, <2>1
    <2>2. CASE stay[k] # first
      <3>1. J[k] = groups[stay[k]] /\ stay[k] \in DOMAIN groups
        BY <1>7, <1>9, <2>2
      <3> QED BY <3>1 DEF Separate
    <2> QED BY <2>1, <2>2
  <1>11. ASSUME NEW n \in DOMAIN groups \ M, NEW x \in Range(groups[n]), NEW y \in Range(joined)
         PROVE  ~ItemsShareIdentity(x, y) /\ ~ItemsShareIdentity(y, x)
    <2>1. x \in S /\ y \in S
      BY <1>2, <1>5 DEF Range
    <2>2. ~ItemsShareIdentity(x, y)
      <3>1. CASE y = i
        BY <1>3, <1>11, <3>1
      <3>2. CASE y # i
        <4>1. PICK m \in M : y \in Range(groups[m])
          BY <1>5, <1>11, <3>2 DEF A
        <4> QED BY <1>3, <1>11, <4>1 DEF Separate
      <3> QED BY <3>1, <3>2
    <2> QED BY <2>1, <2>2 DEF BothWays
  <1>12. ASSUME NEW k \in DOMAIN J, NEW n \in DOMAIN J, k # n,
                NEW x \in Range(J[k]), NEW y \in Range(J[n])
         PROVE  ~ItemsShareIdentity(x, y)
    <2>1. /\ k \in DOMAIN stay /\ n \in DOMAIN stay /\ stay[k] # stay[n]
          /\ stay[k] \in DOMAIN groups \ others /\ stay[n] \in DOMAIN groups \ others
      BY <1>7, <1>8, <1>12
    <2>2. CASE stay[k] = first
      <3>1. stay[n] \in DOMAIN groups \ M /\ y \in Range(groups[stay[n]]) /\ x \in Range(joined)
        BY <1>9, <1>12, <2>1, <2>2
      <3> QED BY <1>11, <3>1
    <2>3. CASE stay[n] = first
      <3>1. stay[k] \in DOMAIN groups \ M /\ x \in Range(groups[stay[k]]) /\ y \in Range(joined)
        BY <1>9, <1>12, <2>1, <2>3
      <3> QED BY <1>11, <3>1
    <2>4. CASE stay[k] # first /\ stay[n] # first
      <3>1. x \in Range(groups[stay[k]]) /\ y \in Range(groups[stay[n]])
        BY <1>9, <1>12, <2>1, <2>4
      <3> QED BY <2>1, <3>1 DEF Separate
    <2> QED BY <2>2, <2>3, <2>4
  <1>13. InGroups(J) = InGroups(groups) \cup {i}
    <2>1. ASSUME NEW k \in DOMAIN J
          PROVE  Range(J[k]) \subseteq InGroups(groups) \cup {i}
      <3>1. CASE stay[k] = first
        BY <1>3, <1>5, <1>8, <1>9, <3>1 DEF InGroups, A
      <3>2. CASE stay[k] # first
        BY <1>7, <1>8, <1>9, <3>2 DEF InGroups
      <3> QED BY <3>1, <3>2
    <2>2. PICK f \in DOMAIN J : J[f] = joined
      BY <1>3, <1>4, <1>7, <1>8, <1>9
    <2>3. ASSUME NEW n \in DOMAIN groups
          PROVE  \E k \in DOMAIN J : Range(groups[n]) \subseteq Range(J[k])
      <3>1. CASE n \in M
        BY <1>5, <2>2, <3>1 DEF A
      <3>2. CASE n \notin M
        <4>1. PICK k \in DOMAIN stay : stay[k] = n
          BY <1>7, <3>2
        <4>2. n # first
          BY <1>4, <3>2
        <4>3. k \in DOMAIN J /\ J[k] = groups[n]
          BY <1>8, <1>9, <4>1, <4>2
        <4> QED BY <4>3
      <3> QED BY <3>1, <3>2
    <2>4. i \in Range(J[f])
      BY <1>5, <2>2
    <2> QED BY <2>1, <2>2, <2>3, <2>4 DEF InGroups
  <1> QED BY <1>1, <1>8, <1>10, <1>12, <1>13 DEF Separate

LEMMA JoinKeeps ==
  ASSUME NEW S, BothWays(S), NEW groups \in Seq(Seq(S)), NEW i \in S, Separate(groups)
  PROVE  /\ Join(groups, i) \in Seq(Seq(S)) /\ Separate(Join(groups, i))
         /\ InGroups(Join(groups, i)) = InGroups(groups) \cup {i}
BY AloneJoins, MatchingJoin

-----------------------------------------------------------------------------
(* The groups of a sequence of items.                                      *)

\* The items join one after the other.
LEMMA GroupSteps ==
  ASSUME NEW S, BothWays(S), NEW items \in Seq(S)
  PROVE  \E g : /\ g[0] = <<>> /\ g[Len(items)] = GroupDuplicateItems(items)
                /\ \A n \in 0 .. Len(items) : n < Len(items) =>
                     g[n + 1] = Join(g[n], items[n + 1])
PROOF
  <1> DEFINE N == Len(items)
             D == 1 .. N
             Grouping(h) == h = [U \in SUBSET D |->
                           IF U = {} THEN <<>>
                           ELSE Join(h[U \ {Max(U)}], items[Max(U)])]
             it == CHOOSE h : Grouping(h)
             V == {v \in Seq(Seq(S)) : Separate(v)}
             F == [n \in D |-> [v \in V |-> Join(v, items[n])]]
  <1>1. N \in Nat /\ DOMAIN items = D /\ <<>> \in V /\ \A n \in D : items[n] \in S
    BY DEF Separate
  <1>2. GroupDuplicateItems(items) = it[D]
    BY <1>1 DEF GroupDuplicateItems, FoldLeft, MapThenFoldSet
  <1>3. \A n \in D, v \in V : F[n][v] \in V
    BY <1>1, JoinKeeps
  <1>4. Grouping(it)
    <2> HIDE DEF F, V
    <2>1. PICK h : Folds(<<>>, F, 1 .. N, h) /\ \A U \in SUBSET (1 .. N) : h[U] \in V
      BY <1>1, <1>3, FoldRuns
    <2>2. ASSUME NEW U \in SUBSET D, U # {}
          PROVE  F[Max(U)][h[U \ {Max(U)}]] = Join(h[U \ {Max(U)}], items[Max(U)])
      <3>0. IsFiniteSet(D) /\ D \in SUBSET Int
        BY <1>1, FS_Interval
      <3>1. Max(U) \in D
        <4> HIDE DEF D
        <4>1. IsFiniteSet(U) /\ U \in SUBSET Int
          BY <2>2, <3>0, FS_Subset
        <4> QED BY <2>2, <4>1, MaxFacts
      <3>2. h[U \ {Max(U)}] \in V
        BY <2>1
      <3> QED BY <3>1, <3>2 DEF F
    <2> HIDE DEF D
    <2>3. h = [U \in SUBSET D |-> IF U = {} THEN <<>> ELSE F[Max(U)][h[U \ {Max(U)}]]]
      BY <2>1 DEF Folds, D
    <2>4. Grouping(h)
      BY <2>2, <2>3
    <2> QED BY <2>4
  <1> DEFINE g == [n \in 0 .. N |-> it[1 .. n]]
  <1> HIDE DEF it
  <1>5. g[0] = <<>> /\ g[N] = GroupDuplicateItems(items)
    <2>1. 1 .. 0 = {} /\ {} \in SUBSET D
      OBVIOUS
    <2> QED BY <1>1, <1>2, <1>4, <2>1
  <1>6. ASSUME NEW n \in 0 .. N, n < N
        PROVE  g[n + 1] = Join(g[n], items[n + 1])
    <2> DEFINE U == 1 .. (n + 1)
    <2>1. U \in SUBSET D /\ U # {} /\ n \in Nat /\ n + 1 \in 0 .. N
      <3>1. N \in Nat
        BY <1>1
      <3> HIDE DEF N, F, V, g
      <3>2. n \in Nat /\ n + 1 \in 0 .. N
        BY <1>6, <3>1
      <3>3. U \subseteq D
        BY <3>1, <3>2
      <3>4. 1 \in U
        BY <3>2
      <3> QED BY <3>2, <3>3, <3>4
    <2>2. Max(U) = n + 1 /\ U \ {n + 1} = 1 .. n
      BY <2>1, MaxOfInterval
    <2>3. g[n + 1] = it[U] /\ g[n] = it[1 .. n]
      BY <2>1
    <2> HIDE DEF U, D, g
    <2>4. it[U] = Join(it[U \ {Max(U)}], items[Max(U)])
      BY <1>4, <2>1
    <2> QED BY <2>2, <2>3, <2>4
  <1> HIDE DEF g
  <1> QED BY <1>5, <1>6 DEF N


\* Every item is in a group, the groups are linked and have nothing in common.
LEMMA GroupsAre ==
  ASSUME NEW S, BothWays(S), NEW items \in Seq(S)
  PROVE  /\ GroupDuplicateItems(items) \in Seq(Seq(S)) /\ Separate(GroupDuplicateItems(items))
         /\ InGroups(GroupDuplicateItems(items)) = Range(items)
PROOF
  <1>0. PICK g : /\ g[0] = <<>> /\ g[Len(items)] = GroupDuplicateItems(items)
                 /\ \A n \in 0 .. Len(items) : n < Len(items) => g[n + 1] = Join(g[n], items[n + 1])
    BY GroupSteps
  <1> DEFINE N == Len(items)
             Before(n) == {items[m] : m \in 1 .. n}
             Good == {n \in 0 .. N : /\ g[n] \in Seq(Seq(S)) /\ Separate(g[n])
                                     /\ InGroups(g[n]) = Before(n)}
  <1>1. /\ g[0] = <<>> /\ g[N] = GroupDuplicateItems(items)
        /\ \A n \in 0 .. N : n < N => g[n + 1] = Join(g[n], items[n + 1])
    BY <1>0
  <1>2. /\ N \in Nat /\ Before(0) = {} /\ Before(N) = Range(items)
        /\ \A n \in 0 .. N : n < N =>
             /\ n + 1 \in 0 .. N /\ items[n + 1] \in S
             /\ Before(n + 1) = Before(n) \cup {items[n + 1]}
    BY RangeUpTo
  <1> HIDE DEF N, Before
  <1>3. 0 \in Good
    <2>1. /\ <<>> \in Seq(Seq(S)) /\ Separate(<<>>) /\ InGroups(<<>>) = {} /\ 0 \in 0 .. N
      BY <1>2 DEF Separate, InGroups
    <2> QED BY <1>1, <1>2, <2>1
  <1>4. ASSUME NEW n \in 0 .. N, n < N, n \in Good
        PROVE  n + 1 \in Good
    <2>1. /\ n + 1 \in 0 .. N /\ items[n + 1] \in S
          /\ Before(n + 1) = Before(n) \cup {items[n + 1]}
      BY <1>2, <1>4
    <2>2. g[n + 1] = Join(g[n], items[n + 1])
      BY <1>1, <1>4
    <2>3. g[n] \in Seq(Seq(S)) /\ Separate(g[n]) /\ InGroups(g[n]) = Before(n)
      BY <1>4
    <2>4. /\ g[n + 1] \in Seq(Seq(S)) /\ Separate(g[n + 1])
          /\ InGroups(g[n + 1]) = InGroups(g[n]) \cup {items[n + 1]}
      <3> DEFINE v == g[n]
                 e == items[n + 1]
      <3>1. v \in Seq(Seq(S)) /\ Separate(v) /\ e \in S
        BY <2>1, <2>3
      <3> HIDE DEF v, e
      <3>2. /\ Join(v, e) \in Seq(Seq(S)) /\ Separate(Join(v, e))
            /\ InGroups(Join(v, e)) = InGroups(v) \cup {e}
        BY <3>1, JoinKeeps
      <3> QED BY <2>2, <3>2 DEF v, e
    <2> QED BY <2>1, <2>3, <2>4
  <1>5. N \in Good
    <2> HIDE DEF Good
    <2> QED BY <1>2, <1>3, <1>4, HoldsUpTo
  <1> QED BY <1>1, <1>2, <1>5

-----------------------------------------------------------------------------
(* What makes an item what it is does not change.                          *)

\* An item of a record, whatever name, id, counts and scores it has by now.
ItemOf(raw, identifiers, entity, id, adapter, authority, mentions, metrics) ==
  LET i == Annotate(Facts[raw])
  IN [raw |-> raw, group |-> i.group, name |-> i.name, noisy |-> i.noisy, urls |-> i.urls,
      canonical |-> i.canonical, aliases |-> i.aliases, identifiers |-> identifiers,
      entity |-> entity, itemId |-> id, adapter |-> adapter, origin |-> Facts[raw].origin,
      authority |-> authority, mentions |-> mentions, metrics |-> metrics]

\* Numbers that were observed, the authority among them.
Measured(metrics) == metrics \in [DOMAIN metrics -> Nat] /\ "authority" \in DOMAIN metrics

\* An item that still has its own name.
IsItem(e) ==
  \E raw \in Records, authority \in Nat, mentions \in Nat : \E identifiers, id, adapter, metrics :
    /\ Measured(metrics)
    /\ e = ItemOf(raw, identifiers, Annotate(Facts[raw]).entity, id, adapter, authority, mentions, metrics)

\* An item of a group, whose name may be that of another.
IsMember(e) ==
  \E raw \in Records, authority \in Nat, mentions \in Nat :
    \E identifiers, entity, id, adapter, metrics :
      /\ Measured(metrics)
      /\ e = ItemOf(raw, identifiers, entity, id, adapter, authority, mentions, metrics)

LEMMA ItemFields ==
  ASSUME NEW raw, NEW identifiers, NEW entity, NEW id, NEW adapter, NEW authority, NEW mentions,
         NEW metrics
  PROVE  LET e == ItemOf(raw, identifiers, entity, id, adapter, authority, mentions, metrics)
             i == Annotate(Facts[raw])
         IN /\ e.raw = raw /\ e.group = i.group /\ e.name = i.name /\ e.noisy = i.noisy
            /\ e.urls = i.urls /\ e.canonical = i.canonical /\ e.aliases = i.aliases
            /\ e.identifiers = identifiers /\ e.entity = entity /\ e.itemId = id /\ e.adapter = adapter
            /\ e.origin = Facts[raw].origin /\ e.authority = authority
            /\ e.mentions = mentions /\ e.metrics = metrics
PROOF
  <1> DEFINE i == Annotate(Facts[raw])
  <1> HIDE DEF i
  <1> QED BY DEF ItemOf, i

\* The same item with another id, name and identifiers.
Renamed(e, id, entity, identifiers) ==
  [e EXCEPT !.itemId = id, !.entity = entity, !.identifiers = identifiers]

\* It is an item of the same record, with the same counts.
LEMMA RenamedIs ==
  ASSUME NEW e, IsItem(e), NEW id, NEW entity, NEW identifiers
  PROVE  LET f == Renamed(e, id, entity, identifiers)
         IN /\ IsMember(f) /\ f.itemId = id /\ f.raw = e.raw
            /\ \A newId, name, ids : Renamed(f, newId, name, ids) = Renamed(e, newId, name, ids)
PROOF
  <1>1. PICK raw, own, oldId, adapter, authority, mentions, metrics :
          /\ raw \in Records /\ authority \in Nat /\ mentions \in Nat /\ Measured(metrics)
          /\ e = ItemOf(raw, own, Annotate(Facts[raw]).entity, oldId, adapter, authority, mentions, metrics)
    BY DEF IsItem
  <1> DEFINE Is(d, ids, name, newId) ==
               d = ItemOf(raw, ids, name, newId, adapter, authority, mentions, metrics)
  <1>2. ASSUME NEW d, NEW ids0, NEW name0, NEW id0, Is(d, ids0, name0, id0), NEW newId, NEW name, NEW ids
        PROVE  Is(Renamed(d, newId, name, ids), ids, name, newId)
    <2> DEFINE i == Annotate(Facts[raw])
               o == Facts[raw].origin
    <2> HIDE DEF i, o, Is
    <2>1. d = [raw |-> raw, group |-> i.group, name |-> i.name, noisy |-> i.noisy, urls |-> i.urls,
               canonical |-> i.canonical, aliases |-> i.aliases, identifiers |-> ids0,
               entity |-> name0, itemId |-> id0, adapter |-> adapter, origin |-> o,
               authority |-> authority, mentions |-> mentions, metrics |-> metrics]
      BY <1>2 DEF ItemOf, i, o, Is
    <2> DEFINE d1 == [d EXCEPT !.itemId = newId]
               d2 == [d1 EXCEPT !.entity = name]
               d3 == [d2 EXCEPT !.identifiers = ids]
    <2>2. d1 =
              [raw |-> raw, group |-> i.group, name |-> i.name, noisy |-> i.noisy, urls |-> i.urls,
               canonical |-> i.canonical, aliases |-> i.aliases, identifiers |-> ids0,
               entity |-> name0, itemId |-> newId, adapter |-> adapter, origin |-> o,
               authority |-> authority, mentions |-> mentions, metrics |-> metrics]
      BY <2>1
    <2> HIDE DEF d1
    <2>3. d2 =
              [raw |-> raw, group |-> i.group, name |-> i.name, noisy |-> i.noisy, urls |-> i.urls,
               canonical |-> i.canonical, aliases |-> i.aliases, identifiers |-> ids0,
               entity |-> name, itemId |-> newId, adapter |-> adapter, origin |-> o,
               authority |-> authority, mentions |-> mentions, metrics |-> metrics]
      BY <2>2
    <2> HIDE DEF d2
    <2>4. d3 =
              [raw |-> raw, group |-> i.group, name |-> i.name, noisy |-> i.noisy, urls |-> i.urls,
               canonical |-> i.canonical, aliases |-> i.aliases, identifiers |-> ids,
               entity |-> name, itemId |-> newId, adapter |-> adapter, origin |-> o,
               authority |-> authority, mentions |-> mentions, metrics |-> metrics]
      BY <2>3
    <2>5. Renamed(d, newId, name, ids) = d3
      BY DEF Renamed, d1, d2
    <2> HIDE DEF d3
    <2> QED BY <2>4, <2>5 DEF ItemOf, i, o, Is
  <1> DEFINE f == Renamed(e, id, entity, identifiers)
  <1> HIDE DEF f
  <1>3. Is(f, identifiers, entity, id)
    BY <1>1, <1>2 DEF f
  <1>4. \A newId, name, ids : Renamed(f, newId, name, ids) = Renamed(e, newId, name, ids)
    <2> SUFFICES ASSUME NEW newId, NEW name, NEW ids
                 PROVE  Renamed(f, newId, name, ids) = Renamed(e, newId, name, ids)
      OBVIOUS
    <2>1. Is(Renamed(f, newId, name, ids), ids, name, newId)
      BY <1>2, <1>3
    <2>2. Is(Renamed(e, newId, name, ids), ids, name, newId)
      BY <1>1, <1>2
    <2> QED BY <2>1, <2>2
  <1>5. IsMember(f)
    BY <1>1, <1>3 DEF IsMember
  <1>6. f.itemId = id /\ f.raw = raw /\ e.raw = raw
    BY <1>1, <1>3, ItemFields
  <1> QED BY <1>4, <1>5, <1>6 DEF f

\* An item that the gate allows.
LEMMA AllowedIs ==
  ASSUME NEW e, IsItem(e)
  PROVE  IsItem(Allowed(e)) /\ Allowed(e).raw = e.raw
PROOF
  <1>1. PICK raw, own, id, adapter, authority, mentions, metrics :
          /\ raw \in Records /\ authority \in Nat /\ mentions \in Nat /\ Measured(metrics)
          /\ e = ItemOf(raw, own, Annotate(Facts[raw]).entity, id, adapter, authority, mentions, metrics)
    BY DEF IsItem
  <1> DEFINE better == EffectiveAuthority(e)
             scoring == [metrics EXCEPT !["authority"] = EffectiveScoringAuthority(e)]
             f == ItemOf(raw, own, Annotate(Facts[raw]).entity, id, adapter, better, mentions, scoring)
  <1>2. Allowed(e) = f
    <2> DEFINE i == Annotate(Facts[raw])
               o == Facts[raw].origin
               a == EffectiveScoringAuthority(e)
    <2>1. Allowed(e) = [e EXCEPT !.authority = better, !.metrics = [@ EXCEPT !["authority"] = a]]
      BY DEF Allowed
    <2>2. scoring = [metrics EXCEPT !["authority"] = a]
      OBVIOUS
    <2> HIDE DEF i, o, better, scoring, a
    <2>3. e = [raw |-> raw, group |-> i.group, name |-> i.name, noisy |-> i.noisy, urls |-> i.urls,
               canonical |-> i.canonical, aliases |-> i.aliases, identifiers |-> own,
               entity |-> i.entity, itemId |-> id, adapter |-> adapter, origin |-> o,
               authority |-> authority, mentions |-> mentions, metrics |-> metrics]
      BY <1>1 DEF ItemOf, i, o
    <2>4. Allowed(e) =
              [raw |-> raw, group |-> i.group, name |-> i.name, noisy |-> i.noisy, urls |-> i.urls,
               canonical |-> i.canonical, aliases |-> i.aliases, identifiers |-> own,
               entity |-> i.entity, itemId |-> id, adapter |-> adapter, origin |-> o,
               authority |-> better, mentions |-> mentions, metrics |-> scoring]
      BY <2>1, <2>2, <2>3
    <2> QED BY <2>4 DEF ItemOf, i, o
  <1>3. e.authority \in Nat /\ e.metrics = metrics /\ metrics["authority"] \in Nat
    BY <1>1, ItemFields DEF Measured
  <1>4. better \in Nat
    BY <1>3, CurationAssumption DEF EffectiveAuthority, Effective
  <1>5. EffectiveScoringAuthority(e) \in Nat
    <2> DEFINE weighted == [s \in DOMAIN SourceAuthority |-> WeightedAuthority(s)]
    <2>1. \A s \in DOMAIN SourceAuthority : WeightedAuthority(s) \in Nat
      BY CurationAssumption DEF WeightedAuthority, Rounded
    <2>2. \A s \in DOMAIN weighted : weighted[s] \in Nat
      BY <2>1
    <2>3. EffectiveScoringAuthority(e) = Effective(e.metrics["authority"], e.origin, weighted)
      BY DEF EffectiveScoringAuthority
    <2> HIDE DEF weighted
    <2> QED BY <1>3, <2>2, <2>3 DEF Effective
  <1>6. Measured(scoring)
    BY <1>1, <1>5 DEF Measured
  <1> HIDE DEF better, scoring
  <1>7. IsItem(f)
    BY <1>1, <1>4, <1>6 DEF IsItem
  <1>8. f.raw = raw /\ e.raw = raw
    BY <1>1, ItemFields
  <1> QED BY <1>2, <1>7, <1>8

\* Items of the same records share their identities alike.
LEMMA SameRecords ==
  ASSUME NEW l, NEW r, NEW k, NEW s, IsItem(l), IsItem(r), IsItem(k), IsItem(s),
         k.raw = l.raw, s.raw = r.raw, ItemsShareIdentity(l, r)
  PROVE  ItemsShareIdentity(k, s)
PROOF
  <1> DEFINE Same(x, y) == /\ y.group = x.group /\ y.name = x.name /\ y.noisy = x.noisy
                           /\ y.urls = x.urls /\ y.canonical = x.canonical
                           /\ y.aliases = x.aliases /\ y.entity = x.entity
  <1>1. ASSUME NEW x, NEW y, IsItem(x), IsItem(y), y.raw = x.raw
        PROVE  Same(x, y)
    <2>1. PICK raw, own, id, adapter, authority, mentions, metrics :
            /\ raw \in Records
            /\ x = ItemOf(raw, own, Annotate(Facts[raw]).entity, id, adapter, authority, mentions, metrics)
      BY <1>1 DEF IsItem
    <2>2. PICK raw2, own2, id2, adapter2, authority2, mentions2, metrics2 :
            /\ raw2 \in Records
            /\ y = ItemOf(raw2, own2, Annotate(Facts[raw2]).entity, id2, adapter2, authority2, mentions2, metrics2)
      BY <1>1 DEF IsItem
    <2>3. raw2 = raw
      BY <1>1, <2>1, <2>2, ItemFields
    <2> DEFINE i == Annotate(Facts[raw])
    <2>4. /\ x.group = i.group /\ x.name = i.name /\ x.noisy = i.noisy
          /\ x.urls = i.urls /\ x.canonical = i.canonical /\ x.aliases = i.aliases
          /\ x.entity = i.entity
      BY <2>1, ItemFields
    <2>5. /\ y.group = i.group /\ y.name = i.name /\ y.noisy = i.noisy
          /\ y.urls = i.urls /\ y.canonical = i.canonical /\ y.aliases = i.aliases
          /\ y.entity = i.entity
      BY <2>2, <2>3, ItemFields
    <2> HIDE DEF i
    <2> QED BY <2>4, <2>5
  <1>2. Same(l, k) /\ Same(r, s)
    BY <1>1
  <1>3. (SharesExact(k, s) <=> SharesExact(l, r)) /\ (Conflict(k, s) <=> Conflict(l, r))
    BY <1>2 DEF SharesExact, Conflict
  <1>4. \A v : Kinds(k, v) = Kinds(l, v) /\ Kinds(s, v) = Kinds(r, v)
    BY <1>2 DEF Kinds
  <1>5. CorroboratedAliasOverlap(l, r) => CorroboratedAliasOverlap(k, s)
    <2> SUFFICES ASSUME CorroboratedAliasOverlap(l, r)
                 PROVE  CorroboratedAliasOverlap(k, s)
      OBVIOUS
    <2>1. PICK v \in {a.value : a \in l.aliases} \cap {a.value : a \in r.aliases} :
            /\ IsSpecificAlias(v)
            /\ \A i \in {l, r} : Kinds(i, v) \ {"name_alias"} # {}
            /\ Cardinality(Kinds(l, v) \cup Kinds(r, v)) >= 2
      BY DEF CorroboratedAliasOverlap
    <2>2. v \in {a.value : a \in k.aliases} \cap {a.value : a \in s.aliases}
      BY <1>2
    <2>3. \A i \in {k, s} : Kinds(i, v) \ {"name_alias"} # {}
      BY <1>4, <2>1
    <2>4. Cardinality(Kinds(k, v) \cup Kinds(s, v)) >= 2
      BY <1>4, <2>1
    <2> QED BY <2>1, <2>2, <2>3, <2>4 DEF CorroboratedAliasOverlap
  <1>6. NormalizedEntityNameMatch(l, r) => NormalizedEntityNameMatch(k, s)
    <2>1. EntityNameCorroborated(k) <=> EntityNameCorroborated(l)
      BY <1>2, <1>4 DEF EntityNameCorroborated
    <2>2. EntityNameCorroborated(s) <=> EntityNameCorroborated(r)
      BY <1>2, <1>4 DEF EntityNameCorroborated
    <2> QED BY <1>2, <1>5, <2>1, <2>2 DEF NormalizedEntityNameMatch
  <1>7. SimilarityReferences(k) = SimilarityReferences(l) /\ SimilarityReferences(s) = SimilarityReferences(r)
    BY <1>2 DEF SimilarityReferences
  <1>8. TextSimilarityOverlap(l, r) => TextSimilarityOverlap(k, s)
    BY <1>7 DEF TextSimilarityOverlap
  <1> QED BY <1>2, <1>3, <1>6, <1>8 DEF ItemsShareIdentity

LEMMA AliasesAre ==
  ASSUME NEW urls, NEW name, NEW a \in AliasSignals(urls, name)
  PROVE  \/ a = Alias("name_alias", name)
         \/ \E u \in urls : a \in Links[u].aliases
         \/ \E c \in LinkedIds(urls) \cap Repositories : a = Alias("repo_name_alias", RepoName[c])
PROOF
  <1> DEFINE A == {Alias("name_alias", name)}
             B == UNION {Links[u].aliases : u \in urls}
             R == LinkedIds(urls) \cap Repositories
             C == {Alias("repo_name_alias", RepoName[c]) : c \in R}
  <1>1. AliasSignals(urls, name) = (A \cup B) \cup C
    BY DEF AliasSignals
  <1>2. a \in A \/ a \in B \/ a \in C
    <2> HIDE DEF A, B, C
    <2> QED BY <1>1
  <1> HIDE DEF R
  <1>3. a \in B => \E u \in urls : a \in Links[u].aliases
    OBVIOUS
  <1>4. a \in C => \E c \in R : a = Alias("repo_name_alias", RepoName[c])
    OBVIOUS
  <1> QED BY <1>2, <1>3, <1>4 DEF R

LEMMA ItemNames ==
  ASSUME NEW e, IsItem(e)
  PROVE  NamesFinite(e)
PROOF
  <1>1. PICK raw, own, id, adapter, authority, mentions, metrics :
          /\ raw \in Records
          /\ e = ItemOf(raw, own, Annotate(Facts[raw]).entity, id, adapter, authority, mentions, metrics)
    BY DEF IsItem
  <1> DEFINE x == Facts[raw]
             i == Annotate(x)
  <1>2. x.urls \subseteq DOMAIN Links /\ IsFiniteSet(x.name)
    BY <1>1, CollectionAssumption, CurationAssumption
  <1>3. e.name = i.name /\ e.aliases = i.aliases
    BY <1>1, ItemFields
  <1>4. i.name = x.name /\ i.aliases = AliasSignals(x.urls, x.name)
    BY DEF Annotate
  <1> HIDE DEF x, i
  <1>5. ASSUME NEW a \in AliasSignals(x.urls, x.name)
        PROVE  IsFiniteSet(a.value)
    <2>1. CASE a = Alias("name_alias", x.name)
      BY <1>2, <2>1 DEF Alias
    <2>2. CASE \E u \in x.urls : a \in Links[u].aliases
      BY <1>2, <2>2, ItemIdentityAssumption
    <2>3. CASE \E c \in LinkedIds(x.urls) \cap Repositories : a = Alias("repo_name_alias", RepoName[c])
      BY <2>3, ItemIdentityAssumption DEF Alias
    <2>4. \/ a = Alias("name_alias", x.name)
          \/ \E u \in x.urls : a \in Links[u].aliases
          \/ \E c \in LinkedIds(x.urls) \cap Repositories : a = Alias("repo_name_alias", RepoName[c])
      BY <1>5, AliasesAre
    <2> QED BY <2>1, <2>2, <2>3, <2>4
  <1>6. \A v \in {e.name} \cup {a.value : a \in e.aliases} : IsFiniteSet(v)
    BY <1>2, <1>3, <1>4, <1>5
  <1>7. SimilarityReferences(e) \subseteq {e.name} \cup {a.value : a \in e.aliases}
    BY DEF SimilarityReferences
  <1> QED BY <1>6, <1>7 DEF NamesFinite

LEMMA ItemsBothWays ==
  ASSUME NEW S, \A e \in S : IsItem(e)
  PROVE  BothWays(S)
BY ItemNames, SharesBothWays DEF BothWays

-----------------------------------------------------------------------------
(* From the batches to the groups.                                         *)

\* The items of all batches are of T when those of each batch are.
LEMMA FetchedIn ==
  ASSUME NEW metrics, NEW T, \A a \in Adapters : BatchItems(a, metrics) \in Seq(T)
  PROVE  FetchedItems(metrics) \in Seq(T)
PROOF
  <1> DEFINE N == Len(AdapterOrder)
             D == 1 .. N
             Joining(h) == h = [U \in SUBSET D |->
                           IF U = {} THEN <<>>
                           ELSE h[U \ {Max(U)}] \o BatchItems(AdapterOrder[Max(U)], metrics)]
             it == CHOOSE h : Joining(h)
             V == Seq(T)
             F == [n \in D |-> [v \in V |-> v \o BatchItems(AdapterOrder[n], metrics)]]
  <1>1. N \in Nat /\ DOMAIN AdapterOrder = D /\ <<>> \in V /\ \A n \in D : AdapterOrder[n] \in Adapters
    BY SourceFetchAssumption
  <1>2. FetchedItems(metrics) = it[D]
    BY <1>1 DEF FetchedItems, FoldLeft, MapThenFoldSet
  <1>3. \A n \in D, v \in V : F[n][v] \in V
    BY <1>1
  <1>4. \E h : Joining(h) /\ h[D] \in V
    <2> HIDE DEF F, V
    <2>1. PICK h : Folds(<<>>, F, 1 .. N, h) /\ \A U \in SUBSET (1 .. N) : h[U] \in V
      BY <1>1, <1>3, FoldRuns
    <2>2. ASSUME NEW U \in SUBSET D, U # {}
          PROVE  F[Max(U)][h[U \ {Max(U)}]]
                   = h[U \ {Max(U)}] \o BatchItems(AdapterOrder[Max(U)], metrics)
      <3>0. IsFiniteSet(D) /\ D \in SUBSET Int
        BY <1>1, FS_Interval
      <3>1. Max(U) \in D
        <4> HIDE DEF D
        <4>1. IsFiniteSet(U) /\ U \in SUBSET Int
          BY <2>2, <3>0, FS_Subset
        <4> QED BY <2>2, <4>1, MaxFacts
      <3>2. h[U \ {Max(U)}] \in V
        BY <2>1
      <3> QED BY <3>1, <3>2 DEF F
    <2> HIDE DEF D
    <2>3. h = [U \in SUBSET D |-> IF U = {} THEN <<>> ELSE F[Max(U)][h[U \ {Max(U)}]]]
      BY <2>1 DEF Folds, D
    <2>4. Joining(h)
      BY <2>2, <2>3
    <2> QED BY <2>1, <2>4 DEF D
  <1>5. PICK h : Joining(h) /\ h[D] \in V
    BY <1>4
  <1>6. Joining(it)
    BY <1>5
  <1>7. it[D] = h[D]
    <2>1. it[{}] = h[{}]
      <3> HIDE DEF it
      <3> QED BY <1>5, <1>6
    <2>2. ASSUME NEW U \in SUBSET D, U # {}, it[U \ {Max(U)}] = h[U \ {Max(U)}]
          PROVE  it[U] = h[U]
      <3> HIDE DEF it, D
      <3> QED BY <1>5, <1>6, <2>2
    <2>3. IsFiniteSet(D) /\ D \in SUBSET Int
      BY <1>1, FS_Interval
    <2> HIDE DEF it, D
    <2> QED BY <2>1, <2>2, <2>3, AgreeChronologically
  <1> HIDE DEF it, V
  <1> QED BY <1>2, <1>5, <1>7 DEF V

Itemized(items) == \E T : items \in Seq(T) /\ \A e \in T : IsItem(e)

LEMMA CreatedIs ==
  ASSUME NEW record \in Records, NEW a, NEW times \in Nat, NEW metrics,
         \A name \in DOMAIN metrics : metrics[name] \in Nat
  PROVE  IsItem(CreateItem(record, a, times, metrics)) /\ CreateItem(record, a, times, metrics).raw = record
PROOF
  <1> DEFINE own == Annotate(Facts[record]).identifiers
             entity == Annotate(Facts[record]).entity
             id == StableId(Annotate(Facts[record]))
             authority == Facts[record].authority
             mentions == times * Facts[record].mentions
             signals == ScoringSignals(record, metrics)
  <1>1. CreateItem(record, a, times, metrics) = ItemOf(record, own, entity, id, a, authority, mentions, signals)
    BY DEF CreateItem, ItemOf
  <1>2. authority \in Nat /\ mentions \in Nat
    BY CollectionAssumption, CurationAssumption
  <1>3. Measured(signals)
    BY <1>2 DEF ScoringSignals, Measured
  <1> HIDE DEF own, id, authority, mentions, signals
  <1>4. ItemOf(record, own, entity, id, a, authority, mentions, signals).raw = record
    BY ItemFields
  <1> QED BY <1>1, <1>2, <1>3, <1>4 DEF IsItem

LEMMA FetchedAre ==
  ASSUME \A a \in Adapters : batches[a].items \in Seq(Entries), NEW metrics \in Metrics
  PROVE  Itemized(FetchedItems(metrics))
PROOF
  <1> DEFINE Made(a, e) == CreateItem(e.record, a, e.times, metrics[e.record])
             T == {Made(a, e) : a \in Adapters, e \in Entries}
  <1>1. \A e \in T : IsItem(e)
    <2> SUFFICES ASSUME NEW a \in Adapters, NEW e \in Entries
                 PROVE  IsItem(Made(a, e))
      OBVIOUS
    <2>1. e.record \in Records /\ e.times \in Nat
      BY DEF Entries
    <2>2. \A name \in DOMAIN metrics[e.record] : metrics[e.record][name] \in Nat
      BY <2>1, CollectionAssumption
    <2> QED BY <2>1, <2>2, CreatedIs
  <1>2. ASSUME NEW a \in Adapters
        PROVE  BatchItems(a, metrics) \in Seq(T)
    <2>1. batches[a].items \in Seq(Entries)
      OBVIOUS
    <2> DEFINE s == batches[a].items
    <2>2. BatchItems(a, metrics) = [n \in DOMAIN s |-> Made(a, s[n])]
      BY DEF BatchItems
    <2>3. s \in Seq(Entries) /\ \A n \in DOMAIN s : s[n] \in Entries
      BY <2>1
    <2>4. \A n \in DOMAIN s : Made(a, s[n]) \in T
      BY <2>3
    <2> HIDE DEF s, T, Made
    <2>5. [n \in DOMAIN s |-> Made(a, s[n])] \in Seq(T)
      BY <2>3, <2>4
    <2> QED BY <2>2, <2>5
  <1> HIDE DEF T
  <1> QED BY <1>1, <1>2, FetchedIn DEF Itemized

\* The items that pass the source gate are those of the same records.
LEMMA EligibleAre ==
  ASSUME NEW items, Itemized(items), NEW gate
  PROVE  LET E == EligibleItems(items, gate)
         IN /\ \E S : E \in Seq(S) /\ \A e \in S : IsItem(e)
            /\ \A e \in Range(E) : IsItem(e) /\ \E i \in Range(items) : AllowItem(i, gate) /\ e.raw = i.raw
            /\ \A i \in Range(items) : IsItem(i)
            /\ \A i \in Range(items) : AllowItem(i, gate) => \E e \in Range(E) : e.raw = i.raw
PROOF
  <1>1. PICK T : items \in Seq(T) /\ \A e \in T : IsItem(e)
    BY DEF Itemized
  <1> DEFINE I == {i \in Range(items) : AllowItem(i, gate)}
             p == Picked(items, I)
             E == [n \in DOMAIN p |-> Allowed(p[n])]
             S == {Allowed(e) : e \in T}
  <1>2. EligibleItems(items, gate) = E
    BY DEF EligibleItems
  <1>3. p \in Seq(T) /\ Range(p) = Range(items) \cap I
    BY <1>1, PickedAre
  <1>4. \A i \in Range(items) : i \in T /\ IsItem(i)
    BY <1>1 DEF Range
  <1>5. Range(p) = I
    BY <1>3
  <1> HIDE DEF p, I
  <1>6. E \in Seq(S) /\ Range(E) = {Allowed(e) : e \in Range(p)}
    <2>1. \A n \in DOMAIN p : Allowed(p[n]) \in S /\ p[n] \in T
      BY <1>3
    <2>2. E \in Seq(S)
      <3> HIDE DEF S
      <3> QED BY <1>3, <2>1
    <2>3. Range(E) = {Allowed(e) : e \in Range(p)}
      BY DEF Range
    <2> QED BY <2>2, <2>3
  <1>7. \A e \in S : IsItem(e)
    BY <1>1, AllowedIs
  <1> HIDE DEF E, S
  <1>8. \A e \in Range(E) : IsItem(e) /\ \E i \in Range(items) : AllowItem(i, gate) /\ e.raw = i.raw
    BY <1>4, <1>5, <1>6, AllowedIs DEF I
  <1>9. \A i \in Range(items) : AllowItem(i, gate) => \E e \in Range(E) : e.raw = i.raw
    BY <1>4, <1>5, <1>6, AllowedIs DEF I
  <1> QED BY <1>2, <1>4, <1>6, <1>7, <1>8, <1>9

\* The items of a group under one id.
RenamedTo(id, group, g) ==
  /\ g = [n \in DOMAIN group |-> g[n]]
  /\ \A n \in DOMAIN group : \E entity, identifiers : g[n] = Renamed(group[n], id, entity, identifiers)

\* A group is renamed as a whole.
LEMMA ClusterAre ==
  ASSUME NEW group, NEW S, group \in Seq(S), \A e \in S : IsItem(e), NEW history
  PROVE  \E id : RenamedTo(id, group, Resolve(Cluster(group), history))
PROOF
  <1> DEFINE merged == Consolidate(group)
             c == Cluster(group)
  <1>1. c = [n \in DOMAIN group |-> Renamed(group[n], merged.itemId, merged.entity, merged.identifiers)]
    BY DEF Cluster, Renamed
  <1>2. CASE MatchGroup(c, history) = {}
    <2>1. Resolve(c, history) = c
      BY <1>2 DEF Resolve
    <2> HIDE DEF c, merged
    <2>2. DOMAIN c = DOMAIN group /\ c = [n \in DOMAIN group |-> c[n]]
      BY <1>1
    <2>3. \A n \in DOMAIN group :
            c[n] = Renamed(group[n], merged.itemId, merged.entity, merged.identifiers)
      BY <1>1
    <2>4. RenamedTo(merged.itemId, group, c)
      BY <2>2, <2>3 DEF RenamedTo
    <2> QED BY <2>1, <2>4 DEF c
  <1>3. CASE MatchGroup(c, history) # {}
    <2> DEFINE h == CHOOSE h \in MatchGroup(c, history) : TRUE
               Ids(n) == MergeCanonicalIdentifiers(h.identifiers, c[n].identifiers)
    <2>1. Resolve(c, history) = [n \in DOMAIN c |-> Renamed(c[n], h.itemId, h.entity, Ids(n))]
      BY <1>3 DEF Resolve, Renamed
    <2> HIDE DEF c, h, merged, Ids
    <2>2. DOMAIN c = DOMAIN group
      BY <1>1
    <2>3. ASSUME NEW n \in DOMAIN group
          PROVE  Renamed(c[n], h.itemId, h.entity, Ids(n)) = Renamed(group[n], h.itemId, h.entity, Ids(n))
      <3>1. c[n] = Renamed(group[n], merged.itemId, merged.entity, merged.identifiers)
        BY <1>1
      <3>2. IsItem(group[n])
        OBVIOUS
      <3> DEFINE e == group[n]
      <3> HIDE DEF e
      <3>3. IsItem(e) /\ c[n] = Renamed(e, merged.itemId, merged.entity, merged.identifiers)
        BY <3>1, <3>2 DEF e
      <3>4. Renamed(c[n], h.itemId, h.entity, Ids(n)) = Renamed(e, h.itemId, h.entity, Ids(n))
        BY <3>3, RenamedIs
      <3> QED BY <3>4 DEF e
    <2>4. RenamedTo(h.itemId, group, Resolve(c, history))
      BY <2>1, <2>2, <2>3 DEF RenamedTo
    <2> QED BY <2>4 DEF c
  <1> QED BY <1>2, <1>3

-----------------------------------------------------------------------------
(* What is curated.                                                        *)

LEMMA CuratedGroups ==
  ASSUME NEW items, Itemized(items), NEW gate, NEW history,
         outcome = Aggregate(items, CandidateGroups(items, gate, history), gate, history)
  PROVE  GroupsAreComponents
PROOF
  <1> DEFINE E == EligibleItems(items, gate)
             G == GroupDuplicateItems(E)
             K == CandidateGroups(items, gate, history)
             parts == {Members(K[n]) : n \in DOMAIN K}
             shares(x, y) == \E i, k \in Range(items) : i.raw = x /\ k.raw = y /\ ItemsShareIdentity(i, k)
  <1>1. outcome.fetched = items /\ outcome.approved = gate /\ outcome.groups = K
    BY DEF Aggregate
  <1>2. /\ \E S : E \in Seq(S) /\ \A e \in S : IsItem(e)
        /\ \A e \in Range(E) : IsItem(e) /\ \E i \in Range(items) : AllowItem(i, gate) /\ e.raw = i.raw
        /\ \A i \in Range(items) : IsItem(i)
        /\ \A i \in Range(items) : AllowItem(i, gate) => \E e \in Range(E) : e.raw = i.raw
    BY EligibleAre
  <1> HIDE DEF E
  <1>3. PICK S : E \in Seq(S) /\ \A e \in S : IsItem(e)
    BY <1>2
  <1>4. G \in Seq(Seq(S)) /\ Separate(G) /\ InGroups(G) = Range(E)
    BY <1>3, ItemsBothWays, GroupsAre
  <1>5. K = [n \in DOMAIN G |-> Resolve(Cluster(G[n]), history)]
    BY DEF CandidateGroups, E
  <1> HIDE DEF G, K
  <1>6. \A n \in DOMAIN G : G[n] \in Seq(S) /\ \A e \in Range(G[n]) : IsItem(e) /\ e \in Range(E)
    <2> SUFFICES ASSUME NEW n \in DOMAIN G
                 PROVE  G[n] \in Seq(S) /\ \A e \in Range(G[n]) : IsItem(e) /\ e \in Range(E)
      OBVIOUS
    <2>1. G[n] \in Seq(S)
      BY <1>4
    <2>2. Range(G[n]) \subseteq Range(E)
      BY <1>4 DEF InGroups
    <2> QED BY <1>2, <2>1, <2>2
  <1>7. ASSUME NEW n \in DOMAIN G
        PROVE  Members(K[n]) = {e.raw : e \in Range(G[n])}
    <2> DEFINE g == G[n]
    <2>1. g \in Seq(S)
      BY <1>6
    <2>2. PICK id : RenamedTo(id, g, K[n])
      <3>1. K[n] = Resolve(Cluster(g), history)
        BY <1>5
      <3> HIDE DEF g
      <3> QED BY <1>3, <2>1, <3>1, ClusterAre
    <2>3. \A m \in DOMAIN g : IsItem(g[m])
      BY <1>6 DEF Range
    <2> HIDE DEF g
    <2>4. \A m \in DOMAIN g : K[n][m].raw = g[m].raw
      <3> SUFFICES ASSUME NEW m \in DOMAIN g
                   PROVE  K[n][m].raw = g[m].raw
        OBVIOUS
      <3>1. PICK entity, identifiers : K[n][m] = Renamed(g[m], id, entity, identifiers)
        BY <2>2 DEF RenamedTo
      <3>2. IsItem(g[m])
        BY <2>3
      <3> QED BY <3>1, <3>2, RenamedIs
    <2>5. DOMAIN K[n] = DOMAIN g
      BY <2>2 DEF RenamedTo
    <2>6. Members(K[n]) = {g[m].raw : m \in DOMAIN g}
      BY <2>4, <2>5 DEF Members
    <2>7. {g[m].raw : m \in DOMAIN g} = {e.raw : e \in Range(g)}
      BY DEF Range
    <2> QED BY <2>6, <2>7 DEF g
  <1>8. DOMAIN K = DOMAIN G
    BY <1>5
  <1>9. ASSUME NEW n \in DOMAIN G, NEW e \in Range(G[n])
        PROVE  \E i \in Range(items) : IsItem(i) /\ IsItem(e) /\ AllowItem(i, gate) /\ e.raw = i.raw
    BY <1>2, <1>6, <1>9
  <1>10. UNION parts = {i.raw : i \in {j \in Range(items) : AllowItem(j, gate)}}
    <2>1. ASSUME NEW n \in DOMAIN G, NEW e \in Range(G[n])
          PROVE  e.raw \in {i.raw : i \in {j \in Range(items) : AllowItem(j, gate)}}
      BY <1>9, <2>1
    <2>2. UNION parts \subseteq {i.raw : i \in {j \in Range(items) : AllowItem(j, gate)}}
      BY <1>7, <1>8, <2>1
    <2>3. ASSUME NEW i \in Range(items), AllowItem(i, gate)
          PROVE  i.raw \in UNION parts
      <3>1. PICK e \in Range(E) : e.raw = i.raw
        BY <1>2, <2>3
      <3>2. PICK n \in DOMAIN G : e \in Range(G[n])
        BY <1>4 DEF InGroups
      <3>3. i.raw \in Members(K[n])
        BY <1>7, <3>1, <3>2
      <3> QED BY <1>8, <3>3
    <2> QED BY <2>2, <2>3
  <1>11. ASSUME NEW g \in parts, NEW h \in parts, g # h, NEW x \in g, NEW y \in h
         PROVE  ~shares(x, y)
    <2>1. PICK n \in DOMAIN G : g = Members(K[n])
      BY <1>8
    <2>2. PICK m \in DOMAIN G : h = Members(K[m])
      BY <1>8
    <2>3. n # m
      BY <1>11, <2>1, <2>2
    <2>4. PICK e \in Range(G[n]) : e.raw = x
      BY <1>7, <2>1
    <2>5. PICK f \in Range(G[m]) : f.raw = y
      BY <1>7, <2>2
    <2>6. ~ItemsShareIdentity(e, f)
      BY <1>4, <2>3 DEF Separate
    <2>7. ASSUME NEW i \in Range(items), NEW k \in Range(items), i.raw = x, k.raw = y,
                 ItemsShareIdentity(i, k)
          PROVE  FALSE
      <3>1. IsItem(i) /\ IsItem(k) /\ IsItem(e) /\ IsItem(f)
        BY <1>2, <1>6
      <3>2. ItemsShareIdentity(e, f)
        BY <2>4, <2>5, <2>7, <3>1, SameRecords
      <3> QED BY <2>6, <3>2
    <2> QED BY <2>7
  <1>12. ASSUME NEW g \in parts, NEW part \in (SUBSET g) \ {{}, g}
         PROVE  \E x \in part, y \in g \ part : shares(x, y)
    <2>1. PICK n \in DOMAIN G : g = Members(K[n])
      BY <1>8
    <2> DEFINE A == Range(G[n])
               P == {e \in A : e.raw \in part}
    <2>2. g = {e.raw : e \in A}
      BY <1>7, <2>1
    <2>3. P \in SUBSET A /\ P # {} /\ P # A
      <3>1. PICK x \in part : x \in g
        OBVIOUS
      <3>2. PICK y \in g : y \notin part
        OBVIOUS
      <3>3. PICK e \in A : e.raw = x
        BY <2>2, <3>1
      <3>4. PICK f \in A : f.raw = y
        BY <2>2
      <3> QED BY <3>2, <3>3, <3>4
    <2>4. Linked(A)
      BY <1>4 DEF Separate
    <2>5. PICK e \in P, f \in A \ P : ItemsShareIdentity(e, f)
      <3> HIDE DEF P, A
      <3> QED BY <2>3, <2>4 DEF Linked
    <2>6. e.raw \in part /\ f.raw \in g \ part
      BY <2>2
    <2>7. PICK i \in Range(items) : IsItem(i) /\ IsItem(e) /\ e.raw = i.raw
      BY <1>9
    <2>8. PICK k \in Range(items) : IsItem(k) /\ IsItem(f) /\ f.raw = k.raw
      BY <1>9
    <2>9. ItemsShareIdentity(i, k)
      BY <2>5, <2>7, <2>8, SameRecords
    <2> QED BY <2>6, <2>7, <2>8, <2>9
  <1> DEFINE P == {Members(outcome.groups[n]) : n \in DOMAIN outcome.groups}
             s(x, y) == \E i, k \in Range(outcome.fetched) :
                          i.raw = x /\ k.raw = y /\ ItemsShareIdentity(i, k)
  <1>13. P = parts /\ \A x, y : s(x, y) <=> shares(x, y)
    BY <1>1
  <1>14. UNION P = {i.raw : i \in {j \in Range(outcome.fetched) : AllowItem(j, outcome.approved)}}
    BY <1>1, <1>10, <1>13
  <1> HIDE DEF parts, P, shares
  <1>15. \A g, h \in P : g # h => \A x \in g, y \in h : ~s(x, y)
    <2> HIDE DEF s
    <2> QED BY <1>11, <1>13
  <1>16. \A g \in P : \A part \in (SUBSET g) \ {{}, g} : \E x \in part, y \in g \ part : s(x, y)
    <2> HIDE DEF s
    <2> QED BY <1>12, <1>13
  <1> QED BY <1>14, <1>15, <1>16 DEF GroupsAreComponents, P

-----------------------------------------------------------------------------
(* The mentions of a group.                                                *)

Said(group) == [n \in 1 .. Len(group) |-> group[n].mentions]

\* The mentions of a group are the sum of those of its items.
LEMMA MentionsAreSum ==
  ASSUME NEW S, NEW group \in Seq(S), \A e \in S : e.mentions \in Nat
  PROVE  /\ 1 .. Len(group) \in SUBSET Int /\ Summable(Said(group), 1 .. Len(group))
         /\ Mentions(group) = SumFunctionOnSet(Said(group), 1 .. Len(group))
PROOF
  <1> DEFINE D == 1 .. Len(group)
             Adds(h) == h = [U \in SUBSET D |->
                          IF U = {} THEN 0 ELSE h[U \ {Max(U)}] + group[Max(U)].mentions]
             it == CHOOSE h : Adds(h)
  <1>0. Len(group) \in Nat /\ DOMAIN group = D /\ \A n \in D : group[n] \in S
    OBVIOUS
  <1>1. D \in SUBSET Int /\ IsFiniteSet(D) /\ Summable(Said(group), D)
    <2>1. IsFiniteSet(D) /\ D \in SUBSET Int
      BY <1>0, FS_Interval
    <2>2. \A n \in D : Said(group)[n] \in Nat
      BY <1>0 DEF Said
    <2> QED BY <2>1, <2>2 DEF Summable
  <1>2. Mentions(group) = it[D]
    BY <1>0 DEF Mentions, FoldLeft, MapThenFoldSet
  <1>3. ASSUME NEW h
        PROVE  Adds(h) <=> LeftSums(Said(group), D, h)
    <2>1. ASSUME NEW U \in SUBSET D, U # {}
          PROVE  Said(group)[Max(U)] = group[Max(U)].mentions
      <3>1. Max(U) \in U
        BY <1>1, <2>1, FS_Subset, MaxFacts
      <3> QED BY <3>1 DEF Said
    <2> HIDE DEF D
    <2> QED BY <2>1 DEF LeftSums
  <1> HIDE DEF Adds, D
  <1>4. Adds(it)
    BY <1>1, <1>3, LeftSumsAre
  <1> HIDE DEF it
  <1>5. Mentions(group) = SumFunctionOnSet(Said(group), D)
    BY <1>1, <1>2, <1>3, <1>4, LeftSumsAre
  <1> QED BY <1>1, <1>5 DEF D

\* Orders of a group.
LEMMA OrdersAre ==
  ASSUME NEW S, NEW group \in Seq(S), NEW order \in Orders(group)
  PROVE  /\ order \in Seq(S) /\ Len(order) = Len(group) /\ Range(order) = Range(group)
         /\ \E p \in Bijection(1 .. Len(group), 1 .. Len(group)) :
              \A n \in 1 .. Len(group) : order[n] = group[p[n]]
PROOF
  <1> DEFINE D == 1 .. Len(group)
  <1>0. Len(group) \in Nat /\ DOMAIN group = D /\ \A n \in D : group[n] \in S
    OBVIOUS
  <1>1. PICK p \in Bijection(D, D) : order = [n \in D |-> group[p[n]]]
    BY <1>0 DEF Orders
  <1>2. p \in [D -> D] /\ \A t \in D : \E s \in D : p[s] = t
    BY DEF Bijection, Injection, Surjection
  <1>3. order \in Seq(S) /\ Len(order) = Len(group) /\ DOMAIN order = D
    <2>1. \A n \in D : group[p[n]] \in S
      BY <1>0, <1>2
    <2> QED BY <1>0, <1>1, <2>1
  <1> HIDE DEF D
  <1>4. Range(order) = Range(group)
    BY <1>0, <1>1, <1>2, <1>3 DEF Range
  <1> QED BY <1>1, <1>3, <1>4 DEF D

LEMMA MentionsInAnyOrder ==
  ASSUME NEW S, NEW group \in Seq(S), \A e \in S : e.mentions \in Nat, NEW order \in Orders(group)
  PROVE  Mentions(order) = Mentions(group)
PROOF
  <1> DEFINE D == 1 .. Len(group)
  <1>1. order \in Seq(S) /\ Len(order) = Len(group)
    BY OrdersAre
  <1>2. PICK p \in Bijection(D, D) : \A n \in D : order[n] = group[p[n]]
    BY OrdersAre
  <1>3. p \in [D -> D]
    BY DEF Bijection, Injection
  <1>4. \A n \in D : Said(order)[n] = Said(group)[p[n]]
    BY <1>1, <1>2, <1>3 DEF Said
  <1>5. Summable(Said(group), D) /\ Mentions(group) = SumFunctionOnSet(Said(group), D)
    BY MentionsAreSum
  <1>6. Mentions(order) = SumFunctionOnSet(Said(order), D)
    BY <1>1, MentionsAreSum
  <1> HIDE DEF D
  <1>7. SumFunctionOnSet(Said(order), D) = SumFunctionOnSet(Said(group), D)
    BY <1>4, <1>5, SumPermuted
  <1> QED BY <1>5, <1>6, <1>7

-----------------------------------------------------------------------------
(* What items become when they are merged.                                 *)

Observations(N) == UNION {[D -> Nat] : D \in {D \in SUBSET N : "authority" \in D}}

\* What items become when they are merged one after the other.
Drafts(W, N, id) ==
  [raw : W, group : W, name : W, noisy : W, urls : SUBSET W, canonical : SUBSET W,
   aliases : SUBSET W, identifiers : SUBSET W, entity : W, itemId : {id}, adapter : W, origin : W,
   authority : Nat, mentions : Nat, metrics : Observations(N)]

LEMMA MetricsMerge ==
  ASSUME NEW N, NEW k \in Observations(N), NEW m \in Observations(N), NEW authority \in Nat
  PROVE  LET b == [MergeMetrics(k, m) EXCEPT !["authority"] = authority]
         IN /\ b \in Observations(N) /\ DOMAIN b = DOMAIN k \cup DOMAIN m
            /\ b["authority"] = authority
            /\ \A name \in DOMAIN b \ {"authority"} :
                 b[name] = IF name \notin DOMAIN k THEN m[name]
                           ELSE IF name \notin DOMAIN m THEN k[name]
                           ELSE BetterMetric(name, k[name], m[name])
PROOF
  <1> DEFINE D == DOMAIN k \cup DOMAIN m
             c == [name \in D |-> IF name \notin DOMAIN k THEN m[name]
                                  ELSE IF name \notin DOMAIN m THEN k[name]
                                  ELSE BetterMetric(name, k[name], m[name])]
             b == [c EXCEPT !["authority"] = authority]
  <1>1. MergeMetrics(k, m) = c
    BY DEF MergeMetrics
  <1>2. /\ DOMAIN k \in SUBSET N /\ "authority" \in DOMAIN k /\ \A name \in DOMAIN k : k[name] \in Nat
        /\ DOMAIN m \in SUBSET N /\ "authority" \in DOMAIN m /\ \A name \in DOMAIN m : m[name] \in Nat
    BY DEF Observations
  <1>3. \A name \in D : c[name] \in Nat
    BY <1>2 DEF BetterMetric
  <1>4. D \in SUBSET N /\ "authority" \in D
    BY <1>2
  <1>5. /\ b \in [D -> Nat] /\ b["authority"] = authority
        /\ \A name \in D \ {"authority"} : b[name] = c[name]
    <2>1. c \in [D -> Nat]
      BY <1>3
    <2> HIDE DEF c, D
    <2> QED BY <1>4, <2>1
  <1>6. b \in Observations(N)
    <2> HIDE DEF b, D
    <2> QED BY <1>4, <1>5 DEF Observations
  <1>7. DOMAIN b = D
    BY <1>5
  <1>8. \A name \in D \ {"authority"} :
          b[name] = IF name \notin DOMAIN k THEN m[name]
                    ELSE IF name \notin DOMAIN m THEN k[name]
                    ELSE BetterMetric(name, k[name], m[name])
    BY <1>5
  <1> HIDE DEF c, b
  <1> QED BY <1>1, <1>5, <1>6, <1>7, <1>8 DEF b

LEMMA MergeIs ==
  ASSUME NEW W, NEW N, NEW id, NEW l \in Drafts(W, N, id), NEW r \in Drafts(W, N, id)
  PROVE  LET m == MergeItems(l, r)
             authority == IF l.authority >= r.authority THEN l.authority ELSE r.authority
         IN /\ m \in Drafts(W, N, id) /\ m.authority = authority
            /\ m.metrics = [MergeMetrics(l.metrics, r.metrics) EXCEPT !["authority"] = authority]
PROOF
  <1> DEFINE primary == IF Prefers(l, r) THEN l ELSE r
             authority == IF l.authority >= r.authority THEN l.authority ELSE r.authority
             metrics == [MergeMetrics(l.metrics, r.metrics) EXCEPT !["authority"] = authority]
             secondary == IF Prefers(l, r) THEN r ELSE l
             canonical == Signalled(l).canonical \cup Signalled(r).canonical
             identifiers == MergeCanonicalIdentifiers(primary.identifiers, secondary.identifiers)
             urls == l.urls \cup r.urls
             aliases == l.aliases \cup r.aliases
             mentions == l.mentions + r.mentions
             merged == [primary EXCEPT !.canonical = canonical, !.identifiers = identifiers,
                          !.urls = urls, !.aliases = aliases,
                          !.authority = authority, !.metrics = metrics, !.mentions = mentions]
  <1>1. primary \in Drafts(W, N, id) /\ secondary \in Drafts(W, N, id)
    OBVIOUS
  <1>2. l.itemId = id /\ r.itemId = id
    BY DEF Drafts
  <1>3. MergeItems(l, r) = [merged EXCEPT !.itemId = id]
    BY <1>2 DEF MergeItems
  <1>4. authority \in Nat /\ mentions \in Nat
    BY DEF Drafts
  <1>5. /\ canonical \in SUBSET W /\ identifiers \in SUBSET W
        /\ urls \in SUBSET W /\ aliases \in SUBSET W
    <2>1. \A e \in Drafts(W, N, id) : e.identifiers \in SUBSET W /\ Signalled(e).canonical \in SUBSET W
      BY DEF Drafts, Signalled
    <2>2. identifiers \in SUBSET W
      <3> HIDE DEF primary, secondary
      <3> QED BY <1>1, <2>1 DEF MergeCanonicalIdentifiers
    <2>3. canonical \in SUBSET W
      BY <2>1
    <2>4. urls \in SUBSET W /\ aliases \in SUBSET W
      BY DEF Drafts
    <2> QED BY <2>2, <2>3, <2>4
  <1>6. metrics \in Observations(N)
    <2>1. l.metrics \in Observations(N) /\ r.metrics \in Observations(N)
      BY DEF Drafts
    <2> HIDE DEF authority
    <2> QED BY <1>4, <2>1, MetricsMerge
  <1> HIDE DEF primary, secondary, authority, metrics, canonical, identifiers, urls, aliases, mentions
  <1>7. merged \in Drafts(W, N, id) /\ merged.authority = authority /\ merged.metrics = metrics
    BY <1>1, <1>4, <1>5, <1>6 DEF Drafts
  <1>8. ASSUME NEW e \in Drafts(W, N, id)
        PROVE  LET f == [e EXCEPT !.itemId = id]
               IN f \in Drafts(W, N, id) /\ f.authority = e.authority /\ f.metrics = e.metrics
    BY DEF Drafts
  <1> HIDE DEF merged
  <1>9. MergeItems(l, r) \in Drafts(W, N, id) /\ MergeItems(l, r).authority = authority /\ MergeItems(l, r).metrics = metrics
    BY <1>3, <1>7, <1>8
  <1> QED BY <1>9 DEF metrics, authority

\* The best that was observed of any of the items.
MergedFrom(I, m) ==
  /\ \E e \in I : m.authority = e.authority
  /\ \A e \in I : e.authority <= m.authority
  /\ DOMAIN m.metrics = UNION {DOMAIN e.metrics : e \in I}
  /\ \A name \in DOMAIN m.metrics \ {"authority"} :
       /\ \E e \in I : name \in DOMAIN e.metrics /\ m.metrics[name] = e.metrics[name]
       /\ \A e \in I : name \in DOMAIN e.metrics =>
            IF name = "age" THEN m.metrics[name] <= e.metrics[name] ELSE m.metrics[name] >= e.metrics[name]

\* The scoring authority of a merged item is that of the gate.
OneAuthority(m) == m.metrics["authority"] = m.authority

LEMMA MergedWith ==
  ASSUME NEW W, NEW N, NEW id, NEW I \in SUBSET Drafts(W, N, id),
         NEW m \in Drafts(W, N, id), MergedFrom(I, m), NEW x \in Drafts(W, N, id)
  PROVE  /\ MergeItems(m, x) \in Drafts(W, N, id) /\ MergedFrom(I \cup {x}, MergeItems(m, x))
         /\ OneAuthority(MergeItems(m, x))
PROOF
  <1> DEFINE n == MergeItems(m, x)
             authority == IF m.authority >= x.authority THEN m.authority ELSE x.authority
             b == n.metrics
             k == m.metrics
             o == x.metrics
             J == I \cup {x}
  <1>1. /\ n \in Drafts(W, N, id) /\ n.authority = authority
        /\ b = [MergeMetrics(k, o) EXCEPT !["authority"] = authority]
    BY MergeIs
  <1>2. m.authority \in Nat /\ x.authority \in Nat /\ k \in Observations(N) /\ o \in Observations(N)
    BY DEF Drafts
  <1>3. \A e \in I : e.authority \in Nat /\ e.metrics \in Observations(N)
    BY DEF Drafts
  <1>4. authority \in Nat
    BY <1>2
  <1>5. /\ DOMAIN b = DOMAIN k \cup DOMAIN o /\ b["authority"] = authority
        /\ \A name \in DOMAIN b \ {"authority"} :
             b[name] = IF name \notin DOMAIN k THEN o[name]
                       ELSE IF name \notin DOMAIN o THEN k[name]
                       ELSE BetterMetric(name, k[name], o[name])
    <2> HIDE DEF authority, b, k, o
    <2> QED BY <1>1, <1>2, <1>4, MetricsMerge
  <1>6. /\ \E e \in J : authority = e.authority
        /\ \A e \in J : e.authority <= authority
    <2>1. PICK e \in I : m.authority = e.authority
      BY DEF MergedFrom
    <2>2. \A f \in I : f.authority <= m.authority
      BY DEF MergedFrom
    <2>3. \E f \in J : authority = f.authority
      BY <2>1
    <2>4. ASSUME NEW f \in J PROVE f.authority <= authority
      BY <1>2, <1>3, <2>2
    <2> QED BY <2>3, <2>4
  <1>7. \A S \in {k, o} \cup {e.metrics : e \in I} : \A name \in DOMAIN S : S[name] \in Nat
    BY <1>2, <1>3 DEF Observations
  <1>8. DOMAIN k = UNION {DOMAIN e.metrics : e \in I}
    BY DEF MergedFrom
  <1>9. DOMAIN b = UNION {DOMAIN e.metrics : e \in J}
    <2> HIDE DEF b, k
    <2> QED BY <1>5, <1>8
  <1>10. ASSUME NEW name \in DOMAIN b \ {"authority"}
         PROVE  /\ \E e \in J : name \in DOMAIN e.metrics /\ b[name] = e.metrics[name]
                /\ \A e \in J : name \in DOMAIN e.metrics =>
                     IF name = "age" THEN b[name] <= e.metrics[name] ELSE b[name] >= e.metrics[name]
    <2>1. b[name] = IF name \notin DOMAIN k THEN o[name]
                    ELSE IF name \notin DOMAIN o THEN k[name]
                    ELSE BetterMetric(name, k[name], o[name])
      BY <1>5, <1>10
    <2>2. name \in DOMAIN k =>
            /\ \E e \in I : name \in DOMAIN e.metrics /\ k[name] = e.metrics[name]
            /\ \A e \in I : name \in DOMAIN e.metrics =>
                 IF name = "age" THEN k[name] <= e.metrics[name] ELSE k[name] >= e.metrics[name]
      BY <1>10 DEF MergedFrom
    <2>3. name \notin DOMAIN k => \A e \in I : name \notin DOMAIN e.metrics
      <3> HIDE DEF k
      <3> QED BY <1>8
    <2>4. name \in DOMAIN k \/ name \in DOMAIN o
      <3> HIDE DEF k, o, b
      <3> QED BY <1>5, <1>10
    <2>5. /\ name \in DOMAIN k => k[name] \in Nat
          /\ name \in DOMAIN o => o[name] \in Nat
          /\ \A e \in I : name \in DOMAIN e.metrics => e.metrics[name] \in Nat
      BY <1>7
    <2> HIDE DEF b, k
    <2>6. CASE name \notin DOMAIN k
      <3>1. b[name] = o[name] /\ name \in DOMAIN o
        BY <2>1, <2>4, <2>6
      <3> QED BY <2>3, <2>5, <2>6, <3>1
    <2>7. CASE name \in DOMAIN k /\ name \notin DOMAIN o
      <3>1. b[name] = k[name]
        BY <2>1, <2>7
      <3> QED BY <2>2, <2>7, <3>1
    <2>8. CASE name \in DOMAIN k /\ name \in DOMAIN o
      <3>1. b[name] = IF (name = "age") = (k[name] <= o[name]) THEN k[name] ELSE o[name]
        BY <2>1, <2>8 DEF BetterMetric
      <3>2. PICK e \in I : name \in DOMAIN e.metrics /\ k[name] = e.metrics[name]
        BY <2>2, <2>8
      <3>3. \E f \in J : name \in DOMAIN f.metrics /\ b[name] = f.metrics[name]
        BY <2>8, <3>1, <3>2
      <3>4. IF name = "age" THEN b[name] <= k[name] /\ b[name] <= o[name]
            ELSE b[name] >= k[name] /\ b[name] >= o[name]
        BY <2>5, <2>8, <3>1
      <3>5. b[name] \in Nat
        BY <2>5, <2>8, <3>1
      <3>6. ASSUME NEW f \in I, name \in DOMAIN f.metrics
            PROVE  IF name = "age" THEN b[name] <= f.metrics[name] ELSE b[name] >= f.metrics[name]
        <4>1. IF name = "age" THEN k[name] <= f.metrics[name] ELSE k[name] >= f.metrics[name]
          BY <2>2, <2>8, <3>6
        <4>2. k[name] \in Nat /\ f.metrics[name] \in Nat
          BY <2>5, <2>8, <3>6
        <4> QED BY <3>4, <3>5, <4>1, <4>2
      <3> QED BY <3>3, <3>4, <3>6
    <2> QED BY <2>6, <2>7, <2>8
  <1>11. MergedFrom(J, n)
    BY <1>1, <1>6, <1>9, <1>10 DEF MergedFrom
  <1> QED BY <1>1, <1>5, <1>11 DEF OneAuthority

LEMMA MergedUnique ==
  ASSUME NEW W, NEW N, NEW id, NEW I \in SUBSET Drafts(W, N, id),
         NEW m \in Drafts(W, N, id), MergedFrom(I, m), OneAuthority(m),
         NEW n \in Drafts(W, N, id), MergedFrom(I, n), OneAuthority(n)
  PROVE  m.metrics = n.metrics
PROOF
  <1> DEFINE k == m.metrics
             o == n.metrics
  <1>1. k \in Observations(N) /\ o \in Observations(N) /\ m.authority \in Nat /\ n.authority \in Nat
    BY DEF Drafts
  <1>2. DOMAIN k = DOMAIN o
    BY DEF MergedFrom
  <1>3. m.authority = n.authority
    <2>1. PICK e \in I : m.authority = e.authority
      BY DEF MergedFrom
    <2>2. PICK f \in I : n.authority = f.authority
      BY DEF MergedFrom
    <2>3. m.authority <= n.authority /\ n.authority <= m.authority
      BY <2>1, <2>2 DEF MergedFrom
    <2> QED BY <1>1, <2>3
  <1>4. ASSUME NEW name \in DOMAIN k PROVE k[name] = o[name]
    <2>1. CASE name = "authority"
      BY <1>3, <2>1 DEF OneAuthority
    <2>2. CASE name # "authority"
      <3>1. PICK e \in I : name \in DOMAIN e.metrics /\ k[name] = e.metrics[name]
        BY <1>4, <2>2 DEF MergedFrom
      <3>2. PICK f \in I : name \in DOMAIN f.metrics /\ o[name] = f.metrics[name]
        BY <1>2, <1>4, <2>2 DEF MergedFrom
      <3>3. IF name = "age" THEN k[name] <= f.metrics[name] ELSE k[name] >= f.metrics[name]
        BY <1>4, <2>2, <3>2 DEF MergedFrom
      <3>4. IF name = "age" THEN o[name] <= e.metrics[name] ELSE o[name] >= e.metrics[name]
        BY <1>2, <1>4, <2>2, <3>1 DEF MergedFrom
      <3>5. k[name] \in Nat /\ o[name] \in Nat
        BY <1>1, <1>2, <1>4 DEF Observations
      <3> QED BY <3>1, <3>2, <3>3, <3>4, <3>5
    <2> QED BY <2>1, <2>2
  <1>5. k = [name \in DOMAIN k |-> k[name]] /\ o = [name \in DOMAIN o |-> o[name]]
    BY <1>1 DEF Observations
  <1> HIDE DEF k, o
  <1>6. k = o
    BY <1>2, <1>4, <1>5
  <1> QED BY <1>6 DEF k, o

LEMMA ItemsAreDrafts ==
  ASSUME NEW S, NEW id, \A e \in S : IsMember(e) /\ e.itemId = id
  PROVE  \E W, N : S \subseteq Drafts(W, N, id)
PROOF
  <1> DEFINE Parts1(e) == {e.raw, e.group, e.name, e.noisy, e.entity, e.adapter, e.origin}
             Parts2(e) == ((e.urls \cup e.canonical) \cup e.aliases) \cup e.identifiers
             W == (UNION {Parts1(e) : e \in S}) \cup (UNION {Parts2(e) : e \in S})
             N == UNION {DOMAIN e.metrics : e \in S}
  <1> SUFFICES ASSUME NEW e \in S
               PROVE  e \in Drafts(W, N, id)
    OBVIOUS
  <1>1. PICK raw, identifiers, entity, itemId, adapter, authority, mentions, metrics :
          /\ authority \in Nat /\ mentions \in Nat /\ Measured(metrics)
          /\ e = ItemOf(raw, identifiers, entity, itemId, adapter, authority, mentions, metrics)
    BY DEF IsMember
  <1>2. e.authority \in Nat /\ e.mentions \in Nat /\ Measured(e.metrics) /\ e.itemId = id
    BY <1>1, ItemFields
  <1>3. /\ {e.raw, e.group, e.name, e.noisy, e.entity, e.adapter, e.origin} \subseteq W
        /\ e.urls \subseteq W /\ e.canonical \subseteq W /\ e.aliases \subseteq W
        /\ e.identifiers \subseteq W
    <2>1. Parts1(e) \subseteq W /\ Parts2(e) \subseteq W
      <3> HIDE DEF Parts1, Parts2
      <3> QED OBVIOUS
    <2> HIDE DEF W
    <2> QED BY <2>1
  <1>4. e.metrics \in Observations(N)
    <2>1. DOMAIN e.metrics \subseteq N
      OBVIOUS
    <2> HIDE DEF N
    <2> QED BY <1>2, <2>1 DEF Measured, Observations
  <1>5. e = [raw |-> e.raw, group |-> e.group, name |-> e.name, noisy |-> e.noisy, urls |-> e.urls,
             canonical |-> e.canonical, aliases |-> e.aliases, identifiers |-> e.identifiers,
             entity |-> e.entity, itemId |-> e.itemId, adapter |-> e.adapter, origin |-> e.origin,
             authority |-> e.authority, mentions |-> e.mentions, metrics |-> e.metrics]
    <2> DEFINE i == Annotate(Facts[raw])
               o == Facts[raw].origin
    <2>1. e = [raw |-> raw, group |-> i.group, name |-> i.name, noisy |-> i.noisy, urls |-> i.urls,
               canonical |-> i.canonical, aliases |-> i.aliases, identifiers |-> identifiers,
               entity |-> entity, itemId |-> itemId, adapter |-> adapter, origin |-> o,
               authority |-> authority, mentions |-> mentions, metrics |-> metrics]
      BY <1>1 DEF ItemOf
    <2> HIDE DEF i, o
    <2> QED BY <2>1
  <1> HIDE DEF W, N
  <1> QED BY <1>2, <1>3, <1>4, <1>5 DEF Drafts

\* What is merged up to each place of a sequence.
MergedUpTo(first, t, g) ==
  /\ g[0] = first /\ g[Len(t)] = FoldLeft(MergeItems, first, t)
  /\ \A n \in 0 .. Len(t) : n < Len(t) => g[n + 1] = MergeItems(g[n], t[n + 1])

\* The items of a group are merged one after the other.
LEMMA MergeSteps ==
  ASSUME NEW W, NEW N, NEW id, NEW first \in Drafts(W, N, id), NEW t \in Seq(Drafts(W, N, id))
  PROVE  \E g : MergedUpTo(first, t, g)
PROOF
  <1> DEFINE L == Len(t)
             D == 1 .. L
             Merging(h) == h = [U \in SUBSET D |->
                           IF U = {} THEN first ELSE MergeItems(h[U \ {Max(U)}], t[Max(U)])]
             it == CHOOSE h : Merging(h)
             V == Drafts(W, N, id)
             F == [n \in D |-> [v \in V |-> MergeItems(v, t[n])]]
  <1>1. L \in Nat /\ DOMAIN t = D /\ first \in V /\ \A n \in D : t[n] \in V
    <2> HIDE DEF V
    <2>1. t \in Seq(V) /\ first \in V
      BY DEF V
    <2> QED BY <2>1
  <1>2. FoldLeft(MergeItems, first, t) = it[D]
    BY <1>1 DEF FoldLeft, MapThenFoldSet
  <1>3. \A n \in D, v \in V : F[n][v] \in V
    <2> SUFFICES ASSUME NEW n \in D, NEW v \in V
                 PROVE  MergeItems(v, t[n]) \in V
      OBVIOUS
    <2> QED BY <1>1, MergeIs
  <1>4. Merging(it)
    <2> HIDE DEF F, V
    <2>1. PICK h : Folds(first, F, 1 .. L, h) /\ \A U \in SUBSET (1 .. L) : h[U] \in V
      BY <1>1, <1>3, FoldRuns
    <2>2. ASSUME NEW U \in SUBSET D, U # {}
          PROVE  F[Max(U)][h[U \ {Max(U)}]] = MergeItems(h[U \ {Max(U)}], t[Max(U)])
      <3>0. IsFiniteSet(D) /\ D \in SUBSET Int
        BY <1>1, FS_Interval
      <3>1. Max(U) \in D
        <4> HIDE DEF D
        <4>1. IsFiniteSet(U) /\ U \in SUBSET Int
          BY <2>2, <3>0, FS_Subset
        <4> QED BY <2>2, <4>1, MaxFacts
      <3>2. h[U \ {Max(U)}] \in V
        BY <2>1
      <3> QED BY <3>1, <3>2 DEF F
    <2> HIDE DEF D
    <2>3. h = [U \in SUBSET D |-> IF U = {} THEN first ELSE F[Max(U)][h[U \ {Max(U)}]]]
      BY <2>1 DEF Folds, D
    <2>4. Merging(h)
      BY <2>2, <2>3
    <2> QED BY <2>4
  <1> DEFINE g == [n \in 0 .. L |-> it[1 .. n]]
  <1> HIDE DEF it
  <1>5. g[0] = first /\ g[L] = FoldLeft(MergeItems, first, t)
    <2>1. 1 .. 0 = {} /\ {} \in SUBSET D
      OBVIOUS
    <2> QED BY <1>1, <1>2, <1>4, <2>1
  <1>6. ASSUME NEW n \in 0 .. L, n < L
        PROVE  g[n + 1] = MergeItems(g[n], t[n + 1])
    <2> DEFINE U == 1 .. (n + 1)
    <2>1. U \in SUBSET D /\ U # {} /\ n \in Nat /\ n + 1 \in 0 .. L
      <3>1. L \in Nat
        BY <1>1
      <3> HIDE DEF L, F, V, g
      <3>2. n \in Nat /\ n + 1 \in 0 .. L
        BY <1>6, <3>1
      <3>3. U \subseteq D
        BY <3>1, <3>2
      <3>4. 1 \in U
        BY <3>2
      <3> QED BY <3>2, <3>3, <3>4
    <2>2. Max(U) = n + 1 /\ U \ {n + 1} = 1 .. n
      BY <2>1, MaxOfInterval
    <2>3. g[n + 1] = it[U] /\ g[n] = it[1 .. n]
      BY <2>1
    <2> HIDE DEF U, D, g
    <2>4. it[U] = MergeItems(it[U \ {Max(U)}], t[Max(U)])
      BY <1>4, <2>1
    <2> QED BY <2>2, <2>3, <2>4
  <1> HIDE DEF g
  <1> QED BY <1>5, <1>6 DEF L, MergedUpTo

\* What the items of a group become has the best of them.
LEMMA MergedAre ==
  ASSUME NEW W, NEW N, NEW id, NEW first \in Drafts(W, N, id), NEW t \in Seq(Drafts(W, N, id))
  PROVE  LET m == FoldLeft(MergeItems, first, t)
         IN /\ m \in Drafts(W, N, id)
            /\ MergedFrom({first} \cup Range(t), m)
            /\ t # <<>> => OneAuthority(m)
            /\ t = <<>> => m = first
PROOF
  <1>0. PICK g : MergedUpTo(first, t, g)
    BY MergeSteps
  <1> DEFINE L == Len(t)
             V == Drafts(W, N, id)
             Before(n) == {t[m] : m \in 1 .. n}
             Good == {n \in 0 .. L : /\ g[n] \in V /\ Before(n) \subseteq V
                                     /\ MergedFrom({first} \cup Before(n), g[n])
                                     /\ n > 0 => OneAuthority(g[n])}
  <1>1. /\ g[0] = first /\ g[L] = FoldLeft(MergeItems, first, t)
        /\ \A n \in 0 .. L : n < L => g[n + 1] = MergeItems(g[n], t[n + 1])
    BY <1>0 DEF MergedUpTo
  <1>2. /\ L \in Nat /\ Before(0) = {} /\ Before(L) = Range(t)
        /\ \A n \in 0 .. L : n < L =>
             /\ n + 1 \in 0 .. L /\ t[n + 1] \in V
             /\ Before(n + 1) = Before(n) \cup {t[n + 1]}
    <2> HIDE DEF V
    <2>1. t \in Seq(V)
      BY DEF V
    <2> QED BY <2>1, RangeUpTo
  <1>3. (t # <<>> => L > 0) /\ (t = <<>> => L = 0)
    BY <1>2
  <1> HIDE DEF L, Before
  <1>4. 0 \in Good
    <2>1. MergedFrom({first}, first)
      <3>1. first.authority \in Nat /\ first.metrics \in Observations(N)
        BY DEF Drafts
      <3>2. \A name \in DOMAIN first.metrics : first.metrics[name] \in Nat
        BY <3>1 DEF Observations
      <3>3. UNION {DOMAIN e.metrics : e \in {first}} = DOMAIN first.metrics
        OBVIOUS
      <3> QED BY <3>1, <3>2, <3>3 DEF MergedFrom
    <2>2. {first} \cup Before(0) = {first} /\ Before(0) \subseteq V /\ 0 \in 0 .. L
      BY <1>2
    <2>3. g[0] = first /\ first \in V
      BY <1>1
    <2>4. MergedFrom({first} \cup Before(0), g[0])
      BY <2>1, <2>2, <2>3
    <2> HIDE DEF V
    <2> QED BY <2>2, <2>3, <2>4
  <1>5. ASSUME NEW n \in 0 .. L, n < L, n \in Good
        PROVE  n + 1 \in Good
    <2> DEFINE x == t[n + 1]
               I == {first} \cup Before(n)
    <2>1. n + 1 \in 0 .. L /\ x \in V /\ Before(n + 1) = Before(n) \cup {x} /\ n + 1 > 0
      BY <1>2, <1>5
    <2>2. g[n] \in V /\ MergedFrom(I, g[n]) /\ I \in SUBSET V
      BY <1>5
    <2>3. g[n + 1] = MergeItems(g[n], x)
      BY <1>1, <1>5
    <2> HIDE DEF x, I
    <2>4. /\ g[n + 1] \in V /\ MergedFrom(I \cup {x}, g[n + 1])
          /\ OneAuthority(g[n + 1])
      <3>1. x \in V
        BY <2>1
      <3> DEFINE y == g[n]
      <3>2. y \in V /\ MergedFrom(I, y) /\ I \in SUBSET V
        BY <2>2
      <3> HIDE DEF y
      <3>3. /\ MergeItems(y, x) \in V /\ MergedFrom(I \cup {x}, MergeItems(y, x))
            /\ OneAuthority(MergeItems(y, x))
        BY <3>1, <3>2, MergedWith
      <3>4. g[n + 1] = MergeItems(y, x)
        BY <2>3 DEF y
      <3> QED BY <3>3, <3>4
    <2>5. {first} \cup Before(n + 1) = I \cup {x} /\ Before(n + 1) \subseteq V
      <3>1. Before(n) \subseteq V
        BY <2>2 DEF I
      <3> HIDE DEF V
      <3> QED BY <2>1, <3>1 DEF I
    <2> HIDE DEF V
    <2> QED BY <2>1, <2>4, <2>5
  <1>6. L \in Good
    <2> HIDE DEF Good
    <2> QED BY <1>2, <1>4, <1>5, HoldsUpTo
  <1>7. /\ g[L] \in V /\ MergedFrom({first} \cup Range(t), g[L])
        /\ L > 0 => OneAuthority(g[L])
    BY <1>2, <1>6
  <1>8. t = <<>> => g[L] = first
    BY <1>1, <1>3
  <1> QED BY <1>1, <1>3, <1>7, <1>8

LEMMA ConsolidatedIs ==
  ASSUME NEW W, NEW N, NEW id, NEW group \in Seq(Drafts(W, N, id)), group # <<>>
  PROVE  LET c == Consolidate(group)
         IN /\ c.itemId = id /\ c.mentions = Mentions(group)
            /\ IF Len(group) = 1 THEN c.metrics = group[1].metrics
               ELSE \E m \in Drafts(W, N, id) : /\ c.metrics = m.metrics
                                                /\ MergedFrom(Range(group), m)
                                                /\ OneAuthority(m)
PROOF
  <1> DEFINE V == Drafts(W, N, id)
             first == Head(group)
             t == Tail(group)
             m == FoldLeft(MergeItems, first, t)
             said == Mentions(group)
  <1>1. /\ first = group[1] /\ first \in V /\ t \in Seq(V) /\ Range(group) = {first} \cup Range(t)
        /\ Len(group) # 1 => t # <<>>
        /\ Len(group) = 1 => t = <<>>
    <2> HIDE DEF V
    <2>1. group \in Seq(V)
      BY DEF V
    <2>2. /\ Len(group) \in Nat \ {0} /\ DOMAIN group = 1 .. Len(group)
          /\ \A n \in 1 .. Len(group) : group[n] \in V
      BY <2>1
    <2>3. /\ t \in Seq(V) /\ Len(t) = Len(group) - 1 /\ DOMAIN t = 1 .. (Len(group) - 1)
          /\ \A n \in 1 .. (Len(group) - 1) : t[n] = group[n + 1]
      BY <2>1
    <2>4. first = group[1] /\ first \in V
      BY <2>1, <2>2
    <2> HIDE DEF first, t
    <2>5. Range(group) \subseteq {first} \cup Range(t)
      <3> SUFFICES ASSUME NEW n \in 1 .. Len(group)
                   PROVE  group[n] = first \/ \E k \in DOMAIN t : t[k] = group[n]
        BY <2>2 DEF Range
      <3>1. CASE n = 1
        BY <2>4, <3>1
      <3>2. CASE n # 1
        <4>1. n - 1 \in DOMAIN t /\ t[n - 1] = group[n]
          BY <2>2, <2>3, <3>2
        <4> QED BY <4>1
      <3> QED BY <3>1, <3>2
    <2>6. {first} \cup Range(t) \subseteq Range(group)
      <3>1. \A n \in DOMAIN t : n + 1 \in DOMAIN group /\ t[n] = group[n + 1]
        BY <2>2, <2>3
      <3>2. 1 \in DOMAIN group
        BY <2>2
      <3> QED BY <2>4, <3>1, <3>2 DEF Range
    <2>7. Len(group) # 1 => t # <<>>
      BY <2>2, <2>3
    <2>8. Len(group) = 1 => t = <<>>
      BY <2>2, <2>3
    <2> QED BY <2>3, <2>4, <2>5, <2>6, <2>7, <2>8
  <1>2. Consolidate(group) = [m EXCEPT !.mentions = said]
    BY DEF Consolidate
  <1> HIDE DEF first, t, said
  <1>3. /\ m \in V /\ MergedFrom(Range(group), m) /\ (t # <<>> => OneAuthority(m))
        /\ t = <<>> => m = first
    <2>1. first \in V /\ t \in Seq(V)
      BY <1>1
    <2>2. /\ m \in V /\ MergedFrom({first} \cup Range(t), m)
          /\ (t # <<>> => OneAuthority(m)) /\ (t = <<>> => m = first)
      BY <2>1, MergedAre
    <2> HIDE DEF m
    <2> QED BY <1>1, <2>2
  <1> HIDE DEF m
  <1>5. LET c == [m EXCEPT !.mentions = said]
        IN c.itemId = id /\ c.mentions = said /\ c.metrics = m.metrics
    BY <1>3 DEF Drafts
  <1> QED BY <1>1, <1>2, <1>3, <1>5 DEF said

\* A group scores the same in any order.
LEMMA ScoreInAnyOrder ==
  ASSUME NEW W, NEW N, NEW id, NEW group \in Seq(Drafts(W, N, id)), group # <<>>,
         NEW order \in Orders(group)
  PROVE  Score(Consolidate(order)) = Score(Consolidate(group))
PROOF
  <1> DEFINE V == Drafts(W, N, id)
             c == Consolidate(group)
             d == Consolidate(order)
  <1>1. \A e \in V : e.mentions \in Nat
    BY DEF Drafts
  <1>2. group \in Seq(V) /\ Len(group) \in Nat \ {0} /\ Range(group) \subseteq V
    <2> HIDE DEF V
    <2>1. group \in Seq(V)
      BY DEF V
    <2> QED BY <2>1 DEF Range
  <1> HIDE DEF V
  <1>3. /\ order \in Seq(V) /\ Len(order) = Len(group) /\ Range(order) = Range(group)
        /\ Mentions(order) = Mentions(group)
    BY <1>1, <1>2, OrdersAre, MentionsInAnyOrder
  <1>4. order # <<>>
    BY <1>2, <1>3
  <1>5. /\ c.mentions = Mentions(group)
        /\ IF Len(group) = 1 THEN c.metrics = group[1].metrics
           ELSE \E m \in V : /\ c.metrics = m.metrics /\ MergedFrom(Range(group), m)
                             /\ OneAuthority(m)
    BY <1>2, ConsolidatedIs DEF V
  <1>6. /\ d.mentions = Mentions(order)
        /\ IF Len(order) = 1 THEN d.metrics = order[1].metrics
           ELSE \E m \in V : /\ d.metrics = m.metrics /\ MergedFrom(Range(order), m)
                             /\ OneAuthority(m)
    <2>1. order \in Seq(V) /\ order # <<>>
      BY <1>3, <1>4
    <2> HIDE DEF c
    <2> QED BY <2>1, ConsolidatedIs DEF V
  <1> HIDE DEF c, d
  <1>7. d.metrics = c.metrics
    <2>1. CASE Len(group) = 1
      <3>1. order[1] \in Range(order) /\ Range(group) = {group[1]}
        BY <1>2, <1>3, <2>1 DEF Range
      <3> QED BY <1>3, <1>5, <1>6, <2>1, <3>1
    <2>2. CASE Len(group) # 1
      <3>1. PICK m \in V : /\ c.metrics = m.metrics /\ MergedFrom(Range(group), m)
                           /\ OneAuthority(m)
        BY <1>5, <2>2
      <3>2. PICK n \in V : /\ d.metrics = n.metrics /\ MergedFrom(Range(group), n)
                           /\ OneAuthority(n)
        BY <1>3, <1>6, <2>2
      <3>3. m.metrics = n.metrics
        BY <1>2, <3>1, <3>2, MergedUnique DEF V
      <3> QED BY <3>1, <3>2, <3>3
    <2> QED BY <2>1, <2>2
  <1>8. Score(d) = Score(c)
    BY <1>3, <1>5, <1>6, <1>7 DEF Score
  <1> QED BY <1>8 DEF c, d

-----------------------------------------------------------------------------
(* What is published and what is excluded.                                 *)

\* Every group has items, of one id.
LEMMA GroupedAre ==
  ASSUME NEW items, Itemized(items), NEW gate, NEW history
  PROVE  LET K == CandidateGroups(items, gate, history)
         IN /\ \E L \in Nat : DOMAIN K = 1 .. L
            /\ \A n \in DOMAIN K : \E W, N, id :
                 K[n] \in Seq(Drafts(W, N, id)) /\ K[n] # <<>> /\ K[n][1].itemId = id
PROOF
  <1> DEFINE E == EligibleItems(items, gate)
             G == GroupDuplicateItems(E)
             K == CandidateGroups(items, gate, history)
  <1>1. PICK S : E \in Seq(S) /\ \A e \in S : IsItem(e)
    BY EligibleAre
  <1> HIDE DEF E
  <1>2. G \in Seq(Seq(S)) /\ Separate(G)
    BY <1>1, ItemsBothWays, GroupsAre
  <1>3. K = [n \in DOMAIN G |-> Resolve(Cluster(G[n]), history)]
    BY DEF CandidateGroups, E
  <1> HIDE DEF G, K
  <1>4. \E L \in Nat : DOMAIN K = 1 .. L
    <2>1. DOMAIN G = 1 .. Len(G) /\ Len(G) \in Nat
      BY <1>2
    <2> QED BY <1>3, <2>1
  <1>5. ASSUME NEW n \in DOMAIN K
        PROVE  \E W, N, id : K[n] \in Seq(Drafts(W, N, id)) /\ K[n] # <<>> /\ K[n][1].itemId = id
    <2> DEFINE g == G[n]
    <2>1. g \in Seq(S) /\ g # <<>>
      BY <1>2, <1>3, <1>5 DEF Separate
    <2>2. K[n] = Resolve(Cluster(g), history)
      BY <1>3, <1>5
    <2> HIDE DEF g
    <2>3. PICK id : RenamedTo(id, g, K[n])
      BY <1>1, <2>1, <2>2, ClusterAre
    <2> DEFINE T == Range(K[n])
    <2>4. DOMAIN g = 1 .. Len(g) /\ Len(g) \in Nat \ {0} /\ DOMAIN K[n] = DOMAIN g
      BY <2>1, <2>3 DEF RenamedTo
    <2>5. \A e \in T : IsMember(e) /\ e.itemId = id
      <3> SUFFICES ASSUME NEW m \in DOMAIN g
                   PROVE  IsMember(K[n][m]) /\ K[n][m].itemId = id
        BY <2>4 DEF Range
      <3>1. PICK entity, identifiers : K[n][m] = Renamed(g[m], id, entity, identifiers)
        BY <2>3 DEF RenamedTo
      <3>2. IsItem(g[m])
        BY <1>1, <2>1
      <3> QED BY <3>1, <3>2, RenamedIs
    <2> HIDE DEF T
    <2>6. PICK W, N : T \subseteq Drafts(W, N, id)
      BY <2>5, ItemsAreDrafts
    <2>7. \A m \in DOMAIN K[n] : K[n][m] \in T
      BY DEF T, Range
    <2>8. K[n] \in Seq(Drafts(W, N, id)) /\ K[n] # <<>>
      <3> DEFINE k == K[n]
      <3>1. k = [m \in 1 .. Len(g) |-> k[m]]
        BY <2>3, <2>4 DEF RenamedTo
      <3>2. \A m \in 1 .. Len(g) : k[m] \in Drafts(W, N, id)
        BY <2>4, <2>6, <2>7
      <3> HIDE DEF k
      <3>3. k \in Seq(Drafts(W, N, id)) /\ DOMAIN k = 1 .. Len(g)
        BY <2>4, <3>1, <3>2
      <3> QED BY <2>4, <3>3 DEF k
    <2>9. K[n][1] \in T
      BY <2>4, <2>7
    <2> QED BY <2>5, <2>8, <2>9
  <1> QED BY <1>4, <1>5 DEF K

LEMMA CuratedAccounted ==
  ASSUME NEW items, Itemized(items), NEW gate, NEW history,
         outcome = Aggregate(items, CandidateGroups(items, gate, history), gate, history)
  PROVE  EveryItemAccounted
PROOF
  <1> SUFFICES ASSUME phase = "curated"
               PROVE  EveryItemAccounted
    BY DEF EveryItemAccounted
  <1> DEFINE K == CandidateGroups(items, gate, history)
             scored == Scored(K)
             dropped == {[itemId |-> i.itemId, reason |-> "relevance_below_threshold"] :
                           i \in {j \in Range(scored) : ~Keeps(j)}}
             excluded == SourceExclusions(items, gate) \cup dropped
             ids == {e.itemId : e \in excluded}
             I == {i \in Range(scored) : Keeps(i) /\ i.itemId \notin ids}
  <1>1. /\ outcome.fetched = items /\ outcome.approved = gate /\ outcome.groups = K
        /\ outcome.excluded = excluded /\ outcome.items = PublicationItems(scored, excluded)
    BY DEF Aggregate
  <1>2. /\ \E L \in Nat : DOMAIN K = 1 .. L
        /\ \A n \in DOMAIN K : \E W, N, id :
             K[n] \in Seq(Drafts(W, N, id)) /\ K[n] # <<>> /\ K[n][1].itemId = id
    BY GroupedAre
  <1>3. UNION {Members(K[n]) : n \in DOMAIN K} = {i.raw : i \in {j \in Range(items) : AllowItem(j, gate)}}
    <2> HIDE DEF K
    <2> QED BY <1>1, CuratedGroups DEF GroupsAreComponents, K
  <1> HIDE DEF K
  <1>4. \A n \in DOMAIN K : /\ Consolidate(K[n]).itemId = K[n][1].itemId
                            /\ Consolidate(K[n]).mentions = Mentions(K[n])
    BY <1>2, ConsolidatedIs
  <1>5. scored = [n \in DOMAIN K |-> Consolidate(K[n])]
    BY DEF Scored
  <1>6. outcome.items = Picked(scored, I)
    BY <1>1 DEF PublicationItems
  <1>7. Range(outcome.items) = I
    <2>1. scored \in Seq(Range(scored))
      <3>1. PICK L \in Nat : DOMAIN scored = 1 .. L
        BY <1>2, <1>5
      <3>2. scored = [n \in 1 .. L |-> scored[n]]
        BY <1>5, <3>1
      <3>3. \A n \in 1 .. L : scored[n] \in Range(scored)
        BY <3>1 DEF Range
      <3> HIDE DEF scored
      <3> QED BY <3>2, <3>3
    <2>2. I \subseteq Range(scored)
      OBVIOUS
    <2> HIDE DEF scored, I
    <2>3. Range(Picked(scored, I)) = Range(scored) \cap I
      BY <2>1, PickedAre
    <2> QED BY <1>6, <2>2, <2>3
  <1>8. Published = {i.itemId : i \in I} /\ Excluded = ids
    <2> HIDE DEF I, excluded
    <2>1. Published = {i.itemId : i \in Range(outcome.items)}
      BY DEF Published, Range
    <2> QED BY <1>1, <1>7, <2>1 DEF Excluded
  <1>9. Published \cap Excluded = {}
    <2> HIDE DEF ids
    <2> QED BY <1>8
  <1>10. ASSUME NEW i \in Range(items), AllowItem(i, gate)
         PROVE  \E n \in DOMAIN K : i.raw \in Members(K[n]) /\ K[n][1].itemId \in Published \cup Excluded
    <2>1. PICK n \in DOMAIN K : i.raw \in Members(K[n])
      BY <1>3, <1>10
    <2> DEFINE c == Consolidate(K[n])
    <2>2. c.itemId = K[n][1].itemId /\ c \in Range(scored)
      BY <1>4, <1>5 DEF Range
    <2> HIDE DEF c, scored
    <2>3. CASE Keeps(c)
      <3>1. c.itemId \in ids \/ c \in I
        BY <2>2, <2>3
      <3> HIDE DEF I, ids
      <3> QED BY <1>8, <2>1, <2>2, <3>1
    <2>4. CASE ~Keeps(c)
      <3>1. [itemId |-> c.itemId, reason |-> "relevance_below_threshold"] \in excluded
        BY <2>2, <2>4
      <3> HIDE DEF excluded
      <3>2. c.itemId \in ids
        BY <3>1
      <3> HIDE DEF ids
      <3> QED BY <1>8, <2>1, <2>2, <3>2
    <2> QED BY <2>3, <2>4
  <1>11. ASSUME NEW i \in Range(items), ~AllowItem(i, gate)
         PROVE  i.itemId \in Excluded
    <2>1. [itemId |-> i.itemId, reason |-> SourceExclusionReason(i, gate)] \in SourceExclusions(items, gate)
      BY <1>11 DEF SourceExclusions
    <2> HIDE DEF dropped
    <2>2. i.itemId \in ids
      BY <2>1
    <2> HIDE DEF ids
    <2> QED BY <1>8, <2>2
  <1>12. ASSUME NEW n \in DOMAIN outcome.items
         PROVE  \E m \in DOMAIN K : /\ K[m][1].itemId = outcome.items[n].itemId
                                    /\ outcome.items[n].mentions = Mentions(K[m])
    <2>1. outcome.items[n] \in Range(scored)
      <3>1. outcome.items[n] \in Range(outcome.items)
        BY <1>12 DEF Range
      <3>2. I \subseteq Range(scored)
        OBVIOUS
      <3> HIDE DEF I, scored
      <3> QED BY <1>7, <3>1, <3>2
    <2>2. PICK m \in DOMAIN K : outcome.items[n] = Consolidate(K[m])
      BY <1>5, <2>1 DEF Range
    <2> QED BY <1>4, <2>2
  <1>13. ASSUME NEW n \in DOMAIN K, NEW group \in Orders(K[n])
         PROVE  Score(Consolidate(group)) = Score(Consolidate(K[n]))
    BY <1>2, ScoreInAnyOrder
  <1> HIDE DEF scored, excluded, ids, I
  <1> QED BY <1>1, <1>9, <1>10, <1>11, <1>12, <1>13 DEF EveryItemAccounted

\* What is curated is what the adapters gave, whatever the gate and the archive were.
CuratedInv ==
  phase = "curated" =>
    \E items, gate, history :
      /\ Itemized(items)
      /\ outcome = Aggregate(items, CandidateGroups(items, gate, history), gate, history)

LEMMA CuratedInvStep ==
  CollectionInv /\ CuratedInv /\ [Next]_vars => CuratedInv'
PROOF
  <1> SUFFICES ASSUME CollectionInv, CuratedInv, [Next]_vars PROVE CuratedInv'
    OBVIOUS
  <1>1. CASE Fetching
    BY <1>1 DEF Fetching, CuratedInv
  <1>2. CASE FetchFailure
    BY <1>2 DEF FetchFailure, CuratedInv
  <1>3. CASE Curate
    <2>1. \A a \in Adapters : batches[a].items \in Seq(Entries)
      BY DEF CollectionInv, Batches
    <2>2. PICK metrics \in Metrics, history \in SUBSET HistoryItems :
            outcome' = Aggregate(FetchedItems(metrics),
                                 CandidateGroups(FetchedItems(metrics), approved, history),
                                 approved, history)
      BY <1>3 DEF Curate
    <2>3. Itemized(FetchedItems(metrics))
      BY <2>1, FetchedAre
    <2>4. \E items, gate, past :
            /\ Itemized(items)
            /\ outcome' = Aggregate(items, CandidateGroups(items, gate, past), gate, past)
      BY <2>2, <2>3
    <2> QED BY <2>4 DEF CuratedInv
  <1>4. CASE UNCHANGED vars
    BY <1>4 DEF vars, CuratedInv
  <1> QED BY <1>1, <1>2, <1>3, <1>4 DEF Next

LEMMA CuratedInvHolds == Spec => []CuratedInv
PROOF
  <1>1. Init => CuratedInv
    BY DEF Init, CuratedInv
  <1>2. CollectionInv /\ CuratedInv /\ [Next]_vars => (CollectionInv /\ CuratedInv)'
    BY CollectionInvStep, CuratedInvStep
  <1> QED BY <1>1, <1>2, CollectionInvInit, PTL DEF Spec

-----------------------------------------------------------------------------
\* An adapter that answered gives every relevant record that its sources list within
\* the limits, as often as they list it, whatever they refused, whatever failed and
\* in whatever order they answered: the fetchers retry a page without reading it
\* twice and stop after the last one.
THEOREM CollectionWhole == Spec => []WholeOrNothing
PROOF
  <1>1. Spec => []CollectionInv
    BY CollectionInvInit, CollectionInvStep, PTL DEF Spec
  <1>2. CollectionInv => WholeOrNothing
    BY DEF CollectionInv
  <1> QED BY <1>1, <1>2, PTL

\* The groups are the connected parts of the items that pass the source gate: no two
\* of them share an identity, and none falls apart into two that do not.  They are
\* found item by item, an item joining all groups that it matches into one; so what
\* belongs together does not depend on the order in which the adapters answered.
THEOREM GroupsAreTheComponents == Spec => []GroupsAreComponents
PROOF
  <1>1. CuratedInv => GroupsAreComponents
    <2>1. CASE phase = "curated"
      BY <2>1, CuratedGroups DEF CuratedInv
    <2>2. CASE phase # "curated"
      BY <2>2 DEF GroupsAreComponents
    <2> QED BY <2>1, <2>2
  <1> QED BY <1>1, CuratedInvHolds, PTL

\* Every fetched item is published within the item of its group or an exclusion names it,
\* no id is both, and what is published counts every mention of its group once.  The
\* score that decides does not depend on the order in which the adapters answered: the
\* merge keeps the best of each metric and adds the mentions up.
THEOREM ItemsAreAccounted == Spec => []EveryItemAccounted
PROOF
  <1>1. CuratedInv => EveryItemAccounted
    <2>1. CASE phase = "curated"
      BY <2>1, CuratedAccounted DEF CuratedInv
    <2>2. CASE phase # "curated"
      BY <2>2 DEF EveryItemAccounted
    <2> QED BY <2>1, <2>2
  <1> QED BY <1>1, CuratedInvHolds, PTL
=============================================================================
