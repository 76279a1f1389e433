--------------------------- MODULE EditionReaders ---------------------------
(***************************************************************************)
(* What the reads of the published editions answer at a moment: the latest *)
(* edition, the rolling history, the lifecycle of an item, the reference   *)
(* index of items that aged out of the history, and the item counts the    *)
(* next publication starts from.  The file store, the database store and   *)
(* the snapshot repository answer alike.                                   *)
(***************************************************************************)
EXTENDS Integers, FiniteSetsExt, SequencesExt

CONSTANTS
  Items,             \* stable item identities
  Category,          \* the category of an item
  Rank,              \* the place of an item in the order of the names (equal
                     \* names: of the editions, which list an item once)
  Window,            \* how long the history goes back (days)
  MinEditions,       \* editions an item of the reference index was in
  MinClusters,       \* independent source clusters of such an item
  RelaxedClusters,   \* clusters of the one item a scarce category may have instead
  MinScore,          \* relevance score of an item of the reference index
  MinActiveSources,  \* active sources a category should have
  None               \* no value

Categories == {Category[i] : i \in Items}

ASSUME EditionReadersAssumption ==
  /\ IsFiniteSet(Items)
  /\ Rank \in [Items -> Nat] /\ \A i, j \in Items : Rank[i] = Rank[j] => i = j
  /\ {Window, MinEditions, MinClusters, RelaxedClusters, MinActiveSources} \subseteq Nat \ {0}
  /\ RelaxedClusters <= MinClusters
  /\ MinScore \in Nat

(***************************************************************************)
(* An archive maps a publication time to its edition or to None, and an    *)
(* edition maps an item to what it says of it or to None.                  *)
(***************************************************************************)

Published(archive, now) == {s \in DOMAIN archive : archive[s] # None /\ s <= now}

AppearancesIn(archive, i, S) == {s \in S : archive[s][i] # None}

Latest(archive, now) ==
  LET S == Published(archive, now) IN IF S = {} THEN None ELSE Max(S)

History(archive, now) == {s \in Published(archive, now) : s > now - Window}

\* Takes the editions of some times one after the other, the oldest first.
Chronologically(step(_, _), start, S) ==
  MapThenFoldSet(step, start, LAMBDA s : s, LAMBDA T : Max(T), S)

TrackEditions(archive, S) ==
  Chronologically(LAMBDA s, counts :
                    [i \in Items |-> IF archive[s][i] = None THEN counts[i]
                                     ELSE Max({archive[s][i].count, counts[i] + 1})],
                  [i \in Items |-> 0], S)

\* Mutant: only the editions of the history are tracked.
TrackedRecently(archive, before) ==
  TrackEditions(archive, {s \in History(archive, before) : s < before})

\* In how many editions before a time each item has been.
Tracked(archive, before) ==
  TrackEditions(archive, {s \in Published(archive, before) : s < before})

Lifecycle(archive, i, now) ==
  LET A == AppearancesIn(archive, i, Published(archive, now))
  IN IF A = {} THEN None
     ELSE [first |-> Min(A), last |-> Max(A),
           count |-> Max({archive[s][i].count : s \in A} \cup {Cardinality(A)})]

(***************************************************************************)
(* The reference index: the items that aged out of the history, as their   *)
(* last edition has them.                                                  *)
(***************************************************************************)

RecentItems(archive, now) ==
  {i \in Items : \E s \in Published(archive, now) : s > now - Window /\ archive[s][i] # None}

Aged(archive, now) ==
  {i \in Items : AppearancesIn(archive, i, Published(archive, now)) # {}} \ RecentItems(archive, now)

LastOf(archive, i, now) ==
  LET s == Max(AppearancesIn(archive, i, Published(archive, now)))
      item == archive[s][i]
  IN [clusters |-> item.clusters, score |-> item.score, count |-> item.count, at |-> s]

Persistent(facts) == facts.count >= MinEditions /\ facts.score >= MinScore

Corroborated(facts) == facts.clusters >= MinClusters

FallbackEligible(facts) ==
  Persistent(facts) /\ facts.clusters >= RelaxedClusters /\ ~Corroborated(facts)

\* compareReferenceItems: by score, editions, time of the last one and name.
Precedes(archive, now, i, j) ==
  LET x == LastOf(archive, i, now)
      y == LastOf(archive, j, now)
  IN \/ x.score > y.score
     \/ x.score = y.score /\ x.count > y.count
     \/ x.score = y.score /\ x.count = y.count /\ x.at > y.at
     \/ x.score = y.score /\ x.count = y.count /\ x.at = y.at /\ Rank[i] < Rank[j]

StrictItems(archive, now) ==
  {i \in Aged(archive, now) : LET f == LastOf(archive, i, now) IN Persistent(f) /\ Corroborated(f)}

\* The one item of a category that has no better.
Fallbacks(archive, now, c) ==
  LET S == {i \in Aged(archive, now) : Category[i] = c /\ FallbackEligible(LastOf(archive, i, now))}
  IN {i \in S : \A j \in S \ {i} : Precedes(archive, now, i, j)}

ReferenceItems(archive, now, scarce) ==
  LET strict == StrictItems(archive, now)
  IN strict \cup UNION {Fallbacks(archive, now, c) : c \in scarce \ {Category[i] : i \in strict}}

\* resolveSourceCoverageStatus, by the number of active sources.
CoverageStatus(n) ==
  IF n = 0 THEN "uncovered" ELSE IF n < MinActiveSources THEN "underrepresented" ELSE "covered"

Underrepresented(active) ==
  {c \in Categories : CoverageStatus(active[c]) = "underrepresented"}
=============================================================================
