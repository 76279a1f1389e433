------------------------------ MODULE Storylines ------------------------------
(***************************************************************************)
(* The storylines of the archive (newsletter/storyline.js): what applying  *)
(* an edition's items to the tracked storylines does, which records the    *)
(* edition stores, and how the tracked storylines are built again from the *)
(* stored editions.                                                        *)
(*                                                                         *)
(* Tracked storylines are a Map of the code: S.order has the ids in the    *)
(* order of their insertion, S.at a state per id.  Days stand for          *)
(* timestamps; every item of an edition is dated on the edition's day, and *)
(* is first seen on the day of its first edition.  Titles, narrative types *)
(* and the days a storyline was first seen on, which no decision reads,    *)
(* are left out.                                                           *)
(***************************************************************************)
EXTENDS Integers, Sequences, SequencesExt, FiniteSetsExt, Functions

CONSTANTS
  Ids,       \* ids of items; the storyline of item x is called x as well
  IdOrder,   \* the ids in the order of localeCompare
  None       \* null

ASSUME StorylinesAssumption ==
  /\ IdOrder \in Seq(Ids) /\ IsInjective(IdOrder) /\ Range(IdOrder) = Ids
  /\ None \notin Ids

StableAfter == 2          \* stableAfterEvolutionCount
ArchiveAfterIdle == 7     \* archiveAfterIdleDays
ArchiveAfterStreak == 2   \* archiveAfterRepetitionStreak

Known(S) == Range(S.order)

NoStorylines == [order |-> <<>>, at |-> [id \in Ids |-> None]]

NewStoryline(day) ==
  [members |-> <<>>, parents |-> {}, children |-> {}, merged |-> <<>>, into |-> None,
   last |-> day, status |-> "developing", updated |-> None, lastEvolution |-> None,
   evolutions |-> 0, repetitions |-> 0, streak |-> 0, seen |-> {}]

GetOrCreate(S, id, day) ==
  IF id \in Known(S) THEN S
  ELSE [order |-> Append(S.order, id), at |-> [S.at EXCEPT ![id] = NewStoryline(day)]]

AppendNew(s, x) == IF x \in Range(s) THEN s ELSE Append(s, x)
AppendAll(s, t) == FoldLeft(AppendNew, s, t)

-----------------------------------------------------------------------------
(* The lifecycle of one storyline (storyline-lifecycle.js).                *)

\* Mutant: news do not open an archived storyline again.
StatusStaysArchived(status, evolutions) ==
  IF status = "archived" THEN "archived"
  ELSE IF evolutions >= StableAfter THEN "stable" ELSE "developing"

StatusAfterEvolution(status, evolutions) ==
  IF status # "archived" /\ evolutions >= StableAfter THEN "stable" ELSE "developing"

StatusAfterRepetition(idle, streak, evolutions) ==
  CASE idle > ArchiveAfterIdle -> "archived"
    [] idle <= ArchiveAfterIdle /\ streak >= ArchiveAfterStreak -> "archived"
    [] OTHER -> IF evolutions >= StableAfter THEN "stable" ELSE "developing"

LastEvolution(r) == IF r.lastEvolution = None THEN r.updated ELSE r.lastEvolution

Advance(r, decision, day) ==
  IF decision # "repetition"
  THEN [r EXCEPT !.status = StatusAfterEvolution(@, r.evolutions + 1),
                 !.updated = day, !.lastEvolution = day,
                 !.evolutions = @ + 1, !.streak = 0]
  ELSE LET idle == IF LastEvolution(r) = None THEN ArchiveAfterIdle + 1
                   ELSE day - LastEvolution(r)
       IN [r EXCEPT !.status = StatusAfterRepetition(idle, r.streak + 1, r.evolutions),
                    !.updated = day, !.lastEvolution = LastEvolution(r),
                    !.repetitions = @ + 1, !.streak = @ + 1]

\* A storyline that was merged into another one.
MergedAway(r, day) ==
  IF r.status = "archived" /\ r.into # None /\ r.updated # None THEN r
  ELSE [r EXCEPT !.status = "archived", !.updated = day, !.lastEvolution = LastEvolution(r)]

-----------------------------------------------------------------------------
(* The graph of storylines.                                                *)

\* Mutant: only the child learns of the link.
ConnectOneSided(S, parent, child) ==
  IF parent = child THEN S ELSE [S EXCEPT !.at[child].parents = @ \cup {parent}]

Connect(S, parent, child) ==
  IF parent = child THEN S
  ELSE [S EXCEPT !.at[parent].children = @ \cup {child},
                 !.at[child].parents = @ \cup {parent}]

\* firstSeen is the first day of an item, or None where no date is known.
SortMembers(members, firstSeen, fallback) ==
  LET date(x) == IF firstSeen[x] = None THEN fallback ELSE firstSeen[x]
      days == {date(x) : x \in Range(members)}
  IN FlattenSeq([n \in 1 .. Cardinality(days) |->
                   SelectSeq(members, LAMBDA x : date(x) = SetToSortSeq(days, <)[n])])

MergeMembers(S, target, source, firstSeen) ==
  LET t == S.at[target]
      s == S.at[source]
      last == Max({t.last, s.last})
  IN [S EXCEPT !.at[target] =
        [@ EXCEPT !.members = SortMembers(AppendAll(t.members, s.members), firstSeen, last),
                  !.last = last, !.seen = @ \cup s.seen]]

NoDates == [x \in Ids |-> None]

\* day is None where the lifecycle is not to be applied.
SynchronizeMerged(S, id, source, day) ==
  LET T == MergeMembers(Connect(S, source, id), id, source, NoDates)
  IN [T EXCEPT !.at[source] =
        LET r == [@ EXCEPT !.into = id] IN IF day = None THEN r ELSE MergedAway(r, day)]

SynchronizeTarget(S, id, target, day) ==
  LET T == [Connect(S, id, target) EXCEPT
              !.at[target].merged = IF id = target THEN @ ELSE AppendNew(@, id)]
  IN [MergeMembers(T, target, id, NoDates) EXCEPT
        !.at[id] = IF day = None THEN @ ELSE MergedAway(@, day)]

FollowMerge(S, id, day) ==
  IF S.at[id].into \in Known(S) THEN SynchronizeTarget(S, id, S.at[id].into, day) ELSE S

SynchronizeOne(S, id, day) ==
  LET r == S.at[id]
      linked == FoldSet(LAMBDA p, T : Connect(T, p, id), S, r.parents \cap Known(S))
      spread == FoldSet(LAMBDA c, T : Connect(T, id, c), linked, r.children \cap Known(S))
      merged == FoldLeft(LAMBDA T, m : SynchronizeMerged(T, id, m, day), spread,
                         SelectSeq(r.merged, LAMBDA m : m \in Known(S)))
  IN FollowMerge(merged, id, day)

Synchronize(S, day) == FoldLeft(LAMBDA T, id : SynchronizeOne(T, id, day), S, S.order)

\* The walk along mergedInto ends at a storyline it has seen.
Canonical(S, id) ==
  LET next(x) == IF x \in Known(S) THEN S.at[x].into ELSE None
      hop(walk, n) == IF walk.at \in walk.seen \/ next(walk.at) \in {None, walk.at} THEN walk
                      ELSE [at |-> next(walk.at), seen |-> walk.seen \cup {walk.at}]
  IN FoldLeft(hop, [at |-> id, seen |-> {}], IdOrder).at

-----------------------------------------------------------------------------
(* Applying an edition's items.  An item has its item id, its raw id, the  *)
(* storyline that the pipeline's annotation names, and what the classifier *)
(* would say of it next to earlier appearances.  tracked has the published *)
(* items, with their storyline and their first day.  A member was          *)
(* published, so that it is tracked: the search for untracked items among  *)
(* the members finds nothing and is left out, as is the one by topic for   *)
(* items that no pipeline annotated.                                       *)

Previous(S, tracked, x) ==
  IF tracked[x] = None THEN None ELSE Canonical(S, tracked[x].storyline)

\* Mutant: the annotation's storyline is taken although it was merged away.
AssignedUnfollowed(S, item) == item.explicit

Assigned(S, item) == Canonical(S, item.explicit)

Relationship(r, tracked, item) ==
  IF \/ r.seen # {}
     \/ \E x \in Range(r.members) \cup {item.item} : tracked[x] # None
  THEN IF item.fresh THEN "evolution" ELSE "repetition"
  ELSE "origin"

\* A mere repetition of what the storyline has of this item adds no member.
Retains(r, tracked, item, decision) ==
  \/ item.item \in Range(r.members)
  \/ decision # "repetition"
  \/ tracked[item.item] = None /\ item.item \notin r.seen

\* One item joins storyline id of T; log has what the groups are reconciled from.
Join(T, log, item, tracked, id, previous, day) ==
  LET decision == Relationship(T.at[id], tracked, item)
      retained == Retains(T.at[id], tracked, item, decision)
  IN [S |-> [T EXCEPT !.at[id] =
               [@ EXCEPT !.members = IF retained THEN AppendNew(@, item.item) ELSE @,
                         !.last = Max({@, day}), !.seen = @ \cup {item.item}]],
      log |-> Append(log, [item |-> item.item, raw |-> item.raw, explicit |-> item.explicit,
                           id |-> id, decision |-> decision, previous |-> previous])]

Assign(W, item, tracked, day) ==
  LET id == Assigned(W.S, item)
  IN Join(GetOrCreate(W.S, id, day), W.log, item, tracked, id,
          Previous(W.S, tracked, item.item), day)

Merge(S, target, source, firstSeen, day) ==
  LET T == [Connect(S, source, target) EXCEPT !.at[target].merged = AppendNew(@, source)]
      U == MergeMembers(T, target, source, firstSeen)
  IN [U EXCEPT !.at[source] = MergedAway([@ EXCEPT !.into = target], day)]

EditionDecision(group) ==
  LET decisions == {e.decision : e \in Range(group)} IN
  CASE "origin" \in decisions -> "origin"
    [] "origin" \notin decisions /\ "evolution" \in decisions -> "evolution"
    [] OTHER -> "repetition"

\* A new storyline with one source is its fork; otherwise the sources are merged.
ReconcileGroup(S, id, log, before, firstSeen, day) ==
  LET group == SelectSeq(log, LAMBDA e : e.id = id)
      previous == FoldLeft(LAMBDA s, e : IF e.previous = None THEN s ELSE AppendNew(s, e.previous),
                           <<>>, group)
      sources == SelectSeq(previous, LAMBDA p : p # id)
      forks == id \notin before /\ id \notin Range(previous) /\ Len(sources) = 1
      known == SelectSeq(sources, LAMBDA p : p \in Known(S))
      T == IF forks THEN FoldLeft(LAMBDA U, p : Connect(U, p, id), S, known)
           ELSE FoldLeft(LAMBDA U, p : Merge(U, id, p, firstSeen, day), S, known)
      decision == CASE sources = <<>> -> EditionDecision(group)
                    [] sources # <<>> /\ forks -> "fork"
                    [] OTHER -> "merge"
  IN [T EXCEPT !.at[id] = Advance(@, decision, day)]

FirstSeen(tracked) == [x \in Ids |-> IF tracked[x] = None THEN None ELSE tracked[x].first]

\* Mutant: the index, which counts from 0.
IndexOf(members, x) == SelectInSeq(members, LAMBDA y : y = x) - 1

\* 0 for an item that is no member.
Position(members, x) == SelectInSeq(members, LAMBDA y : y = x)

AssignAll(S, tracked, items, day) ==
  FoldLeft(LAMBDA W, item : Assign(W, item, tracked, day), [S |-> S, log |-> <<>>], items)

Reconcile(S, assigned, tracked, day) ==
  LET groups == FoldLeft(LAMBDA ids, e : AppendNew(ids, e.id), <<>>, assigned.log)
  IN FoldLeft(LAMBDA T, id : ReconcileGroup(T, id, assigned.log, Known(S), FirstSeen(tracked), day),
              assigned.S, groups)

\* The items with the state of the storyline they were assigned; of items with one id
\* the last one's counts.  The item's own storyline stays the one that the pipeline
\* named, also when that was merged away: createNormalizedItem puts the ids that an
\* item has before the one it is given, and the first of them is its storyline.
Annotated(log, final) ==
  [n \in 1 .. Len(log) |->
     LET e == log[n]
         id == log[SelectLastInSeq(log, LAMBDA other : other.item = e.item)].id
         r == final.at[id]
     IN [item |-> e.item, raw |-> e.raw, storyline |-> e.explicit, assigned |-> id,
         decision |-> e.decision, position |-> Position(r.members, e.item), meta |-> r]]

ApplyAssigned(S, assigned, tracked, day) ==
  LET final == Synchronize(Reconcile(S, assigned, tracked, day), day)
  IN [S |-> final, items |-> Annotated(assigned.log, final)]

\* What applying the items computes: the states and the items.
Apply(S, tracked, items, day) ==
  ApplyAssigned(S, AssignAll(S, tracked, items, day), tracked, day)

-----------------------------------------------------------------------------
(* What the edition stores, and the storylines built from it again.        *)

MergeLineage(r, meta, id) ==
  [r EXCEPT !.parents = @ \cup (meta.parents \ {id}),
            !.children = @ \cup (meta.children \ {id}),
            !.merged = AppendAll(@, SelectSeq(meta.merged, LAMBDA m : m # id)),
            !.into = IF meta.into \in {None, id} THEN @ ELSE meta.into]

\* Mutant: a streak that ended is left out, as it is in a record.
TakeLifecycleKeepingStreak(r, meta) ==
  [r EXCEPT !.status = meta.status, !.updated = meta.updated,
            !.lastEvolution = meta.lastEvolution, !.evolutions = meta.evolutions,
            !.repetitions = meta.repetitions,
            !.streak = IF meta.streak = 0 THEN @ ELSE meta.streak]

TakeLifecycle(r, meta) ==
  [r EXCEPT !.status = meta.status, !.updated = meta.updated,
            !.lastEvolution = meta.lastEvolution, !.evolutions = meta.evolutions,
            !.repetitions = meta.repetitions, !.streak = meta.streak]

\* The members that an item brings: those of its metadata, or itself where that has none.
MembersOf(item) ==
  IF item.meta.members = <<>> /\ item.decision # "repetition" THEN <<item.item>>
  ELSE item.meta.members

TakeItem(S, item, day) ==
  LET T == GetOrCreate(S, item.storyline, day) IN
  [T EXCEPT !.at[item.storyline] =
     [MergeLineage(@, item.meta, item.storyline) EXCEPT
        !.status = item.meta.status, !.members = AppendAll(@, MembersOf(item)),
        !.last = Max({@, item.meta.last, day})]]

\* An item stands where a record says, or is a repetition that is no member.
Fits(r, item) ==
  LET position == Position(r.members, item.item) IN
  IF position = 0 THEN item.decision = "repetition" /\ item.position = 0
  ELSE item.position \in {0, position}

Consistent(r, id, items) ==
  LET linked == {item \in Range(items) : item.storyline = id} IN
  linked # {} /\ \A item \in linked : Fits(r, item)

\* The records of the edition, in the order of their ids.
Records(final, items) ==
  [order |-> SelectSeq(IdOrder, LAMBDA id :
               /\ id \in Known(final) /\ final.at[id].members # <<>>
               /\ Consistent(final.at[id], id, items)),
   at |-> final.at]

\* S is what was tracked before the edition.
EditionStorylines(S, items, day) ==
  LET taken == FoldLeft(LAMBDA T, item :
                 [TakeItem(T, item, day) EXCEPT
                    !.at[item.storyline] = TakeLifecycle(@, item.meta)], S, items)
  IN Records(Synchronize(taken, None), items)

\* createNewsletterEdition refuses an edition with records if an item's storyline has
\* none, if an item does not fit the record, or if two items are members in another
\* order than the one in which they were first seen.
Valid(edition, firstSeen) ==
  \/ edition.storylines.order = <<>>
  \/ LET place(item) == Position(edition.storylines.at[item.storyline].members, item.item) IN
     /\ \A item \in Range(edition.items) :
          item.storyline \in Known(edition.storylines) /\ Fits(edition.storylines.at[item.storyline], item)
     /\ \A a, b \in Range(edition.items) :
          a.storyline = b.storyline /\ 0 \notin {place(a), place(b)} /\ place(a) < place(b)
            => firstSeen[a.item] <= firstSeen[b.item]

\* A record leaves out what is empty or zero, and what it leaves out stays as it
\* was; appearances are not recorded.
TakeRecord(S, id, record, day) ==
  LET old == S.at[id]
      T == IF id \in Known(S) THEN S
           ELSE [order |-> Append(S.order, id), at |-> [S.at EXCEPT ![id] = NewStoryline(0)]]
      orOld(value, empty, field(_)) ==
        IF value = empty /\ old # None THEN field(old) ELSE value
  IN [T EXCEPT !.at[id] =
       [@ EXCEPT !.status = record.status,
                 !.members = AppendAll(@, record.members),
                 !.updated = orOld(record.updated, None, LAMBDA r : r.updated),
                 !.lastEvolution = orOld(record.lastEvolution, None, LAMBDA r : r.lastEvolution),
                 !.evolutions = orOld(record.evolutions, 0, LAMBDA r : r.evolutions),
                 !.repetitions = orOld(record.repetitions, 0, LAMBDA r : r.repetitions),
                 !.streak = orOld(record.streak, 0, LAMBDA r : r.streak),
                 !.parents = orOld(record.parents, {}, LAMBDA r : r.parents),
                 !.children = orOld(record.children, {}, LAMBDA r : r.children),
                 !.merged = orOld(record.merged, <<>>, LAMBDA r : r.merged),
                 !.into = orOld(record.into, None, LAMBDA r : r.into),
                 !.seen = {}]]

\* One stored edition is absorbed: its records, its items, and of every group
\* the lifecycle that its last item carries (the flow's items all carry one).
Absorb(S, edition, day) ==
  LET recorded == FoldLeft(LAMBDA T, id : TakeRecord(T, id, edition.storylines.at[id], day),
                           S, edition.storylines.order)
      taken == FoldLeft(LAMBDA T, item :
                 [TakeItem(T, item, day) EXCEPT !.at[item.storyline].seen = @ \cup {item.item}],
                 recorded, edition.items)
      settled == FoldLeft(LAMBDA T, item :
                   [T EXCEPT !.at[item.storyline] =
                      MergeLineage(TakeLifecycle(@, item.meta), item.meta, item.storyline)],
                   taken, edition.items)
  IN Synchronize(settled, day)

-----------------------------------------------------------------------------
(* The active storylines (storyline-index.js).                             *)

ActiveStorylines(S, tracked) ==
  {id \in Known(S) : /\ S.at[id].status # "archived"
                     /\ \E x \in Range(S.at[id].members) : tracked[x] # None}
=============================================================================
