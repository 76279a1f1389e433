--------------------------- MODULE StorylineArchive ---------------------------
(***************************************************************************)
(* Editions are published one after the other.  Each publication builds    *)
(* the tracked items and the tracked storylines from the editions before   *)
(* it, resolves its items against them, applies them and stores the        *)
(* edition, unless the edition is refused; readers build the storylines    *)
(* from the archive again.  As the archive is folded from its oldest       *)
(* edition on, what was built from it stands for it.                       *)
(***************************************************************************)
EXTENDS StorylineResponses

CONSTANTS
  Gaps,          \* days between two editions
  MaxPerEdition, \* bound on the items of an edition
  MaxItems,      \* bound on the items of all editions
  MaxEditions,   \* bound on the editions
  Horizon        \* bound on the days

ASSUME StorylineArchiveAssumption ==
  /\ Gaps \subseteq Nat \ {0}
  /\ {MaxPerEdition, MaxItems, MaxEditions, Horizon} \subseteq Nat \ {0}

HistoryDays == 7   \* loadHistory of the pipeline

VARIABLES
  day,        \* the day of the latest edition
  editions,   \* the number of editions
  tracked,    \* the published items: their storyline, raw id, number of editions and days
  states,     \* the storylines built from the archive
  applied,    \* the storylines the latest publication computed
  latest,     \* the items of the latest edition
  refused     \* the items of the edition that was refused since, if one was

vars == <<day, editions, tracked, states, applied, latest, refused>>

Init ==
  /\ day = 0 /\ editions = 0
  /\ tracked = [x \in Ids |-> None]
  /\ states = NoStorylines /\ applied = NoStorylines
  /\ latest = <<>> /\ refused = <<>>

Published == {x \in Ids : tracked[x] # None}

\* ItemResolutionService: an item is the published item that it has an id in common
\* with, of several the one of the most and then of the latest editions; without
\* one it is any published item it is like, or a new one.
Resolved(candidates, itemId, raw) ==
  LET direct == {x \in candidates : {x, tracked[x].raw} \cap {itemId, raw} # {}}
      before(x, y) == \/ tracked[x].count > tracked[y].count
                      \/ tracked[x].count = tracked[y].count /\ tracked[x].last >= tracked[y].last
      best == {x \in direct : \A y \in direct : before(x, y)}
  IN IF direct = {} THEN candidates \cup {itemId}
     ELSE {SelectSeq(IdOrder, LAMBDA x : x \in best)[1]}

\* The pipeline resolves an item against the editions of the last days.
Historical(raw, today) ==
  Resolved({x \in Published : today - tracked[x].last < HistoryDays}, raw, raw)

\* The pipeline names an item's storyline after the id it found; the flow resolves
\* that item against everything that was published.
Candidates(today) ==
  UNION {UNION {[item : Resolved(Published, q, r), raw : {r}, explicit : {q}, fresh : BOOLEAN] :
                  q \in Historical(r, today)} : r \in Ids}

ItemsPublished == FoldSet(LAMBDA x, n : n + tracked[x].count, 0, Published)

\* The tracked items after an edition (loadTrackedItemStates).
Track(t, items, today) ==
  FoldLeft(LAMBDA u, e :
    [u EXCEPT ![e.item] =
       IF @ = None
       THEN [storyline |-> e.storyline, raw |-> e.raw, count |-> 1, first |-> today, last |-> today]
       ELSE [@ EXCEPT !.storyline = e.storyline, !.raw = e.raw, !.count = @ + 1, !.last = today]],
    t, items)

\* The edition that is made of what applying the items to the tracked storylines computed.
EditionOf(result, today) ==
  [items |-> result.items, storylines |-> EditionStorylines(states, result.items, today)]

\* The days on which the items of an edition were first seen.
SeenSince(today) == [x \in Ids |-> IF tracked[x] = None THEN today ELSE tracked[x].first]

StoreEdition(result, edition, today) ==
  /\ applied' = result.S
  /\ latest' = edition.items
  /\ states' = Absorb(states, edition, today)
  /\ tracked' = Track(tracked, edition.items, today)
  /\ day' = today /\ editions' = editions + 1
  /\ refused' = <<>>

\* createNewsletterEdition throws before the store has written anything.
RefuseEdition(edition) ==
  /\ refused' = edition.items
  /\ UNCHANGED <<day, editions, tracked, states, applied, latest>>

Publish ==
  /\ refused = <<>> /\ editions < MaxEditions
  /\ \E gap \in Gaps, n \in 1 .. MaxPerEdition :
       /\ ItemsPublished + n <= MaxItems /\ day + gap <= Horizon
       /\ \E items \in [1 .. n -> Candidates(day + gap)] :
            /\ IsInjective([i \in 1 .. n |-> items[i].raw])
            /\ \E result \in {Apply(states, tracked, items, day + gap)} :
               \E edition \in {EditionOf(result, day + gap)} :
                 IF Valid(edition, SeenSince(day + gap))
                 THEN StoreEdition(result, edition, day + gap)
                 ELSE RefuseEdition(edition)

\* The publication fails, and the next one starts from what is stored.
Throw ==
  /\ refused # <<>> /\ refused' = <<>>
  /\ UNCHANGED <<day, editions, tracked, states, applied, latest>>

Next == Publish \/ Throw

Spec == Init /\ [][Next]_vars

-----------------------------------------------------------------------------
StorylineOK(r) ==
  /\ r.members \in Seq(Ids) /\ IsInjective(r.members)
  /\ r.parents \subseteq Ids /\ r.children \subseteq Ids
  /\ r.merged \in Seq(Ids) /\ r.into \in Ids \cup {None}
  /\ r.status \in {"developing", "stable", "archived"}
  /\ {r.evolutions, r.repetitions, r.streak, r.last} \subseteq Nat
  /\ {r.updated, r.lastEvolution} \subseteq Nat \cup {None}

TypeOK ==
  /\ \A S \in {states, applied} :
       /\ IsInjective(S.order)
       /\ \A id \in Ids : IF id \in Known(S) THEN StorylineOK(S.at[id]) ELSE S.at[id] = None
  /\ \A x \in Published : tracked[x].storyline \in Known(states)

\* The links of the storylines that readers see agree from both ends: a parent
\* knows its children and they know it, and what was merged names its target.
LineageSymmetric ==
  \A p, c \in Known(states) :
    /\ c \in states.at[p].children <=> p \in states.at[c].parents
    /\ states.at[p].into = c <=> p \in Range(states.at[c].merged)

\* No storylines were merged into one another: following what a storyline was merged
\* into ends.
MergesEnd ==
  \A C \in (SUBSET Known(states)) \ {{}} : \E id \in C : states.at[id].into \notin C

Lifecycle(r) == <<r.status, r.updated, r.lastEvolution, r.evolutions, r.repetitions, r.streak>>

\* Every item of the latest edition has an id of its own.
DistinctItems == IsInjective([n \in 1 .. Len(latest) |-> latest[n].item])

\* A step stores an edition none of whose items names a storyline that was merged away.
Straight ==
  /\ editions' # editions
  /\ DistinctItems'
  /\ \A item \in Range(latest') : item.storyline = item.assigned

\* What a reader builds from the stored edition is what its publication computed:
\* the storylines, their members, links and lifecycles.
Rebuilt ==
  /\ Known(applied) = Known(states)
  /\ \A id \in Known(applied) :
       LET a == applied.at[id]
           s == states.at[id]
       IN /\ Lifecycle(a) = Lifecycle(s)
          /\ Range(a.members) = Range(s.members)
          /\ <<a.parents, a.children, Range(a.merged), a.into>> =
             <<s.parents, s.children, Range(s.merged), s.into>>

\* Readers rebuild what the publication of a straight edition computed, although records
\* drop zeros, empty lists and inconsistent storylines, and whatever editions came before.
RebuildAgrees == [][Straight /\ MergesEnd => Rebuilt']_vars

\* An item of the latest edition that is news stands in a storyline that readers
\* find among the active ones.
NewsIsActive ==
  \A n \in 1 .. Len(latest) :
    latest[n].decision # "repetition" =>
      \E id \in ActiveStorylines(states, tracked) : latest[n].item \in Range(states.at[id].members)

\* The items that leave a storyline for another one, and the merges that those of a
\* step's edition bring about: a new storyline with one source is a fork.
MovesOf(items) ==
  {m \in {[from |-> Previous(states, tracked, item.item), to |-> item.assigned] : item \in Range(items)} :
     m.from \notin {None, m.to}}
Merges ==
  {m \in MovesOf(latest') :
     m.to \in Known(states) \/ \E n \in MovesOf(latest') : n.to = m.to /\ n.from # m.from}

\* The step's edition is straight, no storyline is merged into two, and no storylines
\* are merged into one another.
MergesApart ==
  /\ Straight
  /\ \A m, n \in Merges : m.from = n.from => m.to = n.to
  /\ \A M \in (SUBSET Merges) \ {{}} : \E m \in M : \A n \in M : m.to # n.from

\* An edition whose merges are apart leaves the links of the storylines agreeing
\* from both ends, however its items fork, merge and archive them.
LineageStays == [][MergesApart /\ LineageSymmetric => LineageSymmetric']_vars

\* Such an edition closes no circle of merges: readers who follow what a storyline was
\* merged into arrive.
MergesStayEnding == [][MergesApart /\ LineageSymmetric /\ MergesEnd => MergesEnd']_vars

\* Whatever of such an edition is news, readers find in a storyline among the active
\* ones, though storylines were archived before it and by it.
NewsBecomesActive == [][MergesApart /\ LineageSymmetric /\ MergesEnd => NewsIsActive']_vars

\* The members of the storylines stand in the order in which they were first seen.
MembersInOrder ==
  \A id \in Known(states) :
    LET members == states.at[id].members IN
    \A i, j \in 1 .. Len(members) : i < j => tracked[members[i]].first <= tracked[members[j]].first

\* The store refuses an edition only if one of its items leaves a storyline for another
\* one, names a storyline that was merged away, or repeats what a storyline without
\* members has, or if a merge left members that are out of order: otherwise the
\* positions and the order of the members that the flow computes are those that
\* createNewsletterEdition asks for.
RefusalsExplained ==
  [][MembersInOrder /\ refused' # <<>> =>
      \/ MovesOf(refused') # {}
      \/ \E item \in Range(refused') :
           item.storyline # item.assigned \/ item.meta.members = <<>>]_vars

\* The edition that a step stores.
LatestEdition ==
  [items |-> latest', storylines |-> EditionStorylines(states, latest', day')]

\* The repetitions of a storyline in that edition.
Repeated(id) ==
  {item.item : item \in {x \in Range(latest') : x.storyline = id /\ x.decision = "repetition"}}

\* The answers of the API agree on the storylines of a straight edition.  Its contexts,
\* merged from the records and from what the items carry, have the links, counters and
\* status of the storylines that readers build from the archive, and their members and
\* beside them only repetitions of this edition; those not archived are listed as
\* active once they have a member; and what is said of an item with its edition and in
\* its lifecycle is the same but for such repetitions.
ResponsesAgree ==
  [][Straight =>
      \E edition \in {LatestEdition} : \E contexts \in {EditionContexts(edition, day')} :
        /\ \A id \in DOMAIN contexts :
             LET c == contexts[id]
                 s == states'.at[id]
             IN /\ Lifecycle(c) = Lifecycle(s) /\ c.last = s.last
                /\ RelationshipMetadata(c).forkParents = s.parents \ Range(s.merged)
                /\ c.children = s.children /\ Range(c.merged) = Range(s.merged) /\ c.into = s.into
                /\ Range(s.members) \subseteq Range(c.members)
                /\ Range(c.members) \ Range(s.members) \subseteq Repeated(id)
                /\ c.status # "archived" /\ s.members # <<>> =>
                     /\ id \in ActiveStorylines(states', tracked')
                     /\ Range(ActiveStorylineGroup(states', tracked', id).members) \subseteq Range(c.members)
        /\ \A item \in Range(latest') :
             LET x == ItemStorylineState(item, contexts)
                 y == LifecycleStoryline(edition, item)
             IN /\ <<x.storyline, x.status, x.parents>> = <<y.storyline, y.status, y.parents>>
                /\ y.related \subseteq x.related
                /\ x.related \ y.related \subseteq Repeated(x.storyline)
                /\ x.position \in 1 .. Len(x.members)
                /\ item.position # 0 => x.position = y.position]_vars
=============================================================================
