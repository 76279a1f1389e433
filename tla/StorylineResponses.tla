-------------------------- MODULE StorylineResponses --------------------------
(***************************************************************************)
(* What the API says of storylines: with an edition (newsletter/edition.js),*)
(* where the edition's records and the state that every item carries are   *)
(* merged into one context per storyline, with an item's lifecycle         *)
(* (newsletter/item-lifecycle.js) and as the list of active storylines     *)
(* (newsletter/storyline-index.js).                                        *)
(***************************************************************************)
EXTENDS Storylines

OrElse(value, default) == IF value = None THEN default ELSE value

StatusRank == [developing |-> 1, stable |-> 2, archived |-> 3]

PreferredStatus(current, candidate) ==
  IF StatusRank[candidate] >= StatusRank[OrElse(current, "developing")]
  THEN candidate ELSE OrElse(current, "developing")

Later(x, y) == IF y = None THEN x ELSE IF x = None \/ y > x THEN y ELSE x

-----------------------------------------------------------------------------
(* The context of a storyline: what the edition's records and items have of *)
(* it, taken together.                                                      *)

NoContext ==
  [status |-> None, members |-> <<>>, parents |-> {}, children |-> {}, merged |-> <<>>,
   into |-> None, last |-> None, updated |-> None, lastEvolution |-> None,
   evolutions |-> 0, repetitions |-> 0, streak |-> 0, items |-> <<>>]

\* What a record says (own is empty, day is None), or the state that an item carries.
Seed(r, own, day) ==
  [status |-> r.status, members |-> AppendAll(r.members, own), parents |-> r.parents,
   children |-> r.children, merged |-> r.merged, into |-> r.into, last |-> r.last,
   updated |-> OrElse(r.updated, day),
   lastEvolution |-> OrElse(r.lastEvolution, OrElse(r.updated, day)),
   evolutions |-> r.evolutions, repetitions |-> r.repetitions, streak |-> r.streak,
   items |-> own]

\* Mutant: every item of the edition counts the repetitions again.
MergeContextCountingAgain(c, seed) ==
  [status |-> PreferredStatus(c.status, seed.status),
   members |-> AppendAll(c.members, seed.members),
   parents |-> c.parents \cup seed.parents, children |-> c.children \cup seed.children,
   merged |-> AppendAll(c.merged, seed.merged), into |-> OrElse(c.into, seed.into),
   last |-> Later(c.last, seed.last), updated |-> Later(c.updated, seed.updated),
   lastEvolution |-> Later(c.lastEvolution, seed.lastEvolution),
   evolutions |-> Max({c.evolutions, seed.evolutions}),
   repetitions |-> c.repetitions + seed.repetitions,
   streak |-> Max({c.streak, seed.streak}),
   items |-> AppendAll(c.items, seed.items)]

MergeContext(c, seed) ==
  [status |-> PreferredStatus(c.status, seed.status),
   members |-> AppendAll(c.members, seed.members),
   parents |-> c.parents \cup seed.parents, children |-> c.children \cup seed.children,
   merged |-> AppendAll(c.merged, seed.merged), into |-> OrElse(c.into, seed.into),
   last |-> Later(c.last, seed.last), updated |-> Later(c.updated, seed.updated),
   lastEvolution |-> Later(c.lastEvolution, seed.lastEvolution),
   evolutions |-> Max({c.evolutions, seed.evolutions}),
   repetitions |-> Max({c.repetitions, seed.repetitions}),
   streak |-> Max({c.streak, seed.streak}),
   items |-> AppendAll(c.items, seed.items)]

Finalize(c, day) ==
  [c EXCEPT !.members = AppendAll(@, c.items), !.updated = OrElse(@, day),
            !.lastEvolution = OrElse(@, OrElse(c.updated, day))]

\* An item whose storyline was merged away has two ids.
StorylineIds(item) == {item.storyline, item.assigned}

\* Only storylines that an item of the edition is in are answered.
EditionContexts(edition, day) ==
  [id \in UNION {StorylineIds(item) : item \in Range(edition.items)} |->
     LET recorded == IF id \in Known(edition.storylines)
                     THEN MergeContext(NoContext, Seed(edition.storylines.at[id], <<>>, None))
                     ELSE NoContext
         linked == SelectSeq(edition.items, LAMBDA item : id \in StorylineIds(item))
     IN Finalize(FoldLeft(LAMBDA c, item : MergeContext(c, Seed(item.meta, <<item.item>>, day)),
                          recorded, linked), day)]

\* What was merged into a storyline is not a parent that it forked from.
RelationshipMetadata(c) ==
  [forkParents |-> c.parents \ Range(c.merged), forkChildren |-> c.children,
   mergeSources |-> c.merged, mergeTarget |-> c.into]

\* The storyline of one item of the edition, by the id in its metadata.
ItemStorylineState(item, contexts) ==
  LET c == contexts[item.assigned]
      members == AppendAll(AppendAll(c.members, item.meta.members), <<item.item>>)
  IN [storyline |-> item.assigned, status |-> item.meta.status, members |-> members,
      position |-> IF item.position # 0 THEN item.position ELSE Position(members, item.item),
      related |-> Range(members) \ {item.item}, parents |-> c.parents \cup item.meta.parents,
      decision |-> item.decision]

\* The same in the lifecycle of the item, by the item's own storyline; the edition's
\* record is preferred for what it has.
LifecycleStoryline(edition, item) ==
  LET id == item.storyline
      r == IF id \in Known(edition.storylines) THEN edition.storylines.at[id] ELSE item.meta
      members == AppendAll(AppendAll(r.members, item.meta.members), <<item.item>>)
  IN [storyline |-> id, status |-> r.status, members |-> members,
      position |-> IF item.position # 0 THEN item.position ELSE Position(members, item.item),
      related |-> Range(members) \ {item.item},
      parents |-> IF r.parents = {} THEN item.meta.parents ELSE r.parents,
      decision |-> item.decision]

\* The members that were published, by the days they appeared on and then in the
\* order of their names.
ActiveStorylineGroup(S, tracked, id) ==
  LET members == {x \in Range(S.at[id].members) : tracked[x] # None}
      place(x) == SelectInSeq(IdOrder, LAMBDA y : y = x)
      before(x, y) == \/ tracked[x].first < tracked[y].first
                      \/ /\ tracked[x].first = tracked[y].first
                         /\ \/ tracked[x].last < tracked[y].last
                            \/ tracked[x].last = tracked[y].last /\ place(x) < place(y)
  IN [S.at[id] EXCEPT !.members = SetToSortSeq(members, before)]
=============================================================================
