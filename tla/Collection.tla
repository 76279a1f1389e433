------------------------------ MODULE Collection ------------------------------
(***************************************************************************)
(* A publication's collection: the round of SourceFetch and, when every    *)
(* adapter has answered or was given up, the curation of what they gave.   *)
(* The pipeline reads the registry of sources again at that point; what    *)
(* was published in the last days is fixed while a publication runs.       *)
(***************************************************************************)
EXTENDS SourceFetch, Curation

CONSTANTS
  Required,  \* the adapters of requiredSourceKinds
  Metrics    \* what may be observed of the records

ASSUME CollectionAssumption ==
  /\ Required \subseteq Adapters
  /\ DOMAIN Facts = Records
  /\ Adapters \subseteq DOMAIN MinimumAuthority
  /\ \A m \in Metrics, r \in Records : \A name \in DOMAIN m[r] : m[r][name] \in Nat

VARIABLES
  phase,    \* fetching, failed or curated
  outcome   \* what the pipeline and the flow made of the batch

vars == <<fetchVars, phase, outcome>>

Init ==
  /\ FetchInit
  /\ phase = "fetching"
  /\ outcome = None

\* The items of all batches, in the order of the registry.
BatchItems(a, metrics) ==
  [n \in DOMAIN batches[a].items |->
     LET e == batches[a].items[n] IN CreateItem(e.record, a, e.times, metrics[e.record])]

FetchedItems(metrics) ==
  FoldLeft(LAMBDA items, a : items \o BatchItems(a, metrics), <<>>, AdapterOrder)

Answered == {a \in Adapters : batches[a].status = "succeeded"}
ReadyForCuration == Answered # {} /\ Required \subseteq Answered

\* The loops of adapters that were given up go on after the round; what they do
\* then is of no use to this publication, and the model ends here.
Fetching ==
  /\ phase = "fetching"
  /\ FetchNext
  /\ UNCHANGED <<phase, outcome>>

\* The publication fails when no adapter answered or a required one did not.
FetchFailure ==
  /\ phase = "fetching" /\ Settled /\ ~ReadyForCuration
  /\ phase' = "failed"
  /\ UNCHANGED <<fetchVars, outcome>>

\* Any part of the archive may be of the last days.
Curate ==
  /\ phase = "fetching" /\ Settled /\ ReadyForCuration
  /\ \E items \in {FetchedItems(metrics) : metrics \in Metrics} :
       \E history \in SUBSET HistoryItems :
         \E groups \in {CandidateGroups(items, approved, history)} :
           outcome' = Aggregate(items, groups, approved, history)
  /\ phase' = "curated"
  /\ UNCHANGED fetchVars

Next == Fetching \/ FetchFailure \/ Curate

\* Timers fire; no source has to answer.
Fairness ==
  /\ WF_vars(Tick /\ UNCHANGED <<phase, outcome>>)
  /\ \A a \in Adapters : WF_vars(TimeOut(a) /\ UNCHANGED <<phase, outcome>>)

Spec == Init /\ [][Next]_vars /\ Fairness

-----------------------------------------------------------------------------
TypeOK ==
  /\ clock \in 0 .. Horizon /\ faults \in 0 .. MaxFaults
  /\ \A j \in Jobs : jobs[j].state \in {"idle", "asking", "sleeping", "done", "failed"}
  /\ \A a \in Adapters : batches[a].status \in {"open", "succeeded", "failed"}
  /\ phase \in {"fetching", "failed", "curated"}
  /\ (phase = "curated") <=> (outcome # None)

\* The round ends: a source that never answers, or that makes an adapter wait
\* beyond the deadline, does not keep the publication from an end.
FetchEnds == <>Settled

Count(s, r) == FoldLeft(LAMBDA n, x : n + (IF x = r THEN 1 ELSE 0), 0, s)

\* How much a job takes of its listing, and how often that has a record.
Share(list, j) == IF Limit[j] < Len(list) THEN Limit[j] ELSE Len(list)
Listed(l, j, r) == Count(SubSeq(l[j], 1, Share(l[j], j)), r)

\* What the listings of an adapter's jobs have, and what its items were mentioned.
ListedBy(l, a, r) == FoldLeft(LAMBDA n, j : n + Listed(l, j, r), 0, JobsOf[a])
Times(items, r) == FoldLeft(LAMBDA n, e : n + (IF e.record = r THEN e.times ELSE 0), 0, items)

\* An adapter that answered gives every relevant record that its listings have
\* within the limits, as often as they have it: no page is left out or read twice,
\* whatever retries and failures there were.  A web source gives its record or not.
WholeOrNothing ==
  \A a \in Answered, r \in Relevant :
    IF a = Web THEN Times(batches[a].items, r) <= ListedBy(listing, a, r)
    ELSE Times(batches[a].items, r) = ListedBy(listing, a, r)

Members(g) == {g[n].raw : n \in DOMAIN g}

\* The groups are the connected parts of the items that pass the source gate: no
\* two groups have items that share an identity, and none falls into two such
\* groups; the order in which the sources answered does not matter.
GroupsAreComponents ==
  phase = "curated" =>
    LET groups == {Members(outcome.groups[n]) : n \in DOMAIN outcome.groups}
        shares(x, y) == \E i, k \in Range(outcome.fetched) :
                          i.raw = x /\ k.raw = y /\ ItemsShareIdentity(i, k)
    IN /\ UNION groups = {i.raw : i \in {j \in Range(outcome.fetched) : AllowItem(j, outcome.approved)}}
       /\ \A g, h \in groups : g # h => \A x \in g, y \in h : ~shares(x, y)
       /\ \A g \in groups : \A part \in (SUBSET g) \ {{}, g} :
            \E x \in part, y \in g \ part : shares(x, y)

Excluded == {e.itemId : e \in outcome.excluded}
Published == {outcome.items[n].itemId : n \in DOMAIN outcome.items}

Orders(group) ==
  {[n \in DOMAIN group |-> group[p[n]]] : p \in Bijection(DOMAIN group, DOMAIN group)}

\* Every fetched item is accounted for: it is published within the item of its
\* group or an exclusion names it, no id is both, and what is published counts
\* every mention of its group once.  The score of a group does not depend on
\* the order in which its items are put together.
EveryItemAccounted ==
  phase = "curated" =>
    /\ Published \cap Excluded = {}
    /\ \A i \in Range(outcome.fetched) :
         IF AllowItem(i, outcome.approved)
         THEN \E n \in DOMAIN outcome.groups :
                i.raw \in Members(outcome.groups[n]) /\ outcome.groups[n][1].itemId \in Published \cup Excluded
         ELSE i.itemId \in Excluded
    /\ \A n \in DOMAIN outcome.items : \E m \in DOMAIN outcome.groups :
         /\ outcome.groups[m][1].itemId = outcome.items[n].itemId
         /\ outcome.items[n].mentions = Mentions(outcome.groups[m])
    /\ \A n \in DOMAIN outcome.groups : \A group \in Orders(outcome.groups[n]) :
         Score(Consolidate(group)) = Score(Consolidate(outcome.groups[n]))

\* A group with the repository or the DOI of a published item takes over the id of
\* one.  A group with any canonical id takes over none of a published item that has
\* canonical ids but none of the group's, and no address in common with it: not even
\* by the name of a member that has no canonical id of its own.
KnownItemsKeepTheirIds ==
  phase = "curated" =>
    \A n \in DOMAIN outcome.groups :
      LET group == {i \in Range(outcome.fetched) : i.raw \in Members(outcome.groups[n])}
          id == outcome.groups[n][1].itemId
          ids == UNION {i.canonical : i \in group}
          urls == UNION {i.urls : i \in group}
          same == {h \in outcome.history : /\ h.group \in {i.group : i \in group}
                                          /\ (h.canonical \cap ids) \cap (Repositories \cup Dois) # {}}
          other == {h \in outcome.history : /\ ids # {} /\ h.canonical # {}
                                           /\ h.canonical \cap ids = {} /\ h.urls \cap urls = {}}
      IN /\ same # {} => id \in {h.itemId : h \in same}
         /\ \A h \in other : h.itemId # id

\* What the documents say of the pipeline: it publishes what passes its gates.
CuratedItemsArePublished ==
  phase = "curated" => outcome.keep \subseteq Published
=============================================================================
