------------------------------- MODULE Curation -------------------------------
(***************************************************************************)
(* What AggregationPipeline and the publication flow make of one batch:    *)
(* the source gate, the groups of items that share an identity, the ids    *)
(* that groups take over from what was published lately, the relevance     *)
(* gate, and the exclusions that decide what is published.                 *)
(*                                                                         *)
(* An item has, beside the signals of its identity, the site it comes      *)
(* from, its authority, how often it is mentioned, its metrics, the id of  *)
(* its record and the stable id.                                           *)
(***************************************************************************)
EXTENDS ItemIdentity, RelevanceScoring

CONSTANTS
  Facts,            \* the items that records become
  SourceAuthority,  \* authority of the sites that the registry knows
  Probationary,     \* those that are on probation
  MinimumAuthority, \* per adapter, what an item needs
  HistoryItems      \* what may have been published lately

ASSUME CurationAssumption ==
  /\ \A r \in DOMAIN Facts : /\ Facts[r].urls \subseteq DOMAIN Links /\ IsFiniteSet(Facts[r].name)
                              /\ {Facts[r].authority, Facts[r].mentions} \subseteq Nat
  /\ \A s \in DOMAIN SourceAuthority : SourceAuthority[s] \in Nat
  /\ Probationary \subseteq DOMAIN SourceAuthority
  /\ \A a \in DOMAIN MinimumAuthority : MinimumAuthority[a] \in Nat

-----------------------------------------------------------------------------
(* Groups of items, and the one item that a group becomes.                  *)

\* Those of a sequence that are in a set.
Picked(s, I) ==
  FoldLeft(LAMBDA picked, e : IF e \in I THEN Append(picked, e) ELSE picked, <<>>, s)

\* What sequences with these numbers have, the last sequence first.
LastFirst(s, I) ==
  MapThenFoldSet(LAMBDA t, joined : t \o joined, <<>>, LAMBDA n : s[n], LAMBDA U : Max(U), I)

\* The groups that have an item which i shares its identity with.
Matching(groups, i) ==
  {n \in DOMAIN groups : \E m \in DOMAIN groups[n] : ItemsShareIdentity(groups[n][m], i)}

\* Mutant: an item that belongs to several groups joins the first and leaves the
\* others as they are.
JoinFirstOnly(groups, i) ==
  IF Matching(groups, i) = {} THEN Append(groups, <<i>>)
  ELSE [groups EXCEPT ![Min(Matching(groups, i))] = Append(@, i)]

\* An item joins the first group that it matches; the others are joined to that one,
\* the last first.
Join(groups, i) ==
  LET matching == Matching(groups, i)
      first == Min(matching)
      others == matching \ {first}
      joined == Append(groups[first], i) \o LastFirst(groups, others)
      stay == Picked([n \in DOMAIN groups |-> n], DOMAIN groups \ others)
  IN IF matching = {} THEN Append(groups, <<i>>)
     ELSE [k \in DOMAIN stay |-> IF stay[k] = first THEN joined ELSE groups[stay[k]]]

GroupDuplicateItems(items) == FoldLeft(Join, <<>>, items)

\* preferPrimary
Prefers(l, r) ==
  \/ l.authority > r.authority
  \/ l.authority = r.authority /\ l.mentions >= r.mentions

\* buildItemIdentitySignals: the identifiers that an item has been given are signals
\* of it, beside those that it came with.
Signalled(i) == [i EXCEPT !.canonical = @ \cup i.identifiers]

\* The scoring authority of the merged item is the authority of the gate.
MergeItems(l, r) ==
  LET primary == IF Prefers(l, r) THEN l ELSE r
      secondary == IF Prefers(l, r) THEN r ELSE l
      authority == IF l.authority >= r.authority THEN l.authority ELSE r.authority
      merged == [primary EXCEPT
                   !.canonical = Signalled(l).canonical \cup Signalled(r).canonical,
                   !.identifiers = MergeCanonicalIdentifiers(@, secondary.identifiers),
                   !.urls = l.urls \cup r.urls,
                   !.aliases = l.aliases \cup r.aliases,
                   !.authority = authority,
                   !.metrics = [MergeMetrics(l.metrics, r.metrics) EXCEPT !["authority"] = authority],
                   !.mentions = l.mentions + r.mentions]
  IN [merged EXCEPT !.itemId = IF l.itemId = r.itemId THEN l.itemId ELSE StableId(merged)]

Mentions(group) == FoldLeft(LAMBDA n, i : n + i.mentions, 0, group)

\* Mutant: the first item counts twice.
ConsolidateCountingTwice(group) ==
  [FoldLeft(MergeItems, Head(group), Tail(group)) EXCEPT !.mentions = @ + Head(group).mentions]

Consolidate(group) ==
  [FoldLeft(MergeItems, Head(group), Tail(group)) EXCEPT !.mentions = Mentions(group)]

\* Mutant: the items of a group share its id only.
ClusterByIdOnly(group) ==
  [n \in DOMAIN group |-> [group[n] EXCEPT !.itemId = Consolidate(group).itemId]]

\* The items of a group carry the id, the name and the identifiers of what the group
\* becomes, which has one of every kind that any of them has.
Cluster(group) ==
  LET c == Consolidate(group)
  IN [n \in DOMAIN group |->
       [group[n] EXCEPT !.itemId = c.itemId, !.entity = c.entity, !.identifiers = c.identifiers]]

-----------------------------------------------------------------------------
(* The ids of what was published in the last days.                          *)

\* Of several candidates the one of the most and then of the latest editions.
MoreEditions(h, k) ==
  \/ h.count > k.count
  \/ h.count = k.count /\ h.last >= k.last

Direct(group, history) ==
  {h \in history : \E n \in DOMAIN group : {group[n].itemId, group[n].raw} \cap {h.itemId, h.raw} # {}}

\* matchGroup: what was published under an id of the group, or else what is the
\* same in the strongest kind.
MatchGroup(group, history) ==
  LET ofKind(kind) == {h \in history : \E n \in DOMAIN group :
                         ResolveEntityIdentityMatch(Signalled(group[n]), h) = kind}
      kinds == SelectSeq(MatchKinds, LAMBDA kind : ofKind(kind) # {})
      candidates == IF Direct(group, history) # {} THEN Direct(group, history)
                    ELSE IF kinds = <<>> THEN {} ELSE ofKind(kinds[1])
  IN {h \in candidates : \A k \in candidates : MoreEditions(h, k)}

\* resolveHistoricalItemIds: a published item's name and identifiers come first.
Resolve(group, history) ==
  IF MatchGroup(group, history) = {} THEN group
  ELSE LET h == CHOOSE h \in MatchGroup(group, history) : TRUE
       IN [n \in DOMAIN group |->
            [group[n] EXCEPT !.itemId = h.itemId, !.entity = h.entity,
                             !.identifiers = MergeCanonicalIdentifiers(h.identifiers, @)]]

-----------------------------------------------------------------------------
(* The gates.                                                               *)

\* resolveEffectiveSourceAuthorityScore: the better of the item's and its source's.
Effective(authority, site, ofSite) ==
  IF site \in DOMAIN ofSite /\ ofSite[site] > authority THEN ofSite[site] ELSE authority

EffectiveAuthority(i) == Effective(i.authority, i.origin, SourceAuthority)

\* resolveWeightedSourceAuthorityScore: a source on probation counts three quarters.
WeightedAuthority(s) ==
  IF s \in Probationary THEN Rounded(3 * SourceAuthority[s], 4) ELSE SourceAuthority[s]

EffectiveScoringAuthority(i) ==
  Effective(i.metrics["authority"], i.origin, [s \in DOMAIN SourceAuthority |-> WeightedAuthority(s)])

\* The reason why the source gate refuses an item, or "none".
SourceExclusionReason(i, approved) ==
  CASE EffectiveAuthority(i) < MinimumAuthority[i.adapter] -> "source_authority_below_threshold"
    [] i.adapter = "web-discovery" /\ i.origin \notin approved -> "source_not_approved"
    [] OTHER -> "none"

AllowItem(i, approved) == SourceExclusionReason(i, approved) = "none"

\* createNormalizedItemFromSourceRecord: the authority of the record is a metric too.
ScoringSignals(record, metrics) ==
  [name \in DOMAIN metrics \cup {"authority"} |->
     IF name \in DOMAIN metrics THEN metrics[name] ELSE Facts[record].authority]

\* An item as it leaves its adapter.
CreateItem(record, adapter, times, metrics) ==
  LET i == Annotate(Facts[record])
  IN [raw |-> record, group |-> i.group, name |-> i.name, noisy |-> i.noisy, urls |-> i.urls,
      canonical |-> i.canonical, aliases |-> i.aliases, identifiers |-> i.identifiers,
      entity |-> i.entity, itemId |-> StableId(i), adapter |-> adapter,
      origin |-> Facts[record].origin, authority |-> Facts[record].authority,
      mentions |-> times * Facts[record].mentions,
      metrics |-> ScoringSignals(record, metrics)]

\* An item that the source gate allows takes on the authority that it was given for.
Allowed(i) ==
  [i EXCEPT !.authority = EffectiveAuthority(i),
            !.metrics = [@ EXCEPT !["authority"] = EffectiveScoringAuthority(i)]]

EligibleItems(items, approved) ==
  LET allowed == Picked(items, {i \in Range(items) : AllowItem(i, approved)})
  IN [n \in DOMAIN allowed |-> Allowed(allowed[n])]

SourceExclusions(items, approved) ==
  {[itemId |-> i.itemId, reason |-> SourceExclusionReason(i, approved)] :
     i \in {j \in Range(items) : ~AllowItem(j, approved)}}

CandidateGroups(items, approved, history) ==
  LET groups == GroupDuplicateItems(EligibleItems(items, approved))
  IN [n \in DOMAIN groups |-> Resolve(Cluster(groups[n]), history)]

Scored(groups) == [n \in DOMAIN groups |-> Consolidate(groups[n])]

Score(i) == RelevanceScore(i.metrics, i.mentions)
Keeps(i) == IsRelevant(i.metrics, i.mentions)

\* resolvePublicationExclusionDecisions: of the items that pass the relevance gate
\* those are published whose id no exclusion has.
PublicationItems(items, excluded) ==
  Picked(items, {i \in Range(items) : Keeps(i) /\ i.itemId \notin {e.itemId : e \in excluded}})

\* The outcome of a batch.
Aggregate(items, groups, approved, history) ==
  LET scored == Scored(groups)
      dropped == {[itemId |-> i.itemId, reason |-> "relevance_below_threshold"] :
                    i \in {j \in Range(scored) : ~Keeps(j)}}
      excluded == SourceExclusions(items, approved) \cup dropped
  IN [fetched |-> items, approved |-> approved, groups |-> groups, history |-> history,
      keep |-> {i.itemId : i \in {j \in Range(scored) : Keeps(j)}},
      excluded |-> excluded, items |-> PublicationItems(scored, excluded)]
=============================================================================
