---------------------------- MODULE SourceLifecycle ----------------------------
(***************************************************************************)
(* The record of a discovered source in the source registry and what the   *)
(* lifecycle functions do to it: candidate, probation, active, retired.    *)
(*                                                                         *)
(* Cycles are days.  A failed fetch backs off for an hour or more and for  *)
(* at most a day: later runs of the day may or may not fetch the source.   *)
(***************************************************************************)
EXTENDS SourceExpertise

CONSTANTS
  Sources,          \* discovered sources, without the seeds
  Covers,           \* the content categories each of them covers
  MinSources,       \* minimumActiveCategorySources
  MinQualifying,    \* probationMinQualifyingCycles
  PromotionWindow,  \* promotionEvaluationWindowDays
  MinLowSignal,     \* retirementLowSignalCycles
  RetirementWindow, \* retirementEvaluationWindowDays
  MaxFailures,      \* retirementConsecutiveFetchFailures
  None              \* the source is not retired

ASSUME LifecycleAssumption ==
  /\ IsFiniteSet(Sources)
  /\ MinSources \in Nat \ {0}
  /\ MinQualifying \in 1 .. PromotionWindow
  /\ MinLowSignal \in 1 .. RetirementWindow
  /\ MaxFailures \in Nat \ {0}

\* A source nobody has mentioned yet is not in the file.
Unknown ==
  [status |-> "absent", stage |-> "probation", since |-> 0,
   qualifying |-> {}, lowSignal |-> {}, failures |-> 0, retirement |-> None,
   tracked |-> <<>>, credit |-> 0]

\* mergeEvidence: the record of a source that is mentioned for the first time.
Discovered(d) == [Unknown EXCEPT !.status = "candidate", !.since = d]

\* resetFetchBackoff
NoBackoff(r) == [r EXCEPT !.failures = 0]

\* resetRetirementTracking
NoTracking(r) == [r EXCEPT !.lowSignal = {}, !.retirement = None]

\* startSourceProbation
InProbation(r, d) ==
  NoBackoff(NoTracking([r EXCEPT !.status = "approved", !.stage = "probation", !.since = d]))

\* activateSource
Activated(r) == NoBackoff(NoTracking([r EXCEPT !.status = "approved", !.stage = "active"]))

\* markSourceCandidate
MarkedCandidate(r) ==
  NoBackoff(NoTracking(
    [r EXCEPT !.status = "candidate", !.stage = "probation", !.qualifying = {}]))

\* createRetirementRestoreSnapshot
Snapshot(r) ==
  [status |-> r.status, stage |-> r.stage, since |-> r.since, qualifying |-> r.qualifying,
   lowSignal |-> r.lowSignal, failures |-> r.failures]

\* retireSource
Retired(r) == [r EXCEPT !.status = "retired", !.stage = "retired", !.retirement = Snapshot(r)]

\* closeCurrentRetirementAudit
Closed(r) == [r EXCEPT !.retirement = None]

Renewed(r, d) == [InProbation(Closed(r), d) EXCEPT !.qualifying = {}]

\* restoreSource: to what the source was, or to the state that is asked for.
Restored(r, target, d) ==
  CASE target = "active" -> Activated(Closed(r))
    [] target = "probation" -> Renewed(r, d)
    [] target = "asBefore" -> [f \in DOMAIN r |->
         IF f \in DOMAIN r.retirement THEN r.retirement[f] ELSE Closed(r)[f]]

-----------------------------------------------------------------------------
(* Category coverage.                                                      *)

\* isActiveSourceForCoverage
Covering(r) == r.status = "approved" /\ r.stage = "active"

CoveredBy(S, c) == {s \in Sources : Covering(S[s]) /\ c \in Covers[s]}

\* findRetirementBlockedCategories
RetirementBlocked(S, s) ==
  /\ Covering(S[s]) /\ MinSources > 1
  /\ \E c \in Covers[s] : Cardinality(CoveredBy(S, c)) = 1

-----------------------------------------------------------------------------
(* Fetches.                                                                *)

\* The approved sources without those that are in backoff: what a run may fetch.
\* isApprovedDynamicWebSource and isSourceFetchEligible
Fetchable(S) ==
  LET approved == {s \in Sources : S[s].status = "approved"} IN
  {T \in SUBSET approved : \A s \in approved : S[s].failures = 0 => s \in T}

\* evaluateSourcePerformanceRetirement
PerformanceEvaluated(S, s) ==
  IF S[s].status = "approved" /\ S[s].failures >= MaxFailures /\ ~RetirementBlocked(S, s)
  THEN [S EXCEPT ![s] = Retired(@)] ELSE S

\* Failures are compared with MaxFailures only and counted up to it.
OneMore(failures) == IF failures < MaxFailures THEN failures + 1 ELSE MaxFailures

\* recordSourceFetchSuccess and recordSourceFetchFailure
FetchRecorded(S, s, ok) ==
  IF ok THEN [S EXCEPT ![s] = NoBackoff(@)]
  ELSE PerformanceEvaluated([S EXCEPT ![s].failures = OneMore(@)], s)

-----------------------------------------------------------------------------
(* Signals.                                                                *)

\* Mutant: a signal does not end a low-signal streak.
ObservedStill(r) == r

\* recordSourceSignalObservation
Observed(r) == IF r.status = "retired" THEN [r EXCEPT !.lowSignal = {}] ELSE NoTracking(r)

\* discoverFromItems: what an item does to a source that it mentions or that it
\* comes from; scoreSource decides whether a mentioned source is eligible.
Mentioned(r, mention, d) ==
  LET known == IF r.status = "absent" THEN Discovered(d) ELSE r
      approved == CASE known.status = "retired" -> Renewed(known, d)
                    [] known.status = "candidate" -> InProbation(known, d)
                    [] known.status = "approved" -> known
  IN CASE mention = "eligible" -> Observed(approved)
       [] mention = "ineligible" -> MarkedCandidate(known)
       [] mention = "observed" /\ r.status # "absent" -> Observed(r)
       [] OTHER -> r

\* evaluateSourcePromotion
PromotionEvaluated(r, d) ==
  LET qualifying == {c \in r.qualifying : InWindow(c, d, PromotionWindow)}
      pruned == [r EXCEPT !.qualifying = qualifying]
  IN IF Cardinality(qualifying) >= MinQualifying THEN Activated(pruned) ELSE pruned

\* Mutant: a day without a qualifying item does not break the streak.
ScoredLeniently(r, score, d) ==
  IF score = "none" \/ r.status # "approved" THEN r
  ELSE IF Observed(r).stage # "probation" THEN Observed(r)
  ELSE PromotionEvaluated([Observed(r) EXCEPT !.qualifying =
         IF score = "high" THEN @ \cup {d} ELSE @], d)

\* recordSourcePromotionObservation: the best score of the items that were
\* fetched from the source.
Scored(r, score, d) ==
  IF score = "none" \/ r.status # "approved" THEN r
  ELSE IF Observed(r).stage # "probation" THEN Observed(r)
  ELSE PromotionEvaluated([Observed(r) EXCEPT !.qualifying =
         IF score = "high" THEN @ \cup {d} ELSE IF d \in @ THEN @ ELSE {}], d)

\* recordSourceLowSignalCycle
LowSignalRecorded(S, s, d) ==
  LET cycles == {c \in S[s].lowSignal \cup {d} : InWindow(c, d, RetirementWindow)}
      recorded == [S EXCEPT ![s].lowSignal = cycles]
  IN IF d - MinLowSignal + 1 .. d \subseteq cycles /\ ~RetirementBlocked(S, s)
     THEN [recorded EXCEPT ![s] = Retired(@)] ELSE recorded

\* evaluateLowSignalSources, one source: a source with too many failed fetches
\* is retired or blocked for them, and its cycle is not counted.
Evaluated(S, s, d) ==
  IF S[s].failures >= MaxFailures THEN PerformanceEvaluated(S, s)
  ELSE LowSignalRecorded(S, s, d)

\* selectHigherPromotionScore, over the items fetched from a source
Rating(scored) ==
  LET scores == {scored[i] : i \in Items} IN
  IF "high" \in scores THEN "high" ELSE IF "low" \in scores THEN "low" ELSE "none"

\* The sources from which or about which the run saw an item.
Seen(S, mention, scored) ==
  {s \in Sources :
     \/ mention[s] \in {"eligible", "ineligible"}
     \/ mention[s] = "observed" /\ S[s].status # "absent"
     \/ Rating(scored[s]) # "none" /\ S[s].status = "approved"}

\* applyPromotionObservations, one source: the items of an approved source are
\* tracked; the clock runs for the items of every source.
Observations(r, scored, order, d) ==
  LET tracked == IF r.status # "approved" THEN r.tracked
                 ELSE ItemsObserved(r.tracked, scored, order, d)
  IN [Scored(r, Rating(scored), d) EXCEPT !.tracked = Finalized(tracked, d)]

\* scoreSourceAuthority: the points of a new source do not count yet.
Credit(r) == IF r.stage = "probation" THEN 0 ELSE Adjustment(r.tracked)

\* buildPersistedSnapshot
Persisted(r) == [r EXCEPT !.credit = Credit(r)]

\* The synchronous part of discoverFromItems, over the snapshot S it loaded.
Discovery(S, mention, scored, itemOrder, order, d) ==
  LET mentioned == [s \in Sources |-> Mentioned(S[s], mention[s], d)]
      observed == [s \in Sources |-> Observations(mentioned[s], scored[s], itemOrder, d)]
      missed == {s \in Sources : S[s].status = "approved"} \ Seen(mentioned, mention, scored)
      evaluated ==
        FoldLeft(LAMBDA T, s : IF s \in missed THEN Evaluated(T, s, d) ELSE T, observed, order)
  IN [s \in Sources |-> Persisted(evaluated[s])]
=============================================================================
