--------------------------- MODULE ExclusionReports ---------------------------
(***************************************************************************)
(* What the reads of the exclusions answer at a moment: the analytics, the *)
(* summary and the report of the items that were left out of the editions. *)
(* A log maps a publication time to what the edition of that time keeps:   *)
(* its exclusions and the summary of them.                                 *)
(*                                                                         *)
(* An edition may exclude an item more than once, by several records that  *)
(* share the stable id.                                                    *)
(***************************************************************************)
EXTENDS EditionReaders, Functions

CONSTANT MinRecurringEditions  \* editions that make an exclusion a recurring one

ASSUME ExclusionReportsAssumption == MinRecurringEditions \in Nat \ {0}

Phase(reason) ==
  CASE reason = "out_of_scope" -> "scope"
    [] reason = "relevance_below_threshold" -> "scoring"
    [] OTHER -> "source"

CreateExclusion(record, item, category, reason, kinds) ==
  [record |-> record, item |-> item, category |-> category, reason |-> reason,
   phase |-> Phase(reason), kinds |-> kinds]

(***************************************************************************)
(* The summary that is stored with an edition and built by the reads.      *)
(***************************************************************************)

\* How many exclusions have each key.
CountsBy(keyOf) ==
  [k \in Range(keyOf) |-> Cardinality({e \in DOMAIN keyOf : keyOf[e] = k})]

TotalOf(counts) == SumFunction(counts)

Summary(exclusions) ==
  LET both == CountsBy([e \in exclusions |-> <<e.category, e.reason>>])
  IN [total |-> TotalOf(both), both |-> both,
      categories |-> CountsBy([e \in exclusions |-> e.category]),
      reasons |-> CountsBy([e \in exclusions |-> e.reason])]

\* createEditionExclusionSummary throws on any other summary.
Consistent(summary) ==
  summary.total = TotalOf(summary.categories) /\ summary.total = TotalOf(summary.reasons)

(***************************************************************************)
(* Queries: a window of publication times, and filters that are None or    *)
(* the value that is asked for.                                            *)
(***************************************************************************)

Unfiltered == [from |-> None, to |-> None, reason |-> None, category |-> None,
               kind |-> None, item |-> None, phase |-> None]

From(q, now) == IF q.from = None THEN now - Window ELSE q.from

To(q, now) == IF q.to = None THEN now ELSE q.to

\* Any other query fails.
Answerable(q, now) == From(q, now) <= To(q, now)

\* Unlike the history, the window has its first moment.
Scanned(log, q, now) ==
  {s \in Published(log, now) : From(q, now) <= s /\ s <= To(q, now)}

MatchesFilters(e, q) ==
  /\ \A f \in {"reason", "category", "item", "phase"} : q[f] \in {None, e[f]}
  /\ q.kind \in {None} \cup e.kinds

\* An exclusion with the publication time of its edition.
ExcludedAt(s, e) ==
  [at |-> s, record |-> e.record, item |-> e.item, category |-> e.category,
   reason |-> e.reason, phase |-> e.phase, kinds |-> e.kinds]

Found(log, q, now) ==
  UNION {{ExcludedAt(s, e) : e \in {x \in log[s].exclusions : MatchesFilters(x, q)}} :
           s \in Scanned(log, q, now)}

(***************************************************************************)
(* The analytics.                                                          *)
(***************************************************************************)

Tally(E) ==
  LET times == {e.at : e \in E}
  IN [exclusions |-> Cardinality(E), items |-> Cardinality({e.item : e \in E}),
      editions |-> Cardinality(times), first |-> Min(times), last |-> Max(times)]

\* The tally of the exclusions of every key; an exclusion may have several.
GroupBy(keysOf) ==
  [k \in UNION Range(keysOf) |-> Tally({e \in DOMAIN keysOf : k \in keysOf[e]})]

\* Mutant: every exclusion counts as an edition.
RecurringByExclusions(groups) ==
  {k \in DOMAIN groups : groups[k].exclusions >= MinRecurringEditions}

Recurring(groups) == {k \in DOMAIN groups : groups[k].editions >= MinRecurringEditions}

Totals(found) ==
  [exclusions |-> Cardinality(found), items |-> Cardinality({e.item : e \in found}),
   matched |-> Cardinality({e.at : e \in found})]

Analytics(log, q, now) ==
  LET found == Found(log, q, now)
      byItem == GroupBy([e \in found |-> {e.item}])
      byBoth == GroupBy([e \in found |-> {<<e.category, e.reason>>}])
  IN [scanned |-> Scanned(log, q, now), found |-> found, totals |-> Totals(found),
      reasons |-> GroupBy([e \in found |-> {e.reason}]),
      categories |-> GroupBy([e \in found |-> {e.category}]),
      phases |-> GroupBy([e \in found |-> {e.phase}]),
      kinds |-> GroupBy([e \in found |-> e.kinds]),
      both |-> byBoth,
      editions |-> GroupBy([e \in found |-> {e.at}]),
      recurringItems |-> Restrict(byItem, Recurring(byItem)),
      blindSpots |-> Restrict(byBoth, Recurring(byBoth))]

(***************************************************************************)
(* The report: of every edition in the window the summary stored with it   *)
(* and the summary of what matches.                                        *)
(***************************************************************************)

\* Mutant: the window of the report ends before its last moment.
SummarizedBeforeTheEnd(log, q, now) == {s \in Scanned(log, q, now) : s < To(q, now)}

Summarized(log, q, now) == Scanned(log, q, now)

EditionSummaries(log, q, now, analytics) ==
  [s \in Summarized(log, q, now) |->
     [stored |-> log[s].summary,
      matching |-> Summary({e \in analytics.found : e.at = s})]]

Report(log, q, now) ==
  LET analytics == Analytics(log, q, now)
  IN [analytics |-> analytics,
      summary |-> Summary(analytics.found),
      editions |-> EditionSummaries(log, q, now, analytics)]

(***************************************************************************)
(* What the routes send: numbers for the sets, and no times with the       *)
(* aggregations by one field.                                              *)
(***************************************************************************)

CountsOnly(groups) ==
  [k \in DOMAIN groups |-> [f \in {"exclusions", "items", "editions"} |-> groups[k][f]]]

AnalyticsAnswer(a) ==
  [a EXCEPT !.scanned = Cardinality(@), !.reasons = CountsOnly(@), !.categories = CountsOnly(@),
            !.phases = CountsOnly(@), !.kinds = CountsOnly(@), !.editions = CountsOnly(@)]

SummaryAnswer(a) ==
  LET summary == Summary(a.found)
  IN [scanned |-> Cardinality(a.scanned), matched |-> a.totals.matched, items |-> a.totals.items,
      groups |-> Cardinality(DOMAIN summary.both), summary |-> summary]

ReportAnswer(r) ==
  [analytics |-> AnalyticsAnswer(r.analytics), summary |-> r.summary, editions |-> r.editions]
=============================================================================
