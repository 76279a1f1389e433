--------------------------- MODULE RelevanceScoring ---------------------------
(***************************************************************************)
(* createWeightedRelevanceScorer: the score from 0 to 100 that decides     *)
(* whether an item is published.  It is the weighted average of those      *)
(* signals that were observed of the item.                                 *)
(*                                                                         *)
(* The metrics of an item are a function from what was observed: age (days *)
(* since it was published), authority, stars, activity and social.  Every  *)
(* item has a mention count beside them.                                   *)
(***************************************************************************)
EXTENDS Integers, FiniteSets, FiniteSetsExt

CONSTANTS
  Weights,        \* config.weights, in hundredths
  GitHubWeights,  \* config.githubSignalWeights, in tenths
  LogScore,       \* per metric: the scores of its values below saturation
  Saturation,     \* per metric: from where on its score is 100
  MinRelevance    \* minRelevanceScore

Signals == {"recency", "authority", "mentions", "github", "social"}
Percent == 0 .. 100

\* Scores grow with their metric, and nothing scores nothing.
ASSUME ScoringAssumption ==
  /\ Weights \in [Signals -> Nat]
  /\ GitHubWeights \in [{"stars", "activity"} -> Nat]
  /\ Saturation \in [{"mentions", "stars", "social"} -> Nat \ {0}]
  /\ \A s \in {"mentions", "stars", "social"} :
       /\ \A v \in DOMAIN LogScore[s] : LogScore[s][v] \in Percent
       /\ \A v, w \in DOMAIN LogScore[s] : v <= w => LogScore[s][v] <= LogScore[s][w]
       /\ LogScore[s][0] = 0
  /\ MinRelevance \in Percent

\* Math.round of a quotient.
Rounded(n, d) == (2 * n + d) \div (2 * d)

\* normalizeLogarithmic
NormalizedLogarithmic(metric, value) ==
  IF value >= Saturation[metric] THEN 100 ELSE LogScore[metric][value]

\* scoreRecencyHours: it halves every day and ends after a week.
RecencyScore(days) == IF days >= 7 THEN 0 ELSE Rounded(100, 2 ^ days)

\* blendScores: what does not weigh does not count.
Blend(scores, weights) ==
  LET weighing == {s \in DOMAIN scores : weights[s] > 0}
      weight == MapThenSumSet(LAMBDA s : weights[s], weighing)
  IN IF weight = 0 THEN 0
     ELSE Rounded(MapThenSumSet(LAMBDA s : scores[s] * weights[s], weighing), weight)

MetricOr(metrics, name, default) == IF name \in DOMAIN metrics THEN metrics[name] ELSE default

\* What of a repository is known; a missing half of it counts as nothing.
GitHubSignal(metrics) ==
  Blend([stars |-> NormalizedLogarithmic("stars", MetricOr(metrics, "stars", 0)),
         activity |-> MetricOr(metrics, "activity", 0)], GitHubWeights)

\* normalizeRelevanceSignals
Normalized(signal, metrics, mentions) ==
  CASE signal = "recency" -> RecencyScore(metrics["age"])
    [] signal = "authority" -> metrics["authority"]
    [] signal = "mentions" -> NormalizedLogarithmic("mentions", mentions)
    [] signal = "github" -> GitHubSignal(metrics)
    [] signal = "social" -> NormalizedLogarithmic("social", metrics["social"])

\* hasRecencySignalData, hasGitHubSignalData, ...
ObservedSignals(metrics) ==
  {"mentions"}
  \cup (IF "age" \in DOMAIN metrics THEN {"recency"} ELSE {})
  \cup ({"authority", "social"} \cap DOMAIN metrics)
  \cup (IF {"stars", "activity"} \cap DOMAIN metrics # {} THEN {"github"} ELSE {})

\* scoreItemRelevance
RelevanceScore(metrics, mentions) ==
  Blend([s \in ObservedSignals(metrics) |-> Normalized(s, metrics, mentions)], Weights)

\* filterCuratedItemsByRelevance, createRelevanceCurationDecision
IsRelevant(metrics, mentions) == RelevanceScore(metrics, mentions) >= MinRelevance

-----------------------------------------------------------------------------
(* The metrics of two items that become one.                               *)

\* maxNullable, minNullable
BetterMetric(name, v, w) == IF (name = "age") = (v <= w) THEN v ELSE w

MergeMetrics(l, r) == [name \in DOMAIN l \cup DOMAIN r |->
  IF name \notin DOMAIN l THEN r[name]
  ELSE IF name \notin DOMAIN r THEN l[name]
  ELSE BetterMetric(name, l[name], r[name])]
=============================================================================
