---------------------------- MODULE SourceExpertise ----------------------------
(***************************************************************************)
(* What the registry remembers of the items that were fetched from an      *)
(* approved source, and what that is worth: the tracked items, whether     *)
(* they lasted, and the points they add to the source's authority.         *)
(*                                                                         *)
(* Scores are "low" or "high", that is at least highSignalItemScore; how   *)
(* far a high score lies above it is left out, and with it the part of the *)
(* points that an item loses while it stays high.  An item's occurrences,  *)
(* its best scores by day, are the days on which it occurred and, of them, *)
(* those on which it scored high.                                          *)
(***************************************************************************)
EXTENDS Integers, FiniteSets, Sequences, SequencesExt, FiniteSetsExt

CONSTANTS
  Items,           \* the items a run may fetch from a source
  Scores,          \* the scores they may have
  Domains,         \* content categories
  DomainOf,        \* the domain of every item
  ExpertiseWindow, \* sourceExpertiseRetentionWindowDays
  MaxTracked       \* sourceExpertiseMaxTrackedItems

ASSUME ExpertiseAssumption ==
  /\ IsFiniteSet(Items)
  /\ Scores \subseteq {"low", "high"}
  /\ DomainOf \in [Items -> Domains]
  /\ ExpertiseWindow \in Nat \ {0}
  /\ MaxTracked \in Nat \ {0}

\* AUTHORITY_MAX_EXPERTISE_POINTS
MaxPoints == 12

\* resolveHighSignalThreshold
HighSignal(score) == score = "high"

\* Is day c one of the window days that end with day d?
InWindow(c, d, window) == d - window < c /\ c <= d

\* recordSourceExpertiseObservation: an item that is observed first, with a high score.
Tracked(i, d) == [item |-> i, first |-> d, days |-> {d}, high |-> {d}, status |-> "tracking"]

\* upsertTrackedItemOccurrences and, for two scores of a day, preferTrackedItemOccurrence
Occurred(e, score, d) ==
  [e EXCEPT !.days = @ \cup {d}, !.high = IF HighSignal(score) THEN @ \cup {d} ELSE @]

\* Mutant: an item that is seen twice on its first day counts as seen again.
TrackedAgainAtOnce(e, score, d) ==
  [Occurred(e, score, d) EXCEPT !.status = IF HighSignal(score) THEN "retained" ELSE @]

\* recordSourceExpertiseObservation: an item that is tracked already.
TrackedAgain(e, score, d) ==
  LET occurred == Occurred(e, score, d) IN
  [occurred EXCEPT !.status = IF Cardinality(occurred.days) >= 2 /\ HighSignal(score)
                              THEN "retained" ELSE @]

\* The tracked items that are in S, in their order.
Those(tracked, S) ==
  FoldLeft(LAMBDA t, e : IF e.item \in S THEN Append(t, e) ELSE t, <<>>, tracked)

\* trimTrackedItems: those observed last, which now are the ones in fresh, then
\* the others in the order they had.
Trimmed(tracked, fresh) ==
  LET sorted == Those(tracked, fresh) \o Those(tracked, Items \ fresh)
  IN SubSeq(sorted, 1, Min({Len(sorted), MaxTracked}))

\* recordSourceExpertiseObservation, in a run that observed the fresh items before.
ItemObserved(T, i, score, d) ==
  LET known == \E k \in DOMAIN T.tracked : T.tracked[k].item = i
      tracked == IF known
                 THEN [k \in DOMAIN T.tracked |-> IF T.tracked[k].item = i
                         THEN TrackedAgain(T.tracked[k], score, d) ELSE T.tracked[k]]
                 ELSE Append(T.tracked, Tracked(i, d))
  IN IF ~known /\ ~HighSignal(score) THEN T
     ELSE [tracked |-> Trimmed(tracked, T.fresh \cup {i}), fresh |-> T.fresh \cup {i}]

\* applyPromotionObservations, one source: the items in the order of the run.
ItemsObserved(tracked, scored, order, d) ==
  FoldLeft(LAMBDA T, i : IF scored[i] = "none" THEN T ELSE ItemObserved(T, i, scored[i], d),
           [tracked |-> tracked, fresh |-> {}], order).tracked

\* finalizeSourceExpertiseSignal
Finalized(tracked, d) ==
  LET Passed(e) == e.status = "tracking" /\ ~InWindow(e.first, d, ExpertiseWindow) IN
  FoldLeft(LAMBDA t, e :
    Append(t, IF Passed(e) THEN [e EXCEPT !.status = "short_lived"] ELSE e), <<>>, tracked)

-----------------------------------------------------------------------------
(* What the tracked items are worth.                                       *)

\* resolveTrackedItemLatestScore
LatestIsHigh(e) == Max(e.days) \in e.high

\* resolveTrackedItemRelevanceRetention
RelevanceKept(e) == e.status # "short_lived" /\ LatestIsHigh(e)

\* resolveTrackedItemOutcome, in points
Points(e) ==
  CASE e.status = "short_lived" -> - MaxPoints
    [] RelevanceKept(e) ->
         IF Cardinality(e.days) >= 3 THEN MaxPoints ELSE MaxPoints \div 2
    [] OTHER -> 0

\* Math.round of a quotient
RoundedQuotient(n, m) == (2 * n + m) \div (2 * m)

\* summarizeSourceExpertiseRetentionSignal: the average over the resolved items.
Adjustment(tracked) ==
  LET resolved == {k \in DOMAIN tracked : tracked[k].status # "tracking"}
      points == FoldLeft(LAMBDA n, e : IF e.status = "tracking" THEN n ELSE n + Points(e),
                         0, tracked)
  IN IF resolved = {} THEN 0 ELSE RoundedQuotient(points, Cardinality(resolved))

\* summarizeTrackedItemDomains: a domain's part, computed anew at every load and save.
DomainAdjustment(tracked, c) == Adjustment(Those(tracked, {i \in Items : DomainOf[i] = c}))
=============================================================================
