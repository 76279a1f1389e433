------------------------- MODULE SourceRegistryProofs -------------------------
(***************************************************************************)
(* Proofs about SourceRegistry, for every set of sources, items, writers   *)
(* and faults, every window and every threshold, as long as the writers    *)
(* take turns.                                                             *)
(***************************************************************************)
EXTENDS SourceRegistry, FoldTheorems, TLAPS

Fields == {"status", "stage", "since", "qualifying", "lowSignal", "failures", "retirement",
           "tracked", "credit"}
Restorable == {"status", "stage", "since", "qualifying", "lowSignal", "failures"}

-----------------------------------------------------------------------------
(* What the lifecycle functions make of a record, field by field.          *)

LEMMA ProbationFields ==
  ASSUME NEW r, DOMAIN r = Fields, NEW d, NEW p, p = InProbation(r, d)
  PROVE  /\ DOMAIN p = Fields /\ p.status = "approved" /\ p.stage = "probation"
         /\ p.since = d /\ p.qualifying = r.qualifying /\ p.lowSignal = {} /\ p.failures = 0
BY DEF InProbation, NoBackoff, NoTracking, Fields

LEMMA ActivatedFields ==
  ASSUME NEW r, DOMAIN r = Fields, NEW p, p = Activated(r)
  PROVE  /\ DOMAIN p = Fields /\ p.status = "approved" /\ p.stage = "active"
         /\ p.since = r.since /\ p.qualifying = r.qualifying /\ p.lowSignal = {} /\ p.failures = 0
BY DEF Activated, NoBackoff, NoTracking, Fields

LEMMA CandidateFields ==
  ASSUME NEW r, DOMAIN r = Fields, NEW p, p = MarkedCandidate(r)
  PROVE  /\ DOMAIN p = Fields /\ p.status = "candidate" /\ p.stage = "probation"
         /\ p.since = r.since /\ p.qualifying = {} /\ p.lowSignal = {} /\ p.failures = 0
BY DEF MarkedCandidate, NoBackoff, NoTracking, Fields

LEMMA RetiredFields ==
  ASSUME NEW r, DOMAIN r = Fields, NEW p, p = Retired(r)
  PROVE  /\ DOMAIN p = Fields /\ p.status = "retired" /\ p.stage = "retired"
         /\ p.since = r.since /\ p.failures = r.failures /\ p.retirement = Snapshot(r)
BY DEF Retired, Fields

LEMMA SnapshotFields ==
  ASSUME NEW r, NEW p, p = Snapshot(r)
  PROVE  /\ DOMAIN p = Restorable /\ p.status = r.status /\ p.stage = r.stage
         /\ p.since = r.since /\ p.qualifying = r.qualifying /\ p.lowSignal = r.lowSignal
         /\ p.failures = r.failures
BY DEF Snapshot, Restorable

LEMMA RenewedFields ==
  ASSUME NEW r, DOMAIN r = Fields, NEW d, NEW p, p = Renewed(r, d)
  PROVE  /\ DOMAIN p = Fields /\ p.status = "approved" /\ p.stage = "probation"
         /\ p.since = d /\ p.qualifying = {} /\ p.lowSignal = {} /\ p.failures = 0
PROOF
  <1>1. DOMAIN Closed(r) = Fields
    BY DEF Closed, Fields
  <1>2. DOMAIN InProbation(Closed(r), d) = Fields
    BY <1>1, ProbationFields
  <1> QED BY <1>1, <1>2, ProbationFields DEF Renewed, Fields

LEMMA ObservedFields ==
  ASSUME NEW r, DOMAIN r = Fields, NEW p, p = Observed(r)
  PROVE  /\ DOMAIN p = Fields /\ p.status = r.status /\ p.stage = r.stage
         /\ p.since = r.since /\ p.qualifying = r.qualifying /\ p.lowSignal = {}
         /\ p.failures = r.failures
         /\ r.status = "retired" => p.retirement = r.retirement
BY DEF Observed, NoTracking, Fields

LEMMA RestoredFields ==
  ASSUME NEW r, DOMAIN r = Fields, DOMAIN r.retirement = Restorable, NEW d,
         NEW target \in {"asBefore", "probation", "active"}, NEW p, p = Restored(r, target, d)
  PROVE  /\ DOMAIN p = Fields
         /\ target = "asBefore" => \A f \in Restorable : p[f] = r.retirement[f]
         /\ target = "probation" => p = Renewed(r, d)
         /\ target = "active" => p = Activated(Closed(r))
PROOF
  <1>1. DOMAIN Closed(r) = Fields /\ Restorable \subseteq Fields
    BY DEF Closed, Fields, Restorable
  <1>2. CASE target = "asBefore"
    <2>1. p = [f \in DOMAIN r |-> IF f \in DOMAIN r.retirement THEN r.retirement[f]
                                  ELSE Closed(r)[f]]
      BY <1>2 DEF Restored
    <2> QED BY <1>1, <1>2, <2>1
  <1>3. CASE target = "probation"
    <2>1. p = Renewed(r, d)
      BY <1>3 DEF Restored
    <2> QED BY <1>3, <2>1, RenewedFields
  <1>4. CASE target = "active"
    <2>1. p = Activated(Closed(r))
      BY <1>4 DEF Restored
    <2> QED BY <1>1, <1>4, <2>1, ActivatedFields
  <1> QED BY <1>2, <1>3, <1>4

-----------------------------------------------------------------------------
(* A record and the history of its source agree; h has the days of the     *)
(* source's history, d is the day.                                         *)

Bounded(h, d) == \A c \in h.high \cup h.low \cup h.missed \cup h.seen : c \in 0 .. d

Proper(r) ==
  \/ r.status \in {"absent", "candidate"} /\ r.stage = "probation" /\ r.qualifying = {}
  \/ r.status = "approved" /\ r.stage \in {"probation", "active"}

\* The qualifying days of a source in probation are days with a qualifying score
\* since its probation began, and no later day had a lower one only.
Qualified(days, since, h) ==
  \A c \in days : c \in h.high /\ since <= c /\ \A b \in h.low : b <= c

\* What a retired source may be restored to.
Justified(r, h, d) ==
  /\ Proper(r) /\ r.since \in 0 .. d /\ r.failures \in Nat
  /\ r.stage = "probation" => Qualified(r.qualifying, r.since, h)
  /\ r.lowSignal \subseteq h.missed

\* A source is not seen after its low-signal days.
Sound(r, h, d) ==
  /\ DOMAIN r = Fields /\ r.failures \in Nat
  /\ \/ Justified(r, h, d) /\ \A c \in r.lowSignal, e \in h.seen : e <= c
     \/ /\ r.status = "retired" /\ r.stage = "retired" /\ r.since \in 0 .. d
        /\ DOMAIN r.retirement = Restorable /\ Justified(r.retirement, h, d)

LEMMA SoundStatus ==
  ASSUME NEW r, NEW h, NEW d, Sound(r, h, d)
  PROVE  /\ DOMAIN r = Fields
         /\ r.status \in {"absent", "candidate", "approved", "retired"}
         /\ r.status = "retired" => r.stage = "retired" /\ DOMAIN r.retirement = Restorable
         /\ r.status \in {"absent", "candidate"} => r.stage = "probation"
         /\ r.status = "approved" => r.stage \in {"probation", "active"}
         /\ r.since \in 0 .. d /\ r.failures \in Nat
BY DEF Sound, Justified, Proper

\* More days with a qualifying score, more missed days and a later day do no harm; nor
\* do more sightings of a source that has no low-signal days left.
LEMMA SoundLater ==
  ASSUME NEW r, NEW h, NEW g, NEW d \in Nat, NEW e \in Nat, d <= e, Sound(r, h, d),
         h.high \subseteq g.high, g.low \subseteq h.low, h.missed \subseteq g.missed,
         r.status = "retired" \/ r.lowSignal = {} \/ g.seen \subseteq h.seen
  PROVE  Sound(r, g, e)
PROOF
  <1>1. ASSUME NEW q, Justified(q, h, d)
        PROVE  Justified(q, g, e)
    <2>1. /\ Proper(q) /\ q.since \in 0 .. e /\ q.failures \in Nat
          /\ q.lowSignal \subseteq g.missed
      BY <1>1 DEF Justified
    <2>2. q.stage = "probation" => Qualified(q.qualifying, q.since, g)
      BY <1>1 DEF Justified, Qualified
    <2> QED BY <2>1, <2>2 DEF Justified
  <1>2. CASE Justified(r, h, d) /\ \A c \in r.lowSignal, x \in h.seen : x <= c
    <2>1. r.status # "retired"
      BY <1>2 DEF Justified, Proper
    <2> QED BY <1>1, <1>2, <2>1 DEF Sound
  <1>3. CASE /\ r.status = "retired" /\ r.stage = "retired" /\ r.since \in 0 .. d
             /\ DOMAIN r.retirement = Restorable /\ Justified(r.retirement, h, d)
    BY <1>1, <1>3 DEF Sound
  <1> QED BY <1>2, <1>3 DEF Sound

\* What the other fields say does not matter.
LEMMA SoundAlike ==
  ASSUME NEW r, NEW p, NEW h, NEW d, Sound(r, h, d), DOMAIN p = Fields,
         p.failures \in Nat,
         \A f \in {"status", "stage", "since", "qualifying", "lowSignal", "retirement"} :
            p[f] = r[f]
  PROVE  Sound(p, h, d)
PROOF
  <1>1. /\ p.status = r.status /\ p.stage = r.stage /\ p.since = r.since
        /\ p.qualifying = r.qualifying /\ p.lowSignal = r.lowSignal /\ p.retirement = r.retirement
    OBVIOUS
  <1>2. Justified(r, h, d) => Justified(p, h, d)
    BY <1>1 DEF Justified, Proper
  <1> QED BY <1>1, <1>2 DEF Sound

\* Retiring a source keeps what it was.
LEMMA SoundRetired ==
  ASSUME NEW r, NEW h, NEW d, Sound(r, h, d), r.status # "retired"
  PROVE  Sound(Retired(r), h, d)
PROOF
  <1> DEFINE p == Retired(r)
             q == Snapshot(r)
  <1>1. /\ DOMAIN p = Fields /\ p.status = "retired" /\ p.stage = "retired"
        /\ p.since = r.since /\ p.failures = r.failures /\ p.retirement = q
    BY RetiredFields DEF Sound
  <1>2. /\ DOMAIN q = Restorable /\ q.status = r.status /\ q.stage = r.stage
        /\ q.since = r.since /\ q.qualifying = r.qualifying /\ q.lowSignal = r.lowSignal
        /\ q.failures = r.failures
    BY SnapshotFields
  <1>3. Justified(r, h, d) /\ r.failures \in Nat
    BY DEF Sound
  <1> HIDE DEF p, q
  <1>4. Justified(q, h, d) /\ r.since \in 0 .. d
    BY <1>2, <1>3 DEF Justified, Proper
  <1>5. Sound(p, h, d)
    BY <1>1, <1>2, <1>4 DEF Sound
  <1> QED BY <1>5 DEF p

LEMMA SoundActivated ==
  ASSUME NEW r, NEW h, NEW d, DOMAIN r = Fields, r.since \in 0 .. d
  PROVE  Sound(Activated(r), h, d)
PROOF
  <1> DEFINE p == Activated(r)
  <1>1. /\ DOMAIN p = Fields /\ p.status = "approved" /\ p.stage = "active"
        /\ p.since = r.since /\ p.lowSignal = {} /\ p.failures = 0
    BY ActivatedFields
  <1> HIDE DEF p
  <1>2. Sound(p, h, d)
    BY <1>1 DEF Sound, Justified, Proper
  <1> QED BY <1>2 DEF p

LEMMA SoundInProbation ==
  ASSUME NEW p, NEW h, NEW d \in Nat, DOMAIN p = Fields, p.status = "approved",
         p.stage = "probation", p.since \in 0 .. d, p.lowSignal = {}, p.failures \in Nat,
         Qualified(p.qualifying, p.since, h)
  PROVE  Sound(p, h, d)
BY DEF Sound, Justified, Proper

LEMMA SoundRestored ==
  ASSUME NEW r, NEW h, NEW d \in Nat, Sound(r, h, d), r.status = "retired",
         NEW g, g.high = h.high, g.low = h.low, g.missed = h.missed, g.seen = {},
         NEW target \in {"asBefore", "probation", "active"}
  PROVE  Sound(Restored(r, target, d), g, d)
PROOF
  <1> DEFINE p == Restored(r, target, d)
             q == r.retirement
  <1>1. /\ DOMAIN r = Fields /\ r.since \in 0 .. d
        /\ DOMAIN q = Restorable /\ Justified(q, h, d)
    BY DEF Sound, Justified, Proper
  <1>2. /\ DOMAIN p = Fields
        /\ target = "asBefore" => \A f \in Restorable : p[f] = q[f]
        /\ target = "probation" => p = Renewed(r, d)
        /\ target = "active" => p = Activated(Closed(r))
    BY <1>1, RestoredFields
  <1> HIDE DEF p, q
  <1>3. CASE target = "asBefore"
    <2>1. /\ p.status = q.status /\ p.stage = q.stage /\ p.since = q.since
          /\ p.qualifying = q.qualifying /\ p.lowSignal = q.lowSignal
          /\ p.failures = q.failures
      BY <1>2, <1>3 DEF Restorable
    <2>2. Justified(p, g, d)
      BY <1>1, <2>1 DEF Justified, Proper, Qualified
    <2>3. p.failures \in Nat
      BY <1>1, <2>1 DEF Justified
    <2> QED BY <1>2, <2>2, <2>3 DEF Sound, p
  <1>4. CASE target = "probation"
    <2>1. /\ p.status = "approved" /\ p.stage = "probation" /\ p.since = d
          /\ p.qualifying = {} /\ p.lowSignal = {} /\ p.failures = 0
      BY <1>1, <1>2, <1>4, RenewedFields
    <2>2. Sound(p, g, d)
      BY <1>2, <2>1, SoundInProbation DEF Qualified
    <2> QED BY <2>2 DEF p
  <1>5. CASE target = "active"
    <2>1. DOMAIN Closed(r) = Fields /\ Closed(r).since = r.since
      BY <1>1 DEF Closed, Fields
    <2>2. Sound(Activated(Closed(r)), g, d)
      BY <1>1, <2>1, SoundActivated
    <2> QED BY <1>2, <1>5, <2>2 DEF p
  <1> QED BY <1>3, <1>4, <1>5

-----------------------------------------------------------------------------
(* What a run says about a source.                                         *)

Kinds == {"none", "observed", "eligible", "ineligible"}

\* Does the mention say something about the record that it made m of?
Says(mention, m) ==
  \/ mention \in {"eligible", "ineligible"}
  \/ mention = "observed" /\ m.status # "absent"

\* A mention of an approved source leaves it approved as it is, or makes it a
\* candidate; what a mention makes of a source in probation has not passed it.
LEMMA MentionedSound ==
  ASSUME NEW r, NEW h, NEW d \in Nat, Sound(r, h, d), NEW mention \in Kinds,
         NEW m, m = Mentioned(r, mention, d)
  PROVE  /\ Sound(m, h, d)
         /\ Says(mention, m) => m.status = "retired" \/ m.lowSignal = {}
         /\ Says(mention, m) \/ m = r
         /\ r.stage = "probation" => m.stage = "probation"
         /\ r.status = "approved" => m.status # "retired"
PROOF
  <1> DEFINE known == IF r.status = "absent" THEN Discovered(d) ELSE r
             approved == CASE known.status = "retired" -> Renewed(known, d)
                           [] known.status = "candidate" -> InProbation(known, d)
                           [] known.status = "approved" -> known
  <1>1. /\ DOMAIN Discovered(d) = Fields /\ Discovered(d).status = "candidate"
        /\ Discovered(d).since = d /\ Discovered(d).qualifying = {}
        /\ Discovered(d).stage = "probation" /\ Discovered(d).failures = 0
    BY DEF Discovered, Unknown, Fields
  <1>2. /\ DOMAIN r = Fields /\ r.since \in 0 .. d /\ r.failures \in Nat
        /\ r.status \in {"absent", "candidate", "approved", "retired"}
        /\ r.status = "retired" => r.stage = "retired"
        /\ r.status \in {"absent", "candidate"} => r.stage = "probation" /\ r.qualifying = {}
    BY SoundStatus DEF Sound, Justified, Proper
  <1>3. /\ DOMAIN known = Fields /\ known.since \in 0 .. d
        /\ known.status \in {"candidate", "approved", "retired"}
        /\ known.status = "candidate" => known.qualifying = {}
        /\ r.status = "absent" => known.status = "candidate"
        /\ r.status # "absent" => known = r
    BY <1>1, <1>2
  <1>4. m = CASE mention = "eligible" -> Observed(approved)
              [] mention = "ineligible" -> MarkedCandidate(known)
              [] mention = "observed" /\ r.status # "absent" -> Observed(r)
              [] OTHER -> r
    BY DEF Mentioned
  <1> HIDE DEF known
  <1>5. CASE mention = "none" \/ (mention = "observed" /\ r.status = "absent")
    <2>1. m = r
      BY <1>4, <1>5
    <2> QED BY <1>5, <2>1 DEF Says
  <1>6. CASE mention = "observed" /\ r.status # "absent"
    <2>1. m = Observed(r)
      BY <1>4, <1>6
    <2>2. /\ DOMAIN m = Fields /\ m.status = r.status /\ m.stage = r.stage
          /\ m.since = r.since /\ m.qualifying = r.qualifying /\ m.lowSignal = {}
          /\ m.failures = r.failures
          /\ r.status = "retired" => m.retirement = r.retirement
      BY <1>2, <2>1, ObservedFields
    <2>3. Sound(m, h, d)
      BY <2>2 DEF Sound, Justified, Proper
    <2> QED BY <1>6, <2>2, <2>3 DEF Says
  <1>7. CASE mention = "ineligible"
    <2>1. m = MarkedCandidate(known)
      BY <1>4, <1>7
    <2>2. /\ DOMAIN m = Fields /\ m.status = "candidate" /\ m.stage = "probation"
          /\ m.since = known.since /\ m.qualifying = {} /\ m.lowSignal = {} /\ m.failures = 0
      BY <1>3, <2>1, CandidateFields
    <2>3. Sound(m, h, d)
      BY <1>3, <2>2 DEF Sound, Justified, Proper, Qualified
    <2> QED BY <1>7, <2>2, <2>3 DEF Says
  <1>8. CASE mention = "eligible"
    <2>1. m = Observed(approved)
      BY <1>4, <1>8
    <2>2. CASE known.status \in {"retired", "candidate"}
      <3>1. /\ DOMAIN approved = Fields /\ approved.status = "approved"
            /\ approved.stage = "probation" /\ approved.since = d /\ approved.qualifying = {}
            /\ approved.failures = 0
        BY <1>3, <2>2, RenewedFields, ProbationFields
      <3> HIDE DEF approved
      <3>2. /\ DOMAIN m = Fields /\ m.status = "approved" /\ m.stage = "probation"
            /\ m.since = d /\ m.qualifying = {} /\ m.lowSignal = {} /\ m.failures = 0
        BY <2>1, <3>1, ObservedFields
      <3>3. Sound(m, h, d)
        BY <3>2, SoundInProbation DEF Qualified
      <3> QED BY <1>8, <3>2, <3>3 DEF Says
    <2>3. CASE known.status = "approved"
      <3>1. r.status = "approved" /\ approved = r
        BY <1>3, <2>3
      <3> HIDE DEF approved
      <3>2. /\ DOMAIN m = Fields /\ m.status = r.status /\ m.stage = r.stage
            /\ m.since = r.since /\ m.qualifying = r.qualifying /\ m.lowSignal = {}
            /\ m.failures = r.failures
        BY <1>2, <2>1, <3>1, ObservedFields
      <3>3. Sound(m, h, d)
        BY <3>1, <3>2 DEF Sound, Justified, Proper
      <3> QED BY <1>8, <3>1, <3>2, <3>3 DEF Says
    <2> QED BY <1>3, <2>2, <2>3
  <1> HIDE DEF approved
  <1>9. mention \in {"none", "observed", "eligible", "ineligible"}
    BY DEF Kinds
  <1> QED BY <1>5, <1>6, <1>7, <1>8, <1>9

\* The days with scores after a run that rated the source.
Rated(h, m, rating, d, g) ==
  /\ g.high = IF m.status = "approved" /\ rating = "high" THEN h.high \cup {d} ELSE h.high
  /\ g.low = IF m.status = "approved" /\ rating = "low" /\ d \notin h.high
             THEN h.low \cup {d} ELSE h.low
  /\ g.missed = h.missed /\ g.seen = h.seen

\* The days in the window with which a source was promoted.
EarnedOn(since, g, d) ==
  {c \in g.high : since <= c /\ (\A b \in g.low : b <= c) /\ InWindow(c, d, PromotionWindow)}

\* evaluateSourcePromotion: qualifying days stay qualified in the window; enough of
\* them make the source active.
LEMMA PromotionSound ==
  ASSUME NEW r, NEW g, NEW d \in Nat, DOMAIN r = Fields, r.status = "approved",
         r.stage = "probation", r.lowSignal = {}, r.since \in 0 .. d, r.failures \in Nat,
         Qualified(r.qualifying, r.since, g), Bounded(g, d), NEW p, p = PromotionEvaluated(r, d)
  PROVE  /\ Sound(p, g, d) /\ p.status = "approved" /\ p.lowSignal = {}
         /\ p.stage = "active" => Cardinality(EarnedOn(p.since, g, d)) >= MinQualifying
PROOF
  <1> DEFINE days == {c \in r.qualifying : InWindow(c, d, PromotionWindow)}
             pruned == [r EXCEPT !.qualifying = days]
  <1>1. /\ DOMAIN pruned = Fields /\ pruned.status = "approved" /\ pruned.stage = "probation"
        /\ pruned.lowSignal = {} /\ pruned.since = r.since /\ pruned.qualifying = days
        /\ pruned.failures = r.failures
    BY DEF Fields
  <1>2. Qualified(days, r.since, g)
    BY DEF Qualified
  <1>3. p = IF Cardinality(days) >= MinQualifying THEN Activated(pruned) ELSE pruned
    BY DEF PromotionEvaluated
  <1>4. IsFiniteSet(EarnedOn(r.since, g, d)) /\ days \subseteq EarnedOn(r.since, g, d)
    <2>1. EarnedOn(r.since, g, d) \in SUBSET (0 .. d)
      BY DEF EarnedOn, Bounded
    <2>2. IsFiniteSet(0 .. d)
      BY FS_Interval
    <2> QED BY <2>1, <2>2, FS_Subset DEF EarnedOn, Qualified
  <1>5. /\ Cardinality(days) \in Nat /\ Cardinality(EarnedOn(r.since, g, d)) \in Nat
        /\ Cardinality(days) <= Cardinality(EarnedOn(r.since, g, d))
    BY <1>4, FS_Subset, FS_CardinalityType
  <1> HIDE DEF pruned
  <1>6. CASE Cardinality(days) >= MinQualifying
    <2>1. p = Activated(pruned)
      BY <1>3, <1>6
    <2>2. p.status = "approved" /\ p.lowSignal = {} /\ p.since = r.since
      BY <1>1, <2>1, ActivatedFields
    <2>3. Sound(p, g, d)
      BY <1>1, <2>1, SoundActivated
    <2>4. Cardinality(EarnedOn(r.since, g, d)) >= MinQualifying
      <3>1. MinQualifying \in Int
        BY LifecycleAssumption
      <3> HIDE DEF days
      <3> QED BY <1>5, <1>6, <3>1
    <2> QED BY <2>2, <2>3, <2>4
  <1>7. CASE ~ (Cardinality(days) >= MinQualifying)
    <2>1. p = pruned
      BY <1>3, <1>7
    <2>2. Sound(p, g, d)
      BY <1>1, <1>2, <2>1, SoundInProbation
    <2> QED BY <1>1, <2>1, <2>2
  <1> QED BY <1>6, <1>7

\* recordSourcePromotionObservation: a day without a qualifying score ends the streak of
\* a source in probation, one with a qualifying score extends it.
LEMMA ScoredSound ==
  ASSUME NEW m, NEW h, NEW d \in Nat, Sound(m, h, d), Bounded(h, d),
         NEW rating \in {"none", "low", "high"}, NEW g, Rated(h, m, rating, d, g),
         NEW p, p = Scored(m, rating, d)
  PROVE  /\ Sound(p, g, d) /\ p.status = m.status
         /\ rating # "none" /\ m.status = "approved" => p.lowSignal = {}
         /\ rating = "none" \/ m.status # "approved" => p = m
         /\ m.stage = "probation" /\ p.stage = "active"
              => Cardinality(EarnedOn(p.since, g, d)) >= MinQualifying
PROOF
  <1>1. CASE rating = "none" \/ m.status # "approved"
    <2>1. p = m
      BY <1>1 DEF Scored
    <2>2. g.high = h.high /\ g.low = h.low /\ g.missed = h.missed /\ g.seen = h.seen
      BY <1>1 DEF Rated
    <2>3. Sound(p, g, d)
      BY <2>1, <2>2, SoundLater
    <2>4. ~ (m.stage = "probation" /\ p.stage = "active")
      BY <2>1
    <2> QED BY <1>1, <2>1, <2>3, <2>4
  <1>2. CASE rating # "none" /\ m.status = "approved"
    <2> DEFINE o == Observed(m)
    <2>1. /\ DOMAIN o = Fields /\ o.status = m.status /\ o.stage = m.stage
          /\ o.since = m.since /\ o.qualifying = m.qualifying /\ o.lowSignal = {}
          /\ o.failures = m.failures
      BY ObservedFields DEF Sound
    <2>2. /\ m.since \in 0 .. d /\ m.failures \in Nat /\ m.stage \in {"probation", "active"}
          /\ m.stage = "probation" => Qualified(m.qualifying, m.since, h)
      BY <1>2 DEF Sound, Justified, Proper
    <2>3. Bounded(g, d)
      BY <1>2 DEF Bounded, Rated
    <2>4. p = IF o.stage # "probation" THEN o
              ELSE PromotionEvaluated([o EXCEPT !.qualifying =
                     IF rating = "high" THEN @ \cup {d} ELSE IF d \in @ THEN @ ELSE {}], d)
      BY <1>2 DEF Scored
    <2> HIDE DEF o
    <2>5. CASE m.stage = "active"
      <3>1. p = o
        BY <2>1, <2>4, <2>5
      <3>2. Sound(p, g, d)
        BY <1>2, <2>1, <2>2, <2>5, <3>1 DEF Sound, Justified, Proper
      <3> QED BY <1>2, <2>1, <2>5, <3>1, <3>2
    <2>6. CASE m.stage = "probation"
      <3> DEFINE days == IF rating = "high" THEN o.qualifying \cup {d}
                         ELSE IF d \in o.qualifying THEN o.qualifying ELSE {}
                 q == [o EXCEPT !.qualifying = days]
      <3>1. /\ DOMAIN q = Fields /\ q.status = "approved" /\ q.stage = "probation"
            /\ q.lowSignal = {} /\ q.since = m.since /\ q.qualifying = days
            /\ q.failures = m.failures
        BY <1>2, <2>1, <2>6 DEF Fields
      <3>2. p = PromotionEvaluated(q, d)
        BY <2>1, <2>4, <2>6
      <3>3. Qualified(days, m.since, g)
        <4>1. \A c \in m.qualifying : c \in h.high /\ m.since <= c /\ \A b \in h.low : b <= c
          BY <2>2, <2>6 DEF Qualified
        <4>2. CASE rating = "high"
          <5>1. g.high = h.high \cup {d} /\ g.low = h.low /\ days = m.qualifying \cup {d}
            BY <1>2, <2>1, <4>2 DEF Rated
          <5>2. \A b \in h.low : b <= d
            BY DEF Bounded
          <5> QED BY <2>2, <4>1, <5>1, <5>2 DEF Qualified
        <4>3. CASE rating = "low" /\ d \in m.qualifying
          <5>1. g.high = h.high /\ g.low = h.low /\ days = m.qualifying
            BY <1>2, <2>1, <4>1, <4>3 DEF Rated
          <5> QED BY <4>1, <5>1 DEF Qualified
        <4>4. CASE rating = "low" /\ d \notin m.qualifying
          <5>1. days = {}
            BY <2>1, <4>4
          <5> QED BY <5>1 DEF Qualified
        <4> QED BY <1>2, <4>2, <4>3, <4>4
      <3> HIDE DEF q, days
      <3>4. /\ Sound(p, g, d) /\ p.status = "approved" /\ p.lowSignal = {}
            /\ p.stage = "active" => Cardinality(EarnedOn(p.since, g, d)) >= MinQualifying
        BY <2>2, <2>3, <3>1, <3>2, <3>3, PromotionSound
      <3> QED BY <1>2, <3>4
    <2> QED BY <2>2, <2>5, <2>6
  <1> QED BY <1>1, <1>2

-----------------------------------------------------------------------------
(* Retirements.                                                            *)

Cycles(r, d) == {c \in r.lowSignal \cup {d} : InWindow(c, d, RetirementWindow)}

\* evaluateLowSignalSources makes p of the record r of a source it did not see.
EvaluatedTo(p, r, d) ==
  LET recorded == [r EXCEPT !.lowSignal = Cycles(r, d)] IN
  \/ r.failures >= MaxFailures /\ p \in {r, Retired(r)}
  \/ ~(r.failures >= MaxFailures) /\ p = recorded
  \/ /\ ~(r.failures >= MaxFailures) /\ p = Retired(recorded)
     /\ d - MinLowSignal + 1 .. d \subseteq Cycles(r, d)

LEMMA EvaluatedRecord ==
  ASSUME NEW S, DOMAIN S = Sources, NEW s \in Sources, S[s].status = "approved", NEW d
  PROVE  LET T == Evaluated(S, s, d) IN
         /\ DOMAIN T = Sources
         /\ \A t \in Sources \ {s} : T[t] = S[t]
         /\ EvaluatedTo(T[s], S[s], d)
PROOF
  <1> DEFINE recorded == [S EXCEPT ![s].lowSignal = Cycles(S[s], d)]
  <1>1. /\ DOMAIN recorded = Sources /\ \A t \in Sources \ {s} : recorded[t] = S[t]
        /\ recorded[s] = [S[s] EXCEPT !.lowSignal = Cycles(S[s], d)]
    OBVIOUS
  <1>2. CASE S[s].failures >= MaxFailures
    BY <1>2 DEF Evaluated, PerformanceEvaluated, EvaluatedTo
  <1>3. CASE ~ (S[s].failures >= MaxFailures)
    <2>1. Evaluated(S, s, d) =
            IF d - MinLowSignal + 1 .. d \subseteq Cycles(S[s], d) /\ ~RetirementBlocked(S, s)
            THEN [recorded EXCEPT ![s] = Retired(@)] ELSE recorded
      BY <1>3 DEF Evaluated, LowSignalRecorded, Cycles
    <2> HIDE DEF recorded
    <2> QED BY <1>1, <1>3, <2>1 DEF EvaluatedTo
  <1> QED BY <1>2, <1>3

\* A missed source stays sound, and has the low-signal days it is retired for.
LEMMA EvaluatedSound ==
  ASSUME NEW r, NEW h, NEW d \in Nat, Sound(r, h, d), Bounded(h, d), r.status = "approved",
         NEW g, g.high = h.high, g.low = h.low, g.missed = h.missed \cup {d}, g.seen = h.seen,
         NEW p, EvaluatedTo(p, r, d)
  PROVE  /\ Sound(p, g, d)
         /\ \/ p.status = r.status /\ p.stage = r.stage
            \/ p.status = "retired" /\ p.stage = "retired"
         /\ p.status = "retired" /\ ~(r.failures >= MaxFailures) =>
              /\ d - MinLowSignal + 1 .. d \subseteq g.missed
              /\ g.seen \cap (d - MinLowSignal + 2 .. d) = {}
PROOF
  <1> DEFINE recorded == [r EXCEPT !.lowSignal = Cycles(r, d)]
             first == d - MinLowSignal + 1
  <1>1. /\ Justified(r, h, d) /\ DOMAIN r = Fields
        /\ \A c \in r.lowSignal, e \in h.seen : e <= c
    BY DEF Sound
  <1>2. /\ DOMAIN recorded = Fields /\ recorded.status = r.status /\ recorded.stage = r.stage
        /\ recorded.since = r.since /\ recorded.qualifying = r.qualifying
        /\ recorded.lowSignal = Cycles(r, d) /\ recorded.failures = r.failures
    BY <1>1 DEF Fields
  <1>3. Cycles(r, d) \subseteq g.missed /\ \A c \in Cycles(r, d), e \in g.seen : e <= c
    BY <1>1 DEF Cycles, Justified, Bounded
  <1>4. Sound(r, g, d) /\ r.status # "retired"
    BY SoundLater
  <1> HIDE DEF recorded
  <1>5. Sound(recorded, g, d) /\ recorded.status # "retired"
    BY <1>1, <1>2, <1>3 DEF Sound, Justified, Proper, Qualified
  <1>6. /\ Sound(Retired(r), g, d) /\ Sound(Retired(recorded), g, d)
        /\ Retired(r).status = "retired" /\ Retired(r).stage = "retired"
        /\ Retired(recorded).status = "retired" /\ Retired(recorded).stage = "retired"
    BY <1>1, <1>2, <1>4, <1>5, SoundRetired, RetiredFields
  <1>7. \/ r.failures >= MaxFailures /\ p \in {r, Retired(r)}
        \/ ~(r.failures >= MaxFailures) /\ p = recorded
        \/ /\ ~(r.failures >= MaxFailures) /\ p = Retired(recorded)
           /\ first .. d \subseteq Cycles(r, d)
    BY DEF EvaluatedTo, recorded
  <1>8. CASE r.failures >= MaxFailures /\ p \in {r, Retired(r)}
    BY <1>4, <1>6, <1>8
  <1>9. CASE ~(r.failures >= MaxFailures) /\ p = recorded
    BY <1>2, <1>5, <1>9
  <1>10. CASE ~(r.failures >= MaxFailures) /\ p = Retired(recorded)
              /\ first .. d \subseteq Cycles(r, d)
    <2>1. MinLowSignal \in Nat \ {0}
      BY LifecycleAssumption
    <2>2. first \in Cycles(r, d)
      BY <1>10, <2>1
    <2>3. \A e \in g.seen : e \in 0 .. d /\ e <= first
      BY <1>3, <2>2 DEF Bounded
    <2>4. g.seen \cap (d - MinLowSignal + 2 .. d) = {}
      BY <2>1, <2>3
    <2> QED BY <1>3, <1>6, <1>10, <2>4
  <1> QED BY <1>7, <1>8, <1>9, <1>10

\* recordSourceFetchSuccess and recordSourceFetchFailure make p of the record r.
FetchedTo(p, r) ==
  LET failed == [r EXCEPT !.failures = OneMore(@)] IN p \in {NoBackoff(r), failed, Retired(failed)}

LEMMA FetchedSound ==
  ASSUME NEW r, NEW h, NEW d, Sound(r, h, d), r.status = "approved", NEW p, FetchedTo(p, r)
  PROVE  /\ Sound(p, h, d)
         /\ \/ p.status = r.status /\ p.stage = r.stage
            \/ p.status = "retired" /\ p.stage = "retired"
PROOF
  <1> DEFINE failed == [r EXCEPT !.failures = OneMore(@)]
             fetched_ == NoBackoff(r)
  <1>1. DOMAIN r = Fields /\ r.failures \in Nat
    BY DEF Sound
  <1>2. /\ DOMAIN failed = Fields /\ DOMAIN fetched_ = Fields
        /\ failed.failures = OneMore(r.failures) /\ fetched_.failures = 0
        /\ \A f \in {"status", "stage", "since", "qualifying", "lowSignal", "retirement"} :
             failed[f] = r[f] /\ fetched_[f] = r[f]
    BY <1>1 DEF Fields, NoBackoff
  <1>3. p \in {fetched_, failed, Retired(failed)}
    BY DEF FetchedTo
  <1> HIDE DEF failed, fetched_
  <1>4. Sound(failed, h, d) /\ Sound(fetched_, h, d)
    <2>1. failed.failures \in Nat /\ fetched_.failures \in Nat
      BY <1>1, <1>2, LifecycleAssumption DEF OneMore
    <2> QED BY <1>2, <2>1, SoundAlike
  <1>5. /\ failed.status = r.status /\ failed.stage = r.stage
        /\ fetched_.status = r.status /\ fetched_.stage = r.stage
    BY <1>2
  <1>6. /\ Sound(Retired(failed), h, d)
        /\ Retired(failed).status = "retired" /\ Retired(failed).stage = "retired"
    BY <1>2, <1>4, <1>5, SoundRetired, RetiredFields
  <1> QED BY <1>3, <1>4, <1>5, <1>6

-----------------------------------------------------------------------------
(* Categories keep an active source.                                       *)

\* Every category that had an active source has one still.
Keeps(S, T) == \A c : CoveredBy(S, c) # {} => CoveredBy(T, c) # {}

LEMMA KeepsAlike ==
  ASSUME NEW S, NEW T, \A s \in Sources : T[s].status = S[s].status /\ T[s].stage = S[s].stage
  PROVE  Keeps(S, T)
BY DEF Keeps, CoveredBy, Covering

\* A retirement that the guard does not block leaves each category of the source another
\* active one: it was not the only one, as the guard blocks it at a minimum of two.
LEMMA KeepsUnblocked ==
  ASSUME MinSources > 1, NEW S, NEW T, NEW s \in Sources, ~ RetirementBlocked(S, s),
         \A t \in Sources \ {s} : T[t] = S[t]
  PROVE  Keeps(S, T)
PROOF
  <1> SUFFICES ASSUME NEW c, CoveredBy(S, c) # {}
               PROVE  CoveredBy(T, c) # {}
    BY DEF Keeps
  <1>1. \A t \in CoveredBy(S, c) \ {s} : t \in CoveredBy(T, c)
    BY DEF CoveredBy
  <1>2. CASE CoveredBy(S, c) = {s}
    <2>1. Cardinality(CoveredBy(S, c)) = 1
      BY <1>2, FS_Singleton
    <2>2. Covering(S[s]) /\ c \in Covers[s]
      BY <1>2 DEF CoveredBy
    <2>3. RetirementBlocked(S, s)
      BY <2>1, <2>2 DEF RetirementBlocked
    <2> QED BY <2>3
  <1> QED BY <1>1, <1>2

-----------------------------------------------------------------------------
(* Several sources, one after the other: x says what is done, to which     *)
(* sources, with whose fetches successful, on which day.                   *)

Turn(S, s, x) ==
  IF s \notin x.subset THEN S
  ELSE IF x.kind = "fetch" THEN FetchRecorded(S, s, s \in x.ok) ELSE Evaluated(S, s, x.day)

TurnedTo(p, r, x) == IF x.kind = "fetch" THEN FetchedTo(p, r) ELSE EvaluatedTo(p, r, x.day)

LEMMA TurnTaken ==
  ASSUME NEW S, DOMAIN S = Sources, NEW x, NEW s \in Sources, s \in x.subset,
         DOMAIN S[s] = Fields, S[s].status = "approved"
  PROVE  LET T == Turn(S, s, x) IN
         /\ DOMAIN T = Sources
         /\ \A t \in Sources \ {s} : T[t] = S[t]
         /\ TurnedTo(T[s], S[s], x)
         /\ MinSources > 1 => Keeps(S, T)
PROOF
  <1> DEFINE T == Turn(S, s, x)
  <1>1. CASE x.kind # "fetch"
    <2>1. T = Evaluated(S, s, x.day)
      BY <1>1 DEF Turn
    <2> HIDE DEF T
    <2>2. /\ DOMAIN T = Sources /\ \A t \in Sources \ {s} : T[t] = S[t]
          /\ EvaluatedTo(T[s], S[s], x.day)
      BY <2>1, EvaluatedRecord
    <2>3. TurnedTo(T[s], S[s], x)
      BY <1>1, <2>2 DEF TurnedTo
    <2>4. ASSUME MinSources > 1 PROVE Keeps(S, T)
      <3>1. CASE RetirementBlocked(S, s)
        <4>1. T = S \/ T = [S EXCEPT ![s].lowSignal = Cycles(S[s], x.day)]
          BY <2>1, <3>1 DEF Evaluated, PerformanceEvaluated, LowSignalRecorded, Cycles
        <4>2. T[s].status = S[s].status /\ T[s].stage = S[s].stage
          BY <4>1 DEF Fields
        <4> QED BY <2>2, <4>2, KeepsAlike
      <3> QED BY <2>2, <2>4, <3>1, KeepsUnblocked
    <2> QED BY <2>2, <2>3, <2>4 DEF T
  <1>2. CASE x.kind = "fetch" /\ s \in x.ok
    <2>1. T = [S EXCEPT ![s] = NoBackoff(@)]
      BY <1>2 DEF Turn, FetchRecorded
    <2> HIDE DEF T
    <2>2. /\ DOMAIN T = Sources /\ \A t \in Sources \ {s} : T[t] = S[t]
          /\ T[s] = NoBackoff(S[s])
      BY <2>1
    <2>3. T[s].status = S[s].status /\ T[s].stage = S[s].stage
      BY <2>2 DEF NoBackoff, Fields
    <2>4. Keeps(S, T)
      BY <2>2, <2>3, KeepsAlike
    <2>5. TurnedTo(T[s], S[s], x)
      BY <1>2, <2>2 DEF TurnedTo, FetchedTo
    <2> QED BY <2>2, <2>4, <2>5 DEF T
  <1>3. CASE x.kind = "fetch" /\ s \notin x.ok
    <2> DEFINE failed == [S EXCEPT ![s].failures = OneMore(@)]
    <2>1. /\ DOMAIN failed = Sources /\ \A t \in Sources \ {s} : failed[t] = S[t]
          /\ failed[s] = [S[s] EXCEPT !.failures = OneMore(@)]
      OBVIOUS
    <2>2. T = PerformanceEvaluated(failed, s)
      BY <1>3 DEF Turn, FetchRecorded
    <2> HIDE DEF T, failed
    <2>3. failed[s].status = S[s].status /\ failed[s].stage = S[s].stage
      BY <2>1 DEF Fields
    <2>4. Keeps(S, failed)
      <3>1. ASSUME NEW t \in Sources
            PROVE  failed[t].status = S[t].status /\ failed[t].stage = S[t].stage
        <4>1. t # s => failed[t] = S[t]
          BY <2>1
        <4> QED BY <2>3, <4>1
      <3> QED BY <3>1, KeepsAlike
    <2>5. CASE T = failed
      <3>1. TurnedTo(T[s], S[s], x)
        BY <1>3, <2>1, <2>5 DEF TurnedTo, FetchedTo
      <3> QED BY <2>1, <2>4, <2>5, <3>1 DEF T
    <2>6. CASE T = [failed EXCEPT ![s] = Retired(@)] /\ ~ RetirementBlocked(failed, s)
      <3>1. /\ DOMAIN T = Sources /\ \A t \in Sources \ {s} : T[t] = failed[t]
            /\ T[s] = Retired(failed[s])
        BY <2>1, <2>6
      <3>2. MinSources > 1 => Keeps(failed, T)
        BY <2>6, <3>1, KeepsUnblocked
      <3>3. MinSources > 1 => Keeps(S, T)
        BY <2>4, <3>2 DEF Keeps
      <3>4. TurnedTo(T[s], S[s], x)
        BY <1>3, <2>1, <3>1 DEF TurnedTo, FetchedTo
      <3> QED BY <2>1, <3>1, <3>3, <3>4 DEF T
    <2> QED BY <2>2, <2>5, <2>6 DEF PerformanceEvaluated
  <1> QED BY <1>1, <1>2, <1>3

\* An order has finitely many places.
LEMMA PlacesFinite ==
  ASSUME NEW order \in SourceOrders
  PROVE  DOMAIN order \in SUBSET Int /\ IsFiniteSet(DOMAIN order)
PROOF
  <1>1. DOMAIN order = 1 .. Cardinality(Sources)
    BY DEF SourceOrders, SetToSeqs
  <1>2. Cardinality(Sources) \in Nat
    BY LifecycleAssumption, FS_CardinalityType
  <1> QED BY <1>1, <1>2, FS_Interval

\* The recursive function of a fold of turns over the places of the order in D.
Turns(S, order, x, D, h) ==
  h = [U \in SUBSET D |-> IF U = {} THEN S ELSE Turn(h[U \ {Max(U)}], order[Max(U)], x)]

\* There is one, by induction over the places: one more place is taken last.
LEMMA TurnsExist ==
  ASSUME NEW S, NEW order, NEW x, NEW D \in SUBSET Int, IsFiniteSet(D)
  PROVE  \E h : Turns(S, order, x, D, h)
PROOF
  <1> DEFINE Good == {U \in SUBSET D : \E h : Turns(S, order, x, U, h)}
  <1>1. {} \in Good
    <2> DEFINE h == [U \in SUBSET {} |-> S]
    <2>1. h = [U \in SUBSET {} |-> IF U = {} THEN S ELSE Turn(h[U \ {Max(U)}], order[Max(U)], x)]
      <3>1. \A U \in SUBSET {} : U = {}
        OBVIOUS
      <3> QED BY <3>1
    <2>2. Turns(S, order, x, {}, h)
      BY <2>1 DEF Turns
    <2> QED BY <2>2
  <1>2. ASSUME NEW U \in SUBSET D, U # {}, U \ {Max(U)} \in Good
        PROVE  U \in Good
    <2> DEFINE m == Max(U)
               V == U \ {m}
    <2>1. PICK k : Turns(S, order, x, V, k)
      BY <1>2
    <2>2. m \in U /\ \A t \in U : m >= t
      BY <1>2, FS_Subset, MaxFacts
    <2>3. ASSUME NEW W \in SUBSET U, m \in W
          PROVE  Max(W) = m
      <3>1. IsFiniteSet(W) /\ W \in SUBSET Int /\ W # {} /\ \A t \in W : m >= t
        BY <2>2, <2>3, FS_Subset
      <3> HIDE DEF m
      <3> QED BY <2>3, <3>1, MaxFacts
    <2> HIDE DEF m
    <2> DEFINE h == [W \in SUBSET U |-> IF m \in W THEN Turn(k[W \ {m}], order[m], x) ELSE k[W]]
               r(W) == IF W = {} THEN S ELSE Turn(h[W \ {Max(W)}], order[Max(W)], x)
    <2>4. ASSUME NEW W \in SUBSET U
          PROVE  h[W] = r(W)
      <3>1. CASE m \in W
        <4>1. W \ {m} \in SUBSET U /\ m \notin W \ {m}
          OBVIOUS
        <4>2. h[W] = Turn(k[W \ {m}], order[m], x) /\ h[W \ {m}] = k[W \ {m}]
          BY <3>1, <4>1
        <4> HIDE DEF h
        <4>3. Max(W) = m /\ W # {}
          BY <2>3, <3>1
        <4> QED BY <4>2, <4>3
      <3>2. CASE m \notin W
        <4>1. W \in SUBSET V /\ W \ {Max(W)} \in SUBSET V
          BY <3>2
        <4>2. h[W] = k[W] /\ h[W \ {Max(W)}] = k[W \ {Max(W)}]
          BY <3>2, <4>1
        <4>3. k[W] = IF W = {} THEN S ELSE Turn(k[W \ {Max(W)}], order[Max(W)], x)
          BY <2>1, <4>1 DEF Turns
        <4> HIDE DEF h
        <4> QED BY <4>2, <4>3
      <3> QED BY <3>1, <3>2
    <2>5. h = [W \in SUBSET U |-> r(W)]
      <3> HIDE DEF r
      <3> QED BY <2>4
    <2>6. Turns(S, order, x, U, h)
      BY <2>5 DEF Turns
    <2> HIDE DEF h
    <2> QED BY <2>6
  <1>3. D \in Good
    <2> HIDE DEF Good
    <2> QED BY <1>1, <1>2, HoldsChronologically
  <1> QED BY <1>3

\* After the turns of some places of the order each source had one turn at most, and
\* categories kept an active source.
Taken(S, order, x, U, T) ==
  /\ DOMAIN T = Sources
  /\ \A s \in Sources :
       IF s \in x.subset /\ \E j \in U : order[j] = s THEN TurnedTo(T[s], S[s], x)
       ELSE T[s] = S[s]
  /\ MinSources > 1 => Keeps(S, T)

LEMMA OneMoreTurn ==
  ASSUME NEW S, NEW x, \A s \in x.subset : DOMAIN S[s] = Fields /\ S[s].status = "approved",
         NEW order \in SourceOrders, NEW U \in SUBSET DOMAIN order, NEW m \in DOMAIN order \ U,
         NEW T, Taken(S, order, x, U, T)
  PROVE  Taken(S, order, x, U \cup {m}, Turn(T, order[m], x))
PROOF
  <1> DEFINE s == order[m]
             T2 == Turn(T, s, x)
  <1>1. /\ order[m] \in Sources
        /\ \A i, j \in DOMAIN order : i # j => order[i] # order[j]
    BY DEF SourceOrders, SetToSeqs
  <1>2. T[s] = S[s] /\ DOMAIN T = Sources
    BY <1>1 DEF Taken
  <1>3. \A t \in Sources \ {s} : (\E j \in U \cup {m} : order[j] = t) <=> (\E j \in U : order[j] = t)
    OBVIOUS
  <1>4. CASE s \notin x.subset
    <2>1. T2 = T
      BY <1>4 DEF Turn
    <2>2. ASSUME NEW t \in Sources
          PROVE  IF t \in x.subset /\ \E j \in U \cup {m} : order[j] = t
                 THEN TurnedTo(T[t], S[t], x) ELSE T[t] = S[t]
      BY <1>3, <1>4 DEF Taken
    <2> QED BY <2>1, <2>2 DEF Taken
  <1>5. CASE s \in x.subset
    <2>1. /\ DOMAIN T2 = Sources
          /\ \A t \in Sources \ {s} : T2[t] = T[t]
          /\ TurnedTo(T2[s], T[s], x)
          /\ MinSources > 1 => Keeps(T, T2)
      BY <1>1, <1>2, <1>5, TurnTaken
    <2> HIDE DEF T2
    <2>2. ASSUME NEW t \in Sources
          PROVE  IF t \in x.subset /\ \E j \in U \cup {m} : order[j] = t
                 THEN TurnedTo(T2[t], S[t], x) ELSE T2[t] = S[t]
      <3>1. CASE t = s
        BY <1>2, <1>5, <2>1, <3>1
      <3>2. CASE t # s
        BY <1>3, <2>1, <3>2 DEF Taken
      <3> QED BY <3>1, <3>2
    <2>3. MinSources > 1 => Keeps(S, T2)
      BY <2>1 DEF Taken, Keeps
    <2> QED BY <2>1, <2>2, <2>3 DEF Taken, T2
  <1> QED BY <1>4, <1>5

LEMMA TurnsTaken ==
  ASSUME NEW S, DOMAIN S = Sources,
         NEW x, \A s \in x.subset : DOMAIN S[s] = Fields /\ S[s].status = "approved",
         NEW order \in SourceOrders, NEW h, Turns(S, order, x, DOMAIN order, h)
  PROVE  Taken(S, order, x, DOMAIN order, h[DOMAIN order])
PROOF
  <1> DEFINE D == DOMAIN order
             Good == {U \in SUBSET D : Taken(S, order, x, U, h[U])}
  <1>1. D \in SUBSET Int /\ IsFiniteSet(D)
    BY PlacesFinite
  <1>2. {} \in Good
    <2>1. h[{}] = S
      BY DEF Turns
    <2>2. Taken(S, order, x, {}, S)
      BY DEF Taken, Keeps
    <2> QED BY <2>1, <2>2
  <1>3. ASSUME NEW U \in SUBSET D, U # {}, U \ {Max(U)} \in Good
        PROVE  U \in Good
    <2> DEFINE m == Max(U)
               V == U \ {m}
    <2>1. m \in U
      BY <1>1, <1>3, FS_Subset, MaxFacts
    <2>2. h[U] = Turn(h[V], order[m], x)
      BY <1>3 DEF Turns
    <2>3. V \in SUBSET D /\ Taken(S, order, x, V, h[V]) /\ V \cup {m} = U
      BY <1>3, <2>1
    <2> HIDE DEF m
    <2>4. Taken(S, order, x, V \cup {m}, Turn(h[V], order[m], x))
      BY <2>1, <2>3, OneMoreTurn
    <2> QED BY <2>2, <2>3, <2>4
  <1>4. D \in Good
    <2> HIDE DEF Good, D
    <2> QED BY <1>1, <1>2, <1>3, HoldsChronologically
  <1> QED BY <1>4

Fetches(targets, ok) == [kind |-> "fetch", subset |-> targets, ok |-> ok, day |-> 0]
Misses(missed, d) == [kind |-> "miss", subset |-> missed, ok |-> {}, day |-> d]

FetchTurns(S, targets, ok, order, D, h) ==
  h = [U \in SUBSET D |->
         IF U = {} THEN S
         ELSE IF order[Max(U)] \in targets
              THEN FetchRecorded(h[U \ {Max(U)}], order[Max(U)], order[Max(U)] \in ok)
              ELSE h[U \ {Max(U)}]]

MissTurns(S, missed, d, order, D, h) ==
  h = [U \in SUBSET D |->
         IF U = {} THEN S
         ELSE IF order[Max(U)] \in missed THEN Evaluated(h[U \ {Max(U)}], order[Max(U)], d)
              ELSE h[U \ {Max(U)}]]

Missing(S, missed, d, order) ==
  FoldLeft(LAMBDA T, s : IF s \in missed THEN Evaluated(T, s, d) ELSE T, S, order)

\* The outcomes of an adapter's fetches.
LEMMA FetchesTaken ==
  ASSUME NEW S, DOMAIN S = Sources, NEW targets, NEW ok,
         \A s \in targets : DOMAIN S[s] = Fields /\ S[s].status = "approved",
         NEW order \in SourceOrders
  PROVE  Taken(S, order, Fetches(targets, ok), DOMAIN order,
               FetchesRecorded(S, targets, ok, order))
PROOF
  <1> DEFINE x == Fetches(targets, ok)
             D == DOMAIN order
             it == CHOOSE h : FetchTurns(S, targets, ok, order, D, h)
  <1>1. x.kind = "fetch" /\ x.subset = targets /\ x.ok = ok
    BY DEF Fetches
  <1> HIDE DEF x
  <1>2. ASSUME NEW h
        PROVE  Turns(S, order, x, D, h) <=> FetchTurns(S, targets, ok, order, D, h)
    <2>1. \A T, s : Turn(T, s, x) = IF s \in targets THEN FetchRecorded(T, s, s \in ok) ELSE T
      BY <1>1 DEF Turn
    <2> QED BY <2>1 DEF Turns, FetchTurns
  <1>3. \E h : FetchTurns(S, targets, ok, order, D, h)
    BY <1>2, PlacesFinite, TurnsExist
  <1>4. FetchTurns(S, targets, ok, order, D, it)
    BY <1>3
  <1>5. FetchesRecorded(S, targets, ok, order) = it[D]
    BY DEF FetchesRecorded, FoldLeft, MapThenFoldSet, FetchTurns
  <1> HIDE DEF it
  <1>6. Taken(S, order, x, D, it[D])
    BY <1>1, <1>2, <1>4, TurnsTaken
  <1> QED BY <1>5, <1>6 DEF x

\* The evaluation of the sources that a run did not see.
LEMMA MissesTaken ==
  ASSUME NEW S, DOMAIN S = Sources, NEW missed, NEW d,
         \A s \in missed : DOMAIN S[s] = Fields /\ S[s].status = "approved",
         NEW order \in SourceOrders
  PROVE  Taken(S, order, Misses(missed, d), DOMAIN order, Missing(S, missed, d, order))
PROOF
  <1> DEFINE x == Misses(missed, d)
             D == DOMAIN order
             it == CHOOSE h : MissTurns(S, missed, d, order, D, h)
  <1>1. x.kind # "fetch" /\ x.subset = missed /\ x.day = d
    BY DEF Misses
  <1> HIDE DEF x
  <1>2. ASSUME NEW h
        PROVE  Turns(S, order, x, D, h) <=> MissTurns(S, missed, d, order, D, h)
    <2>1. \A T, s : Turn(T, s, x) = IF s \in missed THEN Evaluated(T, s, d) ELSE T
      BY <1>1 DEF Turn
    <2> QED BY <2>1 DEF Turns, MissTurns
  <1>3. \E h : MissTurns(S, missed, d, order, D, h)
    BY <1>2, PlacesFinite, TurnsExist
  <1>4. MissTurns(S, missed, d, order, D, it)
    BY <1>3
  <1>5. Missing(S, missed, d, order) = it[D]
    BY DEF Missing, FoldLeft, MapThenFoldSet, MissTurns
  <1> HIDE DEF it
  <1>6. Taken(S, order, x, D, it[D])
    BY <1>1, <1>2, <1>4, TurnsTaken
  <1> QED BY <1>5, <1>6 DEF x

-----------------------------------------------------------------------------
(* A discovery, one source at a time: m is what the mentions make of its   *)
(* record r, o what the scores make of that, e what the evaluation makes   *)
(* of that, and p what is saved.                                           *)

Sees(mention, m, rating) ==
  Says(mention, m) \/ (rating # "none" /\ m.status = "approved")

\* The days of a source before and after a run that saw it or not.
Followed(h, m, mention, rating, d, g) ==
  /\ g.high = IF m.status = "approved" /\ rating = "high" THEN h.high \cup {d} ELSE h.high
  /\ g.low = IF m.status = "approved" /\ rating = "low" /\ d \notin h.high
             THEN h.low \cup {d} ELSE h.low
  /\ g.seen = IF Sees(mention, m, rating) THEN h.seen \cup {d} ELSE h.seen
  /\ g.missed = IF Sees(mention, m, rating) THEN h.missed ELSE h.missed \cup {d}

LEMMA PersistedFields ==
  ASSUME NEW e, DOMAIN e = Fields, NEW p, p = Persisted(e)
  PROVE  /\ DOMAIN p = Fields
         /\ \A f \in Fields \ {"credit"} : p[f] = e[f]
         /\ p.status = e.status /\ p.stage = e.stage /\ p.since = e.since
         /\ p.failures = e.failures
BY DEF Persisted, Fields

LEMMA ObservationFields ==
  ASSUME NEW m, NEW scored, NEW itemOrder, NEW d, NEW q, q = Scored(m, Rating(scored), d),
         DOMAIN q = Fields, NEW o, o = Observations(m, scored, itemOrder, d)
  PROVE  /\ DOMAIN o = Fields
         /\ \A f \in Fields \ {"tracked"} : o[f] = q[f]
BY DEF Observations, Fields

LEMMA DiscoveredSound ==
  ASSUME NEW r, NEW h, NEW d \in Nat, Sound(r, h, d), Bounded(h, d),
         NEW mention \in Kinds, NEW rating \in {"none", "low", "high"},
         NEW m, m = Mentioned(r, mention, d), NEW q, q = Scored(m, rating, d),
         NEW g, Followed(h, m, mention, rating, d, g),
         NEW o, DOMAIN o = Fields, \A f \in Fields \ {"tracked"} : o[f] = q[f],
         NEW e, IF r.status = "approved" /\ ~ Sees(mention, m, rating)
                THEN e = o \/ EvaluatedTo(e, o, d) ELSE e = o,
         NEW p, p = Persisted(e)
  PROVE  /\ Sound(p, g, d) /\ p.status = e.status /\ p.stage = e.stage
         /\ r.stage = "probation" /\ p.stage = "active"
              => Cardinality(EarnedOn(p.since, g, d)) >= MinQualifying
         /\ r.status = "approved" /\ p.status = "retired" =>
              /\ o.status = r.status /\ o.stage = r.stage
              /\ r.failures < MaxFailures =>
                   /\ d - MinLowSignal + 1 .. d \subseteq g.missed
                   /\ g.seen \cap (d - MinLowSignal + 2 .. d) = {}
PROOF
  <1> DEFINE k == [high |-> g.high, low |-> g.low, missed |-> h.missed, seen |-> h.seen]
  <1>1. /\ Sound(m, h, d)
        /\ Says(mention, m) => m.status = "retired" \/ m.lowSignal = {}
        /\ Says(mention, m) \/ m = r
        /\ r.stage = "probation" => m.stage = "probation"
        /\ r.status = "approved" => m.status # "retired"
    BY MentionedSound
  <1>2. Rated(h, m, rating, d, k)
    BY DEF Rated, Followed
  <1>3. k.high = g.high /\ k.low = g.low /\ k.missed = h.missed /\ k.seen = h.seen
    OBVIOUS
  <1> HIDE DEF k
  <1>4. /\ Sound(q, k, d) /\ q.status = m.status
        /\ rating # "none" /\ m.status = "approved" => q.lowSignal = {}
        /\ rating = "none" \/ m.status # "approved" => q = m
        /\ m.stage = "probation" /\ q.stage = "active"
             => Cardinality(EarnedOn(q.since, k, d)) >= MinQualifying
    BY <1>1, <1>2, ScoredSound
  <1>5. /\ o.status = q.status /\ o.stage = q.stage /\ o.since = q.since
        /\ o.qualifying = q.qualifying /\ o.lowSignal = q.lowSignal
        /\ o.failures = q.failures /\ o.retirement = q.retirement
    BY DEF Fields
  <1>6. Sound(o, k, d)
    BY <1>4, <1>5, SoundAlike DEF Sound
  <1>7. ASSUME DOMAIN e = Fields, Sound(e, g, d)
        PROVE  /\ Sound(p, g, d) /\ p.status = e.status /\ p.stage = e.stage
               /\ p.since = e.since
    <2>1. /\ \A f \in Fields \ {"credit"} : p[f] = e[f]
          /\ DOMAIN p = Fields /\ p.failures = e.failures
          /\ p.status = e.status /\ p.stage = e.stage /\ p.since = e.since
      BY <1>7, PersistedFields
    <2>2. \A f \in {"status", "stage", "since", "qualifying", "lowSignal", "retirement"} : p[f] = e[f]
      BY <2>1 DEF Fields
    <2>3. p.failures \in Nat
      BY <1>7, <2>1 DEF Sound
    <2>4. Sound(p, g, d)
      BY <1>7, <2>1, <2>2, <2>3, SoundAlike
    <2> QED BY <2>1, <2>4
  <1>8. EarnedOn(q.since, k, d) = EarnedOn(q.since, g, d)
    BY <1>3 DEF EarnedOn
  <1>9. CASE Sees(mention, m, rating)
    <2>1. e = o
      BY <1>9
    <2>2. g.missed = h.missed
      BY <1>9 DEF Followed
    <2>3. o.status = "retired" \/ o.lowSignal = {}
      BY <1>1, <1>4, <1>5, <1>9 DEF Sees
    <2>4. Sound(o, g, d)
      BY <1>3, <1>6, <2>2, <2>3, SoundLater
    <2>5. /\ Sound(p, g, d) /\ p.status = o.status /\ p.stage = o.stage /\ p.since = o.since
      BY <1>7, <2>1, <2>4
    <2>6. r.stage = "probation" /\ p.stage = "active"
            => Cardinality(EarnedOn(p.since, g, d)) >= MinQualifying
      BY <1>1, <1>4, <1>5, <1>8, <2>5
    <2>7. r.status = "approved" => p.status # "retired"
      BY <1>1, <1>4, <1>5, <2>5
    <2> QED BY <2>1, <2>5, <2>6, <2>7
  <1>10. CASE ~ Sees(mention, m, rating)
    <2>1. m = r /\ q = r
      BY <1>1, <1>4, <1>10 DEF Sees
    <2>2. /\ g.high = h.high /\ g.low = h.low /\ g.seen = h.seen
          /\ g.missed = h.missed \cup {d}
      BY <1>1, <1>10 DEF Followed, Sees
    <2>3. Sound(o, g, d)
      BY <1>3, <1>6, <2>2, SoundLater
    <2>4. CASE e = o
      <3>1. /\ Sound(p, g, d) /\ p.status = r.status /\ p.stage = r.stage
        BY <1>5, <1>7, <2>1, <2>3, <2>4
      <3>2. ~ (r.status = "approved" /\ p.status = "retired")
        BY <3>1
      <3>3. ~ (r.stage = "probation" /\ p.stage = "active")
        BY <3>1
      <3> QED BY <1>5, <2>1, <2>4, <3>1, <3>2, <3>3
    <2>5. CASE r.status = "approved" /\ EvaluatedTo(e, o, d)
      <3>1. Sound(o, h, d) /\ o.status = "approved"
        BY <1>5, <2>1, <2>5, SoundAlike DEF Sound, Fields
      <3>2. /\ Sound(e, g, d)
            /\ \/ e.status = o.status /\ e.stage = o.stage
               \/ e.status = "retired" /\ e.stage = "retired"
            /\ e.status = "retired" /\ ~(o.failures >= MaxFailures) =>
                 /\ d - MinLowSignal + 1 .. d \subseteq g.missed
                 /\ g.seen \cap (d - MinLowSignal + 2 .. d) = {}
        BY <2>2, <2>5, <3>1, EvaluatedSound
      <3>3. /\ Sound(p, g, d) /\ p.status = e.status /\ p.stage = e.stage
        BY <1>7, <3>2 DEF Sound
      <3>4. r.failures \in Nat /\ MaxFailures \in Nat /\ o.failures = r.failures
        BY <1>5, <2>1, LifecycleAssumption DEF Sound
      <3>5. r.failures < MaxFailures => ~ (o.failures >= MaxFailures)
        BY <3>4
      <3>6. ~ (r.stage = "probation" /\ p.stage = "active")
        BY <1>5, <2>1, <3>2, <3>3
      <3> QED BY <1>5, <2>1, <3>2, <3>3, <3>5, <3>6
    <2> QED BY <1>10, <2>4, <2>5
  <1> QED BY <1>9, <1>10

LEMMA ScoredStatus ==
  ASSUME NEW m, NEW h, NEW d \in Nat, Sound(m, h, d), Bounded(h, d),
         NEW rating \in {"none", "low", "high"}
  PROVE  /\ DOMAIN Scored(m, rating, d) = Fields
         /\ Scored(m, rating, d).status = m.status
PROOF
  <1> DEFINE g == [high |-> IF m.status = "approved" /\ rating = "high"
                            THEN h.high \cup {d} ELSE h.high,
                   low |-> IF m.status = "approved" /\ rating = "low" /\ d \notin h.high
                           THEN h.low \cup {d} ELSE h.low,
                   missed |-> h.missed, seen |-> h.seen]
  <1>1. Rated(h, m, rating, d, g)
    BY DEF Rated
  <1> HIDE DEF g
  <1>2. Sound(Scored(m, rating, d), g, d) /\ Scored(m, rating, d).status = m.status
    BY <1>1, ScoredSound
  <1> QED BY <1>2 DEF Sound

-----------------------------------------------------------------------------
(* The registry.                                                           *)

Story(s) == [high |-> HighOn(highOn, s), low |-> lowOn[s], missed |-> missedOn[s],
             seen |-> seenOn[s]]

HistoryType ==
  /\ day \in Days /\ DOMAIN registry = Sources
  /\ highOn \in [Sources -> [Items -> SUBSET (0 .. day)]]
  /\ {lowOn, missedOn, seenOn} \subseteq [Sources -> SUBSET (0 .. day)]

\* One snapshot at most is in use, and it is the registry's.
InTurn ==
  /\ DOMAIN run = Writers /\ DOMAIN fetching = Writers /\ DOMAIN loaded = Writers
  /\ operator \in {None, registry}
  /\ \A w \in Writers :
       /\ fetching[w] \in {None, registry} /\ loaded[w] \in {None, registry}
       /\ run[w] = "discovering" => loaded[w] = registry
       /\ fetching[w] = None \/ loaded[w] = None
       /\ operator = None \/ (fetching[w] = None /\ loaded[w] = None)
  /\ \A v, w \in Writers : v # w =>
       (fetching[v] = None /\ loaded[v] = None) \/ (fetching[w] = None /\ loaded[w] = None)

RecordsSound == \A s \in Sources : Sound(registry[s], Story(s), day)

RegistryInv == HistoryType /\ InTurn /\ RecordsSound

LEMMA StoryBounded ==
  ASSUME HistoryType, NEW s \in Sources
  PROVE  Bounded(Story(s), day) /\ day \in Nat
PROOF
  <1>1. Story(s).high = HighOn(highOn, s) /\ Story(s).low = lowOn[s]
        /\ Story(s).missed = missedOn[s] /\ Story(s).seen = seenOn[s]
    BY DEF Story
  <1>2. HighOn(highOn, s) \subseteq 0 .. day
    BY DEF HighOn, HistoryType
  <1> QED BY <1>1, <1>2, RegistryAssumption DEF Bounded, HistoryType, Days

\* What a writer that takes its turn saves is what it makes of the registry.
LEMMA AdapterOutcome ==
  ASSUME RegistryInv, NEW w \in Writers, AdapterSave(w)
  PROVE  /\ DOMAIN registry' = Sources
         /\ \A s \in Sources :
              \/ registry'[s] = registry[s]
              \/ registry[s].status = "approved" /\ FetchedTo(registry'[s], registry[s])
         /\ MinSources > 1 => Keeps(registry, registry')
PROOF
  <1>1. fetching[w] = registry /\ DOMAIN registry = Sources
    BY DEF RegistryInv, InTurn, HistoryType, AdapterSave
  <1>2. PICK targets \in Fetchable(fetching[w]) \ {{}} :
          \E ok \in SUBSET targets, order \in SourceOrders :
            registry' = FetchesRecorded(fetching[w], targets, ok, order)
    BY DEF AdapterSave
  <1>3. PICK ok \in SUBSET targets, order \in SourceOrders :
          registry' = FetchesRecorded(registry, targets, ok, order)
    BY <1>1, <1>2
  <1>4. \A s \in targets : s \in Sources /\ registry[s].status = "approved"
    BY <1>1, <1>2 DEF Fetchable
  <1>5. \A s \in targets : DOMAIN registry[s] = Fields
    BY <1>4 DEF RegistryInv, RecordsSound, Sound
  <1> DEFINE x == Fetches(targets, ok)
  <1>6. x.kind = "fetch" /\ x.subset = targets
    BY DEF Fetches
  <1>7. Taken(registry, order, x, DOMAIN order, registry')
    BY <1>1, <1>3, <1>4, <1>5, FetchesTaken
  <1> HIDE DEF x
  <1>8. ASSUME NEW s \in Sources
        PROVE  \/ registry'[s] = registry[s]
               \/ registry[s].status = "approved" /\ FetchedTo(registry'[s], registry[s])
    <2>1. registry'[s] = registry[s] \/ (s \in targets /\ TurnedTo(registry'[s], registry[s], x))
      BY <1>6, <1>7 DEF Taken
    <2> QED BY <1>4, <1>6, <2>1 DEF TurnedTo
  <1> QED BY <1>7, <1>8 DEF Taken

\* What the operator's call does to a source.
LEMMA OperatorOutcome ==
  ASSUME RegistryInv, OperatorSave
  PROVE  /\ DOMAIN registry' = Sources
         /\ \A s \in Sources :
              \/ registry'[s] = registry[s] /\ seenOn'[s] = seenOn[s]
              \/ /\ registry[s].status \in {"candidate", "approved"}
                 /\ registry'[s] = Retired(registry[s]) /\ seenOn'[s] = seenOn[s]
              \/ /\ registry[s].status = "retired" /\ seenOn'[s] = {}
                 /\ \E target \in {"asBefore", "probation", "active"} :
                      registry'[s] = Restored(registry[s], target, day)
         /\ MinSources > 1 => Keeps(registry, registry')
         /\ DOMAIN seenOn' = Sources
PROOF
  <1>1. operator = registry /\ DOMAIN registry = Sources /\ DOMAIN seenOn = Sources
    BY DEF RegistryInv, InTurn, HistoryType, OperatorSave
  <1>2. CASE OperatorFails
    BY <1>1, <1>2 DEF OperatorFails, Keeps
  <1>3. ASSUME NEW t \in Sources, OperatorRetires(t)
        PROVE  /\ DOMAIN registry' = Sources /\ seenOn' = seenOn
               /\ \A s \in Sources :
                    \/ registry'[s] = registry[s]
                    \/ /\ registry[s].status \in {"candidate", "approved"}
                       /\ registry'[s] = Retired(registry[s])
               /\ MinSources > 1 => Keeps(registry, registry')
    <2>1. /\ registry[t].status \in {"candidate", "approved"} /\ seenOn' = seenOn
          /\ registry' = IF RetirementBlocked(registry, t) THEN registry
                         ELSE [registry EXCEPT ![t] = Retired(@)]
      BY <1>1, <1>3 DEF OperatorRetires
    <2>2. CASE RetirementBlocked(registry, t)
      BY <1>1, <2>1, <2>2 DEF Keeps
    <2>3. CASE ~ RetirementBlocked(registry, t)
      <3>1. /\ DOMAIN registry' = Sources /\ registry'[t] = Retired(registry[t])
            /\ \A s \in Sources \ {t} : registry'[s] = registry[s]
        BY <1>1, <2>1, <2>3
      <3>2. MinSources > 1 => Keeps(registry, registry')
        BY <2>3, <3>1, KeepsUnblocked
      <3>3. \A s \in Sources : registry'[s] = registry[s] \/ (s = t /\ registry'[s] = Retired(registry[s]))
        BY <3>1
      <3> QED BY <2>1, <3>1, <3>2, <3>3
    <2> QED BY <2>2, <2>3
  <1>4. ASSUME NEW t \in Sources, OperatorRestores(t)
        PROVE  /\ DOMAIN registry' = Sources /\ DOMAIN seenOn' = Sources
               /\ registry[t].status = "retired" /\ seenOn'[t] = {}
               /\ \E target \in {"asBefore", "probation", "active"} :
                      registry'[t] = Restored(registry[t], target, day)
               /\ \A s \in Sources \ {t} : registry'[s] = registry[s] /\ seenOn'[s] = seenOn[s]
               /\ Keeps(registry, registry')
    <2>1. /\ registry[t].status = "retired" /\ seenOn' = [seenOn EXCEPT ![t] = {}]
          /\ \E target \in {"asBefore", "probation", "active"} :
               registry' = [registry EXCEPT ![t] = Restored(@, target, day)]
      BY <1>1, <1>4 DEF OperatorRestores
    <2>2. PICK target \in {"asBefore", "probation", "active"} :
            registry' = [registry EXCEPT ![t] = Restored(@, target, day)]
      BY <2>1
    <2>3. /\ DOMAIN registry' = Sources /\ registry'[t] = Restored(registry[t], target, day)
          /\ \A s \in Sources \ {t} : registry'[s] = registry[s]
      BY <1>1, <2>2
    <2>4. Keeps(registry, registry')
      BY <2>1, <2>3 DEF Keeps, CoveredBy, Covering
    <2> QED BY <1>1, <2>1, <2>3, <2>4
  <1> QED BY <1>1, <1>2, <1>3, <1>4 DEF OperatorSave

\* The days with a qualifying score grow by a day on which an item has one.
LEMMA HighDays ==
  ASSUME NEW s, NEW scored, NEW A,
         \A i \in Items : highOn'[s][i] = IF s \in A /\ HighSignal(scored[i])
                                     THEN highOn[s][i] \cup {day} ELSE highOn[s][i]
  PROVE  /\ s \in A /\ Rating(scored) = "high" => HighOn(highOn', s) = HighOn(highOn, s) \cup {day}
         /\ ~(s \in A /\ Rating(scored) = "high") => HighOn(highOn', s) = HighOn(highOn, s)
PROOF
  <1>1. Rating(scored) = "high" <=> \E i \in Items : HighSignal(scored[i])
    BY DEF Rating, HighSignal
  <1>2. \A i \in Items : highOn'[s][i] = IF s \in A /\ HighSignal(scored[i]) THEN highOn[s][i] \cup {day}
                                    ELSE highOn[s][i]
    OBVIOUS
  <1>3. CASE s \in A /\ Rating(scored) = "high"
    <2>1. PICK i \in Items : HighSignal(scored[i])
      BY <1>1, <1>3
    <2>2. highOn'[s][i] = highOn[s][i] \cup {day}
      BY <1>2, <1>3, <2>1
    <2>3. \A j \in Items : highOn'[s][j] \in {highOn[s][j], highOn[s][j] \cup {day}}
      BY <1>2
    <2>4. ASSUME NEW c
          PROVE  c \in HighOn(highOn', s) <=> c \in HighOn(highOn, s) \cup {day}
      BY <2>2, <2>3, <1>2, <1>3 DEF HighOn
    <2> QED BY <1>3, <2>4
  <1>4. CASE ~(s \in A /\ Rating(scored) = "high")
    <2>1. \A i \in Items : highOn'[s][i] = highOn[s][i]
      BY <1>1, <1>2, <1>4
    <2>2. ASSUME NEW c
          PROVE  c \in HighOn(highOn', s) <=> c \in HighOn(highOn, s)
      BY <2>1 DEF HighOn
    <2> QED BY <1>4, <2>2
  <1> QED BY <1>3, <1>4

\* What the items of a run do to the snapshot S and to the history.
Applied(S, mention, scored, itemOrder, order) ==
  LET mentioned == [s \in Sources |-> Mentioned(S[s], mention[s], day)]
      seen == Seen(mentioned, mention, scored)
      approved == {s \in seen : mentioned[s].status = "approved"}
  IN /\ registry' = Discovery(S, mention, scored, itemOrder, order, day)
     /\ seenOn' = DaysWith(seenOn, seen, day)
     /\ missedOn' = DaysWith(missedOn, Sources \ seen, day)
     /\ highOn' = [s \in Sources |-> [i \in Items |->
                     IF s \in approved /\ HighSignal(scored[s][i])
                     THEN highOn[s][i] \cup {day} ELSE highOn[s][i]]]
     /\ lowOn' = DaysWith(lowOn, {s \in approved : /\ Rating(scored[s]) = "low"
                                                  /\ day \notin HighOn(highOn, s)}, day)

LEMMA DiscoveryOfRegistry ==
  ASSUME RegistryInv, NEW w \in Writers, DiscoverSave(w)
  PROVE  \E mention \in Mentions, scored \in ScoredItems(w),
            itemOrder \in ItemOrders, order \in SourceOrders :
           Applied(registry, mention, scored, itemOrder, order)
PROOF
  <1>1. loaded[w] = registry
    BY DEF RegistryInv, InTurn, DiscoverSave
  <1>2. \E mention \in Mentions, scored \in ScoredItems(w),
            itemOrder \in ItemOrders, order \in SourceOrders :
           Applied(loaded[w], mention, scored, itemOrder, order)
    BY Zenon DEF DiscoverSave, Applied
  <1> QED BY <1>1, <1>2

\* A writer that takes its turn: what its items do, source by source.
LEMMA AppliedHistory ==
  ASSUME RegistryInv, NEW mention \in Mentions,
         NEW scored \in [Sources -> [Items -> Scores \cup {"none"}]], NEW itemOrder,
         NEW order \in SourceOrders, Applied(registry, mention, scored, itemOrder, order),
         NEW s \in Sources
  PROVE  LET m == Mentioned(registry[s], mention[s], day)
             rating == Rating(scored[s])
         IN /\ mention[s] \in Kinds /\ rating \in {"none", "low", "high"}
            /\ s \in Seen([t \in Sources |-> Mentioned(registry[t], mention[t], day)],
                          mention, scored)
                 <=> Sees(mention[s], m, rating)
            /\ Followed(Story(s), m, mention[s], rating, day, Story(s)')
PROOF
  <1> DEFINE m == Mentioned(registry[s], mention[s], day)
             rating == Rating(scored[s])
             mentioned == [t \in Sources |-> Mentioned(registry[t], mention[t], day)]
             seen == Seen(mentioned, mention, scored)
             approved == {t \in seen : mentioned[t].status = "approved"}
             sees == Sees(mention[s], m, rating)
  <1>1. mention[s] \in Kinds /\ rating \in {"none", "low", "high"}
    BY DEF Mentions, Kinds, Rating
  <1>2. mentioned[s] = m /\ seen \subseteq Sources
    BY DEF Seen
  <1>3. s \in seen <=> sees
    BY <1>1, <1>2 DEF Seen, Sees, Says
  <1>4. /\ seenOn' = DaysWith(seenOn, seen, day)
        /\ missedOn' = DaysWith(missedOn, Sources \ seen, day)
        /\ lowOn' = DaysWith(lowOn, {t \in approved : /\ Rating(scored[t]) = "low"
                                                     /\ day \notin HighOn(highOn, t)}, day)
    BY DEF Applied
  <1>5. highOn' = [t \in Sources |-> [i \in Items |->
                     IF t \in approved /\ HighSignal(scored[t][i])
                     THEN highOn[t][i] \cup {day} ELSE highOn[t][i]]]
    BY DEF Applied
  <1>6. s \in approved <=> sees /\ m.status = "approved"
    BY <1>2, <1>3
  <1>7. rating # "none" /\ m.status = "approved" => sees
    BY DEF Sees
  <1> HIDE DEF m, rating, mentioned, seen, approved, sees
  <1>8. /\ seenOn'[s] = IF sees THEN seenOn[s] \cup {day} ELSE seenOn[s]
        /\ missedOn'[s] = IF sees THEN missedOn[s] ELSE missedOn[s] \cup {day}
    BY <1>3, <1>4 DEF DaysWith
  <1>9. lowOn'[s] = IF s \in approved /\ rating = "low" /\ day \notin HighOn(highOn, s)
                    THEN lowOn[s] \cup {day} ELSE lowOn[s]
    BY <1>4 DEF DaysWith, rating
  <1>10. /\ s \in approved /\ rating = "high" => HighOn(highOn', s) = HighOn(highOn, s) \cup {day}
         /\ ~(s \in approved /\ rating = "high") => HighOn(highOn', s) = HighOn(highOn, s)
    <2>1. \A i \in Items : highOn'[s][i] = IF s \in approved /\ HighSignal(scored[s][i])
                                           THEN highOn[s][i] \cup {day} ELSE highOn[s][i]
      BY <1>5
    <2> QED BY <2>1, HighDays DEF rating
  <1>11. /\ Story(s).high = HighOn(highOn, s) /\ Story(s).low = lowOn[s]
         /\ Story(s).missed = missedOn[s] /\ Story(s).seen = seenOn[s]
         /\ Story(s)'.high = HighOn(highOn', s) /\ Story(s)'.low = lowOn'[s]
         /\ Story(s)'.missed = missedOn'[s] /\ Story(s)'.seen = seenOn'[s]
    BY DEF Story, HighOn
  <1>12. Followed(Story(s), m, mention[s], rating, day, Story(s)')
    <2>1. Story(s)'.high = IF m.status = "approved" /\ rating = "high"
                           THEN Story(s).high \cup {day} ELSE Story(s).high
      BY <1>6, <1>7, <1>10, <1>11
    <2>2. Story(s)'.low = IF m.status = "approved" /\ rating = "low" /\ day \notin Story(s).high
                          THEN Story(s).low \cup {day} ELSE Story(s).low
      BY <1>6, <1>7, <1>9, <1>11
    <2>3. /\ Story(s)'.seen = IF Sees(mention[s], m, rating) THEN Story(s).seen \cup {day}
                              ELSE Story(s).seen
          /\ Story(s)'.missed = IF Sees(mention[s], m, rating) THEN Story(s).missed
                                ELSE Story(s).missed \cup {day}
      BY <1>8, <1>11 DEF sees
    <2> QED BY <2>1, <2>2, <2>3 DEF Followed
  <1> QED BY <1>1, <1>3, <1>12 DEF m, rating, mentioned, seen, sees

\* The days of the history are days that have come.
LEMMA AppliedHistoryType ==
  ASSUME RegistryInv, NEW mention, NEW scored, NEW itemOrder, NEW order, day' = day,
         Applied(registry, mention, scored, itemOrder, order)
  PROVE  HistoryType'
PROOF
  <1>1. /\ day \in Days /\ day \in 0 .. day
        /\ highOn \in [Sources -> [Items -> SUBSET (0 .. day)]]
        /\ lowOn \in [Sources -> SUBSET (0 .. day)]
        /\ missedOn \in [Sources -> SUBSET (0 .. day)]
        /\ seenOn \in [Sources -> SUBSET (0 .. day)]
    BY RegistryAssumption DEF RegistryInv, HistoryType, Days
  <1>2. ASSUME NEW h \in [Sources -> SUBSET (0 .. day)], NEW S
        PROVE  DaysWith(h, S, day) \in [Sources -> SUBSET (0 .. day)]
    BY <1>1 DEF DaysWith
  <1>3. \E S, T, U : /\ seenOn' = DaysWith(seenOn, S, day) /\ missedOn' = DaysWith(missedOn, T, day)
                     /\ lowOn' = DaysWith(lowOn, U, day)
    BY DEF Applied
  <1>4. \E S : highOn' = [s \in Sources |-> [i \in Items |->
                            IF s \in S /\ HighSignal(scored[s][i])
                            THEN highOn[s][i] \cup {day} ELSE highOn[s][i]]]
    BY DEF Applied
  <1>5. highOn' \in [Sources -> [Items -> SUBSET (0 .. day)]]
    BY <1>1, <1>4
  <1>6. /\ seenOn' \in [Sources -> SUBSET (0 .. day)]
        /\ missedOn' \in [Sources -> SUBSET (0 .. day)]
        /\ lowOn' \in [Sources -> SUBSET (0 .. day)]
    BY <1>1, <1>2, <1>3
  <1>7. DOMAIN registry' = Sources
    BY DEF Applied, Discovery
  <1> QED BY <1>1, <1>5, <1>6, <1>7 DEF HistoryType

\* What a discovery may make of a record r.
DiscoveredTo(p, r, mention, scored, order, d) ==
  \E o, e : /\ o = Observations(Mentioned(r, mention, d), scored, order, d) /\ DOMAIN o = Fields
            /\ e = o \/ EvaluatedTo(e, o, d)
            /\ p = Persisted(e)

\* What a discovery makes of the registry, source by source and category by category.
LEMMA AppliedRecords ==
  ASSUME RegistryInv, NEW mention \in Mentions,
         NEW scored \in [Sources -> [Items -> Scores \cup {"none"}]], NEW itemOrder,
         NEW order \in SourceOrders, Applied(registry, mention, scored, itemOrder, order)
  PROVE  /\ \A s \in Sources :
              /\ DiscoveredTo(registry'[s], registry[s], mention[s], scored[s], itemOrder, day)
              /\ Sound(registry'[s], Story(s)', day)
              /\ registry[s].stage = "probation" /\ registry'[s].stage = "active"
                   => Cardinality(EarnedOn(registry'[s].since, Story(s)', day)) >= MinQualifying
              /\ /\ registry[s].status = "approved" /\ registry[s].failures < MaxFailures
                 /\ registry'[s].status = "retired"
                 => /\ day - MinLowSignal + 1 .. day \subseteq Story(s)'.missed
                    /\ Story(s)'.seen \cap (day - MinLowSignal + 2 .. day) = {}
         /\ MinSources > 1 =>
              \A s \in Sources : Covering(registry[s]) /\ registry'[s].status = "retired" =>
                \A c \in Covers[s] : CoveredBy(registry', c) # {}
PROOF
  <1> DEFINE mentioned == [s \in Sources |-> Mentioned(registry[s], mention[s], day)]
             observed == [s \in Sources |-> Observations(mentioned[s], scored[s], itemOrder, day)]
             seen == Seen(mentioned, mention, scored)
             missed == {s \in Sources : registry[s].status = "approved"} \ seen
             evaluated == Missing(observed, missed, day, order)
  <1>1. registry' = [s \in Sources |-> Persisted(evaluated[s])]
    BY DEF Applied, Discovery, Missing
  <1>2. /\ DOMAIN observed = Sources
        /\ \A s \in Sources : /\ mentioned[s] = Mentioned(registry[s], mention[s], day)
                              /\ observed[s] = Observations(mentioned[s], scored[s], itemOrder, day)
    OBVIOUS
  <1>3. \A s \in Sources : s \in missed <=> registry[s].status = "approved" /\ s \notin seen
    OBVIOUS
  <1>4. ASSUME NEW s \in Sources
        PROVE  /\ mention[s] \in Kinds /\ Rating(scored[s]) \in {"none", "low", "high"}
               /\ s \in seen <=> Sees(mention[s], mentioned[s], Rating(scored[s]))
               /\ Followed(Story(s), mentioned[s], mention[s], Rating(scored[s]), day, Story(s)')
    <2> DEFINE m == Mentioned(registry[s], mention[s], day)
    <2>1. /\ mention[s] \in Kinds /\ Rating(scored[s]) \in {"none", "low", "high"}
          /\ s \in seen <=> Sees(mention[s], m, Rating(scored[s]))
          /\ Followed(Story(s), m, mention[s], Rating(scored[s]), day, Story(s)')
      BY AppliedHistory
    <2> QED BY <1>2, <2>1
  <1> HIDE DEF mentioned, observed, seen, missed, evaluated
  <1>5. ASSUME NEW s \in Sources
        PROVE  LET q == Scored(mentioned[s], Rating(scored[s]), day) IN
               /\ Sound(registry[s], Story(s), day) /\ Bounded(Story(s), day) /\ day \in Nat
               /\ DOMAIN observed[s] = Fields
               /\ \A f \in Fields \ {"tracked"} : observed[s][f] = q[f]
               /\ s \in missed => observed[s].status = "approved"
    <2> DEFINE q == Scored(mentioned[s], Rating(scored[s]), day)
    <2>1. Sound(registry[s], Story(s), day) /\ Bounded(Story(s), day) /\ day \in Nat
      BY StoryBounded DEF RegistryInv, RecordsSound
    <2>2. /\ Sound(mentioned[s], Story(s), day)
          /\ Says(mention[s], mentioned[s]) \/ mentioned[s] = registry[s]
      BY <1>2, <1>4, <2>1, MentionedSound
    <2>3. DOMAIN q = Fields /\ q.status = mentioned[s].status
      BY <1>4, <2>1, <2>2, ScoredStatus
    <2>4. /\ DOMAIN observed[s] = Fields
          /\ \A f \in Fields \ {"tracked"} : observed[s][f] = q[f]
      BY <1>2, <2>3, ObservationFields
    <2> HIDE DEF q
    <2>5. observed[s].status = mentioned[s].status
      BY <2>3, <2>4 DEF Fields
    <2>6. s \in missed => observed[s].status = "approved"
      BY <1>3, <1>4, <2>2, <2>5 DEF Sees
    <2> QED BY <2>1, <2>4, <2>6 DEF q
  <1>6. Taken(observed, order, Misses(missed, day), DOMAIN order, evaluated)
    <2>1. \A s \in missed : DOMAIN observed[s] = Fields /\ observed[s].status = "approved"
      BY <1>5 DEF missed
    <2> QED BY <1>2, <2>1, MissesTaken DEF evaluated
  <1>7. ASSUME NEW s \in Sources
        PROVE  IF s \in missed THEN evaluated[s] = observed[s] \/ EvaluatedTo(evaluated[s], observed[s], day)
               ELSE evaluated[s] = observed[s]
    <2>1. /\ Misses(missed, day).subset = missed /\ Misses(missed, day).kind # "fetch"
          /\ Misses(missed, day).day = day
      BY DEF Misses
    <2>2. \/ s \in missed /\ TurnedTo(evaluated[s], observed[s], Misses(missed, day))
          \/ evaluated[s] = observed[s]
      BY <1>6, <2>1 DEF Taken
    <2> QED BY <2>1, <2>2 DEF TurnedTo
  <1>8. ASSUME NEW s \in Sources
        PROVE  LET r == registry[s]
                   o == observed[s]
                   e == evaluated[s]
                   p == registry'[s]
                   g == Story(s)'
               IN /\ Sound(p, g, day) /\ p.status = e.status /\ p.stage = e.stage
                  /\ r.stage = "probation" /\ p.stage = "active"
                       => Cardinality(EarnedOn(p.since, g, day)) >= MinQualifying
                  /\ r.status = "approved" /\ p.status = "retired" =>
                       /\ o.status = r.status /\ o.stage = r.stage
                       /\ r.failures < MaxFailures =>
                            /\ day - MinLowSignal + 1 .. day \subseteq g.missed
                            /\ g.seen \cap (day - MinLowSignal + 2 .. day) = {}
    <2> DEFINE r == registry[s]
               m == mentioned[s]
               rating == Rating(scored[s])
               q == Scored(m, rating, day)
               o == observed[s]
               e == evaluated[s]
               p == registry'[s]
               h == Story(s)
               g == Story(s)'
               kind == mention[s]
    <2>1. /\ Sound(r, h, day) /\ Bounded(h, day) /\ day \in Nat
          /\ DOMAIN o = Fields /\ \A f \in Fields \ {"tracked"} : o[f] = q[f]
      BY <1>5
    <2>2. /\ kind \in Kinds /\ rating \in {"none", "low", "high"}
          /\ Followed(h, m, kind, rating, day, g)
      BY <1>4
    <2>3. m = Mentioned(r, kind, day)
      BY <1>2
    <2>4. IF r.status = "approved" /\ ~ Sees(kind, m, rating)
          THEN e = o \/ EvaluatedTo(e, o, day) ELSE e = o
      BY <1>3, <1>4, <1>7
    <2>5. p = Persisted(e)
      BY <1>1
    <2>6. q = Scored(m, rating, day)
      OBVIOUS
    <2> HIDE DEF r, m, rating, q, o, e, p, h, g, kind
    <2>7. /\ Sound(p, g, day) /\ p.status = e.status /\ p.stage = e.stage
          /\ r.stage = "probation" /\ p.stage = "active"
               => Cardinality(EarnedOn(p.since, g, day)) >= MinQualifying
          /\ r.status = "approved" /\ p.status = "retired" =>
               /\ o.status = r.status /\ o.stage = r.stage
               /\ r.failures < MaxFailures =>
                    /\ day - MinLowSignal + 1 .. day \subseteq g.missed
                    /\ g.seen \cap (day - MinLowSignal + 2 .. day) = {}
      BY <2>1, <2>2, <2>3, <2>4, <2>5, <2>6, DiscoveredSound
    <2> QED BY <2>7 DEF r, o, e, p, g
  <1>9. ASSUME MinSources > 1, NEW s \in Sources, Covering(registry[s]),
               registry'[s].status = "retired", NEW c \in Covers[s]
        PROVE  CoveredBy(registry', c) # {}
    <2>1. observed[s].status = "approved" /\ observed[s].stage = "active"
      BY <1>8, <1>9 DEF Covering
    <2>2. s \in CoveredBy(observed, c)
      BY <1>9, <2>1 DEF CoveredBy, Covering
    <2>3. PICK t \in CoveredBy(evaluated, c) : TRUE
      BY <1>6, <1>9, <2>2 DEF Taken, Keeps
    <2>4. t \in Sources /\ registry'[t].status = evaluated[t].status
          /\ registry'[t].stage = evaluated[t].stage
      BY <1>8, <2>3 DEF CoveredBy
    <2>5. t \in CoveredBy(registry', c)
      BY <2>3, <2>4 DEF CoveredBy, Covering
    <2> QED BY <2>5
  <1>10. ASSUME NEW s \in Sources
         PROVE  DiscoveredTo(registry'[s], registry[s], mention[s], scored[s], itemOrder, day)
    <2>1. /\ observed[s] = Observations(Mentioned(registry[s], mention[s], day), scored[s],
                                        itemOrder, day)
          /\ DOMAIN observed[s] = Fields /\ registry'[s] = Persisted(evaluated[s])
      BY <1>1, <1>2, <1>5
    <2>2. evaluated[s] = observed[s] \/ EvaluatedTo(evaluated[s], observed[s], day)
      BY <1>7
    <2> QED BY <2>1, <2>2 DEF DiscoveredTo
  <1> QED BY <1>8, <1>9, <1>10

-----------------------------------------------------------------------------
(* The inductive invariant.                                                *)

LEMMA InTurnInit == Init => InTurn
BY DEF Init, InTurn

\* The writers take turns when they load, and what they save ends their turn.
LEMMA InTurnStep ==
  ASSUME TakeTurns, InTurn, [Next]_vars
  PROVE  InTurn'
PROOF
  <1> DEFINE Free(w) == fetching[w] = None /\ loaded[w] = None
  <1>1. /\ DOMAIN run = Writers /\ DOMAIN fetching = Writers /\ DOMAIN loaded = Writers
        /\ operator \in {None, registry}
        /\ \A w \in Writers :
             /\ fetching[w] \in {None, registry} /\ loaded[w] \in {None, registry}
             /\ run[w] = "discovering" => loaded[w] = registry
             /\ fetching[w] = None \/ loaded[w] = None
             /\ operator = None \/ Free(w)
        /\ \A v, w \in Writers : v # w => Free(v) \/ Free(w)
    BY DEF InTurn
  <1>2. MayLoad => operator = None /\ \A w \in Writers : Free(w)
    BY DEF MayLoad, InUse
  <1>3. SUFFICES ASSUME Next PROVE InTurn'
    <2>1. CASE UNCHANGED vars
      BY <2>1 DEF vars, runs, history, InTurn
    <2> QED BY <1>3, <2>1
  <1>4. CASE NextDay
    BY <1>4 DEF NextDay, runs, history, InTurn
  <1>5. CASE OperatorLoad
    <2>1. /\ operator' = registry /\ registry' = registry
          /\ run' = run /\ fetching' = fetching /\ loaded' = loaded
          /\ \A w \in Writers : Free(w)
      BY <1>2, <1>5 DEF OperatorLoad, runs
    <2> QED BY <1>1, <2>1 DEF InTurn
  <1>6. CASE OperatorSave
    <2>1. /\ operator' = None /\ run' = run /\ fetching' = fetching /\ loaded' = loaded
          /\ operator # None
      BY <1>6 DEF OperatorSave, runs
    <2>2. registry # None /\ \A w \in Writers : Free(w) /\ run[w] # "discovering"
      BY <1>1, <2>1
    <2> QED BY <1>1, <2>1, <2>2 DEF InTurn
  <1>7. ASSUME NEW w \in Writers, BeginRun(w)
        PROVE  InTurn'
    <2>1. /\ operator' = operator /\ registry' = registry /\ loaded' = loaded
          /\ DOMAIN run' = Writers /\ \A v \in Writers : run'[v] = "discovering" => run[v] = "discovering"
          /\ operator = None /\ \A v \in Writers : Free(v)
      BY <1>1, <1>2, <1>7 DEF BeginRun, Goto
    <2>2. /\ DOMAIN fetching' = Writers
          /\ \A v \in Writers \ {w} : fetching'[v] = fetching[v]
          /\ fetching'[w] \in {None, registry}
      BY <1>1, <1>7, <2>1 DEF BeginRun
    <2> QED BY <1>1, <2>1, <2>2 DEF InTurn
  <1>8. ASSUME NEW w \in Writers, AdapterSave(w)
        PROVE  InTurn'
    <2>1. /\ fetching[w] # None /\ fetching' = [fetching EXCEPT ![w] = None]
          /\ loaded' = loaded /\ operator' = operator
          /\ DOMAIN run' = Writers /\ \A v \in Writers : run'[v] = "discovering" => run[v] = "discovering"
      BY <1>1, <1>8 DEF AdapterSave, Goto
    <2>2. registry # None /\ operator = None /\ \A v \in Writers : loaded[v] = None
      BY <1>1, <2>1
    <2>3. \A v \in Writers : fetching'[v] = None /\ run'[v] # "discovering"
      BY <1>1, <2>1, <2>2
    <2> QED BY <1>1, <2>1, <2>2, <2>3 DEF InTurn
  <1>9. ASSUME NEW w \in Writers, Deadline(w)
        PROVE  InTurn'
    <2>1. /\ operator' = operator /\ registry' = registry /\ loaded' = loaded
          /\ fetching' = fetching
          /\ DOMAIN run' = Writers /\ \A v \in Writers : run'[v] = "discovering" => run[v] = "discovering"
      BY <1>1, <1>9 DEF Deadline, Goto
    <2> QED BY <1>1, <2>1 DEF InTurn
  <1>10. ASSUME NEW w \in Writers, DiscoverLoad(w)
         PROVE  InTurn'
    <2>1. /\ operator' = operator /\ registry' = registry /\ fetching' = fetching
          /\ DOMAIN run' = Writers /\ DOMAIN loaded' = Writers /\ loaded'[w] = registry
          /\ \A v \in Writers \ {w} : loaded'[v] = loaded[v] /\ run'[v] = run[v]
          /\ operator = None /\ \A v \in Writers : Free(v)
      BY <1>1, <1>2, <1>10 DEF DiscoverLoad, Goto
    <2> QED BY <1>1, <2>1 DEF InTurn
  <1>11. ASSUME NEW w \in Writers, DiscoverSave(w)
         PROVE  InTurn'
    <2>1. /\ loaded[w] # None /\ loaded' = [loaded EXCEPT ![w] = None]
          /\ fetching' = fetching /\ operator' = operator /\ run' = [run EXCEPT ![w] = "idle"]
      BY <1>11 DEF DiscoverSave, Goto
    <2>2. registry # None /\ operator = None /\ \A v \in Writers : fetching[v] = None
      BY <1>1, <2>1
    <2>3. DOMAIN loaded' = Writers /\ DOMAIN run' = Writers
          /\ \A v \in Writers : loaded'[v] = None /\ run'[v] # "discovering"
      BY <1>1, <2>1, <2>2
    <2> QED BY <1>1, <2>1, <2>2, <2>3 DEF InTurn
  <1>12. ASSUME NEW w \in Writers, Abort(w)
         PROVE  InTurn'
    <2>1. /\ operator' = operator /\ registry' = registry
          /\ run' = [run EXCEPT ![w] = "idle"] /\ loaded' = [loaded EXCEPT ![w] = None]
          /\ fetching' \in {fetching, [fetching EXCEPT ![w] = None]}
      BY <1>12 DEF Abort, Goto
    <2>2. /\ DOMAIN run' = Writers /\ DOMAIN loaded' = Writers /\ DOMAIN fetching' = Writers
          /\ run'[w] = "idle" /\ loaded'[w] = None /\ fetching'[w] \in {None, fetching[w]}
          /\ \A v \in Writers \ {w} :
               run'[v] = run[v] /\ loaded'[v] = loaded[v] /\ fetching'[v] = fetching[v]
      BY <1>1, <2>1
    <2> QED BY <1>1, <2>1, <2>2 DEF InTurn
  <1> QED BY <1>3, <1>4, <1>5, <1>6, <1>7, <1>8, <1>9, <1>10, <1>11, <1>12 DEF Next

\* The history and the records of a step that changes neither.
LEMMA RecordsStand ==
  ASSUME HistoryType, RecordsSound, UNCHANGED <<day, registry, history>>
  PROVE  HistoryType' /\ RecordsSound'
PROOF
  <1>1. /\ day' = day /\ registry' = registry /\ seenOn' = seenOn /\ missedOn' = missedOn
        /\ highOn' = highOn /\ lowOn' = lowOn
    BY DEF history
  <1>2. \A s \in Sources : Story(s)' = Story(s)
    BY <1>1 DEF Story, HighOn
  <1> QED BY <1>1, <1>2 DEF HistoryType, RecordsSound

LEMMA RecordsInit ==
  ASSUME Init
  PROVE  HistoryType /\ RecordsSound
PROOF
  <1>1. HistoryType
    BY RegistryAssumption DEF Init, HistoryType, Days
  <1>2. ASSUME NEW s \in Sources
        PROVE  Sound(registry[s], Story(s), day)
    <2>1. registry[s] = Unknown /\ day = 0
      BY DEF Init
    <2>2. /\ DOMAIN Unknown = Fields /\ Unknown.failures = 0 /\ Unknown.status = "absent"
          /\ Unknown.stage = "probation" /\ Unknown.since = 0 /\ Unknown.qualifying = {}
          /\ Unknown.lowSignal = {}
      BY DEF Unknown, Fields
    <2> QED BY <2>1, <2>2 DEF Sound, Justified, Proper, Qualified
  <1> QED BY <1>1, <1>2 DEF RecordsSound

\* What the writers make of the records, as long as they take turns.
LEMMA RecordsStep ==
  ASSUME RegistryInv, [Next]_vars
  PROVE  HistoryType' /\ RecordsSound'
PROOF
  <1>1. HistoryType /\ RecordsSound /\ day \in Nat /\ DOMAIN registry = Sources
    BY RegistryAssumption DEF RegistryInv, HistoryType, Days
  <1>2. SUFFICES ASSUME Next, ~ UNCHANGED <<day, registry, history>>
                 PROVE HistoryType' /\ RecordsSound'
    <2>1. UNCHANGED vars => UNCHANGED <<day, registry, history>>
      BY DEF vars
    <2> QED BY <1>1, <1>2, <2>1, RecordsStand
  <1>3. CASE NextDay
    <2>1. /\ day' = day + 1 /\ day' \in Days /\ registry' = registry /\ seenOn' = seenOn
          /\ missedOn' = missedOn /\ highOn' = highOn /\ lowOn' = lowOn
      BY <1>1, <1>3, RegistryAssumption DEF NextDay, history, RegistryInv, HistoryType, Days
    <2>2. 0 .. day \subseteq 0 .. day' /\ day \in Nat /\ day' \in Nat /\ day <= day'
      BY <1>1, <2>1
    <2>3. HistoryType'
      <3>1. highOn \in [Sources -> [Items -> SUBSET (0 .. day')]]
        BY <1>1, <2>2 DEF HistoryType
      <3>2. {lowOn, missedOn, seenOn} \subseteq [Sources -> SUBSET (0 .. day')]
        BY <1>1, <2>2 DEF HistoryType
      <3> QED BY <1>1, <2>1, <3>1, <3>2 DEF HistoryType
    <2>4. ASSUME NEW s \in Sources
          PROVE  Sound(registry'[s], Story(s)', day')
      <3>1. Story(s)' = Story(s)
        BY <2>1 DEF Story, HighOn
      <3>2. Sound(registry[s], Story(s), day)
        BY <1>1 DEF RecordsSound
      <3> QED BY <2>1, <2>2, <3>1, <3>2, SoundLater
    <2> QED BY <2>3, <2>4 DEF RecordsSound
  <1>4. CASE OperatorSave
    <2>1. /\ day' = day /\ missedOn' = missedOn /\ highOn' = highOn /\ lowOn' = lowOn
      BY <1>4 DEF OperatorSave
    <2>2. /\ DOMAIN registry' = Sources /\ DOMAIN seenOn' = Sources
          /\ \A s \in Sources :
               \/ registry'[s] = registry[s] /\ seenOn'[s] = seenOn[s]
               \/ /\ registry[s].status \in {"candidate", "approved"}
                  /\ registry'[s] = Retired(registry[s]) /\ seenOn'[s] = seenOn[s]
               \/ /\ registry[s].status = "retired" /\ seenOn'[s] = {}
                  /\ \E target \in {"asBefore", "probation", "active"} :
                       registry'[s] = Restored(registry[s], target, day)
      BY <1>4, OperatorOutcome
    <2>3. \A s \in Sources : seenOn'[s] \in {seenOn[s], {}}
      BY <2>2
    <2>4. HistoryType'
      <3>1. seenOn' \in [Sources -> SUBSET (0 .. day)]
        <4>1. seenOn \in [Sources -> SUBSET (0 .. day)]
          BY <1>1 DEF HistoryType
        <4>2. seenOn' = [s \in Sources |-> seenOn'[s]]
          BY <1>4, <4>1 DEF OperatorSave, OperatorRetires, OperatorRestores, OperatorFails
        <4> QED BY <2>3, <4>1, <4>2
      <3> QED BY <1>1, <2>1, <2>2, <3>1 DEF HistoryType
    <2>5. ASSUME NEW s \in Sources
          PROVE  Sound(registry'[s], Story(s)', day')
      <3>1. Sound(registry[s], Story(s), day)
        BY <1>1 DEF RecordsSound
      <3>2. /\ Story(s)'.high = Story(s).high /\ Story(s)'.low = Story(s).low
            /\ Story(s)'.missed = Story(s).missed /\ Story(s)'.seen = seenOn'[s]
        BY <2>1 DEF Story, HighOn
      <3>3. CASE registry'[s] = registry[s] /\ seenOn'[s] = seenOn[s]
        <4>1. Story(s)' = Story(s)
          BY <2>1, <3>3 DEF Story, HighOn
        <4> QED BY <2>1, <3>1, <3>3, <4>1
      <3>4. CASE /\ registry[s].status \in {"candidate", "approved"}
                 /\ registry'[s] = Retired(registry[s]) /\ seenOn'[s] = seenOn[s]
        <4>1. Story(s)' = Story(s)
          BY <2>1, <3>4 DEF Story, HighOn
        <4> QED BY <2>1, <3>1, <3>4, <4>1, SoundRetired
      <3>5. CASE /\ registry[s].status = "retired" /\ seenOn'[s] = {}
                 /\ \E target \in {"asBefore", "probation", "active"} :
                      registry'[s] = Restored(registry[s], target, day)
        <4>1. PICK target \in {"asBefore", "probation", "active"} :
                registry'[s] = Restored(registry[s], target, day)
          BY <3>5
        <4> DEFINE g == Story(s)'
        <4>2. g.high = Story(s).high /\ g.low = Story(s).low /\ g.missed = Story(s).missed
              /\ g.seen = {}
          BY <3>2, <3>5
        <4> HIDE DEF g
        <4>3. Sound(Restored(registry[s], target, day), g, day)
          BY <1>1, <3>1, <3>5, <4>2, SoundRestored
        <4> QED BY <2>1, <4>1, <4>3 DEF g
      <3> QED BY <2>2, <3>3, <3>4, <3>5
    <2> QED BY <2>4, <2>5 DEF RecordsSound
  <1>5. ASSUME NEW w \in Writers, AdapterSave(w)
        PROVE  HistoryType' /\ RecordsSound'
    <2>1. /\ day' = day /\ seenOn' = seenOn /\ missedOn' = missedOn
          /\ highOn' = highOn /\ lowOn' = lowOn
      BY <1>5 DEF AdapterSave, history
    <2>2. /\ DOMAIN registry' = Sources
          /\ \A s \in Sources :
               \/ registry'[s] = registry[s]
               \/ registry[s].status = "approved" /\ FetchedTo(registry'[s], registry[s])
      BY <1>5, AdapterOutcome
    <2>3. HistoryType'
      BY <1>1, <2>1, <2>2 DEF HistoryType
    <2>4. ASSUME NEW s \in Sources
          PROVE  Sound(registry'[s], Story(s)', day')
      <3>1. Story(s)' = Story(s) /\ Sound(registry[s], Story(s), day)
        BY <1>1, <2>1 DEF Story, HighOn, RecordsSound
      <3>2. CASE registry'[s] = registry[s]
        BY <2>1, <3>1, <3>2
      <3>3. CASE registry[s].status = "approved" /\ FetchedTo(registry'[s], registry[s])
        <4>1. Sound(registry'[s], Story(s), day)
          BY <3>1, <3>3, FetchedSound
        <4> QED BY <2>1, <3>1, <4>1
      <3> QED BY <2>2, <3>2, <3>3
    <2> QED BY <2>3, <2>4 DEF RecordsSound
  <1>6. ASSUME NEW w \in Writers, DiscoverSave(w)
        PROVE  HistoryType' /\ RecordsSound'
    <2>1. day' = day
      BY <1>6 DEF DiscoverSave
    <2>2. PICK mention \in Mentions, scored \in ScoredItems(w),
               itemOrder \in ItemOrders, order \in SourceOrders :
            Applied(registry, mention, scored, itemOrder, order)
      BY <1>6, DiscoveryOfRegistry
    <2>3. scored \in [Sources -> [Items -> Scores \cup {"none"}]]
      BY DEF ScoredItems
    <2>4. HistoryType'
      BY <2>1, <2>2, AppliedHistoryType
    <2>5. \A s \in Sources : Sound(registry'[s], Story(s)', day)
      BY <2>2, <2>3, AppliedRecords
    <2> QED BY <2>1, <2>4, <2>5 DEF RecordsSound
  <1>7. \/ NextDay \/ OperatorSave
        \/ \E w \in Writers : AdapterSave(w) \/ DiscoverSave(w)
    <2>1. ASSUME NEW w \in Writers, BeginRun(w) \/ Deadline(w) \/ DiscoverLoad(w) \/ Abort(w)
          PROVE  UNCHANGED <<day, registry, history>>
      BY <2>1 DEF BeginRun, Deadline, DiscoverLoad, Abort
    <2>2. OperatorLoad => UNCHANGED <<day, registry, history>>
      BY DEF OperatorLoad
    <2> QED BY <1>2, <2>1, <2>2 DEF Next
  <1> QED BY <1>3, <1>4, <1>5, <1>6, <1>7

\* What holds as long as the writers take turns.
TurnsInv == TakeTurns => RegistryInv

\* As long as the writers take turns, a snapshot in use is the registry's, and every
\* record agrees with the history of its source.
THEOREM RegistryCorrect == Spec => []TurnsInv
PROOF
  <1>1. Init => TurnsInv
    BY InTurnInit, RecordsInit DEF TurnsInv, RegistryInv
  <1>2. TurnsInv /\ [Next]_vars => TurnsInv'
    <2> SUFFICES ASSUME TakeTurns, RegistryInv, [Next]_vars PROVE RegistryInv'
      BY DEF TurnsInv
    <2>1. InTurn'
      BY InTurnStep DEF RegistryInv
    <2>2. HistoryType' /\ RecordsSound'
      BY RecordsStep
    <2> QED BY <2>1, <2>2 DEF RegistryInv
  <1> QED BY <1>1, <1>2, PTL DEF Spec

-----------------------------------------------------------------------------
(* The properties of its steps.                                            *)

\* A step that changes the registry is a save, of what the saver makes of the registry.
LEMMA OnlySavesChange ==
  ASSUME [Next]_vars, registry' # registry
  PROVE  OperatorSave \/ \E w \in Writers : AdapterSave(w) \/ DiscoverSave(w)
PROOF
  <1>1. ~ UNCHANGED vars
    BY DEF vars
  <1>2. ASSUME NEW w \in Writers, BeginRun(w) \/ Deadline(w) \/ DiscoverLoad(w) \/ Abort(w)
        PROVE  FALSE
    BY <1>2 DEF BeginRun, Deadline, DiscoverLoad, Abort
  <1>3. ~ (NextDay \/ OperatorLoad)
    BY DEF NextDay, OperatorLoad
  <1> QED BY <1>1, <1>2, <1>3 DEF Next

LEMMA CoverageStep ==
  ASSUME MinSources > 1, RegistryInv, [Next]_vars, NEW s \in Sources, Covering(registry[s]),
         registry'[s].status = "retired", NEW c \in Covers[s]
  PROVE  \E t \in Sources : c \in Covers[t] /\ Covering(registry'[t])
PROOF
  <1>1. registry[s].status = "approved" /\ s \in CoveredBy(registry, c)
    BY DEF Covering, CoveredBy
  <1>2. registry' # registry
    BY <1>1
  <1>3. ASSUME OperatorSave
        PROVE  CoveredBy(registry', c) # {}
    BY <1>1, <1>3, OperatorOutcome DEF Keeps
  <1>4. ASSUME NEW w \in Writers, AdapterSave(w)
        PROVE  CoveredBy(registry', c) # {}
    BY <1>1, <1>4, AdapterOutcome DEF Keeps
  <1>5. ASSUME NEW w \in Writers, DiscoverSave(w)
        PROVE  CoveredBy(registry', c) # {}
    <2>1. PICK mention \in Mentions, scored \in ScoredItems(w),
               itemOrder \in ItemOrders, order \in SourceOrders :
            Applied(registry, mention, scored, itemOrder, order)
      BY <1>5, DiscoveryOfRegistry
    <2>2. scored \in [Sources -> [Items -> Scores \cup {"none"}]]
      BY DEF ScoredItems
    <2> QED BY <2>1, <2>2, AppliedRecords
  <1>6. CoveredBy(registry', c) # {}
    BY <1>2, <1>3, <1>4, <1>5, OnlySavesChange
  <1> QED BY <1>6 DEF CoveredBy

\* Retiring sources never takes the last active source of a category, at a minimum
\* of two or more: at a minimum of one findRetirementBlockedCategories blocks nothing.
THEOREM CoverageKept ==
  ASSUME MinSources > 1
  PROVE  Spec => RetirementKeepsCoverage
PROOF
  <1>1. TurnsInv /\ [Next]_vars =>
          [\A s \in Sources :
             TakeTurns /\ Covering(registry[s]) /\ registry'[s].status = "retired" =>
               \A c \in Covers[s] : \E t \in Sources : c \in Covers[t] /\ Covering(registry'[t])]_vars
    BY CoverageStep DEF TurnsInv
  <1> QED BY <1>1, RegistryCorrect, PTL DEF Spec, RetirementKeepsCoverage

LEMMA PromotionStep ==
  ASSUME RegistryInv, [Next]_vars, NEW s \in Sources,
         registry[s].stage = "probation", registry'[s].stage = "active"
  PROVE  Cardinality(EarnedOn(registry'[s].since, Story(s)', day)) >= MinQualifying
PROOF
  <1>1. registry' # registry
    OBVIOUS
  <1>2. Sound(registry[s], Story(s), day)
    BY DEF RegistryInv, RecordsSound
  <1>3. ASSUME OperatorSave
        PROVE  FALSE
    <2>1. \/ registry'[s] = registry[s]
          \/ registry'[s] = Retired(registry[s])
          \/ registry[s].status = "retired"
      BY <1>3, OperatorOutcome
    <2>2. Retired(registry[s]).stage = "retired"
      BY <1>2, RetiredFields DEF Sound
    <2> QED BY <1>2, <2>1, <2>2, SoundStatus
  <1>4. ASSUME NEW w \in Writers, AdapterSave(w)
        PROVE  FALSE
    <2>1. \/ registry'[s] = registry[s]
          \/ registry[s].status = "approved" /\ FetchedTo(registry'[s], registry[s])
      BY <1>4, AdapterOutcome
    <2> QED BY <1>2, <2>1, FetchedSound
  <1>5. PICK w \in Writers : DiscoverSave(w)
    BY <1>1, <1>3, <1>4, OnlySavesChange
  <1>6. PICK mention \in Mentions, scored \in ScoredItems(w),
             itemOrder \in ItemOrders, order \in SourceOrders :
          Applied(registry, mention, scored, itemOrder, order)
    BY <1>5, DiscoveryOfRegistry
  <1>7. scored \in [Sources -> [Items -> Scores \cup {"none"}]]
    BY DEF ScoredItems
  <1> QED BY <1>6, <1>7, AppliedRecords

\* A source in probation becomes active on enough days with a qualifying score since
\* its probation began, in the window, with none in between that had a lower one only.
THEOREM PromotionsEarned == Spec => PromotionEarned
PROOF
  <1> DEFINE Earned == \A s \in Sources :
               TakeTurns /\ registry[s].stage = "probation" /\ registry'[s].stage = "active" =>
                 LET streak == {c \in HighOn(highOn', s) : registry'[s].since <= c /\ \A b \in lowOn'[s] : b <= c}
                 IN \E d \in Days :
                      Cardinality({c \in streak : InWindow(c, d, PromotionWindow)}) >= MinQualifying
             Streak(s) == {c \in HighOn(highOn', s) : registry'[s].since <= c /\ \A b \in lowOn'[s] : b <= c}
  <1>1. TurnsInv /\ [Next]_vars => [Earned]_vars
    <2> SUFFICES ASSUME TakeTurns, RegistryInv, [Next]_vars, NEW s \in Sources,
                        registry[s].stage = "probation", registry'[s].stage = "active"
                 PROVE  \E d \in Days :
                   Cardinality({c \in Streak(s) : InWindow(c, d, PromotionWindow)}) >= MinQualifying
      BY DEF TurnsInv
    <2>1. Cardinality(EarnedOn(registry'[s].since, Story(s)', day)) >= MinQualifying
      BY PromotionStep
    <2>2. EarnedOn(registry'[s].since, Story(s)', day)
            = {c \in Streak(s) : InWindow(c, day, PromotionWindow)}
      BY DEF EarnedOn, Story, HighOn
    <2>3. day \in Days
      BY DEF RegistryInv, HistoryType
    <2> QED BY <2>1, <2>2, <2>3
  <1> QED BY <1>1, RegistryCorrect, PTL DEF Spec, PromotionEarned

LEMMA LowSignalStep ==
  ASSUME RegistryInv, [Next]_vars, NEW s \in Sources, NEW w \in Writers,
         run[w] = "discovering", registry[s].failures < MaxFailures,
         registry[s].status = "approved", registry'[s].status = "retired"
  PROVE  /\ day - MinLowSignal + 1 .. day \subseteq missedOn'[s]
         /\ seenOn'[s] \cap (day - MinLowSignal + 2 .. day) = {}
PROOF
  <1>1. registry' # registry
    OBVIOUS
  <1>2. /\ operator \in {None, registry} /\ loaded[w] = registry
        /\ \A v \in Writers :
             /\ fetching[v] \in {None, registry} /\ loaded[v] \in {None, registry}
             /\ fetching[v] = None \/ loaded[v] = None
             /\ operator = None \/ (fetching[v] = None /\ loaded[v] = None)
        /\ \A v \in Writers \ {w} :
             (fetching[v] = None /\ loaded[v] = None) \/ (fetching[w] = None /\ loaded[w] = None)
    BY DEF RegistryInv, InTurn
  <1>3. ~ OperatorSave
    BY <1>2 DEF OperatorSave
  <1>4. \A v \in Writers : ~ AdapterSave(v)
    BY <1>2 DEF AdapterSave
  <1>5. PICK v \in Writers : DiscoverSave(v)
    BY <1>1, <1>3, <1>4, OnlySavesChange
  <1>6. PICK mention \in Mentions, scored \in ScoredItems(v),
             itemOrder \in ItemOrders, order \in SourceOrders :
          Applied(registry, mention, scored, itemOrder, order)
    BY <1>5, DiscoveryOfRegistry
  <1>7. scored \in [Sources -> [Items -> Scores \cup {"none"}]]
    BY DEF ScoredItems
  <1>8. /\ day - MinLowSignal + 1 .. day \subseteq Story(s)'.missed
        /\ Story(s)'.seen \cap (day - MinLowSignal + 2 .. day) = {}
    BY <1>6, <1>7, AppliedRecords
  <1>9. Story(s)'.missed = missedOn'[s] /\ Story(s)'.seen = seenOn'[s]
    BY DEF Story
  <1> QED BY <1>8, <1>9

\* A source that a run retires although its fetches worked was missed on enough days in
\* a row and seen on none of them but perhaps the first.
THEOREM LowSignalRetirementsEarned == Spec => LowSignalRetirementEarned
PROOF
  <1> DEFINE Earned == \A s \in Sources, w \in Writers :
               /\ TakeTurns /\ run[w] = "discovering" /\ registry[s].failures < MaxFailures
               /\ registry[s].status = "approved" /\ registry'[s].status = "retired"
               => LET first == day - MinLowSignal + 1 IN
                  /\ first .. day \subseteq missedOn'[s]
                  /\ seenOn'[s] \cap (first + 1 .. day) = {}
  <1>1. TurnsInv /\ [Next]_vars => [Earned]_vars
    <2> SUFFICES ASSUME RegistryInv, [Next]_vars, NEW s \in Sources, NEW w \in Writers,
                        run[w] = "discovering", registry[s].failures < MaxFailures,
                        registry[s].status = "approved", registry'[s].status = "retired"
                 PROVE  LET first == day - MinLowSignal + 1 IN
                        /\ first .. day \subseteq missedOn'[s]
                        /\ seenOn'[s] \cap (first + 1 .. day) = {}
      BY DEF TurnsInv
    <2>1. /\ day - MinLowSignal + 1 .. day \subseteq missedOn'[s]
          /\ seenOn'[s] \cap (day - MinLowSignal + 2 .. day) = {}
      BY LowSignalStep
    <2>2. day \in Int /\ MinLowSignal \in Int
      BY LifecycleAssumption DEF RegistryInv, HistoryType, Days
    <2>3. day - MinLowSignal + 1 + 1 = day - MinLowSignal + 2
      BY <2>2
    <2> QED BY <2>1, <2>3
  <1>2. Spec => [][Earned]_vars
    <2> HIDE DEF Earned
    <2> QED BY <1>1, RegistryCorrect, PTL DEF Spec
  <1> QED BY <1>2 DEF LowSignalRetirementEarned

-----------------------------------------------------------------------------
(* The tracked items of a source and the days on which its items scored    *)
(* high.                                                                   *)

TrackedItems ==
  [item : Items, first : Nat, days : SUBSET Nat, high : SUBSET Nat,
   status : {"tracking", "retained", "short_lived"}]

\* What is tracked of an item agrees with the days on which the item scored high.
Lasting(e, days, d) ==
  /\ e.first \in e.days /\ e.days \subseteq e.first .. d
  /\ e.first \in days
  /\ e.status = "retained" <=> \E c \in days : e.first < c
  /\ e.status = "short_lived" => d - e.first >= ExpertiseWindow

\* The entries that agree with the days in high, which has those of every item.
Entries(high, d) == {e \in TrackedItems : Lasting(e, high[e.item], d)}

\* The days of an item after a run in which it had the score.
Scoring(days, score, d) == IF HighSignal(score) THEN days \cup {d} ELSE days

\* An item that is tracked is seen again.
LEMMA AgainTyped ==
  ASSUME NEW e \in TrackedItems, NEW d \in Nat, NEW score \in Scores,
         NEW p, p = TrackedAgain(e, score, d), NEW days, days = e.days \cup {d}
  PROVE  /\ p \in TrackedItems /\ p.item = e.item /\ p.first = e.first /\ p.days = days
         /\ p.status = IF Cardinality(days) >= 2 /\ HighSignal(score) THEN "retained"
                       ELSE e.status
PROOF
  <1> DEFINE o == Occurred(e, score, d)
  <1>1. /\ e.days \in SUBSET Nat /\ e.high \in SUBSET Nat
        /\ e.status \in {"tracking", "retained", "short_lived"}
    BY DEF TrackedItems
  <1>2. /\ o \in TrackedItems /\ o.item = e.item /\ o.first = e.first
        /\ o.days = e.days \cup {d} /\ o.status = e.status
    BY <1>1 DEF Occurred, TrackedItems
  <1>3. p = [o EXCEPT !.status = IF Cardinality(o.days) >= 2 /\ HighSignal(score)
                                 THEN "retained" ELSE @]
    BY DEF TrackedAgain
  <1> HIDE DEF o
  <1> QED BY <1>2, <1>3 DEF TrackedItems

LEMMA AgainLasting ==
  ASSUME NEW e \in TrackedItems, NEW days \in SUBSET Nat, NEW d \in Nat, NEW score \in Scores,
         Lasting(e, days, d), NEW p, p = TrackedAgain(e, score, d)
  PROVE  /\ p \in TrackedItems /\ p.item = e.item
         /\ Lasting(p, Scoring(days, score, d), d)
PROOF
  <1> DEFINE o == e.days \cup {d}
  <1>1. e.first \in Nat
    BY DEF TrackedItems
  <1>2. /\ p \in TrackedItems /\ p.item = e.item /\ p.first = e.first /\ p.days = o
        /\ p.status = IF Cardinality(o) >= 2 /\ HighSignal(score) THEN "retained"
                      ELSE e.status
        /\ o = e.days \cup {d}
    BY AgainTyped
  <1> HIDE DEF o
  <1>3. e.first <= d /\ o \subseteq e.first .. d /\ {e.first, d} \subseteq o
    BY <1>1, <1>2 DEF Lasting
  <1> HIDE DEF o
  <1>4. Cardinality(o) >= 2 <=> e.first < d
    <2>1. IsFiniteSet(o) /\ Cardinality(o) \in Nat
      <3>1. IsFiniteSet(e.first .. d)
        BY <1>1, FS_Interval
      <3>2. IsFiniteSet(o)
        BY <1>3, <3>1, FS_Subset
      <3> QED BY <3>2, FS_CardinalityType
    <2>2. CASE e.first = d
      <3>1. \A x \in o : x = d
        BY <1>1, <1>3, <2>2
      <3>2. o = {d}
        BY <1>3, <3>1
      <3> QED BY <2>2, <3>2, FS_Singleton
    <2>3. CASE e.first < d
      <3>1. IsFiniteSet({e.first}) /\ Cardinality({e.first}) = 1
        BY FS_Singleton
      <3>2. Cardinality({e.first} \cup {d}) = 2
        <4>1. d \notin {e.first}
          BY <1>1, <2>3
        <4> DEFINE E == {e.first}
        <4> HIDE DEF E
        <4>2. Cardinality(E \cup {d}) = 1 + 1
          BY <3>1, <4>1, FS_AddElement DEF E
        <4> QED BY <4>2 DEF E
      <3>3. {e.first} \cup {d} \subseteq o
        BY <1>3
      <3>4. Cardinality({e.first} \cup {d}) <= Cardinality(o)
        BY <2>1, <3>3, FS_Subset
      <3> QED BY <2>1, <2>3, <3>2, <3>4
    <2> QED BY <1>1, <1>3, <2>2, <2>3
  <1>5. CASE HighSignal(score)
    <2>1. Scoring(days, score, d) = days \cup {d}
      BY <1>5 DEF Scoring
    <2>2. CASE e.first < d
      <3>1. p.status = "retained" /\ \E c \in days \cup {d} : e.first < c
        BY <1>2, <1>4, <1>5, <2>2
      <3> QED BY <1>2, <1>3, <2>1, <3>1 DEF Lasting
    <2>3. CASE e.first = d
      <3>1. p.status = e.status
        BY <1>1, <1>2, <1>4, <2>3
      <3>2. (\E c \in days \cup {d} : e.first < c) <=> \E c \in days : e.first < c
        BY <1>1, <2>3
      <3> QED BY <1>2, <1>3, <2>1, <3>1, <3>2 DEF Lasting
    <2> QED BY <1>1, <1>3, <2>2, <2>3
  <1>6. CASE ~HighSignal(score)
    <2>1. Scoring(days, score, d) = days /\ p.status = e.status
      BY <1>2, <1>6 DEF Scoring
    <2> QED BY <1>2, <1>3, <2>1 DEF Lasting
  <1> QED BY <1>2, <1>5, <1>6

\* An item that is tracked from now on.
LEMMA NewLasting ==
  ASSUME NEW i \in Items, NEW d \in Nat, NEW days \in SUBSET (0 .. d), NEW score \in Scores,
         HighSignal(score), NEW p, p = Tracked(i, d)
  PROVE  p \in TrackedItems /\ p.item = i /\ Lasting(p, Scoring(days, score, d), d)
PROOF
  <1>1. /\ p \in TrackedItems /\ p.item = i /\ p.first = d /\ p.days = {d}
        /\ p.status = "tracking"
    BY DEF Tracked, TrackedItems
  <1>2. Scoring(days, score, d) = days \cup {d} /\ ~ \E c \in days \cup {d} : d < c
    BY DEF Scoring
  <1> QED BY <1>1, <1>2 DEF Lasting

-----------------------------------------------------------------------------
(* The folds over the tracked items.                                       *)

\* What is picked of a sequence is of the sequence.
LEMMA ThoseAre ==
  ASSUME NEW S, NEW tracked \in Seq(S), NEW I
  PROVE  Those(tracked, I) \in Seq({e \in S : e.item \in I})
PROOF
  <1> DEFINE N == Len(tracked)
             D == 1 .. N
             Picking(h) == h = [U \in SUBSET D |->
                             IF U = {} THEN <<>>
                             ELSE IF tracked[Max(U)].item \in I
                                  THEN Append(h[U \ {Max(U)}], tracked[Max(U)])
                                  ELSE h[U \ {Max(U)}]]
             it == CHOOSE h : Picking(h)
             R == {e \in S : e.item \in I}
             V == Seq(R)
             F == [n \in D |-> [v \in V |-> IF tracked[n].item \in I THEN Append(v, tracked[n])
                                            ELSE v]]
  <1>1. N \in Nat /\ DOMAIN tracked = D /\ <<>> \in V /\ \A n \in D : tracked[n] \in S
    OBVIOUS
  <1>2. Those(tracked, I) = it[D]
    BY <1>1 DEF Those, FoldLeft, MapThenFoldSet
  <1>3. \A n \in D, v \in V : F[n][v] \in V
    BY <1>1
  <1>4. \E h : Picking(h) /\ h[D] \in V
    <2> HIDE DEF F, V
    <2>1. PICK h : Folds(<<>>, F, 1 .. N, h) /\ \A U \in SUBSET (1 .. N) : h[U] \in V
      BY <1>1, <1>3, FoldRuns
    <2>2. ASSUME NEW U \in SUBSET D, U # {}
          PROVE  F[Max(U)][h[U \ {Max(U)}]] = IF tracked[Max(U)].item \in I
                   THEN Append(h[U \ {Max(U)}], tracked[Max(U)]) ELSE h[U \ {Max(U)}]
      <3>0. IsFiniteSet(D) /\ D \in SUBSET Int
        BY <1>1, FS_Interval
      <3>1. Max(U) \in D
        <4> HIDE DEF D
        <4>1. IsFiniteSet(U) /\ U \in SUBSET Int
          BY <2>2, <3>0, FS_Subset
        <4> QED BY <2>2, <4>1, MaxFacts
      <3>2. h[U \ {Max(U)}] \in V
        BY <2>1
      <3> QED BY <3>1, <3>2 DEF F
    <2> HIDE DEF D
    <2>3. h = [U \in SUBSET D |-> IF U = {} THEN <<>> ELSE F[Max(U)][h[U \ {Max(U)}]]]
      BY <2>1 DEF Folds, D
    <2>4. Picking(h)
      BY <2>2, <2>3
    <2> QED BY <2>1, <2>4 DEF D
  <1>5. PICK h : Picking(h) /\ h[D] \in V
    BY <1>4
  <1>6. Picking(it)
    BY <1>5
  <1>7. it[D] = h[D]
    <2>1. it[{}] = h[{}]
      <3> HIDE DEF it
      <3> QED BY <1>5, <1>6
    <2>2. ASSUME NEW U \in SUBSET D, U # {}, it[U \ {Max(U)}] = h[U \ {Max(U)}]
          PROVE  it[U] = h[U]
      <3> HIDE DEF it, D
      <3> QED BY <1>5, <1>6, <2>2
    <2>3. IsFiniteSet(D) /\ D \in SUBSET Int
      BY <1>1, FS_Interval
    <2> HIDE DEF it, D
    <2> QED BY <2>1, <2>2, <2>3, AgreeChronologically
  <1> HIDE DEF it, V
  <1> QED BY <1>2, <1>5, <1>7 DEF V

\* What is left of a sequence after trimming is of the sequence.
LEMMA TrimmedAre ==
  ASSUME NEW S, NEW tracked \in Seq(S), NEW fresh
  PROVE  Trimmed(tracked, fresh) \in Seq(S)
PROOF
  <1> DEFINE sorted == Those(tracked, fresh) \o Those(tracked, Items \ fresh)
             m == Min({Len(sorted), MaxTracked})
  <1>1. ASSUME NEW I
        PROVE  Those(tracked, I) \in Seq(S)
    <2>1. Those(tracked, I) \in Seq({e \in S : e.item \in I})
      BY ThoseAre
    <2> QED BY <2>1
  <1>2. sorted \in Seq(S)
    BY <1>1
  <1> HIDE DEF sorted
  <1>3. Len(sorted) \in Nat /\ MaxTracked \in Nat
    BY <1>2, ExpertiseAssumption
  <1>4. m \in 0 .. Len(sorted)
    <2> DEFINE T == {Len(sorted), MaxTracked}
    <2>a. IsFiniteSet(T)
      <3>1. IsFiniteSet({Len(sorted)})
        BY FS_Singleton
      <3>2. IsFiniteSet({Len(sorted)} \cup {MaxTracked})
        BY <3>1, FS_AddElement
      <3>3. {Len(sorted)} \cup {MaxTracked} = T
        OBVIOUS
      <3> HIDE DEF T
      <3> QED BY <3>2, <3>3
    <2>b. T \in SUBSET Int
      BY <1>3
    <2>c. T # {}
      OBVIOUS
    <2>1. T \in SUBSET Int /\ IsFiniteSet(T) /\ T # {}
      <3> HIDE DEF T
      <3> QED BY <2>a, <2>b, <2>c
    <2>2. \A t \in T : t \in Nat
      BY <1>3
    <2>3. Len(sorted) \in T
      OBVIOUS
    <2> HIDE DEF T
    <2>4. Min(T) \in T /\ \A t \in T : Min(T) <= t
      BY <2>1, MinFacts
    <2>5. Min(T) \in 0 .. Len(sorted)
      BY <1>3, <2>2, <2>3, <2>4
    <2> QED BY <2>5 DEF T
  <1> HIDE DEF m
  <1>5. SubSeq(sorted, 1, m) \in Seq(S)
    BY <1>2, <1>3, <1>4
  <1> QED BY <1>5 DEF Trimmed, sorted, m

\* The days of the items after the item i had the score.
WithScore(high, i, score, d) ==
  [j \in Items |-> IF j = i THEN Scoring(high[j], score, d) ELSE high[j]]

\* Observing an item leaves entries that agree with the days, the observed one included.
LEMMA ItemObservedLasting ==
  ASSUME NEW d \in Nat, NEW high \in [Items -> SUBSET (0 .. d)], NEW i \in Items,
         NEW score \in Scores, NEW T, T.tracked \in Seq(Entries(high, d)),
         NEW p, p = ItemObserved(T, i, score, d)
  PROVE  p.tracked \in Seq(Entries(WithScore(high, i, score, d), d))
PROOF
  <1> DEFINE E == Entries(high, d)
             later == WithScore(high, i, score, d)
             L == Entries(later, d)
             known == \E k \in DOMAIN T.tracked : T.tracked[k].item = i
             again == [k \in DOMAIN T.tracked |-> IF T.tracked[k].item = i
                         THEN TrackedAgain(T.tracked[k], score, d) ELSE T.tracked[k]]
             new == Tracked(i, d)
  <1>1. /\ \A e : e \in E <=> e \in TrackedItems /\ Lasting(e, high[e.item], d)
        /\ \A e : e \in L <=> e \in TrackedItems /\ Lasting(e, later[e.item], d)
    BY DEF Entries
  <1>2. /\ later[i] = Scoring(high[i], score, d)
        /\ \A j \in Items \ {i} : later[j] = high[j]
        /\ \A e \in TrackedItems : e.item \in Items
        /\ \A j \in Items : high[j] \in SUBSET (0 .. d) /\ high[j] \in SUBSET Nat
    BY DEF WithScore, TrackedItems
  <1> HIDE DEF E, L, later
  <1>3. ASSUME NEW e \in E, e.item # i
        PROVE  e \in L
    <2>1. later[e.item] = high[e.item]
      BY <1>1, <1>2, <1>3
    <2> QED BY <1>1, <2>1
  <1>4. ASSUME NEW e \in E, e.item = i
        PROVE  TrackedAgain(e, score, d) \in L
    <2> DEFINE a == TrackedAgain(e, score, d)
    <2>1. e \in TrackedItems /\ Lasting(e, high[i], d)
      BY <1>1, <1>4
    <2> HIDE DEF a
    <2>2. a \in TrackedItems /\ a.item = e.item /\ Lasting(a, Scoring(high[i], score, d), d)
      BY <1>2, <2>1, AgainLasting DEF a
    <2>3. Lasting(a, later[a.item], d)
      BY <1>2, <1>4, <2>2
    <2> QED BY <1>1, <2>2, <2>3 DEF a
  <1>5. T.tracked \in Seq(E) /\ \A k \in DOMAIN T.tracked : T.tracked[k] \in E
    BY DEF E
  <1>6. CASE known
    <2>1. again \in Seq(L)
      BY <1>3, <1>4, <1>5
    <2>2. p.tracked = Trimmed(again, T.fresh \cup {i})
      BY <1>6 DEF ItemObserved
    <2> HIDE DEF again
    <2> QED BY <2>1, <2>2, TrimmedAre DEF L, later
  <1>7. CASE ~known
    <2>1. T.tracked \in Seq(L)
      BY <1>3, <1>5, <1>7
    <2>2. CASE ~HighSignal(score)
      <3>1. p = T
        BY <1>7, <2>2 DEF ItemObserved
      <3> QED BY <2>1, <3>1 DEF L, later
    <2>3. CASE HighSignal(score)
      <3>1. p.tracked = Trimmed(Append(T.tracked, new), T.fresh \cup {i})
        BY <1>7, <2>3 DEF ItemObserved
      <3> HIDE DEF new
      <3>2. new \in TrackedItems /\ new.item = i /\ Lasting(new, Scoring(high[i], score, d), d)
        BY <1>2, <2>3, NewLasting DEF new
      <3>3. new \in L
        BY <1>1, <1>2, <3>2
      <3>4. Append(T.tracked, new) \in Seq(L)
        BY <2>1, <3>3
      <3> QED BY <3>1, <3>4, TrimmedAre DEF L, later
    <2> QED BY <2>2, <2>3
  <1> QED BY <1>6, <1>7

\* The states of the fold over the items of a run.
Trackings == [tracked : Seq(TrackedItems), fresh : SUBSET Items]

LEMMA ItemObservedTyped ==
  ASSUME NEW d \in Nat, NEW i \in Items, NEW score \in Scores, NEW T \in Trackings
  PROVE  ItemObserved(T, i, score, d) \in Trackings
PROOF
  <1> DEFINE p == ItemObserved(T, i, score, d)
             known == \E k \in DOMAIN T.tracked : T.tracked[k].item = i
             again == [k \in DOMAIN T.tracked |-> IF T.tracked[k].item = i
                         THEN TrackedAgain(T.tracked[k], score, d) ELSE T.tracked[k]]
             new == Tracked(i, d)
             fresh == T.fresh \cup {i}
  <1>1. T.tracked \in Seq(TrackedItems) /\ fresh \in SUBSET Items
    BY DEF Trackings
  <1>2. ASSUME NEW t \in Seq(TrackedItems)
        PROVE  [tracked |-> Trimmed(t, fresh), fresh |-> fresh] \in Trackings
    <2>1. Trimmed(t, fresh) \in Seq(TrackedItems)
      BY TrimmedAre
    <2> QED BY <1>1, <2>1 DEF Trackings
  <1>3. again \in Seq(TrackedItems)
    <2>1. \A e \in TrackedItems : TrackedAgain(e, score, d) \in TrackedItems
      BY AgainTyped
    <2> QED BY <1>1, <2>1
  <1>4. ASSUME HighSignal(score)
        PROVE  Append(T.tracked, new) \in Seq(TrackedItems)
    <2>1. {} \in SUBSET (0 .. d)
      OBVIOUS
    <2>2. new \in TrackedItems
      BY <1>4, <2>1, NewLasting
    <2> HIDE DEF new
    <2> QED BY <1>1, <2>2
  <1>5. p = IF ~known /\ ~HighSignal(score) THEN T
            ELSE [tracked |-> Trimmed(IF known THEN again ELSE Append(T.tracked, new), fresh),
                  fresh |-> fresh]
    BY DEF ItemObserved
  <1> HIDE DEF p, known, again, new, fresh
  <1>6. p \in Trackings
    BY <1>2, <1>3, <1>4, <1>5
  <1> QED BY <1>6 DEF p

\* The items of a run are observed in its order.
LEMMA ObservedSteps ==
  ASSUME NEW tracked \in Seq(TrackedItems), NEW scored \in [Items -> Scores \cup {"none"}],
         NEW order \in ItemOrders, NEW d \in Nat
  PROVE  \E g : /\ g[0].tracked = tracked
                /\ g[Len(order)].tracked = ItemsObserved(tracked, scored, order, d)
                /\ \A n \in 0 .. Len(order) : n < Len(order) =>
                     /\ order[n + 1] \in Items
                     /\ g[n + 1] = IF scored[order[n + 1]] = "none" THEN g[n]
                                   ELSE ItemObserved(g[n], order[n + 1], scored[order[n + 1]], d)
PROOF
  <1> DEFINE N == Len(order)
             D == 1 .. N
             base == [tracked |-> tracked, fresh |-> {}]
             Step(v, i) == IF scored[i] = "none" THEN v ELSE ItemObserved(v, i, scored[i], d)
             Observing(h) == h = [U \in SUBSET D |-> IF U = {} THEN base
                                    ELSE Step(h[U \ {Max(U)}], order[Max(U)])]
             it == CHOOSE h : Observing(h)
             V == Trackings
             F == [n \in D |-> [v \in V |-> Step(v, order[n])]]
  <1>1. N \in Nat /\ DOMAIN order = D /\ base \in V /\ \A n \in D : order[n] \in Items
    <2>1. order \in [1 .. Cardinality(Items) -> Items] /\ Cardinality(Items) \in Nat
      BY ExpertiseAssumption, FS_CardinalityType DEF ItemOrders, SetToSeqs
    <2>2. base \in V
      BY DEF Trackings
    <2> QED BY <2>1, <2>2
  <1>0. N \in Nat
    BY <1>1
  <1> HIDE DEF N
  <1>2. ItemsObserved(tracked, scored, order, d) = it[D].tracked
    BY <1>1 DEF ItemsObserved, FoldLeft, MapThenFoldSet
  <1> HIDE DEF base
  <1>3. \A n \in D, v \in V : F[n][v] \in V
    <2>1. \A n \in D, v \in V : Step(v, order[n]) \in V
      BY <1>1, ItemObservedTyped
    <2> HIDE DEF Step
    <2> QED BY <2>1
  <1> HIDE DEF Step
  <1>4. Observing(it)
    <2> HIDE DEF F, V
    <2>1. PICK h : Folds(base, F, 1 .. N, h) /\ \A U \in SUBSET (1 .. N) : h[U] \in V
      BY <1>1, <1>3, FoldRuns
    <2>2. ASSUME NEW U \in SUBSET D, U # {}
          PROVE  F[Max(U)][h[U \ {Max(U)}]] = Step(h[U \ {Max(U)}], order[Max(U)])
      <3>0. IsFiniteSet(D) /\ D \in SUBSET Int
        BY <1>1, FS_Interval
      <3>1. Max(U) \in D
        <4> HIDE DEF D
        <4>1. IsFiniteSet(U) /\ U \in SUBSET Int
          BY <2>2, <3>0, FS_Subset
        <4> QED BY <2>2, <4>1, MaxFacts
      <3>2. h[U \ {Max(U)}] \in V
        BY <2>1
      <3> QED BY <3>1, <3>2 DEF F
    <2> HIDE DEF D
    <2>3. h = [U \in SUBSET D |-> IF U = {} THEN base ELSE F[Max(U)][h[U \ {Max(U)}]]]
      BY <2>1 DEF Folds, D
    <2>4. Observing(h)
      BY <2>2, <2>3
    <2> QED BY <2>4
  <1> DEFINE g == [n \in 0 .. N |-> it[1 .. n]]
  <1> HIDE DEF it
  <1>5. g[0] = base /\ g[N].tracked = ItemsObserved(tracked, scored, order, d)
    <2>1. g[0] = it[{}] /\ g[N] = it[D]
      <3>1. 0 \in 0 .. N /\ N \in 0 .. N /\ 1 .. 0 = {}
        BY <1>0
      <3> QED BY <3>1
    <2>2. it[{}] = base
      <3>1. {} \in SUBSET D
        OBVIOUS
      <3> HIDE DEF D
      <3> QED BY <1>4, <3>1
    <2> QED BY <1>2, <2>1, <2>2
  <1>6. ASSUME NEW n \in 0 .. N, n < N
        PROVE  g[n + 1] = Step(g[n], order[n + 1])
    <2> DEFINE U == 1 .. (n + 1)
    <2>1. U \in SUBSET D /\ U # {} /\ n \in Nat /\ n + 1 \in 0 .. N
      <3>1. n \in Nat /\ n + 1 \in 0 .. N /\ n + 1 \in U
        BY <1>0, <1>6
      <3>2. \A x \in U : x \in D
        BY <1>0, <1>6, <3>1
      <3> HIDE DEF U, D
      <3> QED BY <3>1, <3>2
    <2>2. Max(U) = n + 1 /\ U \ {n + 1} = 1 .. n
      BY <2>1, MaxOfInterval
    <2>3. g[n + 1] = it[U] /\ g[n] = it[1 .. n]
      BY <2>1
    <2> HIDE DEF U, D, g
    <2>4. it[U] = Step(it[U \ {Max(U)}], order[Max(U)])
      BY <1>4, <2>1
    <2> QED BY <2>2, <2>3, <2>4
  <1> HIDE DEF g
  <1>7. g[0].tracked = tracked
    BY <1>5 DEF base
  <1>8. \A n \in 0 .. N : n < N => order[n + 1] \in Items
    BY <1>1
  <1> QED BY <1>5, <1>6, <1>7, <1>8 DEF N, Step

\* Every item has its place in the order of a run.
LEMMA ItemsInOrder ==
  ASSUME NEW order \in ItemOrders
  PROVE  /\ Len(order) \in Nat
         /\ \A i \in Items : \E j \in 1 .. Len(order) : order[j] = i
PROOF
  <1> DEFINE N == Cardinality(Items)
             R == {order[j] : j \in 1 .. N}
  <1>1. N \in Nat
    BY ExpertiseAssumption, FS_CardinalityType
  <1>2. /\ order \in [1 .. N -> Items]
        /\ \A i, j \in 1 .. N : i # j => order[i] # order[j]
    BY DEF ItemOrders, SetToSeqs
  <1> HIDE DEF N
  <1>3. Len(order) = N
    BY <1>1, <1>2
  <1>4. ExistsBijection(1 .. N, R)
    <2>1. order \in [1 .. N -> R] /\ \A t \in R : \E j \in 1 .. N : order[j] = t
      BY <1>2
    <2> HIDE DEF R
    <2>2. order \in Bijection(1 .. N, R)
      BY <1>2, <2>1 DEF Bijection, Injection, Surjection, IsInjective
    <2> QED BY <2>2 DEF ExistsBijection
  <1>5. R \in SUBSET Items
    BY <1>2
  <1>6. \A t \in R : \E j \in 1 .. N : order[j] = t
    OBVIOUS
  <1> HIDE DEF R
  <1>7. Cardinality(R) = N
    BY <1>1, <1>4, FS_CountingElements
  <1>8. R = Items
    BY <1>5, <1>7, ExpertiseAssumption, FS_Subset DEF N
  <1> QED BY <1>1, <1>3, <1>6, <1>8

\* The days of the items after a run.
AfterRun(high, scored, d) == [i \in Items |-> Scoring(high[i], scored[i], d)]

\* The days of the items after the first n of them were observed.
AfterFirst(high, scored, order, n, d) ==
  [i \in Items |-> IF \E j \in 1 .. n : order[j] = i THEN Scoring(high[i], scored[i], d)
                   ELSE high[i]]

LEMMA AfterFirsts ==
  ASSUME NEW d \in Nat, NEW high \in [Items -> SUBSET (0 .. d)],
         NEW scored \in [Items -> Scores \cup {"none"}], NEW order \in ItemOrders,
         NEW n \in Nat
  PROVE  /\ AfterFirst(high, scored, order, n, d) \in [Items -> SUBSET (0 .. d)]
         /\ AfterFirst(high, scored, order, 0, d) = high
         /\ AfterFirst(high, scored, order, Len(order), d) = AfterRun(high, scored, d)
         /\ order[n + 1] \in Items =>
              AfterFirst(high, scored, order, n + 1, d) =
                WithScore(AfterFirst(high, scored, order, n, d), order[n + 1],
                          scored[order[n + 1]], d)
PROOF
  <1>1. \A i \in Items : Scoring(high[i], scored[i], d) \in SUBSET (0 .. d)
    BY DEF Scoring
  <1>2. AfterFirst(high, scored, order, n, d) \in [Items -> SUBSET (0 .. d)]
    BY <1>1 DEF AfterFirst
  <1>3. AfterFirst(high, scored, order, 0, d) = high
    <2>1. \A i \in Items : ~ \E j \in 1 .. 0 : order[j] = i
      OBVIOUS
    <2> QED BY <2>1 DEF AfterFirst
  <1>4. AfterFirst(high, scored, order, Len(order), d) = AfterRun(high, scored, d)
    <2>1. \A i \in Items : \E j \in 1 .. Len(order) : order[j] = i
      BY ItemsInOrder
    <2> QED BY <2>1 DEF AfterFirst, AfterRun
  <1>5. ASSUME order[n + 1] \in Items
        PROVE  AfterFirst(high, scored, order, n + 1, d) =
                 WithScore(AfterFirst(high, scored, order, n, d), order[n + 1],
                           scored[order[n + 1]], d)
    <2> DEFINE x == order[n + 1]
               a == AfterFirst(high, scored, order, n, d)
               b == AfterFirst(high, scored, order, n + 1, d)
               w == WithScore(a, x, scored[x], d)
    <2>1. /\ b = [i \in Items |-> IF \E j \in 1 .. n + 1 : order[j] = i
                                  THEN Scoring(high[i], scored[i], d) ELSE high[i]]
          /\ w = [i \in Items |-> IF i = x THEN Scoring(a[i], scored[x], d) ELSE a[i]]
          /\ \A i \in Items : a[i] = IF \E j \in 1 .. n : order[j] = i
                                     THEN Scoring(high[i], scored[i], d) ELSE high[i]
      BY DEF AfterFirst, WithScore
    <2>2. \A i : (\E j \in 1 .. n + 1 : order[j] = i) <=> (i = x \/ \E j \in 1 .. n : order[j] = i)
      OBVIOUS
    <2>3. \A days, score : Scoring(Scoring(days, score, d), score, d) = Scoring(days, score, d)
      BY DEF Scoring
    <2> HIDE DEF x, a, b, w
    <2>4. ASSUME NEW i \in Items
          PROVE  b[i] = w[i]
      <3>1. CASE i = x
        BY <2>1, <2>2, <2>3, <3>1
      <3>2. CASE i # x
        BY <2>1, <2>2, <3>2
      <3> QED BY <3>1, <3>2
    <2>5. b = w
      BY <2>1, <2>4
    <2> QED BY <2>5 DEF x, a, b, w
  <1> QED BY <1>2, <1>3, <1>4, <1>5

\* What a run leaves of the tracked items agrees with the days, those of the run included.
LEMMA RunLasting ==
  ASSUME NEW d \in Nat, NEW high \in [Items -> SUBSET (0 .. d)],
         NEW scored \in [Items -> Scores \cup {"none"}], NEW order \in ItemOrders,
         NEW tracked \in Seq(Entries(high, d))
  PROVE  ItemsObserved(tracked, scored, order, d) \in Seq(Entries(AfterRun(high, scored, d), d))
PROOF
  <1> DEFINE N == Len(order)
             after(n) == AfterFirst(high, scored, order, n, d)
  <1>1. tracked \in Seq(TrackedItems)
    <2>1. Entries(high, d) \subseteq TrackedItems
      BY DEF Entries
    <2> QED BY <2>1
  <1>2. PICK g : /\ g[0].tracked = tracked
                 /\ g[N].tracked = ItemsObserved(tracked, scored, order, d)
                 /\ \A n \in 0 .. N : n < N =>
                      /\ order[n + 1] \in Items
                      /\ g[n + 1] = IF scored[order[n + 1]] = "none" THEN g[n]
                                    ELSE ItemObserved(g[n], order[n + 1], scored[order[n + 1]], d)
    BY <1>1, ObservedSteps
  <1>3. N \in Nat
    BY ItemsInOrder
  <1> HIDE DEF N
  <1>4. /\ after(0) = high /\ \A n \in Nat : after(n) \in [Items -> SUBSET (0 .. d)]
        /\ \A n \in Nat : order[n + 1] \in Items =>
             after(n + 1) = WithScore(after(n), order[n + 1], scored[order[n + 1]], d)
    BY AfterFirsts
  <1>5. after(N) = AfterRun(high, scored, d)
    BY AfterFirsts DEF N
  <1> HIDE DEF after
  <1> DEFINE Good == {n \in 0 .. N : g[n].tracked \in Seq(Entries(after(n), d))}
  <1>6. 0 \in Good
    BY <1>2, <1>3, <1>4
  <1>7. ASSUME NEW n \in 0 .. N, n < N, n \in Good
        PROVE  n + 1 \in Good
    <2> DEFINE i == order[n + 1]
    <2>1. /\ i \in Items /\ g[n].tracked \in Seq(Entries(after(n), d)) /\ n + 1 \in 0 .. N
          /\ n \in Nat /\ g[n + 1] = IF scored[i] = "none" THEN g[n]
                                     ELSE ItemObserved(g[n], i, scored[i], d)
      BY <1>2, <1>3, <1>7
    <2>2. /\ after(n) \in [Items -> SUBSET (0 .. d)]
          /\ after(n + 1) = WithScore(after(n), i, scored[i], d)
      BY <1>4, <2>1
    <2> HIDE DEF i
    <2>3. CASE scored[i] = "none"
      <3>1. after(n + 1) = after(n)
        BY <2>2, <2>3 DEF WithScore, Scoring, HighSignal
      <3> QED BY <2>1, <2>3, <3>1
    <2>4. CASE scored[i] # "none"
      <3>1. scored[i] \in Scores /\ g[n + 1] = ItemObserved(g[n], i, scored[i], d)
        BY <2>1, <2>4
      <3>2. g[n + 1].tracked \in Seq(Entries(WithScore(after(n), i, scored[i], d), d))
        BY <2>1, <2>2, <3>1, ItemObservedLasting
      <3> QED BY <2>1, <2>2, <3>2
    <2> QED BY <2>3, <2>4
  <1>8. N \in Good
    <2> HIDE DEF Good
    <2> QED BY <1>3, <1>6, <1>7, HoldsUpTo
  <1> QED BY <1>2, <1>5, <1>8

-----------------------------------------------------------------------------
(* What is left of the tracked items when a run ends, and their points.    *)

\* The entries of which the window did not pass while they wait for another high score.
Settled(high, d) ==
  {e \in Entries(high, d) : e.status = "tracking" => d - e.first < ExpertiseWindow}

LEMMA FinalEntry ==
  ASSUME NEW d \in Nat, NEW high, NEW e \in Entries(high, d), NEW p,
         p = IF e.status = "tracking" /\ ~InWindow(e.first, d, ExpertiseWindow)
             THEN [e EXCEPT !.status = "short_lived"] ELSE e
  PROVE  p \in Settled(high, d)
PROOF
  <1>1. /\ e \in TrackedItems /\ Lasting(e, high[e.item], d)
        /\ e.first \in Nat /\ e.first <= d /\ ExpertiseWindow \in Nat
    BY ExpertiseAssumption DEF Entries, TrackedItems, Lasting
  <1>2. InWindow(e.first, d, ExpertiseWindow) <=> d - e.first < ExpertiseWindow
    BY <1>1 DEF InWindow
  <1>3. CASE e.status = "tracking" /\ ~InWindow(e.first, d, ExpertiseWindow)
    <2>1. /\ p \in TrackedItems /\ p.item = e.item /\ p.first = e.first /\ p.days = e.days
          /\ p.status = "short_lived"
      BY <1>1, <1>3 DEF TrackedItems
    <2>2. d - e.first >= ExpertiseWindow
      BY <1>1, <1>2, <1>3
    <2>3. Lasting(p, high[p.item], d)
      BY <1>1, <1>3, <2>1, <2>2 DEF Lasting
    <2> QED BY <2>1, <2>3 DEF Settled, Entries
  <1>4. CASE ~ (e.status = "tracking" /\ ~InWindow(e.first, d, ExpertiseWindow))
    BY <1>2, <1>4 DEF Settled
  <1> QED BY <1>3, <1>4

LEMMA FinalizedAre ==
  ASSUME NEW d \in Nat, NEW high, NEW tracked \in Seq(Entries(high, d))
  PROVE  Finalized(tracked, d) \in Seq(Settled(high, d))
PROOF
  <1> DEFINE N == Len(tracked)
             D == 1 .. N
             Final(e) == IF e.status = "tracking" /\ ~InWindow(e.first, d, ExpertiseWindow)
                         THEN [e EXCEPT !.status = "short_lived"] ELSE e
             Finishing(h) == h = [U \in SUBSET D |->
                               IF U = {} THEN <<>>
                               ELSE Append(h[U \ {Max(U)}], Final(tracked[Max(U)]))]
             it == CHOOSE h : Finishing(h)
             V == Seq(Settled(high, d))
             F == [n \in D |-> [v \in V |-> Append(v, Final(tracked[n]))]]
  <1>1. N \in Nat /\ DOMAIN tracked = D /\ <<>> \in V /\ \A n \in D : tracked[n] \in Entries(high, d)
    OBVIOUS
  <1>2. Finalized(tracked, d) = it[D]
    BY <1>1 DEF Finalized, FoldLeft, MapThenFoldSet
  <1>3. \A n \in D : Final(tracked[n]) \in Settled(high, d)
    BY <1>1, FinalEntry
  <1> HIDE DEF Final
  <1>4. \A n \in D, v \in V : F[n][v] \in V
    BY <1>3
  <1>5. IsFiniteSet(D) /\ D \in SUBSET Int
    BY <1>1, FS_Interval
  <1>6. \E h : Finishing(h) /\ h[D] \in V
    <2> HIDE DEF F, V
    <2>1. PICK h : Folds(<<>>, F, 1 .. N, h) /\ \A U \in SUBSET (1 .. N) : h[U] \in V
      BY <1>1, <1>4, FoldRuns
    <2>2. ASSUME NEW U \in SUBSET D, U # {}
          PROVE  F[Max(U)][h[U \ {Max(U)}]] = Append(h[U \ {Max(U)}], Final(tracked[Max(U)]))
      <3>1. Max(U) \in D
        <4> HIDE DEF D
        <4>1. IsFiniteSet(U) /\ U \in SUBSET Int
          BY <2>2, <1>5, FS_Subset
        <4> QED BY <2>2, <4>1, MaxFacts
      <3>2. h[U \ {Max(U)}] \in V
        BY <2>1
      <3> QED BY <3>1, <3>2 DEF F
    <2> HIDE DEF D
    <2>3. h = [U \in SUBSET D |-> IF U = {} THEN <<>> ELSE F[Max(U)][h[U \ {Max(U)}]]]
      BY <2>1 DEF Folds, D
    <2>4. Finishing(h)
      BY <2>2, <2>3
    <2> QED BY <2>1, <2>4 DEF D
  <1>7. PICK h : Finishing(h) /\ h[D] \in V
    BY <1>6
  <1>8. Finishing(it)
    BY <1>7
  <1>9. it[D] = h[D]
    <2>1. it[{}] = h[{}]
      <3> HIDE DEF it
      <3> QED BY <1>7, <1>8
    <2>2. ASSUME NEW U \in SUBSET D, U # {}, it[U \ {Max(U)}] = h[U \ {Max(U)}]
          PROVE  it[U] = h[U]
      <3> HIDE DEF it, D
      <3> QED BY <1>7, <1>8, <2>2
    <2> HIDE DEF it, D
    <2> QED BY <2>1, <2>2, <1>5, AgreeChronologically
  <1> HIDE DEF it, V
  <1> QED BY <1>2, <1>7, <1>9 DEF V

\* A quotient that is rounded has the sign of its numerator.
LEMMA QuotientSign ==
  ASSUME NEW n \in Int, NEW m \in Nat \ {0}
  PROVE  /\ RoundedQuotient(n, m) \in Int
         /\ RoundedQuotient(n, m) > 0 => n > 0
         /\ RoundedQuotient(n, m) < 0 => n < 0
PROOF
  <1> DEFINE a == 2 * n + m
             b == 2 * m
             q == a \div b
  <1>1. a \in Int /\ b \in Nat \ {0}
    OBVIOUS
  <1>2. RoundedQuotient(n, m) = q
    BY DEF RoundedQuotient
  <1> HIDE DEF a, b
  <1>3. q \in Int /\ (a < b => q <= 0) /\ (a >= 0 => q >= 0)
    BY <1>1
  <1>4. (n <= 0 => a < b) /\ (n >= 0 => a >= 0)
    BY DEF a, b
  <1> HIDE DEF q
  <1> QED BY <1>2, <1>3, <1>4

\* Points are given for what is retained and taken for what is short-lived.
LEMMA PointsSign ==
  ASSUME NEW e \in TrackedItems, e.status # "tracking"
  PROVE  /\ Points(e) \in Int
         /\ Points(e) > 0 => e.status = "retained"
         /\ Points(e) < 0 => e.status = "short_lived"
PROOF
  <1>1. e.status \in {"retained", "short_lived"}
    BY DEF TrackedItems
  <1>2. CASE e.status = "short_lived"
    <2>1. Points(e) = - 12
      BY <1>2 DEF Points, MaxPoints, RelevanceKept
    <2> QED BY <1>2, <2>1
  <1>3. CASE e.status # "short_lived"
    <2>1. Points(e) \in {12, 12 \div 2, 0}
      BY <1>3 DEF Points, MaxPoints
    <2> QED BY <1>1, <1>3, <2>1
  <1> QED BY <1>2, <1>3

\* What the points of the tracked items add up to has the sign of an item's.
LEMMA AdjustmentSign ==
  ASSUME NEW S \in SUBSET TrackedItems, NEW tracked \in Seq(S)
  PROVE  /\ Adjustment(tracked) \in Int
         /\ Adjustment(tracked) > 0 => \E e \in S : e.status = "retained"
         /\ Adjustment(tracked) < 0 => \E e \in S : e.status = "short_lived"
PROOF
  <1> DEFINE N == Len(tracked)
             D == 1 .. N
             Adding(h) == h = [U \in SUBSET D |->
                            IF U = {} THEN 0
                            ELSE IF tracked[Max(U)].status = "tracking" THEN h[U \ {Max(U)}]
                                 ELSE h[U \ {Max(U)}] + Points(tracked[Max(U)])]
             it == CHOOSE h : Adding(h)
             points == it[D]
             V == {n \in Int : /\ n > 0 => \E e \in S : e.status = "retained"
                               /\ n < 0 => \E e \in S : e.status = "short_lived"}
             F == [n \in D |-> [v \in V |-> IF tracked[n].status = "tracking" THEN v
                                            ELSE v + Points(tracked[n])]]
             resolved == {k \in DOMAIN tracked : tracked[k].status # "tracking"}
  <1>1. /\ N \in Nat /\ DOMAIN tracked = D /\ 0 \in V
        /\ \A n \in D : tracked[n] \in S /\ tracked[n] \in TrackedItems
    OBVIOUS
  <1>2. Adjustment(tracked) =
          IF resolved = {} THEN 0 ELSE RoundedQuotient(points, Cardinality(resolved))
    BY <1>1 DEF Adjustment, FoldLeft, MapThenFoldSet
  <1>3. ASSUME NEW n \in D, NEW v \in V
        PROVE  F[n][v] \in V
    <2>1. CASE tracked[n].status = "tracking"
      BY <2>1
    <2>2. CASE tracked[n].status # "tracking"
      <3> DEFINE p == Points(tracked[n])
      <3>1. /\ p \in Int /\ tracked[n] \in S
            /\ p > 0 => tracked[n].status = "retained"
            /\ p < 0 => tracked[n].status = "short_lived"
        BY <1>1, <2>2, PointsSign
      <3>2. F[n][v] = v + p
        BY <2>2
      <3> HIDE DEF p, F
      <3>3. v \in Int /\ v + p \in Int
        BY <3>1
      <3>4. v + p > 0 => v > 0 \/ p > 0
        BY <3>1, <3>3
      <3>5. v + p < 0 => v < 0 \/ p < 0
        BY <3>1, <3>3
      <3>6. v + p \in V
        BY <3>1, <3>3, <3>4, <3>5
      <3> QED BY <3>2, <3>6
    <2> QED BY <2>1, <2>2
  <1>4. IsFiniteSet(D) /\ D \in SUBSET Int
    BY <1>1, FS_Interval
  <1>5. \E h : Adding(h) /\ h[D] \in V
    <2> HIDE DEF F, V
    <2>1. PICK h : Folds(0, F, 1 .. N, h) /\ \A U \in SUBSET (1 .. N) : h[U] \in V
      BY <1>1, <1>3, FoldRuns
    <2>2. ASSUME NEW U \in SUBSET D, U # {}
          PROVE  F[Max(U)][h[U \ {Max(U)}]] =
                   IF tracked[Max(U)].status = "tracking" THEN h[U \ {Max(U)}]
                   ELSE h[U \ {Max(U)}] + Points(tracked[Max(U)])
      <3>1. Max(U) \in D
        <4> HIDE DEF D
        <4>1. IsFiniteSet(U) /\ U \in SUBSET Int
          BY <2>2, <1>4, FS_Subset
        <4> QED BY <2>2, <4>1, MaxFacts
      <3>2. h[U \ {Max(U)}] \in V
        BY <2>1
      <3> QED BY <3>1, <3>2 DEF F
    <2> HIDE DEF D
    <2>3. h = [U \in SUBSET D |-> IF U = {} THEN 0 ELSE F[Max(U)][h[U \ {Max(U)}]]]
      BY <2>1 DEF Folds, D
    <2>4. Adding(h)
      BY <2>2, <2>3
    <2> QED BY <2>1, <2>4 DEF D
  <1>6. PICK h : Adding(h) /\ h[D] \in V
    BY <1>5
  <1>7. Adding(it)
    BY <1>6
  <1>8. it[D] = h[D]
    <2>1. it[{}] = h[{}]
      <3> HIDE DEF it
      <3> QED BY <1>6, <1>7
    <2>2. ASSUME NEW U \in SUBSET D, U # {}, it[U \ {Max(U)}] = h[U \ {Max(U)}]
          PROVE  it[U] = h[U]
      <3> HIDE DEF it, D
      <3> QED BY <1>6, <1>7, <2>2
    <2> HIDE DEF it, D
    <2> QED BY <2>1, <2>2, <1>4, AgreeChronologically
  <1>9. points \in V
    BY <1>6, <1>8
  <1> HIDE DEF points, it
  <1>10. points \in Int
    BY <1>9
  <1>11. resolved # {} => Cardinality(resolved) \in Nat \ {0}
    <2>1. IsFiniteSet(resolved)
      BY <1>1, <1>4, FS_Subset
    <2>2. Cardinality(resolved) \in Nat /\ (Cardinality(resolved) = 0 <=> resolved = {})
      BY <2>1, FS_CardinalityType, FS_EmptySet
    <2> QED BY <2>2
  <1> HIDE DEF resolved
  <1>12. CASE resolved = {}
    BY <1>2, <1>12
  <1>13. CASE resolved # {}
    <2>1. /\ Adjustment(tracked) \in Int
          /\ Adjustment(tracked) > 0 => points > 0
          /\ Adjustment(tracked) < 0 => points < 0
      BY <1>2, <1>10, <1>11, <1>13, QuotientSign
    <2> QED BY <1>9, <2>1
  <1> QED BY <1>12, <1>13

\* The tracked items of a domain.
OfDomain(tracked, c) ==
  {tracked[k] : k \in {j \in DOMAIN tracked : DomainOf[tracked[j].item] = c}}

LEMMA DomainSign ==
  ASSUME NEW tracked \in Seq(TrackedItems), NEW c
  PROVE  /\ DomainAdjustment(tracked, c) > 0 =>
              \E e \in OfDomain(tracked, c) : e.status = "retained"
         /\ DomainAdjustment(tracked, c) < 0 =>
              \E e \in OfDomain(tracked, c) : e.status = "short_lived"
PROOF
  <1> DEFINE S == {tracked[k] : k \in DOMAIN tracked}
             I == {i \in Items : DomainOf[i] = c}
             R == {e \in S : e.item \in I}
  <1>1. S \subseteq TrackedItems /\ tracked \in Seq(S)
    OBVIOUS
  <1>2. R \subseteq OfDomain(tracked, c)
    BY DEF OfDomain
  <1>3. DomainAdjustment(tracked, c) = Adjustment(Those(tracked, I))
    BY DEF DomainAdjustment
  <1> HIDE DEF S, I
  <1>4. Those(tracked, I) \in Seq(R)
    BY <1>1, ThoseAre
  <1>5. R \in SUBSET TrackedItems
    BY <1>1
  <1> HIDE DEF R
  <1>6. /\ Adjustment(Those(tracked, I)) > 0 => \E e \in R : e.status = "retained"
        /\ Adjustment(Those(tracked, I)) < 0 => \E e \in R : e.status = "short_lived"
    BY <1>4, <1>5, AdjustmentSign
  <1> QED BY <1>2, <1>3, <1>6

-----------------------------------------------------------------------------
(* The expertise of a source: high has the days of its items, ran the days *)
(* of the runs, d is the day.                                              *)

\* The entries that agree with the days; none waits longer than the window.
Backed(high, ran, d) ==
  {e \in Entries(high, d) :
     e.status = "tracking" => \A c \in ran : c - e.first < ExpertiseWindow}

\* What is tracked of a source is backed, and points are credited for items that came again.
Deserved(r, high, ran, d) ==
  /\ r.tracked \in Seq(Backed(high, ran, d))
  /\ r.credit > 0 => \E i \in Items : \E b, c \in high[i] : b < c

LEMMA BackedAre ==
  ASSUME NEW high, NEW ran, NEW d \in Nat
  PROVE  /\ Backed(high, ran, d) \subseteq Entries(high, d)
         /\ Entries(high, d) \subseteq TrackedItems
         /\ ran \subseteq 0 .. d => Settled(high, d) \subseteq Backed(high, ran, d)
         /\ \A fewer \in SUBSET ran : Backed(high, ran, d) \subseteq Backed(high, fewer, d)
         /\ Backed(high, ran, d) \subseteq Backed(high, ran, d + 1)
PROOF
  <1>1. \A e \in TrackedItems : e.first \in Nat /\ ExpertiseWindow \in Nat
    BY ExpertiseAssumption DEF TrackedItems
  <1>2. ASSUME ran \subseteq 0 .. d, NEW e \in Settled(high, d)
        PROVE  e \in Backed(high, ran, d)
    <2>1. e \in Entries(high, d) /\ (e.status = "tracking" => d - e.first < ExpertiseWindow)
      BY <1>2 DEF Settled
    <2>2. e.first \in Nat /\ ExpertiseWindow \in Nat
      BY <1>1, <2>1 DEF Entries
    <2>3. \A c \in ran : d - e.first < ExpertiseWindow => c - e.first < ExpertiseWindow
      BY <1>2, <2>2
    <2> QED BY <2>1, <2>3 DEF Backed
  <1>3. ASSUME NEW e \in Entries(high, d)
        PROVE  e \in Entries(high, d + 1)
    <2>1. e \in TrackedItems /\ Lasting(e, high[e.item], d) /\ e.first \in Nat
      BY <1>1, <1>3 DEF Entries
    <2>2. e.first .. d \subseteq e.first .. (d + 1)
      BY <2>1
    <2>3. d - e.first >= ExpertiseWindow => (d + 1) - e.first >= ExpertiseWindow
      BY <1>1, <2>1
    <2>4. Lasting(e, high[e.item], d + 1)
      BY <2>1, <2>2, <2>3 DEF Lasting
    <2> QED BY <2>1, <2>4 DEF Entries
  <1> QED BY <1>2, <1>3 DEF Backed, Entries

\* A run adds days and takes none.
LEMMA DaysStay ==
  ASSUME NEW high, NEW scored, NEW d, NEW i \in Items
  PROVE  high[i] \subseteq AfterRun(high, scored, d)[i]
BY DEF AfterRun, Scoring

\* What the mentions make of a record leaves what is tracked, or begins it.
LEMMA MentionedTracks ==
  ASSUME NEW r, DOMAIN r = Fields, r.status \in {"absent", "candidate", "approved", "retired"},
         NEW mention \in Kinds, NEW d, NEW m, m = Mentioned(r, mention, d)
  PROVE  m.tracked = r.tracked \/ m.tracked = <<>>
PROOF
  <1> DEFINE known == IF r.status = "absent" THEN Discovered(d) ELSE r
             approved == CASE known.status = "retired" -> Renewed(known, d)
                           [] known.status = "candidate" -> InProbation(known, d)
                           [] known.status = "approved" -> known
  <1>1. /\ DOMAIN known = Fields /\ (known.tracked = r.tracked \/ known.tracked = <<>>)
        /\ known.status \in {"candidate", "approved", "retired"}
    BY DEF Discovered, Unknown, Fields
  <1>2. ASSUME NEW x, DOMAIN x = Fields
        PROVE  /\ DOMAIN Renewed(x, d) = Fields /\ Renewed(x, d).tracked = x.tracked
               /\ DOMAIN InProbation(x, d) = Fields /\ InProbation(x, d).tracked = x.tracked
               /\ MarkedCandidate(x).tracked = x.tracked /\ Observed(x).tracked = x.tracked
    BY <1>2 DEF Renewed, InProbation, Closed, MarkedCandidate, Observed, NoBackoff, NoTracking, Fields
  <1>3. m = CASE mention = "eligible" -> Observed(approved)
              [] mention = "ineligible" -> MarkedCandidate(known)
              [] mention = "observed" /\ r.status # "absent" -> Observed(r)
              [] OTHER -> r
    BY DEF Mentioned
  <1> HIDE DEF known
  <1>4. DOMAIN approved = Fields /\ approved.tracked = known.tracked
    BY <1>1, <1>2
  <1> HIDE DEF approved
  <1>5. CASE mention = "eligible"
    <2>1. m = Observed(approved)
      BY <1>3, <1>5
    <2> QED BY <1>1, <1>2, <1>4, <2>1
  <1>6. CASE mention = "ineligible"
    <2>1. m = MarkedCandidate(known)
      BY <1>3, <1>6
    <2> QED BY <1>1, <1>2, <2>1
  <1>7. CASE mention \in {"none", "observed"}
    <2>1. m \in {r, Observed(r)}
      BY <1>3, <1>7
    <2> QED BY <1>2, <2>1
  <1> QED BY <1>5, <1>6, <1>7 DEF Kinds

\* A failed or successful fetch and a missed cycle leave what is tracked.
LEMMA TurnTracks ==
  ASSUME NEW r, DOMAIN r = Fields, NEW d, NEW p, FetchedTo(p, r) \/ EvaluatedTo(p, r, d)
  PROVE  DOMAIN p = Fields /\ p.tracked = r.tracked /\ p.credit = r.credit
PROOF
  <1> DEFINE failed == [r EXCEPT !.failures = OneMore(@)]
             recorded == [r EXCEPT !.lowSignal = Cycles(r, d)]
  <1>1. /\ DOMAIN failed = Fields /\ failed.tracked = r.tracked /\ failed.credit = r.credit
        /\ DOMAIN recorded = Fields /\ recorded.tracked = r.tracked /\ recorded.credit = r.credit
    BY DEF Fields
  <1>2. ASSUME NEW x, DOMAIN x = Fields
        PROVE  /\ DOMAIN Retired(x) = Fields /\ DOMAIN NoBackoff(x) = Fields
               /\ Retired(x).tracked = x.tracked /\ Retired(x).credit = x.credit
               /\ NoBackoff(x).tracked = x.tracked /\ NoBackoff(x).credit = x.credit
    BY <1>2 DEF Retired, NoBackoff, Fields
  <1>3. p \in {r, NoBackoff(r), failed, Retired(failed), Retired(r), recorded, Retired(recorded)}
    BY DEF FetchedTo, EvaluatedTo
  <1> HIDE DEF failed, recorded
  <1> QED BY <1>1, <1>2, <1>3

\* An operator's call leaves what is tracked.
LEMMA OperatorTracks ==
  ASSUME NEW r, DOMAIN r = Fields, NEW d, NEW p,
         \/ p = Retired(r)
         \/ /\ DOMAIN r.retirement = Restorable
            /\ \E target \in {"asBefore", "probation", "active"} : p = Restored(r, target, d)
  PROVE  p.tracked = r.tracked /\ p.credit = r.credit
PROOF
  <1>1. CASE p = Retired(r)
    BY <1>1 DEF Retired, Fields
  <1>2. ASSUME DOMAIN r.retirement = Restorable, NEW target \in {"asBefore", "probation", "active"},
               p = Restored(r, target, d)
        PROVE  p.tracked = r.tracked /\ p.credit = r.credit
    <2>1. DOMAIN Closed(r) = Fields /\ Closed(r).tracked = r.tracked /\ Closed(r).credit = r.credit
      BY DEF Closed, Fields
    <2>2. CASE target = "asBefore"
      <3>1. p = [f \in DOMAIN r |-> IF f \in DOMAIN r.retirement THEN r.retirement[f]
                                    ELSE Closed(r)[f]]
        BY <1>2, <2>2 DEF Restored
      <3>2. {"tracked", "credit"} \subseteq Fields \ Restorable
        BY DEF Fields, Restorable
      <3> QED BY <1>2, <2>1, <3>1, <3>2
    <2>3. CASE target = "probation"
      <3>1. p = Renewed(r, d)
        BY <1>2, <2>3 DEF Restored
      <3> QED BY <3>1 DEF Renewed, InProbation, Closed, NoBackoff, NoTracking, Fields
    <2>4. CASE target = "active"
      <3>1. p = Activated(Closed(r))
        BY <1>2, <2>4 DEF Restored
      <3> QED BY <3>1 DEF Activated, Closed, NoBackoff, NoTracking, Fields
    <2> QED BY <2>2, <2>3, <2>4
  <1> QED BY <1>1, <1>2

\* What a discovery makes of a record is deserved by the days after its run.
LEMMA DiscoveredDeserved ==
  ASSUME NEW d \in Nat, NEW r, DOMAIN r = Fields,
         r.status \in {"absent", "candidate", "approved", "retired"},
         NEW high \in [Items -> SUBSET (0 .. d)], NEW ran, Deserved(r, high, ran, d),
         NEW mention \in Kinds, NEW m, m = Mentioned(r, mention, d),
         NEW scored \in [Items -> Scores \cup {"none"}], NEW order \in ItemOrders,
         NEW p, DiscoveredTo(p, r, mention, scored, order, d),
         NEW later, later = IF m.status = "approved" THEN AfterRun(high, scored, d) ELSE high,
         NEW after \in SUBSET (0 .. d)
  PROVE  Deserved(p, later, after, d)
PROOF
  <1> DEFINE observed == IF m.status # "approved" THEN m.tracked
                         ELSE ItemsObserved(m.tracked, scored, order, d)
             S == Backed(later, after, d)
  <1>0. PICK o, e : /\ o = Observations(m, scored, order, d) /\ DOMAIN o = Fields
                    /\ e = o \/ EvaluatedTo(e, o, d)
                    /\ p = Persisted(e)
    BY DEF DiscoveredTo
  <1>1. m.tracked \in Seq(Entries(high, d))
    <2>1. r.tracked \in Seq(Entries(high, d))
      BY BackedAre DEF Deserved
    <2>2. m.tracked = r.tracked \/ m.tracked = <<>>
      BY MentionedTracks
    <2> DEFINE E == Entries(high, d)
    <2>3. <<>> \in Seq(E)
      OBVIOUS
    <2> HIDE DEF E, S, observed
    <2>4. m.tracked \in Seq(E)
      BY <2>1, <2>2, <2>3 DEF E
    <2> QED BY <2>4 DEF E
  <1>2. observed \in Seq(Entries(later, d))
    <2>1. CASE m.status = "approved"
      <3>1. ItemsObserved(m.tracked, scored, order, d) \in Seq(Entries(AfterRun(high, scored, d), d))
        BY <1>1, RunLasting
      <3> QED BY <2>1, <3>1
    <2>2. CASE m.status # "approved"
      BY <1>1, <2>2
    <2> QED BY <2>1, <2>2
  <1>3. o.tracked = Finalized(observed, d)
    BY <1>0 DEF Observations, Fields
  <1> HIDE DEF observed
  <1>4. o.tracked \in Seq(S)
    <2>1. Finalized(observed, d) \in Seq(Settled(later, d))
      BY <1>2, FinalizedAre
    <2>2. Settled(later, d) \subseteq S
      BY BackedAre
    <2> HIDE DEF S
    <2> QED BY <1>3, <2>1, <2>2
  <1>5. DOMAIN e = Fields /\ e.tracked = o.tracked
    BY <1>0, TurnTracks
  <1>6. p.tracked = o.tracked /\ p.credit = Credit(e)
    BY <1>0, <1>5 DEF Persisted, Fields
  <1>7. ASSUME p.credit > 0
        PROVE  \E i \in Items : \E b, c \in later[i] : b < c
    <2>1. Adjustment(e.tracked) > 0
      BY <1>6, <1>7 DEF Credit
    <2>2. S \in SUBSET TrackedItems
      BY BackedAre
    <2>3. \E x \in S : x.status = "retained"
      <3> HIDE DEF S
      <3> QED BY <1>4, <1>5, <2>1, <2>2, AdjustmentSign
    <2>4. PICK x \in S : x.status = "retained"
      BY <2>3
    <2>5. x \in TrackedItems /\ Lasting(x, later[x.item], d)
      BY <2>4 DEF Backed, Entries
    <2> QED BY <2>4, <2>5 DEF Lasting, TrackedItems
  <1> QED BY <1>4, <1>6, <1>7 DEF Deserved

-----------------------------------------------------------------------------
(* The registry.                                                           *)

Ran(s) == seenOn[s] \cup missedOn[s]

ExpertiseDeserved == \A s \in Sources : Deserved(registry[s], highOn[s], Ran(s), day)

\* More days, and fewer runs, do no harm.
LEMMA DeservedStill ==
  ASSUME NEW r, NEW high, NEW ran, NEW d \in Nat, Deserved(r, high, ran, d),
         NEW p, p.tracked = r.tracked, p.credit = r.credit, NEW fewer \in SUBSET ran
  PROVE  Deserved(p, high, fewer, d) /\ Deserved(p, high, ran, d + 1)
PROOF
  <1>1. /\ Backed(high, ran, d) \subseteq Backed(high, fewer, d)
        /\ Backed(high, ran, d) \subseteq Backed(high, ran, d + 1)
    BY BackedAre
  <1> QED BY <1>1 DEF Deserved

\* A discovery, source by source.
LEMMA AppliedExpertise ==
  ASSUME RegistryInv, ExpertiseDeserved, NEW mention \in Mentions,
         NEW scored \in [Sources -> [Items -> Scores \cup {"none"}]],
         NEW itemOrder \in ItemOrders, NEW order \in SourceOrders,
         Applied(registry, mention, scored, itemOrder, order), HistoryType', day' = day,
         NEW s \in Sources
  PROVE  Deserved(registry'[s], highOn'[s], Ran(s)', day)
PROOF
  <1> DEFINE r == registry[s]
             m == Mentioned(r, mention[s], day)
             mentioned == [t \in Sources |-> Mentioned(registry[t], mention[t], day)]
             approved == {t \in Seen(mentioned, mention, scored) : mentioned[t].status = "approved"}
             later == IF m.status = "approved" THEN AfterRun(highOn[s], scored[s], day) ELSE highOn[s]
  <1>1. /\ s \in Seen(mentioned, mention, scored) <=> Sees(mention[s], m, Rating(scored[s]))
        /\ mention[s] \in Kinds /\ mentioned[s] = m
    BY AppliedHistory
  <1>2. highOn'[s] = [i \in Items |-> IF s \in approved /\ HighSignal(scored[s][i])
                                     THEN highOn[s][i] \cup {day} ELSE highOn[s][i]]
    BY DEF Applied
  <1>3. s \in approved <=> m.status = "approved" /\ Sees(mention[s], m, Rating(scored[s]))
    BY <1>1
  <1>4. /\ DOMAIN r = Fields /\ r.status \in {"absent", "candidate", "approved", "retired"}
        /\ day \in Nat /\ Deserved(r, highOn[s], Ran(s), day)
        /\ highOn[s] \in [Items -> SUBSET (0 .. day)]
    <2>1. Sound(r, Story(s), day) /\ day \in Nat
      BY StoryBounded DEF RegistryInv, RecordsSound
    <2>2. highOn[s] \in [Items -> SUBSET (0 .. day)]
      BY DEF RegistryInv, HistoryType
    <2> QED BY <2>1, <2>2, SoundStatus DEF ExpertiseDeserved
  <1>5. DiscoveredTo(registry'[s], r, mention[s], scored[s], itemOrder, day)
    BY AppliedRecords
  <1>6. Ran(s)' \in SUBSET (0 .. day)
    BY DEF Ran, HistoryType
  <1> HIDE DEF r, m, mentioned, approved
  <1>7. highOn'[s] = later
    <2>1. \A i \in Items : HighSignal(scored[s][i]) => Rating(scored[s]) = "high"
      BY DEF HighSignal, Rating
    <2>2. ASSUME NEW i \in Items
          PROVE  highOn'[s][i] = later[i]
      <3>1. HighSignal(scored[s][i]) /\ m.status = "approved" => s \in approved
        BY <1>3, <2>1 DEF Sees
      <3>2. CASE m.status = "approved"
        <4>1. later[i] = IF HighSignal(scored[s][i]) THEN highOn[s][i] \cup {day} ELSE highOn[s][i]
          BY <3>2 DEF AfterRun, Scoring
        <4> QED BY <1>2, <3>1, <3>2, <4>1
      <3>3. CASE m.status # "approved"
        BY <1>2, <1>3, <3>3
      <3> QED BY <3>2, <3>3
    <2>3. DOMAIN later = Items /\ later = [i \in Items |-> later[i]]
      BY <1>4 DEF AfterRun
    <2> HIDE DEF later
    <2> QED BY <1>2, <2>2, <2>3
  <1>8. Deserved(registry'[s], later, Ran(s)', day)
    <2> DEFINE high == highOn[s]
               score == scored[s]
               p == registry'[s]
               after == Ran(s)'
               ran == Ran(s)
               kind == mention[s]
    <2>1. later = IF m.status = "approved" THEN AfterRun(high, score, day) ELSE high
      OBVIOUS
    <2>2. score \in [Items -> Scores \cup {"none"}] /\ m = Mentioned(r, kind, day) /\ kind \in Kinds
      BY <1>1 DEF m
    <2>3. /\ high \in [Items -> SUBSET (0 .. day)] /\ Deserved(r, high, ran, day)
          /\ after \in SUBSET (0 .. day) /\ DiscoveredTo(p, r, kind, score, itemOrder, day)
      BY <1>4, <1>5, <1>6
    <2> HIDE DEF later, high, score, p, after, ran, kind
    <2>4. Deserved(p, later, after, day)
      BY <1>4, <2>1, <2>2, <2>3, DiscoveredDeserved
    <2> QED BY <2>4 DEF p, after
  <1> QED BY <1>7, <1>8

LEMMA ExpertiseInit == Init => ExpertiseDeserved
PROOF
  <1> SUFFICES ASSUME Init, NEW s \in Sources
               PROVE  Deserved(registry[s], highOn[s], Ran(s), day)
    BY DEF ExpertiseDeserved
  <1>1. registry[s].tracked = <<>> /\ registry[s].credit = 0
    BY DEF Init, Unknown
  <1> DEFINE B == Backed(highOn[s], Ran(s), day)
  <1>2. <<>> \in Seq(B)
    OBVIOUS
  <1> QED BY <1>1, <1>2 DEF Deserved

\* The outcomes of the steps are deserved.
LEMMA ExpertiseStep ==
  ASSUME RegistryInv, ExpertiseDeserved, HistoryType', [Next]_vars
  PROVE  ExpertiseDeserved'
PROOF
  <1>1. /\ HistoryType /\ day \in Nat
        /\ \A s \in Sources : Deserved(registry[s], highOn[s], Ran(s), day)
    BY RegistryAssumption DEF RegistryInv, HistoryType, Days, ExpertiseDeserved
  <1>2. ASSUME NEW s \in Sources
        PROVE  /\ DOMAIN registry[s] = Fields
               /\ registry[s].status = "retired" => DOMAIN registry[s].retirement = Restorable
    BY SoundStatus DEF RegistryInv, RecordsSound
  <1>3. ASSUME NEW s \in Sources, day' = day, highOn' = highOn,
               Ran(s)' \subseteq Ran(s), registry'[s].tracked = registry[s].tracked,
               registry'[s].credit = registry[s].credit
        PROVE  Deserved(registry'[s], highOn'[s], Ran(s)', day')
    <2> DEFINE r == registry[s]
               p == registry'[s]
               high == highOn[s]
               ran == Ran(s)
               after == Ran(s)'
    <2>1. /\ Deserved(r, high, ran, day) /\ day \in Nat /\ after \in SUBSET ran
          /\ p.tracked = r.tracked /\ p.credit = r.credit
      BY <1>1, <1>3
    <2> HIDE DEF r, p, high, ran, after
    <2>2. Deserved(p, high, after, day)
      BY <2>1, DeservedStill
    <2> QED BY <1>3, <2>2 DEF p, high, after
  <1>4. CASE UNCHANGED <<day, registry, history>>
    <2>1. \A s \in Sources : Ran(s)' = Ran(s)
      BY <1>4 DEF Ran, history
    <2> QED BY <1>3, <1>4, <2>1 DEF history, ExpertiseDeserved
  <1>5. CASE NextDay
    <2>1. /\ day' = day + 1 /\ registry' = registry /\ highOn' = highOn
          /\ \A s \in Sources : Ran(s)' = Ran(s)
      BY <1>5 DEF NextDay, history, Ran
    <2>2. ASSUME NEW s \in Sources
          PROVE  Deserved(registry'[s], highOn'[s], Ran(s)', day')
      <3> DEFINE r == registry[s]
                 high == highOn[s]
                 ran == Ran(s)
      <3>1. Deserved(r, high, ran, day) /\ day \in Nat
        BY <1>1
      <3> HIDE DEF r, high, ran
      <3>2. ran \in SUBSET ran /\ r.tracked = r.tracked /\ r.credit = r.credit
        OBVIOUS
      <3>3. Deserved(r, high, ran, day + 1)
        BY <3>1, <3>2, DeservedStill
      <3> QED BY <2>1, <3>3 DEF r, high, ran
    <2> QED BY <2>2 DEF ExpertiseDeserved
  <1>6. CASE OperatorSave
    <2>1. day' = day /\ missedOn' = missedOn /\ highOn' = highOn
      BY <1>6 DEF OperatorSave
    <2>2. ASSUME NEW s \in Sources
          PROVE  Deserved(registry'[s], highOn'[s], Ran(s)', day')
      <3>1. /\ seenOn'[s] \in {seenOn[s], {}}
            /\ \/ registry'[s] = registry[s]
               \/ registry'[s] = Retired(registry[s])
               \/ /\ registry[s].status = "retired"
                  /\ \E target \in {"asBefore", "probation", "active"} :
                       registry'[s] = Restored(registry[s], target, day)
        BY <1>6, OperatorOutcome
      <3>2. Ran(s)' \subseteq Ran(s)
        BY <2>1, <3>1 DEF Ran
      <3>3. registry'[s].tracked = registry[s].tracked /\ registry'[s].credit = registry[s].credit
        BY <1>2, <3>1, OperatorTracks
      <3> QED BY <1>3, <2>1, <3>2, <3>3
    <2> QED BY <2>2 DEF ExpertiseDeserved
  <1>7. ASSUME NEW w \in Writers, AdapterSave(w)
        PROVE  ExpertiseDeserved'
    <2>1. day' = day /\ highOn' = highOn /\ \A s \in Sources : Ran(s)' = Ran(s)
      BY <1>7 DEF AdapterSave, history, Ran
    <2>2. ASSUME NEW s \in Sources
          PROVE  Deserved(registry'[s], highOn'[s], Ran(s)', day')
      <3>1. registry'[s] = registry[s] \/ FetchedTo(registry'[s], registry[s])
        BY <1>7, AdapterOutcome
      <3>2. registry'[s].tracked = registry[s].tracked /\ registry'[s].credit = registry[s].credit
        BY <1>2, <3>1, TurnTracks
      <3> QED BY <1>3, <2>1, <3>2
    <2> QED BY <2>2 DEF ExpertiseDeserved
  <1>8. ASSUME NEW w \in Writers, DiscoverSave(w)
        PROVE  ExpertiseDeserved'
    <2>1. day' = day
      BY <1>8 DEF DiscoverSave
    <2>2. PICK mention \in Mentions, scored \in ScoredItems(w),
               itemOrder \in ItemOrders, order \in SourceOrders :
            Applied(registry, mention, scored, itemOrder, order)
      BY <1>8, DiscoveryOfRegistry
    <2>3. scored \in [Sources -> [Items -> Scores \cup {"none"}]]
      BY DEF ScoredItems
    <2>4. \A s \in Sources : Deserved(registry'[s], highOn'[s], Ran(s)', day)
      BY <2>1, <2>2, <2>3, AppliedExpertise
    <2> QED BY <2>1, <2>4 DEF ExpertiseDeserved
  <1>9. \/ NextDay \/ OperatorSave \/ UNCHANGED <<day, registry, history>>
        \/ \E w \in Writers : AdapterSave(w) \/ DiscoverSave(w)
    <2>1. ASSUME NEW w \in Writers, BeginRun(w) \/ Deadline(w) \/ DiscoverLoad(w) \/ Abort(w)
          PROVE  UNCHANGED <<day, registry, history>>
      BY <2>1 DEF BeginRun, Deadline, DiscoverLoad, Abort
    <2>2. OperatorLoad => UNCHANGED <<day, registry, history>>
      BY DEF OperatorLoad
    <2>3. UNCHANGED vars => UNCHANGED <<day, registry, history>>
      BY DEF vars, history
    <2> QED BY <2>1, <2>2, <2>3 DEF Next
  <1> QED BY <1>4, <1>5, <1>6, <1>7, <1>8, <1>9

\* The days of the last run are among those of the runs, or it is the first day.
LEMMA LastRun ==
  ASSUME HistoryType, NEW s \in Sources
  PROVE  Max({0} \cup seenOn[s] \cup missedOn[s]) \in {0} \cup Ran(s)
PROOF
  <1> DEFINE R == {0} \cup seenOn[s] \cup missedOn[s]
  <1>1. R \subseteq 0 .. day /\ day \in Nat
    BY RegistryAssumption DEF HistoryType, Days
  <1>2. IsFiniteSet(0 .. day) /\ R # {}
    BY <1>1, FS_Interval
  <1> DEFINE D == 0 .. day
  <1> HIDE DEF R
  <1>3. IsFiniteSet(R) /\ R \in SUBSET Int
    <2>1. IsFiniteSet(D) /\ R \in SUBSET D /\ D \in SUBSET Int
      BY <1>1, <1>2
    <2> HIDE DEF D
    <2> QED BY <2>1, FS_Subset
  <1>4. Max(R) \in R
    BY <1>2, <1>3, MaxFacts
  <1> QED BY <1>4 DEF R, Ran

\* Two days are at least two.
LEMMA TwoDays ==
  ASSUME NEW S, IsFiniteSet(S), NEW b \in S, NEW c \in S, b # c
  PROVE  Cardinality(S) >= 2
PROOF
  <1> DEFINE B == {b}
  <1>1. IsFiniteSet(B) /\ Cardinality(B) = 1 /\ c \notin B /\ B \cup {c} \subseteq S
    BY FS_Singleton
  <1> HIDE DEF B
  <1>2. Cardinality(B \cup {c}) = 1 + 1
    BY <1>1, FS_AddElement
  <1>3. Cardinality(B \cup {c}) <= Cardinality(S) /\ Cardinality(S) \in Nat
    BY <1>1, FS_Subset, FS_CardinalityType
  <1> QED BY <1>2, <1>3

\* What holds as long as the writers take turns, the expertise included.
ExpertiseInv == TakeTurns => ExpertiseDeserved

LEMMA DeservedIsEarned ==
  ASSUME TurnsInv, ExpertiseInv
  PROVE  ExpertiseEarned
PROOF
  <1> SUFFICES ASSUME TakeTurns, NEW s \in Sources
               PROVE  LET tracked == registry[s].tracked
                          Again(e) == \E d \in highOn[s][e.item] : e.first < d
                          lastRun == Max({0} \cup seenOn[s] \cup missedOn[s])
                      IN /\ \A k \in DOMAIN tracked : LET e == tracked[k] IN
                              /\ e.first \in highOn[s][e.item]
                              /\ e.status = "retained" <=> Again(e)
                              /\ e.status = "short_lived" => day - e.first >= ExpertiseWindow
                              /\ e.status = "tracking" => lastRun - e.first < ExpertiseWindow
                         /\ \A c \in Domains :
                              LET ofDomain == {tracked[k] : k \in {j \in DOMAIN tracked :
                                                 DomainOf[tracked[j].item] = c}} IN
                              /\ DomainAdjustment(tracked, c) > 0 => \E e \in ofDomain : Again(e)
                              /\ DomainAdjustment(tracked, c) < 0 => \E e \in ofDomain : ~Again(e)
                         /\ registry[s].credit > 0 => \E i \in Items : Cardinality(highOn[s][i]) >= 2
    BY DEF ExpertiseEarned
  <1> DEFINE tracked == registry[s].tracked
             Again(e) == \E d \in highOn[s][e.item] : e.first < d
             lastRun == Max({0} \cup seenOn[s] \cup missedOn[s])
             S == Backed(highOn[s], Ran(s), day)
  <1>1. /\ HistoryType /\ Deserved(registry[s], highOn[s], Ran(s), day)
        /\ highOn[s] \in [Items -> SUBSET (0 .. day)] /\ day \in Nat
    BY RegistryAssumption DEF TurnsInv, ExpertiseInv, RegistryInv, ExpertiseDeserved, HistoryType, Days
  <1>2. tracked \in Seq(S)
    BY <1>1 DEF Deserved
  <1>3. ASSUME NEW e \in S
        PROVE  /\ e \in TrackedItems
               /\ e.first \in highOn[s][e.item]
               /\ e.status = "retained" <=> Again(e)
               /\ e.status = "short_lived" => day - e.first >= ExpertiseWindow
               /\ e.status = "tracking" => lastRun - e.first < ExpertiseWindow
    <2>1. /\ e \in TrackedItems /\ Lasting(e, highOn[s][e.item], day)
          /\ e.status = "tracking" => \A c \in Ran(s) : c - e.first < ExpertiseWindow
      BY DEF Backed, Entries
    <2>2. lastRun \in {0} \cup Ran(s)
      BY <1>1, LastRun
    <2> HIDE DEF lastRun
    <2>3. 0 - e.first < ExpertiseWindow
      BY <2>1, ExpertiseAssumption DEF TrackedItems
    <2>4. e.status = "tracking" => lastRun - e.first < ExpertiseWindow
      BY <2>1, <2>2, <2>3
    <2> QED BY <2>1, <2>4 DEF Lasting
  <1> HIDE DEF S, lastRun
  <1>4. ASSUME NEW c \in Domains
        PROVE  /\ DomainAdjustment(tracked, c) > 0 => \E e \in OfDomain(tracked, c) : Again(e)
               /\ DomainAdjustment(tracked, c) < 0 => \E e \in OfDomain(tracked, c) : ~Again(e)
    <2>1. tracked \in Seq(TrackedItems) /\ \A e \in OfDomain(tracked, c) : e \in S
      <3> HIDE DEF tracked
      <3>1. \A k \in DOMAIN tracked : tracked[k] \in S
        BY <1>2
      <3>2. S \subseteq TrackedItems
        BY <1>3
      <3> QED BY <1>2, <3>1, <3>2 DEF OfDomain
    <2>2. \A e \in OfDomain(tracked, c) :
            (e.status = "retained" => Again(e)) /\ (e.status = "short_lived" => ~Again(e))
      BY <1>3, <2>1
    <2> HIDE DEF Again, tracked
    <2> QED BY <2>1, <2>2, DomainSign
  <1>5. registry[s].credit > 0 => \E i \in Items : Cardinality(highOn[s][i]) >= 2
    <2>1. SUFFICES ASSUME NEW i \in Items, NEW b \in highOn[s][i], NEW c \in highOn[s][i], b < c
                   PROVE  Cardinality(highOn[s][i]) >= 2
      BY <1>1 DEF Deserved
    <2> DEFINE D == 0 .. day
               days == highOn[s][i]
    <2>2. days \in SUBSET D /\ IsFiniteSet(D) /\ b # c
      <3>1. days \in SUBSET D
        BY <1>1
      <3>2. IsFiniteSet(D)
        BY <1>1, FS_Interval
      <3>3. b \in Int /\ c \in Int
        BY <1>1, <3>1
      <3> QED BY <2>1, <3>1, <3>2, <3>3
    <2>3. b \in days /\ c \in days
      OBVIOUS
    <2> HIDE DEF D, days
    <2>4. IsFiniteSet(days)
      BY <2>2, FS_Subset
    <2>5. Cardinality(days) >= 2
      BY <2>2, <2>3, <2>4, TwoDays
    <2> QED BY <2>5 DEF days
  <1>6. \A k \in DOMAIN tracked : tracked[k] \in S
    <2> HIDE DEF tracked
    <2> QED BY <1>2
  <1> QED BY <1>3, <1>4, <1>5, <1>6 DEF OfDomain, lastRun

\* The tracked items of a source, and the points it and its domains get for them, agree
\* with the days on which its items scored high.
THEOREM ExpertiseIsEarned == Spec => []ExpertiseEarned
PROOF
  <1>1. Init => ExpertiseInv
    BY ExpertiseInit DEF ExpertiseInv
  <1>2. TurnsInv /\ TurnsInv' /\ ExpertiseInv /\ [Next]_vars => ExpertiseInv'
    <2> SUFFICES ASSUME TakeTurns, RegistryInv, RegistryInv', ExpertiseDeserved, [Next]_vars
                 PROVE  ExpertiseDeserved'
      BY DEF TurnsInv, ExpertiseInv
    <2> QED BY ExpertiseStep DEF RegistryInv
  <1>3. TurnsInv /\ ExpertiseInv => ExpertiseEarned
    BY DeservedIsEarned
  <1> QED BY <1>1, <1>2, <1>3, RegistryCorrect, PTL DEF Spec
=============================================================================
