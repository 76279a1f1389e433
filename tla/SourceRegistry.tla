---------------------------- MODULE SourceRegistry ----------------------------
(***************************************************************************)
(* The source registry and its writers.  A run of the publisher or of the  *)
(* discovery worker writes it twice: the web-discovery adapter loads it,   *)
(* fetches the approved sources and saves it with the outcomes; then       *)
(* discoverFromItems loads it, applies what the items say and saves it.    *)
(* An operator's retireSource and restoreSource do the same.  Every save   *)
(* replaces the whole snapshot; nothing checks what was saved in between.  *)
(*                                                                         *)
(* A save is one step, as the upsert of newsletter_runtime_state is.  A    *)
(* run, and what it leaves pending, ends within its cycle.                 *)
(***************************************************************************)
EXTENDS SourceLifecycle

CONSTANTS
  Writers,  \* processes that run the publication flow or the discovery worker
  Faults,   \* a subset of FaultKinds
  TakeTurns,\* no snapshot is loaded while another one may still be saved
  MaxDay    \* bound on the cycles

FaultKinds == {"crash", "late"}

ASSUME RegistryAssumption ==
  /\ Faults \subseteq FaultKinds
  /\ TakeTurns \in BOOLEAN
  /\ MaxDay \in Nat

Days == 0 .. MaxDay

VARIABLES
  day,         \* the current cycle
  registry,    \* source-registry.json, or the row of newsletter_runtime_state
  run,         \* per writer: where its run is
  fetching,    \* per writer: the snapshot its adapter loaded
  fetched,     \* per writer: the sources whose pages its adapter fetched
  loaded,      \* per writer: the snapshot discoverFromItems loaded
  operator,    \* the snapshot the operator's call loaded
  seenOn,      \* history: per source, the days on which a run saw it since its last restore
  missedOn,    \* history: per source, the days on which a run did not see it
  highOn,      \* history: per source and item, the days with a qualifying score
  lowOn        \* history: per source, the days with lower scores only

runs == <<run, fetching, fetched, loaded>>
history == <<seenOn, missedOn, highOn, lowOn>>
vars == <<day, registry, runs, operator, history>>

SourceOrders == SetToSeqs(Sources)

ItemOrders == SetToSeqs(Items)

Goto(w, label) == run' = [run EXCEPT ![w] = label]

InUse == {w \in Writers : fetching[w] # None \/ loaded[w] # None}

MayLoad == TakeTurns => InUse = {} /\ operator = None

Init ==
  /\ day = 0
  /\ registry = [s \in Sources |-> Unknown]
  /\ run = [w \in Writers |-> "idle"]
  /\ fetching = [w \in Writers |-> None]
  /\ fetched = [w \in Writers |-> {}]
  /\ loaded = [w \in Writers |-> None]
  /\ operator = None
  /\ seenOn = [s \in Sources |-> {}]
  /\ missedOn = [s \in Sources |-> {}]
  /\ highOn = [s \in Sources |-> [i \in Items |-> {}]]
  /\ lowOn = [s \in Sources |-> {}]

NextDay ==
  /\ day < MaxDay
  /\ InUse = {} /\ operator = None /\ \A w \in Writers : run[w] = "idle"
  /\ day' = day + 1
  /\ UNCHANGED <<registry, runs, operator, history>>

\* A run starts and its adapter loads the registry; without a source to fetch
\* the adapter is done.
BeginRun(w) ==
  /\ run[w] = "idle" /\ fetching[w] = None
  /\ MayLoad
  /\ \/ {} \in Fetchable(registry) /\ Goto(w, "collected") /\ UNCHANGED fetching
     \/ /\ Fetchable(registry) # {{}}
        /\ Goto(w, "fetching") /\ fetching' = [fetching EXCEPT ![w] = registry]
  /\ UNCHANGED <<day, registry, fetched, loaded, operator, history>>

\* Mutant: the guard looks at the snapshot before the failures were recorded.
FetchesRecordedAtOnce(S, targets, ok, order) ==
  [s \in Sources |-> IF s \in targets THEN FetchRecorded(S, s, s \in ok)[s] ELSE S[s]]

\* The outcomes are recorded one after the other.
FetchesRecorded(S, targets, ok, order) ==
  FoldLeft(LAMBDA T, s : IF s \in targets THEN FetchRecorded(T, s, s \in ok) ELSE T,
           S, order)

\* Every page succeeded or failed, and the adapter saves its snapshot: in time,
\* or after the run went on without it.
AdapterSave(w) ==
  /\ fetching[w] # None
  /\ \E targets \in Fetchable(fetching[w]) \ {{}} :
     \E ok \in SUBSET targets, order \in SourceOrders :
       /\ registry' = FetchesRecorded(fetching[w], targets, ok, order)
       /\ IF run[w] = "fetching"
          THEN Goto(w, "collected") /\ fetched' = [fetched EXCEPT ![w] = ok]
          ELSE UNCHANGED <<run, fetched>>
  /\ fetching' = [fetching EXCEPT ![w] = None]
  /\ UNCHANGED <<day, loaded, operator, history>>

\* The deadline of fetchFromAdapter; the adapter's promise stays pending.
Deadline(w) ==
  /\ "late" \in Faults /\ run[w] = "fetching"
  /\ Goto(w, "collected")
  /\ UNCHANGED <<day, registry, fetching, fetched, loaded, operator, history>>

DiscoverLoad(w) ==
  /\ run[w] = "collected" /\ MayLoad
  /\ loaded' = [loaded EXCEPT ![w] = registry]
  /\ Goto(w, "discovering")
  /\ UNCHANGED <<day, registry, fetching, fetched, operator, history>>

\* The fetched sources may have items that were scored.
ScoredItems(w) ==
  {scored \in [Sources -> [Items -> Scores \cup {"none"}]] :
     \A s \in Sources \ fetched[w], i \in Items : scored[s][i] = "none"}

\* What the run's items mention is anything; a source that is not known yet
\* comes up when it is mentioned.
Mentions == [Sources -> {"none", "observed", "eligible", "ineligible"}]

DaysWith(h, S, d) == [s \in Sources |-> IF s \in S THEN h[s] \cup {d} ELSE h[s]]

HighOn(high, s) == UNION {high[s][i] : i \in Items}

DiscoverSave(w) ==
  /\ run[w] = "discovering" /\ loaded[w] # None
  /\ \E mention \in Mentions, scored \in ScoredItems(w),
       itemOrder \in ItemOrders, order \in SourceOrders :
       LET S == loaded[w]
           d == day
           mentioned == [s \in Sources |-> Mentioned(S[s], mention[s], d)]
           seen == Seen(mentioned, mention, scored)
           approved == {s \in seen : mentioned[s].status = "approved"}
       IN /\ registry' = Discovery(S, mention, scored, itemOrder, order, d)
          /\ seenOn' = DaysWith(seenOn, seen, d)
          /\ missedOn' = DaysWith(missedOn, Sources \ seen, d)
          /\ highOn' = [s \in Sources |-> [i \in Items |->
               IF s \in approved /\ HighSignal(scored[s][i])
               THEN highOn[s][i] \cup {d} ELSE highOn[s][i]]]
          /\ lowOn' = DaysWith(lowOn, {s \in approved : /\ Rating(scored[s]) = "low"
                                                       /\ d \notin HighOn(highOn, s)}, d)
  /\ loaded' = [loaded EXCEPT ![w] = None]
  /\ fetched' = [fetched EXCEPT ![w] = {}]
  /\ Goto(w, "idle")
  /\ UNCHANGED <<day, fetching, operator>>

\* The process ends, or an error ends its run while a late adapter goes on.
Abort(w) ==
  /\ "crash" \in Faults /\ run[w] # "idle"
  /\ Goto(w, "idle")
  /\ \/ fetching' = [fetching EXCEPT ![w] = None]
     \/ run[w] # "fetching" /\ UNCHANGED fetching
  /\ loaded' = [loaded EXCEPT ![w] = None]
  /\ fetched' = [fetched EXCEPT ![w] = {}]
  /\ UNCHANGED <<day, registry, operator, history>>

-----------------------------------------------------------------------------
(* SourceRepository.retireSource and restoreSource.                        *)

OperatorLoad ==
  /\ operator = None /\ MayLoad
  /\ operator' = registry
  /\ UNCHANGED <<day, registry, runs, history>>

OperatorRetires(s) ==
  /\ operator[s].status \in {"candidate", "approved"}
  /\ registry' = IF RetirementBlocked(operator, s) THEN operator
                 ELSE [operator EXCEPT ![s] = Retired(@)]
  /\ UNCHANGED seenOn

OperatorRestores(s) ==
  /\ operator[s].status = "retired"
  /\ seenOn' = [seenOn EXCEPT ![s] = {}]
  /\ \E target \in {"asBefore", "probation", "active"} :
       registry' = [operator EXCEPT ![s] = Restored(@, target, day)]

\* The call fails: the source is unknown, or is in that state already.
OperatorFails == UNCHANGED <<registry, seenOn>>

OperatorSave ==
  /\ operator # None
  /\ (\E s \in Sources : OperatorRetires(s) \/ OperatorRestores(s)) \/ OperatorFails
  /\ operator' = None
  /\ UNCHANGED <<day, runs, missedOn, highOn, lowOn>>

Next ==
  \/ NextDay \/ OperatorLoad \/ OperatorSave
  \/ \E w \in Writers :
       \/ BeginRun(w) \/ AdapterSave(w) \/ Deadline(w)
       \/ DiscoverLoad(w) \/ DiscoverSave(w) \/ Abort(w)

Spec == Init /\ [][Next]_vars

-----------------------------------------------------------------------------
Snapshots == [status : {"candidate", "approved"}, stage : {"probation", "active"},
              since : Days, qualifying : SUBSET Days, lowSignal : SUBSET Days,
              failures : 0 .. MaxFailures]

\* Status, stage and audit tell the same story in every snapshot of the registry.
RecordOK(r) ==
  /\ r.since \in Days /\ r.qualifying \subseteq Days /\ r.lowSignal \subseteq Days
  /\ r.failures \in 0 .. MaxFailures
  /\ Len(r.tracked) <= MaxTracked /\ r.credit \in -MaxPoints .. MaxPoints
  /\ \/ r.status = "absent" /\ r = Unknown
     \/ r.status = "candidate" /\ r.stage = "probation" /\ r.retirement = None
        /\ r.qualifying = {}
     \/ r.status = "approved" /\ r.stage \in {"probation", "active"} /\ r.retirement = None
     \/ r.status = "retired" /\ r.stage = "retired" /\ r.retirement \in Snapshots

SnapshotOK(S) == \A s \in Sources : RecordOK(S[s])

TypeOK ==
  /\ SnapshotOK(registry)
  /\ \A S \in {operator} \cup {fetching[w] : w \in Writers} \cup {loaded[w] : w \in Writers} :
       S # None => SnapshotOK(S)
  /\ run \in [Writers -> {"idle", "fetching", "collected", "discovering"}]

\* As long as the writers take turns: retiring sources, for whatever reason and
\* however many at once, never takes the last active source of a category.
RetirementKeepsCoverage ==
  [][\A s \in Sources :
       TakeTurns /\ Covering(registry[s]) /\ registry'[s].status = "retired" =>
         \A c \in Covers[s] : \E t \in Sources : c \in Covers[t] /\ Covering(registry'[t])]_vars

\* As long as the writers take turns: a source in probation becomes active on
\* MinQualifying days with a qualifying score since its probation began, all of
\* them within the window and with no day in between that had a lower one only.
PromotionEarned ==
  [][\A s \in Sources :
       TakeTurns /\ registry[s].stage = "probation" /\ registry'[s].stage = "active" =>
         LET streak == {c \in HighOn(highOn', s) : registry'[s].since <= c /\ \A b \in lowOn'[s] : b <= c}
         IN \E d \in Days :
              Cardinality({c \in streak : InWindow(c, d, PromotionWindow)}) >= MinQualifying]_vars

\* As long as the writers take turns: a source that a run retires although its
\* fetches worked was missed on MinLowSignal days in a row and, since an operator
\* restored it last, seen on none of them but perhaps the first.
LowSignalRetirementEarned ==
  [][\A s \in Sources, w \in Writers :
       /\ TakeTurns /\ run[w] = "discovering" /\ registry[s].failures < MaxFailures
       /\ registry[s].status = "approved" /\ registry'[s].status = "retired"
       => LET first == day - MinLowSignal + 1 IN
          /\ first .. day \subseteq missedOn'[s]
          /\ seenOn'[s] \cap (first + 1 .. day) = {}]_vars

\* As long as the writers take turns: an item counts as retained when it scored
\* high again on a later day than its first one, and as short-lived only when the
\* window passed without; the points of a source, and of its domains, follow.
ExpertiseEarned ==
  TakeTurns => \A s \in Sources :
    LET tracked == registry[s].tracked
        Again(e) == \E d \in highOn[s][e.item] : e.first < d
        lastRun == Max({0} \cup seenOn[s] \cup missedOn[s])
    IN /\ \A k \in DOMAIN tracked : LET e == tracked[k] IN
            /\ e.first \in highOn[s][e.item]
            /\ e.status = "retained" <=> Again(e)
            /\ e.status = "short_lived" => day - e.first >= ExpertiseWindow
            /\ e.status = "tracking" => lastRun - e.first < ExpertiseWindow
       /\ \A c \in Domains :
            LET ofDomain == {tracked[k] : k \in {j \in DOMAIN tracked :
                                                   DomainOf[tracked[j].item] = c}} IN
            /\ DomainAdjustment(tracked, c) > 0 => \E e \in ofDomain : Again(e)
            /\ DomainAdjustment(tracked, c) < 0 => \E e \in ofDomain : ~Again(e)
       /\ registry[s].credit > 0 => \E i \in Items : Cardinality(highOn[s][i]) >= 2
=============================================================================
