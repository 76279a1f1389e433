--------------------------- MODULE PublicationRuns ---------------------------
(***************************************************************************)
(* The hosted publisher: every POST /api/internal/publish is handled by a  *)
(* process that takes the lock row of its publication slot, runs the       *)
(* publication flow against the Supabase tables and settles the row.       *)
(*                                                                         *)
(* One action is the code between two awaits.  Every write may be          *)
(* rejected, may be applied although its reply is lost, and the platform   *)
(* may kill a handler at any await (maxDuration in vercel.json).           *)
(*                                                                         *)
(* An edition is identified by its slot: in one deployment the timezone is *)
(* fixed, so id, published_at and slot determine each other.  An edition   *)
(* is a function from items to the item's editionCount, 0 for an item that *)
(* it does not contain.                                                    *)
(***************************************************************************)
EXTENDS Integers, FiniteSets

CONSTANTS
  Handlers,     \* concurrently running request handlers
  Items,        \* stable item identities
  ForcedModes,  \* values of NEWSLETTER_FORCE_PUBLICATION in this deployment
  Faults,       \* which faults may happen, a subset of FaultKinds
  SlotLength,   \* clock ticks between two publication slots
  Grace,        \* ticks after a slot in which an unforced request publishes
  MaxTime,      \* bound on the clock
  None          \* no edition

FaultKinds == {"collect", "reject", "lost", "crash"}

ASSUME RunsAssumption ==
  /\ ForcedModes \subseteq BOOLEAN
  /\ Faults \subseteq FaultKinds
  /\ SlotLength \in Nat \ {0}
  /\ Grace \in Nat
  /\ MaxTime \in Nat

\* createPublicationPlan: the latest slot that has been reached.
SlotOf(t) == t \div SlotLength

\* Mutant: the grace period has no end.
InWindowAlways(t) == t >= SlotOf(t) * SlotLength

\* shouldPublishScheduledEdition: close enough after the latest slot.
InWindow(t) == t - SlotOf(t) * SlotLength <= Grace

Slots == 0 .. SlotOf(MaxTime)

ASSUME NoneAssumption == None \notin [Items -> Nat] /\ None \notin Slots

Edition == [Items -> Nat]
Record == [seenIn : SUBSET Slots, count : Nat]
RunRow == [status : {"absent", "running", "completed", "failed"},
           editionId : Slots \cup {None}]

VARIABLES
  now,       \* the wall clock
  editions,  \* newsletter_editions, by slot
  runs,      \* newsletter_publication_runs, by slot
  registry,  \* newsletter_runtime_state["item_identity_registry"], by item
  pc,        \* where each handler is
  began,     \* when the handler's request arrived
  slot,      \* the slot whose lock row the handler works on
  plan,      \* the slot the publication flow of the handler publishes
  picked,    \* the items the handler's aggregation kept
  tracked,   \* edition counts the handler loaded for earlier appearances
  snapshot   \* registry snapshot between the handler's load and save

tables == <<editions, runs, registry>>
flow == <<plan, picked, tracked, snapshot>>
vars == <<now, tables, pc, began, slot, flow>>

Answered == {"idle", "skipped", "declined", "published", "failed", "error"}
Holding == {"plan", "checkLatest", "aggregate", "loadEditions", "loadRegistry",
            "publish", "recordLoad", "recordSave", "markCompleted", "markFailed"}
Locking == {"insertRun", "readRun", "retryRun"}

Goto(h, label) == pc' = [pc EXCEPT ![h] = label]

\* The three ways a write can end: done, refused, or done but not confirmed.
Confirmed(h, label) == Goto(h, label)
Rejected(h, label) == "reject" \in Faults /\ Goto(h, label)
ReplyLost(h, label) == "lost" \in Faults /\ Goto(h, label)

MaxOf(a, b) == IF a >= b THEN a ELSE b
MaxOver(S) == CHOOSE m \in S : \A n \in S : n <= m

-----------------------------------------------------------------------------
(* Tracked states: how often an item was published before a slot.          *)

\* The editions before slot p that contain item i.
Appearances(i, p) ==
  {s \in Slots : s < p /\ editions[s] # None /\ editions[s][i] > 0}

\* Mutant: an appearance is counted again with the later ones.
EditionTrackInclusive(i, p) ==
  LET seen == Appearances(i, p)
      from(s) == editions[s][i] + Cardinality({t \in seen : t >= s})
  IN IF seen = {} THEN 0 ELSE MaxOver({from(s) : s \in seen})

\* SupabaseNewsletterEditionStore.loadTrackedItemStates walks the editions
\* oldest first and keeps max(the edition's own count, previous count + 1).
EditionTrack(i, p) ==
  LET seen == Appearances(i, p)
      from(s) == editions[s][i] + Cardinality({t \in seen : t > s})
  IN IF seen = {} THEN 0 ELSE MaxOver({from(s) : s \in seen})

\* ItemIdentityRepository.loadTrackedItemStates: appearances before p; the
\* persisted count is trusted only if the record ends before p.
RegistryTrack(record, p) ==
  LET prior == {s \in record.seenIn : s < p}
      persisted == IF \E s \in record.seenIn : s >= p THEN 0 ELSE record.count
  IN IF prior = {} THEN persisted ELSE MaxOf(Cardinality(prior), persisted)

\* Mutant: a matched candidate is treated as a new item.
NextCountFresh(i, h) == IF i \in picked[h] THEN 1 ELSE 0

\* ItemResolutionService.resolve: a matched candidate counts one edition more.
NextCount(i, h) == IF i \in picked[h] THEN tracked[h][i] + 1 ELSE 0

\* recordEdition: every item of the edition gains the appearance.
Recorded(snap, s) ==
  [i \in Items |->
     LET seenIn == snap[i].seenIn \cup {s}
     IN IF editions[s][i] = 0 THEN snap[i]
        ELSE [seenIn |-> seenIn,
              count |-> MaxOf(editions[s][i], Cardinality(seenIn))]]

-----------------------------------------------------------------------------
NoRun == [status |-> "absent", editionId |-> None]
NoRecord == [seenIn |-> {}, count |-> 0]
Untracked == [i \in Items |-> 0]
EmptyRegistry == [i \in Items |-> NoRecord]

Init ==
  /\ now = 0
  /\ editions = [s \in Slots |-> None]
  /\ runs = [s \in Slots |-> NoRun]
  /\ registry = EmptyRegistry
  /\ pc = [h \in Handlers |-> "idle"]
  /\ began = [h \in Handlers |-> 0]
  /\ slot = [h \in Handlers |-> 0]
  /\ plan = [h \in Handlers |-> 0]
  /\ picked = [h \in Handlers |-> {}]
  /\ tracked = [h \in Handlers |-> Untracked]
  /\ snapshot = [h \in Handlers |-> EmptyRegistry]

\* A request outlives at most one tick: the platform ends it after 60 seconds.
Tick ==
  /\ now < MaxTime
  /\ \A h \in Handlers : pc[h] \in Answered \/ began[h] = now
  /\ now' = now + 1
  /\ UNCHANGED <<tables, pc, began, slot, flow>>

\* buildPublicationResponse up to the lock.
Request(h) ==
  /\ pc[h] \in Answered
  /\ \E forced \in ForcedModes :
       IF forced \/ InWindow(now)
       THEN /\ Goto(h, "insertRun")
            /\ began' = [began EXCEPT ![h] = now]
            /\ slot' = [slot EXCEPT ![h] = SlotOf(now)]
       ELSE /\ Goto(h, "skipped")
            /\ UNCHANGED <<began, slot>>
  /\ UNCHANGED <<now, tables, flow>>

-----------------------------------------------------------------------------
(* tryStartPublicationRun.  It runs outside the handler's try block, so an *)
(* error in it ends the request without touching the row again.            *)

SetRun(s, status, editionId) ==
  runs' = [runs EXCEPT ![s] = [status |-> status, editionId |-> editionId]]

\* Mutant: the row names the expected edition from the start.
InsertRunNamed(h) ==
  /\ pc[h] = "insertRun"
  /\ \/ /\ runs[slot[h]].status = "absent"
        /\ SetRun(slot[h], "running", slot[h])
        /\ Confirmed(h, "plan") \/ ReplyLost(h, "error")
     \/ /\ runs[slot[h]].status # "absent"
        /\ Goto(h, "readRun")
        /\ UNCHANGED runs
  /\ UNCHANGED <<now, editions, registry, began, slot, flow>>

InsertRun(h) ==
  /\ pc[h] = "insertRun"
  /\ \/ /\ runs[slot[h]].status = "absent"
        /\ SetRun(slot[h], "running", None)
        /\ Confirmed(h, "plan") \/ ReplyLost(h, "error")
     \/ /\ runs[slot[h]].status # "absent"
        /\ Goto(h, "readRun")
        /\ UNCHANGED runs
     \/ /\ Rejected(h, "error")
        /\ UNCHANGED runs
  /\ UNCHANGED <<now, editions, registry, began, slot, flow>>

\* Only a failed run that never got an edition may be taken over.
Retryable(row) == row.status = "failed" /\ row.editionId = None

ReadRun(h) ==
  /\ pc[h] = "readRun"
  /\ \/ Goto(h, IF Retryable(runs[slot[h]]) THEN "retryRun" ELSE "declined")
     \/ Rejected(h, "error")
  /\ UNCHANGED <<now, tables, began, slot, flow>>

\* Mutant: the update has no "status = 'failed'".
RetryRunUnguarded(h) ==
  /\ pc[h] = "retryRun"
  /\ SetRun(slot[h], "running", runs[slot[h]].editionId)
  /\ Confirmed(h, "plan")
  /\ UNCHANGED <<now, editions, registry, began, slot, flow>>

\* Mutant: who loses the update looks again instead of giving up.
RetryRunLoops(h) ==
  /\ pc[h] = "retryRun"
  /\ \/ /\ runs[slot[h]].status = "failed"
        /\ SetRun(slot[h], "running", runs[slot[h]].editionId)
        /\ Confirmed(h, "plan")
     \/ /\ runs[slot[h]].status # "failed"
        /\ Goto(h, "readRun")
        /\ UNCHANGED runs
  /\ UNCHANGED <<now, editions, registry, began, slot, flow>>

\* update ... where slot = ? and status = 'failed': the loser matches no row.
RetryRun(h) ==
  /\ pc[h] = "retryRun"
  /\ \/ /\ runs[slot[h]].status = "failed"
        /\ SetRun(slot[h], "running", runs[slot[h]].editionId)
        /\ Confirmed(h, "plan") \/ ReplyLost(h, "error")
     \/ /\ runs[slot[h]].status # "failed"
        /\ Goto(h, "declined")
        /\ UNCHANGED runs
     \/ /\ Rejected(h, "error")
        /\ UNCHANGED runs
  /\ UNCHANGED <<now, editions, registry, began, slot, flow>>

-----------------------------------------------------------------------------
(* publishEdition.  Every error in it is caught and marks the run failed.  *)

\* Mutant: the flow plans the upcoming slot.
PlanUpcoming(h) ==
  /\ pc[h] = "plan"
  /\ plan' = [plan EXCEPT ![h] = SlotOf(now) + 1]
  /\ Goto(h, "checkLatest")
  /\ UNCHANGED <<now, tables, began, slot, picked, tracked, snapshot>>

\* The flow reads the clock again: its slot need not be the lock's slot.
Plan(h) ==
  /\ pc[h] = "plan"
  /\ plan' = [plan EXCEPT ![h] = SlotOf(now)]
  /\ Goto(h, "checkLatest")
  /\ UNCHANGED <<now, tables, began, slot, picked, tracked, snapshot>>

\* loadPublishedEditionForPlan: an existing edition ends the flow at once.
CheckLatest(h) ==
  /\ pc[h] = "checkLatest"
  /\ \/ Goto(h, IF editions[plan[h]] # None THEN "markCompleted" ELSE "aggregate")
     \/ Rejected(h, "markFailed")
  /\ UNCHANGED <<now, tables, began, slot, flow>>

\* pipeline.aggregate, the exclusion gates and source discovery.
Aggregate(h) ==
  /\ pc[h] = "aggregate"
  /\ \/ \E kept \in SUBSET Items :
          /\ picked' = [picked EXCEPT ![h] = kept]
          /\ Goto(h, "loadEditions")
     \/ /\ "collect" \in Faults
        /\ Goto(h, "markFailed")
        /\ UNCHANGED picked
  /\ UNCHANGED <<now, tables, began, slot, plan, tracked, snapshot>>

\* Mutant: only the registry is asked for earlier appearances.
LoadEditionsSkipped(h) ==
  /\ pc[h] = "loadEditions"
  /\ Goto(h, "loadRegistry")
  /\ UNCHANGED <<now, tables, began, slot, flow>>

LoadEditions(h) ==
  /\ pc[h] = "loadEditions"
  /\ \/ /\ tracked' = [tracked EXCEPT ![h] =
                         [i \in Items |-> EditionTrack(i, plan[h])]]
        /\ Goto(h, "loadRegistry")
     \/ /\ Rejected(h, "markFailed")
        /\ UNCHANGED tracked
  /\ UNCHANGED <<now, tables, began, slot, plan, picked, snapshot>>

\* mergeTrackedItemStateMaps: the larger of the two counts wins.
LoadRegistry(h) ==
  /\ pc[h] = "loadRegistry"
  /\ \/ /\ tracked' = [tracked EXCEPT ![h] =
                         [i \in Items |->
                            MaxOf(@[i], RegistryTrack(registry[i], plan[h]))]]
        /\ Goto(h, "publish")
     \/ /\ Rejected(h, "markFailed")
        /\ UNCHANGED tracked
  /\ UNCHANGED <<now, tables, began, slot, plan, picked, snapshot>>

\* Mutant: insert becomes upsert.
PublishUpsert(h) ==
  /\ pc[h] = "publish"
  /\ editions' = [editions EXCEPT ![plan[h]] = [i \in Items |-> NextCount(i, h)]]
  /\ Goto(h, "recordLoad")
  /\ picked' = [picked EXCEPT ![h] = {}]
  /\ tracked' = [tracked EXCEPT ![h] = Untracked]
  /\ UNCHANGED <<now, runs, registry, began, slot, plan, snapshot>>

\* insertEdition: a unique violation returns the edition that is there.
Publish(h) ==
  /\ pc[h] = "publish"
  /\ \/ /\ editions[plan[h]] = None
        /\ editions' = [editions EXCEPT ![plan[h]] =
                          [i \in Items |-> NextCount(i, h)]]
        /\ Confirmed(h, "recordLoad") \/ ReplyLost(h, "markFailed")
     \/ /\ editions[plan[h]] # None
        /\ Goto(h, "recordLoad")
        /\ UNCHANGED editions
     \/ /\ Rejected(h, "markFailed")
        /\ UNCHANGED editions
  /\ picked' = [picked EXCEPT ![h] = {}]
  /\ tracked' = [tracked EXCEPT ![h] = Untracked]
  /\ UNCHANGED <<now, runs, registry, began, slot, plan, snapshot>>

\* recordEdition is load, merge, save of one document, with no version check.
RecordLoad(h) ==
  /\ pc[h] = "recordLoad"
  /\ \/ /\ snapshot' = [snapshot EXCEPT ![h] = registry]
        /\ Goto(h, "recordSave")
     \/ /\ Rejected(h, "markFailed")
        /\ UNCHANGED snapshot
  /\ UNCHANGED <<now, tables, began, slot, plan, picked, tracked>>

RecordSave(h) ==
  /\ pc[h] = "recordSave"
  /\ \/ /\ registry' = Recorded(snapshot[h], plan[h])
        /\ Confirmed(h, "markCompleted") \/ ReplyLost(h, "markFailed")
     \/ /\ Rejected(h, "markFailed")
        /\ UNCHANGED registry
  /\ snapshot' = [snapshot EXCEPT ![h] = EmptyRegistry]
  /\ UNCHANGED <<now, editions, runs, began, slot, plan, picked, tracked>>

\* Mutant: the error of the update is not thrown.
MarkCompletedUnchecked(h) ==
  /\ pc[h] = "markCompleted"
  /\ \/ SetRun(slot[h], "completed", plan[h])
     \/ "reject" \in Faults /\ UNCHANGED runs
  /\ Goto(h, "published")
  /\ UNCHANGED <<now, editions, registry, began, slot, flow>>

\* The update names only the slot: whatever the row says is overwritten.
MarkCompleted(h) ==
  /\ pc[h] = "markCompleted"
  /\ \/ /\ SetRun(slot[h], "completed", plan[h])
        /\ Confirmed(h, "published") \/ ReplyLost(h, "markFailed")
     \/ /\ Rejected(h, "markFailed")
        /\ UNCHANGED runs
  /\ UNCHANGED <<now, editions, registry, began, slot, flow>>

\* Mutant: the catch block answers without settling the row.
MarkFailedSkipped(h) ==
  /\ pc[h] = "markFailed"
  /\ Goto(h, "failed")
  /\ UNCHANGED <<now, tables, began, slot, flow>>

\* The catch block keeps the edition id; if its own write fails, the error
\* leaves the handler and the row stays as it is.
MarkFailed(h) ==
  /\ pc[h] = "markFailed"
  /\ \/ /\ SetRun(slot[h], "failed", runs[slot[h]].editionId)
        /\ Confirmed(h, "failed") \/ ReplyLost(h, "error")
     \/ /\ Rejected(h, "error")
        /\ UNCHANGED runs
  /\ UNCHANGED <<now, editions, registry, began, slot, flow>>

\* The platform ends the invocation between two awaits.
Killed(h) ==
  /\ "crash" \in Faults
  /\ pc[h] \notin Answered
  /\ Goto(h, "error")
  /\ UNCHANGED <<now, tables, began, slot, flow>>

-----------------------------------------------------------------------------
Handle(h) ==
  \/ InsertRun(h) \/ ReadRun(h) \/ RetryRun(h)
  \/ Plan(h) \/ CheckLatest(h) \/ Aggregate(h)
  \/ LoadEditions(h) \/ LoadRegistry(h) \/ Publish(h)
  \/ RecordLoad(h) \/ RecordSave(h)
  \/ MarkCompleted(h) \/ MarkFailed(h)

Next ==
  \/ Tick
  \/ \E h \in Handlers : Request(h) \/ Handle(h) \/ Killed(h)

\* A handler that has been started keeps running; nothing promises that a
\* request is ever made, that the clock advances or that a fault occurs.
Fairness == \A h \in Handlers : WF_vars(Handle(h))

Spec == Init /\ [][Next]_vars /\ Fairness

-----------------------------------------------------------------------------
TypeOK ==
  /\ now \in 0 .. MaxTime
  /\ editions \in [Slots -> Edition \cup {None}]
  /\ runs \in [Slots -> RunRow]
  /\ registry \in [Items -> Record]
  /\ pc \in [Handlers -> Answered \cup Holding \cup Locking]
  /\ began \in [Handlers -> 0 .. MaxTime]
  /\ slot \in [Handlers -> Slots]
  /\ plan \in [Handlers -> Slots]
  /\ picked \in [Handlers -> SUBSET Items]
  /\ tracked \in [Handlers -> [Items -> Nat]]
  /\ snapshot \in [Handlers -> [Items -> Record]]

\* Two requests never work on the same slot: GitHub's and Supabase's cron
\* both fire at 21:00, and a failed run may be retried by several requests.
SlotLock ==
  \A g, h \in Handlers :
    g # h /\ pc[g] \in Holding /\ pc[h] \in Holding => slot[g] # slot[h]

\* The edition a run row names is in newsletter_editions, whatever failed.
RunNamesStoredEdition ==
  \A s \in Slots : LET row == runs[s] IN
    /\ row.status = "completed" => row.editionId # None
    /\ row.editionId # None => editions[row.editionId] # None

\* Outside forced deployments a run row names the edition of its own slot,
\* although the flow takes the time a second time.
RunNamesOwnEdition == \A s \in Slots : runs[s].editionId \in {s, None}

\* A request that answered "published" leaves the edition and a settled row.
PublishedReplyIsDurable ==
  \A h \in Handlers : pc[h] = "published" =>
    /\ editions[plan[h]] # None
    /\ runs[slot[h]].editionId # None

\* The registry never claims an appearance that no stored edition has.
RegistrySound ==
  \A i \in Items : \A s \in registry[i].seenIn :
    editions[s] # None /\ editions[s][i] > 0

\* edition_count of an item is exactly its position among the editions that
\* contain it, even if earlier runs failed before they recorded the edition.
CountsExact ==
  \A s \in Slots : editions[s] # None =>
    \A i \in Items : editions[s][i] > 0 =>
      editions[s][i] = Cardinality(Appearances(i, s)) + 1

\* An item is never credited with more editions than those that contain it:
\* three of them promote it to the reference index.
CountsNeverInflated ==
  \A s \in Slots : editions[s] # None =>
    \A i \in Items : editions[s][i] <= Cardinality(Appearances(i, s)) + 1

\* A published edition is never replaced, nor removed.
EditionsImmutable ==
  [][\A s \in Slots : editions[s] # None => editions'[s] = editions[s]]_vars

\* An unforced deployment gives its readers an edition archive: whatever fails
\* and is retried, editions appear once, in order and with the right counts.
Archive == INSTANCE EditionArchive WITH archive <- editions
ImplementsArchive == Archive!Spec

\* Every request is answered.
EveryRequestAnswered ==
  \A h \in Handlers : pc[h] \notin Answered ~> pc[h] \in Answered

\* A slot whose lock is taken is released or completed.
EveryRunSettles ==
  \A s \in Slots :
    runs[s].status = "running" ~> runs[s].status \in {"completed", "failed"}
=============================================================================
