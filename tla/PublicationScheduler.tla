------------------------- MODULE PublicationScheduler -------------------------
(***************************************************************************)
(* createPublicationScheduler: a chain of timers inside one Node process.  *)
(* A timer's callback publishes the latest slot and then arms the timer of *)
(* the next one.  start and stop share timerId, nextRunAt and active with  *)
(* every callback, and a callback that awaits its publication outlives a   *)
(* stop.  The publication itself is the flow over the local file store.    *)
(***************************************************************************)
EXTENDS Naturals, FiniteSets

CONSTANTS
  Chains,       \* timer chains that may be alive at once
  Stops,        \* when stop() is called: never, between callbacks, any time
  Faults,       \* a subset of FaultKinds
  SlotLength,   \* clock ticks between two publication slots
  MaxDuration,  \* ticks a publication may take
  MaxTime,      \* bound on the clock
  None

FaultKinds == {"fail", "early", "exit"}

ASSUME SchedulerAssumption ==
  /\ Stops \in {"never", "quiet", "any"}
  /\ Faults \subseteq FaultKinds
  /\ SlotLength \in Nat \ {0}
  /\ MaxDuration \in Nat
  /\ MaxTime \in Nat
  /\ None \notin Nat
  /\ None \notin Chains

SlotOf(t) == t \div SlotLength
Slots == 0 .. SlotOf(MaxTime)

\* getNextPublicationTime: the first slot at or after t, or strictly after t.
NextSlotTime(t, inclusive) ==
  IF inclusive /\ t = SlotOf(t) * SlotLength THEN t ELSE (SlotOf(t) + 1) * SlotLength

VARIABLES
  now,        \* the wall clock
  active,     \* start() was called and stop() was not
  nextRunAt,  \* the slot time reported by getNextRunAt
  timerId,    \* the chain whose timer stop() would clear
  chain,      \* per chain: free, an armed timer, or a running callback
  writes,     \* how often the edition file of each slot was written
  activeFrom, \* history: when the current activation began
  failed,     \* history: the slots whose publication failed
  early       \* history: the slots whose timer was early

history == <<failed, early>>
vars == <<now, active, nextRunAt, timerId, chain, writes, activeFrom, history>>

Free == [at |-> "free"]
Armed(due) == [at |-> "armed", due |-> due]
Running(at, slot, since) == [at |-> at, slot |-> slot, since |-> since]

ArmedTimers == {c \in Chains : chain[c].at = "armed"}
Callbacks == {c \in Chains : chain[c].at \in {"check", "publish"}}

Init ==
  /\ now = 0
  /\ active = FALSE
  /\ nextRunAt = None
  /\ timerId = None
  /\ chain = [c \in Chains |-> Free]
  /\ writes = [s \in Slots |-> 0]
  /\ activeFrom = None
  /\ failed = {}
  /\ early = {}

\* Timers are not late and publications do not take longer than MaxDuration.
Tick ==
  /\ now < MaxTime
  /\ \A c \in ArmedTimers : chain[c].due > now
  /\ \A c \in Callbacks : now - chain[c].since < MaxDuration
  /\ now' = now + 1
  /\ UNCHANGED <<active, nextRunAt, timerId, chain, writes, activeFrom, history>>

\* scheduleNextRun: chain c waits for the next slot, stop() will clear it.
ScheduleNextRun(c, inclusive) ==
  LET due == NextSlotTime(now, inclusive) IN
  /\ nextRunAt' = due
  /\ timerId' = c
  /\ chain' = [chain EXCEPT ![c] = Armed(due)]

\* Mutant: start() skips a slot that is due right now.
StartExclusive ==
  /\ ~active
  /\ active' = TRUE
  /\ activeFrom' = now
  /\ \E c \in Chains : chain[c] = Free /\ ScheduleNextRun(c, FALSE)
  /\ UNCHANGED <<now, writes, history>>

Start ==
  /\ ~active
  /\ active' = TRUE
  /\ activeFrom' = now
  /\ \E c \in Chains : chain[c] = Free /\ ScheduleNextRun(c, TRUE)
  /\ UNCHANGED <<now, writes, history>>

Stoppable ==
  \/ Stops = "any"
  \/ Stops = "quiet" /\ Callbacks = {}

\* stop() clears the one timer it knows; running callbacks are not awaited.
Stop ==
  /\ Stoppable
  /\ active' = FALSE
  /\ nextRunAt' = None
  /\ timerId' = None
  /\ chain' = IF timerId = None THEN chain ELSE [chain EXCEPT ![timerId] = Free]
  /\ activeFrom' = None
  /\ UNCHANGED <<now, writes, history>>

\* The timer runs on the monotonic clock, so it may be early on the wall clock.
Fire(c) ==
  /\ chain[c].at = "armed"
  /\ \/ /\ chain[c].due <= now
        /\ UNCHANGED early
     \/ /\ "early" \in Faults /\ chain[c].due = now + 1
        /\ early' = early \cup {SlotOf(chain[c].due)}
  /\ timerId' = None
  /\ chain' = [chain EXCEPT ![c] = Running("check", SlotOf(now), now)]
  /\ UNCHANGED <<now, active, nextRunAt, writes, activeFrom, failed>>

\* The finally block: an active scheduler always arms the next timer.
Continue(c) ==
  IF active
  THEN ScheduleNextRun(c, FALSE)
  ELSE /\ chain' = [chain EXCEPT ![c] = Free]
       /\ UNCHANGED <<nextRunAt, timerId>>

\* Mutant: the flow does not look for an existing edition.
CheckSkipped(c) ==
  /\ chain[c].at = "check"
  /\ chain' = [chain EXCEPT ![c].at = "publish"]
  /\ UNCHANGED <<now, active, nextRunAt, timerId, writes, activeFrom, history>>

\* The flow looks for the edition of the slot before it collects anything.
Check(c) ==
  /\ chain[c].at = "check"
  /\ \/ /\ writes[chain[c].slot] > 0
        /\ Continue(c)
     \/ /\ writes[chain[c].slot] = 0
        /\ chain' = [chain EXCEPT ![c].at = "publish"]
        /\ UNCHANGED <<nextRunAt, timerId>>
  /\ UNCHANGED <<now, active, writes, activeFrom, history>>

\* Mutant: the next timer is armed after a success only.
PublishWithoutFinally(c) ==
  /\ chain[c].at = "publish"
  /\ \/ /\ writes' = [writes EXCEPT ![chain[c].slot] = @ + 1]
        /\ Continue(c)
        /\ UNCHANGED failed
     \/ /\ "fail" \in Faults
        /\ failed' = failed \cup {chain[c].slot}
        /\ chain' = [chain EXCEPT ![c] = Free]
        /\ UNCHANGED <<writes, nextRunAt, timerId>>
  /\ UNCHANGED <<now, active, activeFrom, early>>

Publish(c) ==
  /\ chain[c].at = "publish"
  /\ \/ /\ writes' = [writes EXCEPT ![chain[c].slot] = @ + 1]
        /\ UNCHANGED failed
     \/ /\ "fail" \in Faults
        /\ failed' = failed \cup {chain[c].slot}
        /\ UNCHANGED writes
  /\ Continue(c)
  /\ UNCHANGED <<now, active, activeFrom, early>>

\* SIGINT, SIGTERM or a crash: timers and callbacks go, the files stay.
Exit ==
  /\ "exit" \in Faults
  /\ active' = FALSE
  /\ nextRunAt' = None
  /\ timerId' = None
  /\ chain' = [c \in Chains |-> Free]
  /\ activeFrom' = None
  /\ UNCHANGED <<now, writes, history>>

Next ==
  \/ Tick \/ Start \/ Stop \/ Exit
  \/ \E c \in Chains : Fire(c) \/ Check(c) \/ Publish(c)

\* The event loop runs due timers and resumes callbacks.
Fairness ==
  \A c \in Chains : WF_vars(Check(c) \/ Publish(c))

Spec == Init /\ [][Next]_vars /\ Fairness

-----------------------------------------------------------------------------
TypeOK ==
  /\ now \in 0 .. MaxTime
  /\ active \in BOOLEAN
  /\ nextRunAt \in IF active THEN Nat ELSE {None}
  /\ timerId \in Chains \cup {None}
  /\ \A c \in Chains :
       \/ chain[c] = Free
       \/ chain[c].at = "armed" /\ chain[c].due \in Nat
       \/ c \in Callbacks /\ chain[c].slot \in Slots /\ chain[c].since \in 0 .. now
  /\ writes \in [Slots -> Nat]
  /\ activeFrom \in 0 .. now \cup {None}
  /\ failed \subseteq Slots
  /\ early \subseteq Nat

\* No edition file is written twice, whatever fails and restarts.
PublishesOncePerSlot == \A s \in Slots : writes[s] <= 1

\* The slots that the scheduler was active for and should have published.
DueSlots ==
  {s \in Slots : active /\ s * SlotLength >= activeFrom /\ now >= (s + 1) * SlotLength}

\* The worker publishes once per day: a slot reached while it was active is published
\* before the next one, if the slot's timer was not early on the wall clock.
PublishesPunctualSlots ==
  \A s \in DueSlots : writes[s] > 0 \/ s \in failed \cup early

\* A publication that ends, well or badly, leads to the next armed timer.
CallbackRearms ==
  \A c \in Chains : c \in Callbacks ~> c \in ArmedTimers \/ ~active
=============================================================================
