---------------------- MODULE PublicationSchedulerProofs ----------------------
(***************************************************************************)
(* What one scheduler keeps for any number of chains and slots, whatever   *)
(* fails, exits and starts again, if stop() is not called while a callback *)
(* awaits its publication: it runs one chain of timers, which is why no    *)
(* edition is written twice, and no slot is passed over.                   *)
(***************************************************************************)
EXTENDS PublicationScheduler, TLAPS

\* The publisher's process calls stop() when it ends, and nobody else does.
StopsBetweenCallbacks == Stops # "any"

-----------------------------------------------------------------------------
(* Slots.                                                                  *)

\* A time lies in its slot.
LEMMA SlotBegins ==
  ASSUME NEW t \in Nat
  PROVE  /\ SlotOf(t) \in Nat /\ SlotOf(t) * SlotLength \in Nat
         /\ SlotOf(t) * SlotLength <= t
         /\ t < SlotOf(t) * SlotLength + SlotLength
         /\ (SlotOf(t) + 1) * SlotLength = SlotOf(t) * SlotLength + SlotLength
PROOF
  <1>1. SlotLength \in Nat /\ SlotLength > 0
    BY SchedulerAssumption
  <1> QED BY <1>1 DEF SlotOf

\* Slots follow each other in time.
LEMMA SlotsOrdered ==
  ASSUME NEW k \in Nat, NEW s \in Nat, k * SlotLength < (s + 1) * SlotLength
  PROVE  k <= s
PROOF
  <1>1. SlotLength \in Nat /\ SlotLength > 0
    BY SchedulerAssumption
  <1>2. CASE s + 1 <= k
    <2>1. (s + 1) * SlotLength <= k * SlotLength
      BY <1>1, <1>2
    <2> QED BY <1>1, <2>1
  <1> QED BY <1>2

\* The clock shows times of the modelled slots.
LEMMA SlotInRange ==
  ASSUME NEW t \in 0 .. MaxTime
  PROVE  SlotOf(t) \in Slots
PROOF
  <1>1. SlotLength \in Nat /\ SlotLength > 0 /\ MaxTime \in Nat
    BY SchedulerAssumption
  <1>2. t \div SlotLength \in Nat /\ MaxTime \div SlotLength \in Nat
    BY <1>1
  <1>3. t \div SlotLength <= MaxTime \div SlotLength
    BY <1>1, <1>2
  <1> QED BY <1>2, <1>3 DEF SlotOf, Slots

\* The timer is armed for the first slot after t, or for t itself.
LEMMA NextSlotIsSlot ==
  ASSUME NEW t \in Nat, NEW inclusive \in BOOLEAN
  PROVE  \E k \in Nat :
           /\ NextSlotTime(t, inclusive) = k * SlotLength
           /\ NextSlotTime(t, inclusive) \in Nat
           /\ NextSlotTime(t, inclusive) >= t
           /\ \A s \in Nat : s < k => s * SlotLength <= t
           /\ inclusive => \A s \in Nat : s < k => s * SlotLength < t
           /\ ~inclusive => k = SlotOf(t) + 1
PROOF
  <1> DEFINE s0 == SlotOf(t)
             m == s0 * SlotLength
  <1>1. /\ s0 \in Nat /\ m \in Nat /\ m <= t /\ t < m + SlotLength
        /\ (s0 + 1) * SlotLength = m + SlotLength /\ SlotLength \in Nat \ {0}
    BY SlotBegins, SchedulerAssumption
  <1>2. ASSUME NEW s \in Nat, s <= s0 PROVE s * SlotLength <= m /\ s * SlotLength \in Nat
    BY <1>1, <1>2
  <1>3. ASSUME NEW s \in Nat, s < s0 PROVE s * SlotLength < m /\ s * SlotLength \in Nat
    <2>1. s + 1 \in Nat /\ s + 1 <= s0
      BY <1>1, <1>3
    <2>2. (s + 1) * SlotLength <= m
      BY <1>2, <2>1
    <2>3. s * SlotLength \in Nat /\ (s + 1) * SlotLength = s * SlotLength + SlotLength
      BY <1>1
    <2> HIDE DEF m, s0
    <2> QED BY <1>1, <2>2, <2>3
  <1>4. CASE inclusive /\ t = m
    <2>1. NextSlotTime(t, inclusive) = m
      BY <1>4 DEF NextSlotTime
    <2>2. \A s \in Nat : s < s0 => s * SlotLength < t /\ s * SlotLength <= t
      <3> HIDE DEF m, s0
      <3> QED BY <1>1, <1>3, <1>4
    <2>3. s0 \in Nat
      BY <1>1
    <2> WITNESS s0 \in Nat
    <2> QED BY <1>1, <1>4, <2>1, <2>2
  <1>5. CASE ~(inclusive /\ t = m)
    <2>1. NextSlotTime(t, inclusive) = m + SlotLength
      BY <1>1, <1>5 DEF NextSlotTime
    <2>2. ASSUME NEW s \in Nat, s < s0 + 1
          PROVE  s * SlotLength <= t /\ (inclusive => s * SlotLength < t)
      <3>1. s <= s0
        BY <1>1, <2>2
      <3>2. s * SlotLength <= m /\ s * SlotLength \in Nat
        BY <1>2, <3>1
      <3> HIDE DEF m, s0
      <3> QED BY <1>1, <1>5, <3>2
    <2>3. s0 + 1 \in Nat
      BY <1>1
    <2> WITNESS s0 + 1 \in Nat
    <2>4. m + SlotLength \in Nat /\ m + SlotLength >= t
      BY <1>1
    <2> QED BY <1>1, <2>1, <2>2, <2>4
  <1> QED BY <1>4, <1>5
-----------------------------------------------------------------------------
(* Types.                                                                  *)

Timers ==
  {Free} \cup {Armed(due) : due \in Nat}
    \cup {Running(at, s, t) : at \in {"check", "publish"}, s \in Slots, t \in Nat}

SchedulerType == TypeOK /\ chain \in [Chains -> Timers]

\* What a timer chain is, by its label.
LEMMA TimerCases ==
  ASSUME NEW x \in Timers
  PROVE  \/ x = Free /\ x.at = "free"
         \/ x.at = "armed" /\ x.due \in Nat
         \/ x.at \in {"check", "publish"} /\ x.slot \in Slots /\ x.since \in Nat
  BY DEF Timers, Free, Armed, Running

LEMMA TimersMade ==
  /\ Free \in Timers
  /\ \A due \in Nat : Armed(due) \in Timers
  /\ \A at \in {"check", "publish"}, s \in Slots, t \in Nat : Running(at, s, t) \in Timers
  BY DEF Timers

\* The callback goes on to its publication.
LEMMA GoesOn ==
  ASSUME NEW x \in Timers, x.at = "check"
  PROVE  [x EXCEPT !.at = "publish"] = Running("publish", x.slot, x.since)
PROOF
  <1>1. PICK at \in {"check", "publish"}, s \in Slots, t \in Nat : x = Running(at, s, t)
    BY DEF Timers, Free, Armed
  <1> QED BY <1>1 DEF Running

\* What is left of a callback that ends: an armed timer of an active scheduler.
LEMMA ContinueEffect ==
  ASSUME SchedulerType, NEW c \in Chains, Continue(c)
  PROVE  LET due == NextSlotTime(now, FALSE) IN
         /\ due \in Nat
         /\ active => /\ nextRunAt' = due /\ timerId' = c
                      /\ chain' = [chain EXCEPT ![c] = Armed(due)]
         /\ ~active => /\ UNCHANGED <<nextRunAt, timerId>>
                       /\ chain' = [chain EXCEPT ![c] = Free]
PROOF
  <1>1. now \in Nat
    BY SchedulerAssumption DEF SchedulerType, TypeOK
  <1>2. NextSlotTime(now, FALSE) \in Nat
    BY <1>1, NextSlotIsSlot
  <1> QED BY <1>2 DEF Continue, ScheduleNextRun

\* The part of TypeOK about one chain, at time t.
TimerOK(x, t) ==
  \/ x = Free
  \/ x.at = "armed" /\ x.due \in Nat
  \/ x.at \in {"check", "publish"} /\ x.slot \in Slots /\ x.since \in 0 .. t

LEMMA TypeFacts ==
  ASSUME SchedulerType
  PROVE  /\ now \in 0 .. MaxTime /\ now \in Nat /\ SlotOf(now) \in Slots
         /\ active \in BOOLEAN /\ timerId \in Chains \cup {None}
         /\ nextRunAt \in IF active THEN Nat ELSE {None}
         /\ writes \in [Slots -> Nat] /\ activeFrom \in 0 .. now \cup {None}
         /\ failed \subseteq Slots /\ early \subseteq Nat
         /\ chain \in [Chains -> Timers]
         /\ \A c \in Chains : TimerOK(chain[c], now)
  BY SchedulerAssumption, SlotInRange DEF SchedulerType, TypeOK, Callbacks, TimerOK

LEMMA ChainsOK ==
  ASSUME chain' \in [Chains -> Timers], \A c \in Chains : TimerOK(chain'[c], now')
  PROVE  \A c \in Chains :
           \/ chain'[c] = Free
           \/ chain'[c].at = "armed" /\ chain'[c].due \in Nat
           \/ c \in Callbacks' /\ chain'[c].slot \in Slots /\ chain'[c].since \in 0 .. now'
  BY DEF Callbacks, TimerOK

\* One chain becomes another timer.
LEMMA ChainMoves ==
  ASSUME SchedulerType, NEW c \in Chains, NEW x \in Timers, TimerOK(x, now),
         chain' = [chain EXCEPT ![c] = x], now' = now
  PROVE  /\ chain' \in [Chains -> Timers]
         /\ \A d \in Chains : TimerOK(chain'[d], now')
         /\ chain'[c] = x
         /\ \A d \in Chains \ {c} : chain'[d] = chain[d]
  BY TypeFacts

LEMMA ContinueType ==
  ASSUME SchedulerType, NEW c \in Chains, Continue(c), now' = now, active' = active
  PROVE  /\ chain' \in [Chains -> Timers]
         /\ \A d \in Chains : TimerOK(chain'[d], now')
         /\ timerId' \in Chains \cup {None}
         /\ nextRunAt' \in IF active' THEN Nat ELSE {None}
PROOF
  <1>1. CASE active
    <2> DEFINE due == NextSlotTime(now, FALSE)
    <2>1. /\ due \in Nat /\ nextRunAt' = due /\ timerId' = c
          /\ chain' = [chain EXCEPT ![c] = Armed(due)]
      BY <1>1, ContinueEffect
    <2> HIDE DEF due
    <2>2. Armed(due) \in Timers /\ TimerOK(Armed(due), now)
      BY <2>1, TimersMade DEF Armed, TimerOK
    <2> QED BY <1>1, <2>1, <2>2, ChainMoves
  <1>2. CASE ~active
    <2>1. chain' = [chain EXCEPT ![c] = Free] /\ UNCHANGED <<nextRunAt, timerId>>
      BY <1>2, ContinueEffect
    <2>2. Free \in Timers /\ TimerOK(Free, now)
      BY TimersMade DEF TimerOK
    <2> QED BY <1>2, <2>1, <2>2, ChainMoves, TypeFacts
  <1> QED BY <1>1, <1>2

LEMMA TypeStep ==
  ASSUME SchedulerType, [Next]_vars
  PROVE  SchedulerType'
PROOF
  <1> USE TypeFacts
  <1> DEFINE ChainTypes == /\ chain' \in [Chains -> Timers]
                           /\ \A d \in Chains : TimerOK(chain'[d], now')
             Others == /\ now' \in 0 .. MaxTime /\ active' \in BOOLEAN
                       /\ timerId' \in Chains \cup {None}
                       /\ nextRunAt' \in IF active' THEN Nat ELSE {None}
                       /\ writes' \in [Slots -> Nat] /\ activeFrom' \in 0 .. now' \cup {None}
                       /\ failed' \subseteq Slots /\ early' \subseteq Nat
  <1>1. CASE Tick
    <2>1. now' \in 0 .. MaxTime /\ 0 .. now \subseteq 0 .. now'
      BY <1>1, SchedulerAssumption DEF Tick
    <2>2. ChainTypes
      BY <1>1, <2>1 DEF Tick, TimerOK
    <2>3. Others
      BY <1>1, <2>1 DEF Tick, history
    <2> QED BY <2>2, <2>3, ChainsOK DEF SchedulerType, TypeOK
  <1>2. CASE Start
    <2> DEFINE due == NextSlotTime(now, TRUE)
    <2>1. PICK c \in Chains : chain[c] = Free /\ ScheduleNextRun(c, TRUE)
      BY <1>2 DEF Start
    <2>2. due \in Nat
      BY NextSlotIsSlot
    <2>3. nextRunAt' = due /\ timerId' = c /\ chain' = [chain EXCEPT ![c] = Armed(due)]
      BY <2>1 DEF ScheduleNextRun
    <2> HIDE DEF due
    <2>4. Armed(due) \in Timers /\ TimerOK(Armed(due), now)
      BY <2>2, TimersMade DEF Armed, TimerOK
    <2>5. ChainTypes
      BY <1>2, <2>3, <2>4, ChainMoves DEF Start
    <2>6. Others
      BY <1>2, <2>2, <2>3 DEF Start, history
    <2> QED BY <2>5, <2>6, ChainsOK DEF SchedulerType, TypeOK
  <1>3. CASE Stop
    <2>1. Free \in Timers /\ TimerOK(Free, now)
      BY TimersMade DEF TimerOK
    <2>2. ChainTypes
      <3>1. CASE timerId = None
        BY <1>3, <3>1 DEF Stop
      <3>2. CASE timerId \in Chains
        BY <1>3, <2>1, <3>2, ChainMoves, SchedulerAssumption DEF Stop
      <3> QED BY <3>1, <3>2
    <2>3. Others
      BY <1>3 DEF Stop, history
    <2> QED BY <2>2, <2>3, ChainsOK DEF SchedulerType, TypeOK
  <1>4. ASSUME NEW c \in Chains, Fire(c) PROVE SchedulerType'
    <2> DEFINE x == Running("check", SlotOf(now), now)
    <2>1. x \in Timers /\ TimerOK(x, now)
      BY TimersMade DEF TimerOK, Running
    <2>2. ChainTypes
      BY <1>4, <2>1, ChainMoves DEF Fire
    <2>3. early' \subseteq Nat
      <3>1. CASE UNCHANGED early
        BY <3>1
      <3>2. CASE chain[c].due = now + 1 /\ early' = early \cup {SlotOf(chain[c].due)}
        BY <3>2, SlotBegins
      <3> QED BY <1>4, <3>1, <3>2 DEF Fire
    <2>4. Others
      BY <1>4, <2>3 DEF Fire
    <2> QED BY <2>2, <2>4, ChainsOK DEF SchedulerType, TypeOK
  <1>5. ASSUME NEW c \in Chains, Check(c) PROVE SchedulerType'
    <2>1. CASE Continue(c)
      <3>1. ChainTypes /\ timerId' \in Chains \cup {None}
              /\ nextRunAt' \in IF active' THEN Nat ELSE {None}
        BY <1>5, <2>1, ContinueType DEF Check
      <3>2. Others
        BY <1>5, <3>1 DEF Check, history
      <3> QED BY <3>1, <3>2, ChainsOK DEF SchedulerType, TypeOK
    <2>2. CASE chain' = [chain EXCEPT ![c].at = "publish"] /\ UNCHANGED <<nextRunAt, timerId>>
      <3> DEFINE x == Running("publish", chain[c].slot, chain[c].since)
      <3>1. chain' = [chain EXCEPT ![c] = x]
        BY <1>5, <2>2, GoesOn DEF Check
      <3>2. chain[c].slot \in Slots /\ chain[c].since \in 0 .. now
        BY <1>5 DEF Check, TimerOK, Free
      <3>3. x \in Timers /\ TimerOK(x, now)
        BY <3>2, TimersMade DEF TimerOK, Running
      <3>4. ChainTypes
        BY <1>5, <3>1, <3>3, ChainMoves DEF Check
      <3>5. Others
        BY <1>5, <2>2 DEF Check, history
      <3> QED BY <3>4, <3>5, ChainsOK DEF SchedulerType, TypeOK
    <2> QED BY <1>5, <2>1, <2>2 DEF Check
  <1>6. ASSUME NEW c \in Chains, Publish(c) PROVE SchedulerType'
    <2>1. ChainTypes /\ timerId' \in Chains \cup {None}
            /\ nextRunAt' \in IF active' THEN Nat ELSE {None}
      BY <1>6, ContinueType DEF Publish
    <2>2. chain[c].slot \in Slots
      BY <1>6 DEF Publish, TimerOK, Free
    <2>3. Others
      BY <1>6, <2>1, <2>2 DEF Publish
    <2> QED BY <2>1, <2>3, ChainsOK DEF SchedulerType, TypeOK
  <1>7. CASE Exit
    <2>1. ChainTypes
      BY <1>7, TimersMade DEF Exit, TimerOK
    <2>2. Others
      BY <1>7 DEF Exit, history
    <2> QED BY <2>1, <2>2, ChainsOK DEF SchedulerType, TypeOK
  <1>8. CASE UNCHANGED vars
    BY <1>8 DEF vars, history, SchedulerType, TypeOK, Callbacks
  <1> QED BY <1>1, <1>2, <1>3, <1>4, <1>5, <1>6, <1>7, <1>8 DEF Next

LEMMA TypeAlways == Spec => []SchedulerType
PROOF
  <1>1. Init => SchedulerType
    <2> SUFFICES ASSUME Init PROVE SchedulerType
      OBVIOUS
    <2>1. chain \in [Chains -> Timers]
      BY TimersMade DEF Init
    <2>2. 0 \in Slots /\ 0 \in 0 .. MaxTime
      <3>1. 0 \in 0 .. MaxTime
        BY SchedulerAssumption
      <3>2. SlotOf(0) \in Slots /\ SlotOf(0) \in Nat /\ SlotOf(0) * SlotLength <= 0
        BY <3>1, SlotInRange, SlotBegins
      <3> QED BY <3>1, <3>2, SchedulerAssumption DEF Slots
    <2> QED BY <2>1, <2>2, SchedulerAssumption DEF Init, SchedulerType, TypeOK
  <1>2. SchedulerType /\ [Next]_vars => SchedulerType'
    BY TypeStep
  <1> QED BY <1>1, <1>2, PTL DEF Spec

\* The scheduler's variables keep their types, whenever stop() is called.
THEOREM SchedulerTypeCorrect == Spec => []TypeOK
PROOF
  <1>1. SchedulerType => TypeOK
    BY DEF SchedulerType
  <1> QED BY TypeAlways, <1>1, PTL

-----------------------------------------------------------------------------
(* One chain of timers.                                                    *)

Busy(c) == chain[c].at # "free"

\* An active scheduler has exactly one timer or callback, an idle one none; stop()
\* knows the timer; and a callback that publishes found no edition of its slot,
\* which only it could have written since.
OneChain ==
  /\ \A c, d \in Chains : Busy(c) /\ Busy(d) => c = d
  /\ \A c \in Chains : chain[c].at = "armed" => timerId = c
  /\ timerId # None => chain[timerId].at = "armed"
  /\ active <=> \E c \in Chains : Busy(c)
  /\ \A c \in Chains : chain[c].at = "publish" => writes[chain[c].slot] = 0
  /\ PublishesOncePerSlot

LEMMA FreeIsNotBusy == Free.at = "free"
  BY DEF Free

\* The chain at work is the only one: the others are free before and after.
LEMMA OthersFree ==
  ASSUME SchedulerType, OneChain, NEW c \in Chains, Busy(c)
  PROVE  active /\ \A d \in Chains \ {c} : chain[d].at = "free"
  BY DEF OneChain, Busy

\* What is left of a callback that ends, when it was the only chain.
LEMMA ContinueAlone ==
  ASSUME SchedulerType, OneChain, NEW c \in Chains, Busy(c), Continue(c),
         now' = now, active' = active
  PROVE  /\ chain'[c].at = "armed" /\ chain'[c].due = NextSlotTime(now, FALSE)
         /\ timerId' = c /\ active'
         /\ \A d \in Chains \ {c} : chain'[d].at = "free"
PROOF
  <1> DEFINE due == NextSlotTime(now, FALSE)
  <1>1. active /\ \A d \in Chains \ {c} : chain[d].at = "free"
    BY OthersFree
  <1>2. due \in Nat /\ timerId' = c /\ chain' = [chain EXCEPT ![c] = Armed(due)]
    BY <1>1, ContinueEffect
  <1> HIDE DEF due
  <1>3. chain'[c] = Armed(due) /\ \A d \in Chains \ {c} : chain'[d] = chain[d]
    BY <1>2, TypeFacts
  <1>4. chain'[c].at = "armed" /\ chain'[c].due = due
    BY <1>3 DEF Armed
  <1>5. \A d \in Chains \ {c} : chain'[d].at = "free"
    BY <1>1, <1>3
  <1> QED BY <1>1, <1>2, <1>4, <1>5 DEF due

LEMMA OneChainStep ==
  ASSUME StopsBetweenCallbacks, SchedulerType, OneChain, [Next]_vars
  PROVE  OneChain'
PROOF
  <1> USE TypeFacts DEF Busy, PublishesOncePerSlot
  <1>1. CASE Tick
    BY <1>1 DEF Tick, OneChain
  <1>2. CASE Start
    <2> DEFINE due == NextSlotTime(now, TRUE)
    <2>1. PICK c \in Chains : chain[c] = Free /\ ScheduleNextRun(c, TRUE)
      BY <1>2 DEF Start
    <2>2. timerId' = c /\ chain' = [chain EXCEPT ![c] = Armed(due)]
      BY <2>1 DEF ScheduleNextRun
    <2>3. chain'[c].at = "armed" /\ \A d \in Chains \ {c} : chain'[d].at = "free"
      BY <1>2, <2>2 DEF Armed, Start, OneChain
    <2> QED BY <1>2, <2>2, <2>3 DEF Start, OneChain
  <1>3. CASE Stop
    <2>1. Callbacks = {} /\ \A c \in Chains : chain[c].at \notin {"check", "publish"}
      BY <1>3, SchedulerAssumption DEF Stop, Stoppable, StopsBetweenCallbacks, Callbacks
    <2>2. \A c \in Chains : chain'[c].at = "free"
      <3>1. \A c \in Chains : chain[c].at \in {"free", "armed"}
        BY <2>1, FreeIsNotBusy DEF TimerOK
      <3>2. CASE timerId = None
        BY <1>3, <3>1, <3>2, SchedulerAssumption DEF Stop, OneChain
      <3>3. CASE timerId \in Chains
        BY <1>3, <3>1, <3>3, FreeIsNotBusy, SchedulerAssumption DEF Stop, OneChain
      <3> QED BY <3>2, <3>3
    <2> QED BY <1>3, <2>2 DEF Stop, OneChain
  <1>4. ASSUME NEW c \in Chains, Fire(c) PROVE OneChain'
    <2>1. Busy(c)
      BY <1>4 DEF Fire
    <2>2. chain'[c].at = "check"
      BY <1>4 DEF Fire, Running
    <2>3. active /\ \A d \in Chains \ {c} : chain'[d].at = "free"
      BY <1>4, <2>1, OthersFree DEF Fire
    <2> QED BY <1>4, <2>2, <2>3, SchedulerAssumption DEF Fire, OneChain
  <1>5. ASSUME NEW c \in Chains, Check(c) PROVE OneChain'
    <2>1. Busy(c)
      BY <1>5 DEF Check
    <2>2. CASE Continue(c)
      <3>1. /\ chain'[c].at = "armed" /\ timerId' = c /\ active'
            /\ \A d \in Chains \ {c} : chain'[d].at = "free"
        BY <1>5, <2>1, <2>2, ContinueAlone DEF Check
      <3> QED BY <1>5, <3>1 DEF Check, OneChain
    <2>3. CASE /\ writes[chain[c].slot] = 0
               /\ chain' = [chain EXCEPT ![c].at = "publish"] /\ UNCHANGED <<nextRunAt, timerId>>
      <3>1. chain'[c] = Running("publish", chain[c].slot, chain[c].since)
        BY <1>5, <2>3, GoesOn DEF Check
      <3>2. chain'[c].at = "publish" /\ chain'[c].slot = chain[c].slot
        BY <3>1 DEF Running
      <3>3. active /\ \A d \in Chains \ {c} : chain'[d].at = "free"
        BY <2>1, <2>3, OthersFree
      <3>4. timerId = None
        BY <1>5, <2>1 DEF Check, OneChain
      <3> QED BY <1>5, <2>3, <3>2, <3>3, <3>4 DEF Check, OneChain
    <2> QED BY <1>5, <2>2, <2>3 DEF Check
  <1>6. ASSUME NEW c \in Chains, Publish(c) PROVE OneChain'
    <2>1. Busy(c)
      BY <1>6 DEF Publish
    <2>2. /\ chain'[c].at = "armed" /\ timerId' = c /\ active'
          /\ \A d \in Chains \ {c} : chain'[d].at = "free"
      BY <1>6, <2>1, ContinueAlone DEF Publish
    <2>3. writes[chain[c].slot] = 0 /\ chain[c].slot \in Slots
      BY <1>6, FreeIsNotBusy DEF Publish, OneChain, TimerOK
    <2>4. PublishesOncePerSlot'
      BY <1>6, <2>3 DEF Publish, OneChain
    <2> QED BY <2>2, <2>4, SchedulerAssumption DEF OneChain
  <1>7. CASE Exit
    <2>1. \A c \in Chains : chain'[c].at = "free"
      BY <1>7, FreeIsNotBusy DEF Exit
    <2> QED BY <1>7, <2>1 DEF Exit, OneChain
  <1>8. CASE UNCHANGED vars
    BY <1>8 DEF vars, OneChain
  <1> QED BY <1>1, <1>2, <1>3, <1>4, <1>5, <1>6, <1>7, <1>8 DEF Next

LEMMA OneChainAlways ==
  ASSUME StopsBetweenCallbacks
  PROVE  Spec => [](SchedulerType /\ OneChain)
PROOF
  <1>1. Init => OneChain
    BY FreeIsNotBusy DEF Init, OneChain, Busy, PublishesOncePerSlot
  <1>2. SchedulerType /\ OneChain /\ [Next]_vars => OneChain'
    BY OneChainStep
  <1> QED BY <1>1, <1>2, TypeAlways, PTL DEF Spec

\* No edition file is written twice, whatever fails, exits and starts again.
THEOREM WritesOncePerSlot ==
  ASSUME StopsBetweenCallbacks
  PROVE  Spec => []PublishesOncePerSlot
PROOF
  <1>1. OneChain => PublishesOncePerSlot
    BY DEF OneChain
  <1> QED BY OneChainAlways, <1>1, PTL

-----------------------------------------------------------------------------
(* No slot is passed over.                                                 *)

\* A publication that begins with its slot ends before the next one.
Prompt == StopsBetweenCallbacks /\ MaxDuration < SlotLength

Settled(s) == writes[s] > 0 \/ s \in failed \cup early

\* The scheduler was not active, or has done its part, for the slots before k.
Passed(k) == \A s \in Slots : s < k /\ s * SlotLength >= activeFrom => Settled(s)

\* An armed timer waits for the slot after the last one passed.
Waits(c) ==
  \E k \in Nat : chain[c].due = k * SlotLength /\ now <= chain[c].due /\ Passed(k)

\* A callback began with the slot it publishes, or just before the slot for which
\* its timer was early, and has not run for long.
Works(c) ==
  /\ now <= chain[c].since + MaxDuration
  /\ \E k \in Nat :
       /\ Passed(k)
       /\ \/ chain[c].since = k * SlotLength /\ chain[c].slot = k
          \/ chain[c].since + 1 = k * SlotLength /\ k \in early

OnTrack ==
  /\ active => activeFrom # None
  /\ \A c \in Chains : /\ chain[c].at = "armed" => Waits(c)
                       /\ chain[c].at \in {"check", "publish"} => Works(c)

LEMMA SlotOfStart ==
  ASSUME NEW k \in Nat
  PROVE  k * SlotLength \in Nat /\ SlotOf(k * SlotLength) = k
PROOF
  <1> DEFINE t == k * SlotLength
             q == SlotOf(t)
  <1>1. t \in Nat /\ (k + 1) * SlotLength = t + SlotLength /\ SlotLength \in Nat \ {0}
    BY SchedulerAssumption
  <1>2. q \in Nat /\ q * SlotLength <= t /\ t < (q + 1) * SlotLength /\ q * SlotLength \in Nat
    BY <1>1, SlotBegins
  <1>3. k <= q
    BY <1>2, SlotsOrdered
  <1>4. q * SlotLength < (k + 1) * SlotLength
    <2> HIDE DEF t, q
    <2> QED BY <1>1, <1>2
  <1>5. q <= k
    <2> HIDE DEF q
    <2> QED BY <1>2, <1>4, SlotsOrdered
  <1> HIDE DEF q
  <1>6. q = k
    BY <1>2, <1>3, <1>5
  <1> QED BY <1>1, <1>6 DEF q

\* Time and the other chains do not undo what was settled.
LEMMA PassedStays ==
  ASSUME SchedulerType, NEW k \in Nat, Passed(k), activeFrom' = activeFrom,
         \A s \in Slots : writes'[s] >= writes[s], failed \subseteq failed', early \subseteq early',
         writes' \in [Slots -> Nat]
  PROVE  Passed(k)'
  BY TypeFacts DEF Passed, Settled

\* The slot that follows a callback's is next: none is left out.
LEMMA NextIsNext ==
  ASSUME Prompt, SchedulerType, NEW since \in Nat, NEW k \in Nat,
         now <= since + MaxDuration, since <= k * SlotLength
  PROVE  SlotOf(now) <= k
PROOF
  <1> DEFINE t == k * SlotLength
             q == SlotOf(now)
  <1>1. now \in Nat /\ MaxDuration \in Nat /\ SlotLength \in Nat /\ MaxDuration < SlotLength
    BY TypeFacts, SchedulerAssumption DEF Prompt
  <1>2. t \in Nat /\ (k + 1) * SlotLength = t + SlotLength
    BY <1>1
  <1>3. q \in Nat /\ q * SlotLength <= now /\ q * SlotLength \in Nat
    BY <1>1, SlotBegins
  <1>4. q * SlotLength < (k + 1) * SlotLength
    <2> HIDE DEF t, q
    <2>1. since <= t
      BY DEF t
    <2> QED BY <1>1, <1>2, <1>3, <2>1
  <1> HIDE DEF q
  <1>5. q <= k
    BY <1>3, <1>4, SlotsOrdered
  <1> QED BY <1>5 DEF q

\* A callback that ends when its slot is settled leaves a timer on track.
LEMMA ContinueWaits ==
  ASSUME Prompt, SchedulerType, OneChain, NEW c \in Chains, Continue(c),
         NEW s \in Slots, chain[c].slot = s, chain[c].at \in {"check", "publish"}, Works(c),
         now' = now, active' = active, activeFrom' = activeFrom,
         \A t \in Slots : writes'[t] >= writes[t], writes' \in [Slots -> Nat],
         failed \subseteq failed', early \subseteq early',
         Settled(s)'
  PROVE  Waits(c)'
PROOF
  <1>1. /\ chain[c].since \in Nat /\ now \in Nat
        /\ MaxDuration \in Nat /\ SlotLength \in Nat /\ MaxDuration < SlotLength
    BY TypeFacts, SchedulerAssumption, FreeIsNotBusy DEF TimerOK, Prompt
  <1>2. PICK k \in Nat :
          /\ Passed(k)
          /\ \/ chain[c].since = k * SlotLength /\ chain[c].slot = k
             \/ chain[c].since + 1 = k * SlotLength /\ k \in early
    BY DEF Works
  <1>3. Settled(k)'
    BY <1>2 DEF Settled
  <1>4. Passed(k)'
    BY <1>2, PassedStays
  <1>5. Passed(k + 1)'
    BY <1>3, <1>4 DEF Passed, Slots
  <1>6. chain[c].since <= k * SlotLength
    <2>1. k * SlotLength \in Nat
      BY <1>1
    <2> QED BY <1>1, <1>2, <2>1
  <1>7. PICK q \in Nat : q = SlotOf(now) /\ q <= k
    BY <1>1, <1>6, NextIsNext, SlotBegins DEF Works
  <1>8. Passed(q + 1)'
    BY <1>5, <1>7 DEF Passed, Slots
  <1>9. /\ NextSlotTime(now, FALSE) = (q + 1) * SlotLength
        /\ now <= NextSlotTime(now, FALSE)
    BY <1>1, <1>7, NextSlotIsSlot DEF NextSlotTime
  <1>10. chain'[c].due = NextSlotTime(now, FALSE)
    BY ContinueAlone DEF Busy
  <1>11. q + 1 \in Nat
    BY <1>7
  <1> QED BY <1>8, <1>9, <1>10, <1>11 DEF Waits

LEMMA OnTrackStep ==
  ASSUME Prompt, SchedulerType, OneChain, OnTrack, [Next]_vars
  PROVE  OnTrack'
PROOF
  <1> USE TypeFacts
  <1>0. SchedulerType' /\ StopsBetweenCallbacks
    BY TypeStep DEF Prompt
  <1>1. CASE Tick
    <2>1. \A k \in Nat : Passed(k) => Passed(k)'
      BY <1>1 DEF Tick, Passed, Settled, history
    <2>2. ASSUME NEW c \in Chains, chain[c].at = "armed" PROVE Waits(c)'
      <3>1. chain[c].due > now /\ chain[c].due \in Nat /\ now' = now + 1 /\ chain' = chain
        BY <1>1, <2>2, FreeIsNotBusy DEF Tick, ArmedTimers, TimerOK
      <3>2. Waits(c)
        BY <2>2 DEF OnTrack
      <3> QED BY <2>1, <3>1, <3>2 DEF Waits
    <2>3. ASSUME NEW c \in Chains, chain[c].at \in {"check", "publish"} PROVE Works(c)'
      <3>1. /\ now - chain[c].since < MaxDuration /\ now' = now + 1 /\ chain' = chain
            /\ chain[c].since \in Nat /\ early' = early
        BY <1>1, <2>3, FreeIsNotBusy DEF Tick, Callbacks, TimerOK, history
      <3>2. now' <= chain'[c].since + MaxDuration
        BY <3>1, SchedulerAssumption
      <3>3. Works(c)
        BY <2>3 DEF OnTrack
      <3> QED BY <2>1, <3>1, <3>2, <3>3 DEF Works
    <2> QED BY <1>1, <2>2, <2>3 DEF Tick, OnTrack
  <1>2. CASE Start
    <2> DEFINE due == NextSlotTime(now, TRUE)
    <2>1. PICK c \in Chains : chain[c] = Free /\ ScheduleNextRun(c, TRUE)
      BY <1>2 DEF Start
    <2>2. chain' = [chain EXCEPT ![c] = Armed(due)]
      BY <2>1 DEF ScheduleNextRun
    <2>3. chain'[c].at = "armed" /\ chain'[c].due = due
      BY <2>2 DEF Armed
    <2>4. \A d \in Chains \ {c} : chain'[d].at = "free"
      BY <1>2, <2>2 DEF Start, OneChain, Busy
    <2>5. PICK k \in Nat : /\ due = k * SlotLength /\ due >= now
                           /\ \A s \in Nat : s < k => s * SlotLength < now
      BY NextSlotIsSlot
    <2>6. now' = now /\ activeFrom' = now
      BY <1>2 DEF Start
    <2>7. Passed(k)'
      <3>1. ASSUME NEW s \in Slots, s < k PROVE ~(s * SlotLength >= now)
        <4>1. s \in Nat /\ s * SlotLength \in Nat /\ s * SlotLength < now
          BY <2>5, <3>1, SchedulerAssumption DEF Slots
        <4> QED BY <4>1
      <3> QED BY <2>6, <3>1 DEF Passed
    <2> HIDE DEF due
    <2>8. Waits(c)'
      BY <2>3, <2>5, <2>6, <2>7 DEF Waits
    <2> QED BY <2>3, <2>4, <2>6, <2>8, SchedulerAssumption DEF OnTrack
  <1>3. CASE Stop
    <2>1. ~active'
      BY <1>3 DEF Stop
    <2> QED BY <1>0, <2>1, OneChainStep DEF OneChain, OnTrack, Busy
  <1>4. ASSUME NEW c \in Chains, Fire(c) PROVE OnTrack'
    <2>1. /\ Busy(c) /\ chain[c].at = "armed" /\ chain[c].due \in Nat
          /\ UNCHANGED <<now, active, writes, activeFrom, failed>>
      BY <1>4, FreeIsNotBusy DEF Fire, Busy, TimerOK
    <2>2. /\ chain'[c].at = "check" /\ chain'[c].slot = SlotOf(now) /\ chain'[c].since = now
          /\ \A d \in Chains \ {c} : chain'[d].at = "free"
      <3>1. chain'[c] = Running("check", SlotOf(now), now)
        BY <1>4 DEF Fire
      <3>2. \A d \in Chains \ {c} : chain'[d].at = "free"
        BY <1>4, <2>1, OthersFree DEF Fire
      <3> QED BY <3>1, <3>2 DEF Running
    <2>3. PICK k \in Nat : chain[c].due = k * SlotLength /\ now <= chain[c].due /\ Passed(k)
      BY <2>1 DEF OnTrack, Waits
    <2>4. SlotOf(chain[c].due) = k
      BY <2>3, SlotOfStart
    <2>5. early \subseteq early'
      BY <1>4 DEF Fire
    <2>6. Passed(k)'
      BY <2>1, <2>3, <2>5, PassedStays
    <2>7. now \in Nat /\ now <= now + MaxDuration
      BY SchedulerAssumption
    <2>8. Works(c)'
      <3>1. CASE chain[c].due <= now
        <4>1. now = k * SlotLength /\ SlotOf(now) = k
          BY <2>1, <2>3, <2>4, <2>7, <3>1
        <4> QED BY <2>1, <2>2, <2>6, <2>7, <4>1 DEF Works
      <3>2. CASE chain[c].due = now + 1 /\ early' = early \cup {SlotOf(chain[c].due)}
        <4>1. now + 1 = k * SlotLength /\ k \in early'
          BY <2>3, <2>4, <3>2
        <4> QED BY <2>1, <2>2, <2>6, <2>7, <4>1 DEF Works
      <3> QED BY <1>4, <3>1, <3>2 DEF Fire
    <2> QED BY <2>1, <2>2, <2>8 DEF OnTrack
  <1>5. ASSUME NEW c \in Chains, Check(c) PROVE OnTrack'
    <2>1. /\ chain[c].at = "check" /\ Busy(c) /\ Works(c) /\ chain[c].slot \in Slots
          /\ UNCHANGED <<now, active, writes, activeFrom, failed, early>>
      BY <1>5, FreeIsNotBusy DEF Check, Busy, OnTrack, history, TimerOK
    <2>2. CASE Continue(c) /\ writes[chain[c].slot] > 0
      <3>1. PICK s \in Slots : s = chain[c].slot
        BY <2>1
      <3>2. Settled(s)'
        BY <2>1, <2>2, <3>1 DEF Settled
      <3>3. \A t \in Slots : writes'[t] >= writes[t]
        BY <2>1
      <3>4. Waits(c)'
        BY <2>1, <2>2, <3>1, <3>2, <3>3, ContinueWaits
      <3>5. chain'[c].at = "armed" /\ \A d \in Chains \ {c} : chain'[d].at = "free"
        BY <2>1, <2>2, ContinueAlone
      <3> QED BY <2>1, <3>4, <3>5 DEF OnTrack
    <2>3. CASE chain' = [chain EXCEPT ![c].at = "publish"]
      <3>1. chain'[c] = Running("publish", chain[c].slot, chain[c].since)
        BY <2>1, <2>3, GoesOn
      <3>2. /\ chain'[c].at = "publish" /\ chain'[c].slot = chain[c].slot
            /\ chain'[c].since = chain[c].since
        BY <3>1 DEF Running
      <3>3. \A d \in Chains \ {c} : chain'[d].at = "free"
        BY <2>1, <2>3, OthersFree
      <3>4. \A k \in Nat : Passed(k) => Passed(k)'
        BY <2>1 DEF Passed, Settled
      <3>5. Works(c)'
        BY <2>1, <3>2, <3>4 DEF Works
      <3> QED BY <2>1, <3>2, <3>3, <3>5 DEF OnTrack
    <2> QED BY <1>5, <2>2, <2>3 DEF Check
  <1>6. ASSUME NEW c \in Chains, Publish(c) PROVE OnTrack'
    <2>1. /\ chain[c].at = "publish" /\ Busy(c) /\ Works(c) /\ chain[c].slot \in Slots
          /\ UNCHANGED <<now, active, activeFrom, early>> /\ Continue(c)
      BY <1>6, FreeIsNotBusy DEF Publish, Busy, OnTrack, TimerOK
    <2>2. PICK s \in Slots : s = chain[c].slot
      BY <2>1
    <2>3. /\ \A t \in Slots : writes'[t] >= writes[t]
          /\ writes' \in [Slots -> Nat] /\ failed \subseteq failed' /\ Settled(s)'
      BY <1>6, <2>2 DEF Publish, Settled
    <2>4. Waits(c)'
      BY <2>1, <2>2, <2>3, ContinueWaits
    <2>5. chain'[c].at = "armed" /\ \A d \in Chains \ {c} : chain'[d].at = "free"
      BY <2>1, ContinueAlone
    <2> QED BY <2>1, <2>4, <2>5 DEF OnTrack
  <1>7. CASE Exit
    BY <1>7, FreeIsNotBusy DEF Exit, OnTrack
  <1>8. CASE UNCHANGED vars
    BY <1>8 DEF vars, history, OnTrack, Waits, Works, Passed, Settled
  <1> QED BY <1>1, <1>2, <1>3, <1>4, <1>5, <1>6, <1>7, <1>8 DEF Next

\* Where the chain is, every slot that is due has been passed.
LEMMA DueIsPassed ==
  ASSUME Prompt, SchedulerType, OneChain, OnTrack
  PROVE  PublishesPunctualSlots
PROOF
  <1> SUFFICES ASSUME NEW s \in DueSlots PROVE Settled(s)
    BY DEF PublishesPunctualSlots, Settled
  <1>1. /\ active /\ s \in Slots /\ s \in Nat /\ s + 1 \in Nat
        /\ s * SlotLength >= activeFrom /\ now >= (s + 1) * SlotLength
        /\ (s + 1) * SlotLength \in Nat
    BY SchedulerAssumption DEF DueSlots, Slots
  <1>2. PICK c \in Chains : Busy(c)
    BY <1>1 DEF OneChain
  <1>3. now \in Nat /\ MaxDuration \in Nat /\ SlotLength \in Nat /\ MaxDuration < SlotLength
    BY TypeFacts, SchedulerAssumption DEF Prompt
  <1>4. ASSUME NEW k \in Nat, now < k * SlotLength + SlotLength PROVE s + 1 <= k
    <2>1. (k + 1) * SlotLength = k * SlotLength + SlotLength /\ k * SlotLength \in Nat
      BY <1>3
    <2>2. (s + 1) * SlotLength < (k + 1) * SlotLength
      BY <1>1, <1>3, <1>4, <2>1
    <2> QED BY <1>1, <2>2, SlotsOrdered
  <1>5. ASSUME NEW k \in Nat, Passed(k), now < k * SlotLength + SlotLength PROVE Settled(s)
    <2>1. s < k
      BY <1>1, <1>4, <1>5
    <2> QED BY <1>1, <1>5, <2>1 DEF Passed
  <1>6. CASE chain[c].at = "armed"
    <2>1. PICK k \in Nat : chain[c].due = k * SlotLength /\ now <= chain[c].due /\ Passed(k)
      BY <1>6 DEF OnTrack, Waits
    <2>2. k * SlotLength \in Nat
      BY <1>3
    <2>3. now < k * SlotLength + SlotLength
      BY <1>3, <2>1, <2>2, SchedulerAssumption
    <2> QED BY <1>5, <2>1, <2>3
  <1>7. CASE chain[c].at \in {"check", "publish"}
    <2>1. now <= chain[c].since + MaxDuration /\ chain[c].since \in Nat
      BY <1>7, TypeFacts, FreeIsNotBusy DEF OnTrack, Works, TimerOK
    <2>2. PICK k \in Nat :
            /\ Passed(k)
            /\ \/ chain[c].since = k * SlotLength
               \/ chain[c].since + 1 = k * SlotLength
      BY <1>7 DEF OnTrack, Works
    <2>3. k * SlotLength \in Nat
      BY <1>3
    <2>4. now < k * SlotLength + SlotLength
      BY <1>3, <2>1, <2>2, <2>3
    <2> QED BY <1>5, <2>2, <2>4
  <1> QED BY <1>2, <1>6, <1>7, TypeFacts, FreeIsNotBusy DEF Busy, TimerOK

\* A slot reached while the scheduler was active is published before the next one,
\* unless its publication failed or its timer was early on the wall clock.
THEOREM PassesNoSlot ==
  ASSUME Prompt
  PROVE  Spec => []PublishesPunctualSlots
PROOF
  <1>1. StopsBetweenCallbacks
    BY DEF Prompt
  <1>2. Init => OnTrack
    BY FreeIsNotBusy DEF Init, OnTrack
  <1>3. SchedulerType /\ OneChain /\ OnTrack /\ [Next]_vars => OnTrack'
    BY OnTrackStep
  <1>4. SchedulerType /\ OneChain /\ OnTrack => PublishesPunctualSlots
    BY DueIsPassed
  <1>5. Spec => [](SchedulerType /\ OneChain)
    BY <1>1, OneChainAlways
  <1> QED BY <1>2, <1>3, <1>4, <1>5, PTL DEF Spec
=============================================================================
