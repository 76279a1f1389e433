-------------------------- MODULE EditionFilesProofs --------------------------
(***************************************************************************)
(* What the local files keep without a lock: for any number of publishers  *)
(* and slots, whatever fails and crashes.                                  *)
(*                                                                         *)
(* That a recorded edition was written holds of publishers that overlap.   *)
(* The two promises for publishers that take turns need to know what the   *)
(* one flow under way has seen: nobody else moves, so what it read is      *)
(* still true when it writes.                                              *)
(***************************************************************************)
EXTENDS EditionFiles, TLAPS

Labels == Ended \cup {"check", "collect", "openEdition", "writeEdition",
                      "loadIdentity", "openIdentity", "writeIdentity"}

-----------------------------------------------------------------------------
(* Types.                                                                  *)

LEMMA InitType == Init => TypeOK
PROOF
  <1> SUFFICES ASSUME Init PROVE TypeOK
    OBVIOUS
  <1>1. 0 \in Slots
    BY FilesAssumption DEF Slots
  <1>2. slot \in [Publishers -> Slots] /\ loaded \in [Publishers -> SUBSET Slots]
    BY <1>1 DEF Init
  <1>3. shared \in [Publishers -> BOOLEAN]
    BY Zenon DEF Init
  <1> QED BY <1>1, <1>2, <1>3 DEF Init, TypeOK, Ended

LEMMA TypeStep ==
  ASSUME TypeOK, [Next]_vars
  PROVE  TypeOK'
PROOF
  <1> USE FilesAssumption DEF TypeOK, Slots, Ended, Goto
  <1>1. CASE NextSlot
    BY <1>1 DEF NextSlot, files
  <1>2. ASSUME NEW p \in Publishers, Begin(p) PROVE TypeOK'
    <2>1. overlapped' \in BOOLEAN
      BY <1>2 DEF Begin
    <2> QED BY <1>2, <2>1 DEF Begin, files
  <1>3. ASSUME NEW p \in Publishers, Check(p) PROVE TypeOK'
    BY <1>3 DEF Check, files
  <1>4. ASSUME NEW p \in Publishers, Collect(p) PROVE TypeOK'
    BY <1>4 DEF Collect, files
  <1>5. ASSUME NEW p \in Publishers, OpenEdition(p) PROVE TypeOK'
    <2>1. shared' \in [Publishers -> BOOLEAN]
      BY <1>5 DEF OpenEdition, OpenShared
    <2> QED BY <1>5, <2>1 DEF OpenEdition
  <1>6. ASSUME NEW p \in Publishers, WriteEdition(p) PROVE TypeOK'
    BY <1>6 DEF WriteEdition
  <1>7. ASSUME NEW p \in Publishers, LoadIdentity(p) PROVE TypeOK'
    BY <1>7 DEF LoadIdentity, Recorded, files
  <1>8. ASSUME NEW p \in Publishers, OpenIdentity(p) PROVE TypeOK'
    <2>1. shared' \in [Publishers -> BOOLEAN]
      BY <1>8 DEF OpenIdentity, OpenShared
    <2> QED BY <1>8, <2>1 DEF OpenIdentity
  <1>9. ASSUME NEW p \in Publishers, WriteIdentity(p) PROVE TypeOK'
    <2>1. /\ identity' \in {loaded[p] \cup {slot[p]}, Torn}
          /\ loaded[p] \cup {slot[p]} \in SUBSET Slots
          /\ saved' \subseteq Slots
      BY <1>9 DEF WriteIdentity
    <2> QED BY <1>9, <2>1 DEF WriteIdentity
  <1>10. ASSUME NEW p \in Publishers, Crash(p) PROVE TypeOK'
    BY <1>10 DEF Crash, files
  <1>11. CASE UNCHANGED vars
    BY <1>11 DEF vars, files
  <1> QED
    BY <1>1, <1>2, <1>3, <1>4, <1>5, <1>6, <1>7, <1>8, <1>9, <1>10, <1>11
    DEF Next, Step

\* The variables of the local deployment keep their types.
THEOREM FilesTypeCorrect == Spec => []TypeOK
PROOF
  <1>1. TypeOK /\ [Next]_vars => TypeOK'
    BY TypeStep
  <1> QED BY InitType, <1>1, PTL DEF Spec

-----------------------------------------------------------------------------
(* Publishers that overlap.                                                *)

\* Whatever a flow is about to record, and whatever it read, was written.
WrittenSoFar ==
  /\ \A p \in Publishers :
       /\ pc[p] \in {"writeEdition", "loadIdentity", "openIdentity", "writeIdentity"}
            => editions[slot[p]] # Absent
       /\ \A s \in loaded[p] : editions[s] # Absent
  /\ RecordedWasWritten

\* No step removes an edition file.
LEMMA EditionsStay ==
  ASSUME TypeOK, [Next]_vars
  PROVE  \A s \in Slots : editions[s] # Absent => editions'[s] # Absent
PROOF
  <1> USE FilesAssumption DEF TypeOK
  <1>1. ASSUME NEW p \in Publishers, OpenEdition(p)
        PROVE  \A s \in Slots : editions[s] # Absent => editions'[s] # Absent
    BY <1>1 DEF OpenEdition
  <1>2. ASSUME NEW p \in Publishers, WriteEdition(p)
        PROVE  \A s \in Slots : editions[s] # Absent => editions'[s] # Absent
    BY <1>2 DEF WriteEdition
  <1> QED
    BY <1>1, <1>2 DEF Next, Step, vars, files, NextSlot, Begin, Check, Collect,
                      LoadIdentity, OpenIdentity, WriteIdentity, Crash

LEMMA WrittenStep ==
  ASSUME TypeOK, WrittenSoFar, [Next]_vars
  PROVE  WrittenSoFar'
PROOF
  <1> USE FilesAssumption, EditionsStay
      DEF TypeOK, WrittenSoFar, RecordedWasWritten, Recorded, Ended, Goto
  <1>1. CASE NextSlot
    BY <1>1 DEF NextSlot, files
  <1>2. ASSUME NEW p \in Publishers, Begin(p) PROVE WrittenSoFar'
    BY <1>2 DEF Begin, files
  <1>3. ASSUME NEW p \in Publishers, Check(p) PROVE WrittenSoFar'
    BY <1>3 DEF Check, files
  <1>4. ASSUME NEW p \in Publishers, Collect(p) PROVE WrittenSoFar'
    BY <1>4 DEF Collect, files
  <1>5. ASSUME NEW p \in Publishers, OpenEdition(p) PROVE WrittenSoFar'
    <2>1. editions'[slot[p]] # Absent
      BY <1>5 DEF OpenEdition
    <2> QED BY <1>5, <2>1 DEF OpenEdition
  <1>6. ASSUME NEW p \in Publishers, WriteEdition(p) PROVE WrittenSoFar'
    <2>1. editions'[slot[p]] # Absent
      BY <1>6 DEF WriteEdition
    <2> QED BY <1>6, <2>1 DEF WriteEdition
  <1>7. ASSUME NEW p \in Publishers, LoadIdentity(p) PROVE WrittenSoFar'
    BY <1>7 DEF LoadIdentity, files
  <1>8. ASSUME NEW p \in Publishers, OpenIdentity(p) PROVE WrittenSoFar'
    BY <1>8 DEF OpenIdentity
  <1>9. ASSUME NEW p \in Publishers, WriteIdentity(p) PROVE WrittenSoFar'
    BY <1>9 DEF WriteIdentity
  <1>10. ASSUME NEW p \in Publishers, Crash(p) PROVE WrittenSoFar'
    BY <1>10 DEF Crash, files
  <1>11. CASE UNCHANGED vars
    BY <1>11 DEF vars, files
  <1> QED
    BY <1>1, <1>2, <1>3, <1>4, <1>5, <1>6, <1>7, <1>8, <1>9, <1>10, <1>11
    DEF Next, Step

\* Even publishers that overlap never record an edition that was not written.
THEOREM RecordsOnlyWritten == Spec => []RecordedWasWritten
PROOF
  <1>1. Init => WrittenSoFar
    BY FilesAssumption DEF Init, WrittenSoFar, RecordedWasWritten, Recorded
  <1>2. TypeOK /\ WrittenSoFar /\ [Next]_vars => WrittenSoFar'
    BY WrittenStep
  <1>3. WrittenSoFar => RecordedWasWritten
    BY DEF WrittenSoFar
  <1> QED BY FilesTypeCorrect, <1>1, <1>2, <1>3, PTL DEF Spec

-----------------------------------------------------------------------------
(* Publishers that take turns.                                             *)

\* The flow under way, while no two have overlapped: it is the only one, it
\* found no edition of its slot and has read every recording.
Solo(p) ==
  /\ \A q \in Publishers \ {p} : pc[q] \in Ended
  /\ pc[p] \in {"collect", "openEdition"} => editions[slot[p]] = Absent
  /\ pc[p] = "writeEdition" => editions[slot[p]] = Torn
  /\ pc[p] \in {"openIdentity", "writeIdentity"} => saved \subseteq loaded[p]

TakingTurns ==
  /\ ~overlapped => \A p \in Publishers : pc[p] \notin Ended => Solo(p)
  /\ RecordingsStand

LEMMA TurnsStep ==
  ASSUME TypeOK, TakingTurns, [Next]_vars
  PROVE  TakingTurns'
PROOF
  <1> USE FilesAssumption DEF TypeOK, TakingTurns, Solo, RecordingsStand, Recorded,
                              Ended, Goto
  <1>1. CASE NextSlot
    BY <1>1 DEF NextSlot, files
  <1>2. ASSUME NEW p \in Publishers, Begin(p) PROVE TakingTurns'
    BY <1>2 DEF Begin, files
  <1>3. ASSUME NEW p \in Publishers, Check(p) PROVE TakingTurns'
    BY <1>3 DEF Check, files
  <1>4. ASSUME NEW p \in Publishers, Collect(p) PROVE TakingTurns'
    BY <1>4 DEF Collect, files
  <1>5. ASSUME NEW p \in Publishers, OpenEdition(p) PROVE TakingTurns'
    BY <1>5 DEF OpenEdition
  <1>6. ASSUME NEW p \in Publishers, WriteEdition(p) PROVE TakingTurns'
    BY <1>6 DEF WriteEdition
  <1>7. ASSUME NEW p \in Publishers, LoadIdentity(p) PROVE TakingTurns'
    BY <1>7 DEF LoadIdentity, files
  <1>8. ASSUME NEW p \in Publishers, OpenIdentity(p) PROVE TakingTurns'
    BY <1>8 DEF OpenIdentity
  <1>9. ASSUME NEW p \in Publishers, WriteIdentity(p) PROVE TakingTurns'
    <2> DEFINE merged == loaded[p] \cup {slot[p]}
    <2>1. identity' \in {merged, Torn} /\ merged # Absent
      <3>1. merged \in SUBSET Slots
        OBVIOUS
      <3> QED BY <1>9, <3>1 DEF WriteIdentity, Slots
    <2>2. ASSUME ~overlapped' PROVE saved' \subseteq merged
      BY <1>9, <2>2 DEF WriteIdentity
    <2>3. RecordingsStand'
      BY <2>1, <2>2
    <2>4. ASSUME ~overlapped' PROVE \A q \in Publishers : pc'[q] \in Ended
      BY <1>9, <2>4 DEF WriteIdentity
    <2> QED BY <2>3, <2>4
  <1>10. ASSUME NEW p \in Publishers, Crash(p) PROVE TakingTurns'
    BY <1>10 DEF Crash, files
  <1>11. CASE UNCHANGED vars
    BY <1>11 DEF vars, files
  <1> QED
    BY <1>1, <1>2, <1>3, <1>4, <1>5, <1>6, <1>7, <1>8, <1>9, <1>10, <1>11
    DEF Next, Step

LEMMA TurnsAlways == Spec => [](TypeOK /\ TakingTurns)
PROOF
  <1>1. Init => TakingTurns
    BY FilesAssumption DEF Init, TakingTurns, RecordingsStand, Recorded, Ended
  <1>2. TypeOK /\ TakingTurns /\ [Next]_vars => TakingTurns'
    BY TurnsStep
  <1> QED BY FilesTypeCorrect, <1>1, <1>2, PTL DEF Spec

\* As long as publishers take turns, no recording of an edition disappears.
THEOREM RecordingsStay == Spec => []RecordingsStand
PROOF
  <1>1. TakingTurns => RecordingsStand
    BY DEF TakingTurns
  <1> QED BY TurnsAlways, <1>1, PTL

LEMMA StandsStep ==
  ASSUME TypeOK, TakingTurns, [Next]_vars, ~overlapped',
         NEW s \in Slots, editions[s] \notin {Absent, Torn}
  PROVE  editions'[s] = editions[s]
PROOF
  <1> USE DEF TypeOK, Ended
  <1>1. ASSUME NEW p \in Publishers, OpenEdition(p) PROVE editions'[s] = editions[s]
    <2>1. editions[slot[p]] = Absent
      BY <1>1 DEF OpenEdition, TakingTurns, Solo
    <2> QED BY <1>1, <2>1 DEF OpenEdition
  <1>2. ASSUME NEW p \in Publishers, WriteEdition(p) PROVE editions'[s] = editions[s]
    <2>1. editions[slot[p]] = Torn
      BY <1>2 DEF WriteEdition, TakingTurns, Solo
    <2> QED BY <1>2, <2>1 DEF WriteEdition
  <1> QED
    BY <1>1, <1>2 DEF Next, Step, vars, files, NextSlot, Begin, Check, Collect,
                      LoadIdentity, OpenIdentity, WriteIdentity, Crash

\* As long as publishers take turns, the edition of a slot, once written, is
\* never replaced nor destroyed, whichever of them crashes and starts again.
THEOREM EditionsStand == Spec => PublishedEditionStands
PROOF
  <1>1. TypeOK /\ TakingTurns /\ [Next]_vars
          => [\A s \in Slots : ~overlapped' /\ editions[s] \notin {Absent, Torn}
                                 => editions'[s] = editions[s]]_vars
    BY StandsStep
  <1> QED BY TurnsAlways, <1>1, PTL DEF Spec, PublishedEditionStands
=============================================================================
