----------------------------- MODULE EditionFiles -----------------------------
(***************************************************************************)
(* The local deployment: publishers (npm run publish:newsletter, an        *)
(* external cron job, the scheduler's worker) run the publication flow     *)
(* over the files of NEWSLETTER_DATA_DIR, with no lock between them.       *)
(*                                                                         *)
(* writeFile truncates the file when it opens it and fills it afterwards;  *)
(* a file that is read in between, or whose writer died, is not JSON.      *)
(* readPublishedEditions parses every edition file, so one such file makes *)
(* every read fail.                                                        *)
(***************************************************************************)
EXTENDS Naturals

CONSTANTS
  Publishers,  \* publisher processes that may be alive at once
  Faults,      \* a subset of FaultKinds
  MaxSlot,     \* the last publication slot
  Absent,      \* no such file
  Torn         \* a file that does not parse

FaultKinds == {"collect", "crash"}

ASSUME FilesAssumption ==
  /\ Faults \subseteq FaultKinds
  /\ MaxSlot \in Nat
  /\ Absent # Torn
  /\ Absent \notin Publishers /\ Torn \notin Publishers
  /\ \A S \in SUBSET (0 .. MaxSlot) : S # Absent /\ S # Torn

Slots == 0 .. MaxSlot

VARIABLES
  current,   \* the latest slot that was reached
  editions,  \* per slot: Absent, Torn, or the publisher whose edition it holds
  identity,  \* the item identity registry: Absent, Torn, or recorded slots
  pc, slot,  \* per publisher: where its flow is and the slot it publishes
  loaded,    \* per publisher: the registry it read
  shared,    \* per publisher: somebody else opened the file it is writing
  overlapped, \* history: two flows ran at the same time
  saved      \* history: the slots whose recording in the registry succeeded

files == <<editions, identity>>
vars == <<current, files, pc, slot, loaded, shared, overlapped, saved>>

Ended == {"idle", "returned", "failed"}
Goto(p, label) == pc' = [pc EXCEPT ![p] = label]

EditionsReadable == \A s \in Slots : editions[s] # Torn
Recorded == IF identity = Absent THEN {} ELSE identity

Init ==
  /\ current = 0
  /\ editions = [s \in Slots |-> Absent]
  /\ identity = Absent
  /\ pc = [p \in Publishers |-> "idle"]
  /\ slot = [p \in Publishers |-> 0]
  /\ loaded = [p \in Publishers |-> {}]
  /\ shared = [p \in Publishers |-> FALSE]
  /\ overlapped = FALSE
  /\ saved = {}

NextSlot ==
  /\ current < MaxSlot
  /\ current' = current + 1
  /\ UNCHANGED <<files, pc, slot, loaded, shared, overlapped, saved>>

\* publishEdition: the plan is the latest slot.
Begin(p) ==
  /\ pc[p] \in Ended
  /\ slot' = [slot EXCEPT ![p] = current]
  /\ Goto(p, "check")
  /\ overlapped' = (overlapped \/ \E q \in Publishers \ {p} : pc[q] \notin Ended)
  /\ UNCHANGED <<current, files, loaded, shared, saved>>

\* Mutant: the flow never looks for an existing edition.
CheckSkipped(p) ==
  /\ pc[p] = "check"
  /\ Goto(p, "collect")
  /\ UNCHANGED <<current, files, slot, loaded, shared, overlapped, saved>>

\* loadPublishedEditionForPlan returns an edition that is already there.
Check(p) ==
  /\ pc[p] = "check"
  /\ \/ /\ ~EditionsReadable
        /\ Goto(p, "failed")
     \/ /\ EditionsReadable /\ editions[slot[p]] # Absent
        /\ Goto(p, "returned")
     \/ /\ EditionsReadable /\ editions[slot[p]] = Absent
        /\ Goto(p, "collect")
  /\ UNCHANGED <<current, files, slot, loaded, shared, overlapped, saved>>

\* Aggregation and discovery take long; then the tracked states are loaded.
Collect(p) ==
  /\ pc[p] = "collect"
  /\ \/ /\ EditionsReadable /\ identity # Torn
        /\ Goto(p, "openEdition")
     \/ /\ "collect" \in Faults \/ ~EditionsReadable \/ identity = Torn
        /\ Goto(p, "failed")
  /\ UNCHANGED <<current, files, slot, loaded, shared, overlapped, saved>>

\* Publishers that have the same file open for writing.
Writers(label, s) == {q \in Publishers : pc[q] = label /\ slot[q] = s}

\* Opening truncates; from then on all writers of the file share it.
OpenShared(p, others) ==
  shared' = [q \in Publishers |->
               IF q = p THEN others # {}
               ELSE IF q \in others THEN TRUE ELSE shared[q]]

OpenEdition(p) ==
  /\ pc[p] = "openEdition"
  /\ editions' = [editions EXCEPT ![slot[p]] = Torn]
  /\ OpenShared(p, Writers("writeEdition", slot[p]))
  /\ Goto(p, "writeEdition")
  /\ UNCHANGED <<current, identity, slot, loaded, overlapped, saved>>

\* Writers that share a file may leave a mixture of both texts.
WriteEdition(p) ==
  /\ pc[p] = "writeEdition"
  /\ \E text \in IF shared[p] THEN {p, Torn} ELSE {p} :
       editions' = [editions EXCEPT ![slot[p]] = text]
  /\ Goto(p, "loadIdentity")
  /\ UNCHANGED <<current, identity, slot, loaded, shared, overlapped, saved>>

\* recordEdition: load, merge, save.
LoadIdentity(p) ==
  /\ pc[p] = "loadIdentity"
  /\ \/ /\ identity = Torn
        /\ Goto(p, "failed")
        /\ UNCHANGED loaded
     \/ /\ identity # Torn
        /\ loaded' = [loaded EXCEPT ![p] = Recorded]
        /\ Goto(p, "openIdentity")
  /\ UNCHANGED <<current, files, slot, shared, overlapped, saved>>

OpenIdentity(p) ==
  /\ pc[p] = "openIdentity"
  /\ identity' = Torn
  /\ OpenShared(p, {q \in Publishers : pc[q] = "writeIdentity"})
  /\ Goto(p, "writeIdentity")
  /\ UNCHANGED <<current, editions, slot, loaded, overlapped, saved>>

\* Mutant: what was loaded is not merged.
WriteIdentityAlone(p) ==
  /\ pc[p] = "writeIdentity"
  /\ identity' = {slot[p]}
  /\ saved' = saved \cup {slot[p]}
  /\ Goto(p, "returned")
  /\ UNCHANGED <<current, editions, slot, loaded, shared, overlapped>>

\* Mutant: the latest slot is recorded instead of the edition's.
WriteIdentityLatest(p) ==
  /\ pc[p] = "writeIdentity"
  /\ identity' = loaded[p] \cup {current}
  /\ saved' = saved \cup {slot[p]}
  /\ Goto(p, "returned")
  /\ UNCHANGED <<current, editions, slot, loaded, shared, overlapped>>

WriteIdentity(p) ==
  /\ pc[p] = "writeIdentity"
  /\ LET merged == loaded[p] \cup {slot[p]} IN
       \E text \in IF shared[p] THEN {merged, Torn} ELSE {merged} : identity' = text
  /\ saved' = saved \cup {slot[p]}
  /\ Goto(p, "returned")
  /\ UNCHANGED <<current, editions, slot, loaded, shared, overlapped>>

\* The process dies: what it had open stays as it is.
Crash(p) ==
  /\ "crash" \in Faults
  /\ pc[p] \notin Ended
  /\ Goto(p, "failed")
  /\ UNCHANGED <<current, files, slot, loaded, shared, overlapped, saved>>

Step(p) ==
  \/ Check(p) \/ Collect(p) \/ OpenEdition(p) \/ WriteEdition(p)
  \/ LoadIdentity(p) \/ OpenIdentity(p) \/ WriteIdentity(p)

Next == NextSlot \/ \E p \in Publishers : Begin(p) \/ Step(p) \/ Crash(p)

Spec == Init /\ [][Next]_vars

-----------------------------------------------------------------------------
TypeOK ==
  /\ current \in Slots
  /\ editions \in [Slots -> Publishers \cup {Absent, Torn}]
  /\ identity \in {Absent, Torn} \/ identity \in SUBSET Slots
  /\ pc \in [Publishers -> Ended \cup
              {"check", "collect", "openEdition", "writeEdition",
               "loadIdentity", "openIdentity", "writeIdentity"}]
  /\ slot \in [Publishers -> Slots]
  /\ loaded \in [Publishers -> SUBSET Slots]
  /\ shared \in [Publishers -> BOOLEAN]
  /\ overlapped \in BOOLEAN
  /\ saved \subseteq Slots

\* As long as publishers take turns, the edition of a slot, once written, is
\* never replaced nor destroyed, whichever of them crashes and starts again.
PublishedEditionStands ==
  [][\A s \in Slots :
       ~overlapped' /\ editions[s] \notin {Absent, Torn}
         => editions'[s] = editions[s]]_vars

\* Even publishers that overlap never record an edition that was not written.
RecordedWasWritten ==
  identity # Torn => \A s \in Recorded : editions[s] # Absent

\* As long as publishers take turns, no recording of an edition disappears.
RecordingsStand == ~overlapped /\ identity # Torn => saved \subseteq Recorded
=============================================================================
