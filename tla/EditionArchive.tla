---------------------------- MODULE EditionArchive ----------------------------
(***************************************************************************)
(* What the publisher promises its readers: an archive that only grows, by *)
(* at most one edition per slot and in slot order, in which every item     *)
(* carries the number of editions it has appeared in so far.               *)
(***************************************************************************)
EXTENDS Naturals, FiniteSets

CONSTANTS
  Items,  \* stable item identities
  Slots,  \* publication slots, natural numbers
  None    \* no edition

VARIABLE archive

Init == archive = [s \in Slots |-> None]

Published == {s \in Slots : archive[s] # None}

\* The position of item i among the editions that contain it.
Position(i) == Cardinality({s \in Published : archive[s][i] > 0}) + 1

Append(s) ==
  /\ \A t \in Published : t < s
  /\ \E chosen \in SUBSET Items :
       archive' = [archive EXCEPT ![s] =
                     [i \in Items |-> IF i \in chosen THEN Position(i) ELSE 0]]

Next == \E s \in Slots : Append(s)

Spec == Init /\ [][Next]_archive
=============================================================================
