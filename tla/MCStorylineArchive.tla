-------------------------- MODULE MCStorylineArchive --------------------------
(* Small instances of StorylineArchive for TLC. *)
EXTENDS StorylineArchive

CONSTANTS id1, id2, id3

ThreeIds == <<id1, id2, id3>>
\* Ids come up in their order: but for the order of the records they are alike.
IdsInOrder ==
  LET used == Known(states') \cup Published \cup {tracked[x].raw : x \in Published}
                \cup {latest'[n].raw : n \in 1 .. Len(latest')}
  IN used = {IdOrder[n] : n \in 1 .. Cardinality(used)}
=============================================================================
