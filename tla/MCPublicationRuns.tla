------------------------- MODULE MCPublicationRuns -------------------------
(* Small instances of PublicationRuns for TLC. *)
EXTENDS PublicationRuns, TLC

HandlerSymmetry == Permutations(Handlers)
=============================================================================
