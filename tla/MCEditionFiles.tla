---------------------------- MODULE MCEditionFiles ----------------------------
(* Small instances of EditionFiles for TLC. *)
EXTENDS EditionFiles, TLC

PublisherSymmetry == Permutations(Publishers)
=============================================================================
