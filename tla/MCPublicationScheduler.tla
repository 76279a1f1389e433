----------------------- MODULE MCPublicationScheduler -----------------------
(* Small instances of PublicationScheduler for TLC. *)
EXTENDS PublicationScheduler
=============================================================================
