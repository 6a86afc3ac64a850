-------------------------- MODULE MCCoreSupervision --------------------------
(* Bounded instances of CoreSupervision for TLC. *)
EXTENDS CoreSupervision
=============================================================================
