--------------------------- MODULE MCCoreLifecycle ---------------------------
(* Bounded instances of CoreLifecycle for TLC. *)
EXTENDS CoreLifecycle
=============================================================================
