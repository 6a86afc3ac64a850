--------------------------- MODULE MCServiceRuntime ---------------------------
(* Bounded instances of ServiceRuntime for TLC. *)
EXTENDS ServiceRuntime, TLC

\* Calls and processes are told apart only by what they do.
Symmetry == Permutations(Calls) \cup Permutations(Procs)
=============================================================================
