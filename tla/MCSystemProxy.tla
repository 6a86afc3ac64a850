---------------------------- MODULE MCSystemProxy ----------------------------
(* Bounded instances of SystemProxy for TLC. *)
EXTENDS SystemProxy, TLC

\* Calls in flight are told apart only by what they do.
Symmetry == Permutations(Tasks)
=============================================================================
