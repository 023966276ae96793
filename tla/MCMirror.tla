------------------------------ MODULE MCMirror ------------------------------
(* Mirror for TLC. *)
EXTENDS Mirror, TLC

Symmetry == Permutations(Refresher)
=============================================================================
