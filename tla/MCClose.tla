------------------------------- MODULE MCClose -------------------------------
(***************************************************************************)
(* Close.tla with two concurrent requests by two people.                   *)
(***************************************************************************)
EXTENDS Close, TLC

\* Requests are alike, and so are people.
Symmetry == Permutations(Caller) \cup Permutations(Person)
=============================================================================
