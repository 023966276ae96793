---------------------------- MODULE MCQboConnect ----------------------------
(* QboConnect for TLC: two callers in the web process, one in the recorder. *)
EXTENDS QboConnect, TLC

CONSTANTS c1, c2, c3, web, recorder

MCHome == (c1 :> web) @@ (c2 :> web) @@ (c3 :> recorder)
Symmetry == Permutations({c1, c2}) \cup Permutations(Grant)
=============================================================================
