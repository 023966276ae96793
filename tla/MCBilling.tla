----------------------------- MODULE MCBilling -----------------------------
(* Billing for TLC: a plan for one business and a plan for any number. *)
EXTENDS Billing, TLC

CONSTANTS self, co

MCIncluded == [p \in Tier |-> 1]
MCPrice    == (self :> 1) @@ (co :> 2)
Symmetry   == Permutations(Request) \cup Permutations(Tenant)
=============================================================================
