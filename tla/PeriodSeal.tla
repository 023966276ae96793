----------------------------- MODULE PeriodSeal -----------------------------
(***************************************************************************)
(* What the PeriodStore interface (ledger-kernel/src/periods.ts) promises  *)
(* about one tenant's accounting periods, whichever store implements it: a *)
(* period that is LOCKED opens by an unlock of that very period and by     *)
(* nothing else, and sealing through a period seals every earlier one.     *)
(***************************************************************************)
EXTENDS Integers

CONSTANT Months      \* the periods are 1..Months, in chronological order

Period == 1..Months

VARIABLE sealed      \* the periods whose status is LOCKED

Init == sealed = {}

Lock(p) == sealed' = sealed \cup {p}

\* A high-water mark: it may also re-seal what an earlier call sealed.
LockThrough(p) == /\ sealed' \in SUBSET Period
                  /\ sealed \cup 1..p \subseteq sealed'

Unlock(p) == sealed' = sealed \ {p}

Next == \E p \in Period : Lock(p) \/ LockThrough(p) \/ Unlock(p)

Spec == Init /\ [][Next]_sealed
=============================================================================
