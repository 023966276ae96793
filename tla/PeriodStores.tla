---------------------------- MODULE PeriodStores ----------------------------
(***************************************************************************)
(* The two PeriodStore implementations under the same calls: the in-memory *)
(* one, which tests and the shadow ledger use, and the SQL one, which      *)
(* production wires to the posting engine.                                 *)
(***************************************************************************)
EXTENDS Integers

CONSTANT Months      \* the periods are 1..Months, in chronological order

ASSUME MonthsAssumption == Months \in Nat

VARIABLES
  lockedSet, through, reopened,  \* InMemoryPeriodStore
  rows,                          \* SqlPeriodStore
  parted                         \* history: a call on which the stores differ

vars == <<lockedSet, through, reopened, rows, parted>>

Mem == INSTANCE MemPeriods
Sql == INSTANCE SqlPeriods

Period == 1..Months

Init == Mem!Init /\ Sql!Init /\ parted = FALSE

\* p's row is the SQL store's highest mark: lock and unlock overwrite it, and
\* the mark is gone.  The in-memory mark is kept apart from the periods.
TopMark(p) == /\ rows[p] = "LOCKED_THROUGH"
              /\ \A q \in Period : rows[q] = "LOCKED_THROUGH" => q <= p

\* Re-sealing through p leaves an exception below the mark but above p: the
\* in-memory store clears every exception up to its mark, the SQL one up to p.
KeepsException(p) == \E q \in Period : rows[q] = "OPEN" /\ p < q /\ q <= through

Lock(p) ==
  /\ Mem!Lock(p)
  /\ Sql!Lock(p)
  /\ parted' = (parted \/ TopMark(p))

LockThrough(p) ==
  /\ Mem!LockThrough(p)
  /\ Sql!LockThrough(p)
  /\ parted' = (parted \/ KeepsException(p))

Unlock(p) ==
  /\ Mem!Unlock(p)
  /\ Sql!Unlock(p)
  /\ parted' = (parted \/ TopMark(p))

Next == \E p \in Period : Lock(p) \/ LockThrough(p) \/ Unlock(p)

Spec == Init /\ [][Next]_vars

-----------------------------------------------------------------------------
MemSealed == {p \in Period : Mem!Locked(p)}
SqlSealed == {p \in Period : Sql!Locked(p)}

\* Types of every variable.
TypeOK ==
  /\ lockedSet \subseteq Period
  /\ through \in 0..Months
  /\ reopened \subseteq Period
  /\ rows \in [Period -> Sql!Status]
  /\ parted \in BOOLEAN

MemPromise == INSTANCE PeriodSeal WITH sealed <- MemSealed
SqlPromise == INSTANCE PeriodSeal WITH sealed <- SqlSealed

\* The in-memory store keeps the PeriodStore contract: only an unlock of a
\* period opens it, and a high-water mark seals everything before it.
MemKeepsPromise == MemPromise!Spec

\* The tests' store stands for the production one: as long as nobody locks or
\* unlocks the period the top mark sits on, or seals through an earlier period
\* than the mark while one between is re-opened, both report the same status of
\* every period.
StoresAgree == parted \/ MemSealed = SqlSealed

\* The SQL store keeps the PeriodStore contract (periods.ts: "After this, status
\* reports LOCKED for any period <= the mark").
SqlKeepsPromise == SqlPromise!Spec
=============================================================================
