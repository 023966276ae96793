----------------------------- MODULE SqlPeriods -----------------------------
(***************************************************************************)
(* SqlPeriodStore (ledger-postgres/src/pgPeriodStore.ts), one tenant: one  *)
(* row of ledger_period per period.  Every method is one transaction; the  *)
(* two statements of lockThrough write under row locks in one order, so    *)
(* each method takes effect at one moment.                                 *)
(***************************************************************************)
EXTENDS Integers

CONSTANT Months      \* the periods are 1..Months, in chronological order

Period == 1..Months

VARIABLE rows        \* period -> the status column ("none": no row)

Status == {"none", "OPEN", "LOCKED", "LOCKED_THROUGH"}

Init == rows = [p \in Period |-> "none"]

Watermarked(p) == \E m \in Period : rows[m] = "LOCKED_THROUGH" /\ m >= p

\* The row's own status decides; without a row, a mark above it does.
Locked(p) == \/ rows[p] \in {"LOCKED", "LOCKED_THROUGH"}
             \/ rows[p] = "none" /\ Watermarked(p)

Lock(p) == rows' = [rows EXCEPT ![p] = "LOCKED"]

\* The DELETE of the re-open exceptions the mark covers.  Fault: their own row
\* alone is replaced.
ExceptionsKept(q, p) == FALSE
ReSealed(q, p) == rows[q] = "OPEN" /\ q <= p

LockThrough(p) ==
  rows' = [q \in Period |-> IF q = p THEN "LOCKED_THROUGH"
                            ELSE IF ReSealed(q, p) THEN "none"
                            ELSE rows[q]]

Unlock(p) == rows' = [rows EXCEPT ![p] = "OPEN"]
=============================================================================
