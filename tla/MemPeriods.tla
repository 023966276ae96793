----------------------------- MODULE MemPeriods -----------------------------
(***************************************************************************)
(* InMemoryPeriodStore (ledger-kernel/src/periods.ts), one tenant.         *)
(***************************************************************************)
EXTENDS Integers

CONSTANT Months      \* the periods are 1..Months, in chronological order

Period == 1..Months

VARIABLES
  lockedSet,  \* locked: periods sealed one at a time
  through,    \* the high-water mark (0: none)
  reopened    \* exceptions: periods unlocked at or below the mark

Init == lockedSet = {} /\ through = 0 /\ reopened = {}

Locked(p) == p \notin reopened /\ (p \in lockedSet \/ p <= through)

Lock(p) ==
  /\ lockedSet' = lockedSet \cup {p}
  /\ reopened' = reopened \ {p}
  /\ UNCHANGED through

\* Map.set when the period is later than the mark.  Faults: whatever it is; the
\* month after it.
LastMark(p) == p
NextMonth(p) == IF p > through THEN p + 1 ELSE through
RaisedMark(p) == IF p > through THEN p ELSE through

LockThrough(p) ==
  /\ through' = RaisedMark(p)
  /\ reopened' = {q \in reopened : q > through'}
  /\ UNCHANGED lockedSet

Unlock(p) ==
  /\ lockedSet' = lockedSet \ {p}
  /\ reopened' = IF p <= through THEN reopened \cup {p} ELSE reopened
  /\ UNCHANGED through
=============================================================================
