---------------------------- MODULE PeriodProofs ----------------------------
(***************************************************************************)
(* Proofs about PeriodStores.tla, for any number of months.                *)
(***************************************************************************)
EXTENDS PeriodStores, TLAPS

\* The helpers of the two stores are expanded everywhere.
USE DEF Period, Mem!Period, Sql!Period, Sql!Status, Mem!RaisedMark, Sql!ReSealed

\* Every variable keeps its type, whatever is locked, sealed through or unlocked.
THEOREM TypeCorrect == Spec => []TypeOK
  <1> USE MonthsAssumption
  <1>1. Init => TypeOK
    <2> SUFFICES ASSUME Init PROVE TypeOK
      OBVIOUS
    <2>1. rows \in [Period -> Sql!Status]
      BY DEF Init, Sql!Init
    <2>2. /\ lockedSet \subseteq Period /\ through \in 0..Months
          /\ reopened \subseteq Period
      BY DEF Init, Mem!Init
    <2>3. parted \in BOOLEAN
      BY DEF Init
    <2>4. QED
      BY <2>1, <2>2, <2>3 DEF TypeOK
  <1>2. TypeOK /\ [Next]_vars => TypeOK'
    <2> SUFFICES ASSUME TypeOK, [Next]_vars PROVE TypeOK'
      OBVIOUS
    <2>1. ASSUME NEW p \in Period, Lock(p)
          PROVE  TypeOK'
      BY <2>1 DEF Lock, Mem!Lock, Sql!Lock, TypeOK
    <2>2. ASSUME NEW p \in Period, LockThrough(p)
          PROVE  TypeOK'
      <3>1. rows' \in [Period -> Sql!Status]
        BY <2>2 DEF LockThrough, Sql!LockThrough, TypeOK
      <3>2. through' \in 0..Months
        BY <2>2 DEF LockThrough, Mem!LockThrough, TypeOK
      <3>3. reopened' \subseteq reopened /\ lockedSet' = lockedSet
        BY <2>2 DEF LockThrough, Mem!LockThrough
      <3>4. parted' \in BOOLEAN
        BY <2>2 DEF LockThrough, TypeOK
      <3>5. QED
        BY <3>1, <3>2, <3>3, <3>4 DEF TypeOK
    <2>3. ASSUME NEW p \in Period, Unlock(p)
          PROVE  TypeOK'
      BY <2>3 DEF Unlock, Mem!Unlock, Sql!Unlock, TypeOK
    <2>4. CASE UNCHANGED vars
      BY <2>4 DEF vars, TypeOK
    <2>5. QED
      BY <2>1, <2>2, <2>3, <2>4 DEF Next
  <1>3. QED
    BY <1>1, <1>2, PTL DEF Spec

\* Only an unlock of that very period opens a period the in-memory store sealed,
\* and a high-water mark seals every period before it.
THEOREM MemImplementsPromise == Spec => MemKeepsPromise
  <1> USE MonthsAssumption DEF MemPromise!Period
  <1>1. Init => MemPromise!Init
    BY DEF Init, Mem!Init, MemPromise!Init, MemSealed, Mem!Locked
  <1>2. ASSUME TypeOK, [Next]_vars
        PROVE  [MemPromise!Next]_MemSealed
    <2> USE DEF MemSealed, Mem!Locked
    <2>1. ASSUME NEW p \in Period, Lock(p)
          PROVE  MemPromise!Lock(p)
      BY <1>2, <2>1 DEF Lock, Mem!Lock, MemPromise!Lock, TypeOK
    <2>2. ASSUME NEW p \in Period, LockThrough(p)
          PROVE  MemPromise!LockThrough(p)
      <3>1. MemSealed \cup 1..p \subseteq MemSealed'
        BY <1>2, <2>2 DEF LockThrough, Mem!LockThrough, TypeOK
      <3>2. MemSealed' \in SUBSET Period
        OBVIOUS
      <3>3. QED
        BY <3>1, <3>2 DEF MemPromise!LockThrough
    <2>3. ASSUME NEW p \in Period, Unlock(p)
          PROVE  MemPromise!Unlock(p)
      BY <1>2, <2>3 DEF Unlock, Mem!Unlock, MemPromise!Unlock, TypeOK
    <2>4. CASE UNCHANGED vars
      BY <2>4 DEF vars
    <2>5. QED
      BY <1>2, <2>1, <2>2, <2>3, <2>4 DEF Next, MemPromise!Next
  <1>3. QED
    BY <1>1, <1>2, TypeCorrect, PTL DEF Spec, MemKeepsPromise, MemPromise!Spec

-----------------------------------------------------------------------------
\* While nothing has parted the stores: the in-memory mark is the SQL store's
\* highest one, its exceptions are the OPEN rows the mark covers, and above the
\* mark the locked periods are the LOCKED rows.
SameMarks ==
  /\ through # 0 => rows[through] = "LOCKED_THROUGH"
  /\ \A p \in Period : rows[p] = "LOCKED_THROUGH" => p <= through
  /\ \A p \in Period : p <= through => (p \in reopened <=> rows[p] = "OPEN")
  /\ \A p \in Period : p > through => /\ p \notin reopened
                                      /\ p \in lockedSet <=> rows[p] = "LOCKED"

\* The stores report the same status of every period until a call parts them.
THEOREM StoresAgreeHolds == Spec => []StoresAgree
  <1> USE MonthsAssumption
  <1> DEFINE SInv == parted \/ SameMarks
  <1>1. Init => SInv
    BY DEF Init, Mem!Init, Sql!Init, SameMarks
  <1>2. TypeOK /\ SInv /\ [Next]_vars => SInv'
    <2> SUFFICES ASSUME TypeOK, SInv, [Next]_vars, ~parted' PROVE SameMarks'
      OBVIOUS
    <2> USE DEF SameMarks
    <2>1. ASSUME NEW p \in Period, Lock(p)
          PROVE  SameMarks'
      <3>1. SameMarks /\ ~TopMark(p)
        BY <2>1 DEF Lock
      <3>2. /\ rows'[p] = "LOCKED"
            /\ \A q \in Period : q # p => rows'[q] = rows[q]
        BY <2>1 DEF Lock, Sql!Lock, TypeOK
      <3>3. /\ lockedSet' = lockedSet \cup {p} /\ reopened' = reopened \ {p}
            /\ through' = through
        BY <2>1 DEF Lock, Mem!Lock
      <3>4. through # p
        BY <3>1 DEF TopMark
      <3>5. QED
        BY <3>1, <3>2, <3>3, <3>4 DEF TypeOK
    <2>2. ASSUME NEW p \in Period, LockThrough(p)
          PROVE  SameMarks'
      <3>1. SameMarks /\ ~KeepsException(p)
        BY <2>2 DEF LockThrough
      <3>2. /\ rows'[p] = "LOCKED_THROUGH"
            /\ \A q \in Period : q # p =>
                 rows'[q] = IF rows[q] = "OPEN" /\ q <= p THEN "none" ELSE rows[q]
        BY <2>2 DEF LockThrough, Sql!LockThrough
      <3>3. /\ lockedSet' = lockedSet
            /\ through' = IF p > through THEN p ELSE through
            /\ reopened' = {q \in reopened : q > through'}
        BY <2>2 DEF LockThrough, Mem!LockThrough
      <3>4. QED
        BY <3>1, <3>2, <3>3 DEF KeepsException, TypeOK
    <2>3. ASSUME NEW p \in Period, Unlock(p)
          PROVE  SameMarks'
      <3>1. SameMarks /\ ~TopMark(p)
        BY <2>3 DEF Unlock
      <3>2. /\ rows'[p] = "OPEN"
            /\ \A q \in Period : q # p => rows'[q] = rows[q]
        BY <2>3 DEF Unlock, Sql!Unlock, TypeOK
      <3>3. /\ lockedSet' = lockedSet \ {p} /\ through' = through
            /\ reopened' = IF p <= through THEN reopened \cup {p} ELSE reopened
        BY <2>3 DEF Unlock, Mem!Unlock
      <3>4. through # p
        BY <3>1 DEF TopMark
      <3>5. QED
        BY <3>1, <3>2, <3>3, <3>4 DEF TypeOK
    <2>4. CASE UNCHANGED vars
      BY <2>4 DEF vars
    <2>5. QED
      BY <2>1, <2>2, <2>3, <2>4 DEF Next
  <1>3. TypeOK /\ SInv => StoresAgree
    <2> SUFFICES ASSUME TypeOK, SameMarks, NEW p \in Period
                 PROVE  Mem!Locked(p) <=> Sql!Locked(p)
      BY DEF StoresAgree, MemSealed, SqlSealed
    <2>1. p <= through => Sql!Watermarked(p)
      BY DEF SameMarks, Sql!Watermarked, TypeOK
    <2>2. p > through => ~Sql!Watermarked(p) /\ rows[p] # "LOCKED_THROUGH"
      BY DEF SameMarks, Sql!Watermarked, TypeOK
    <2>3. p <= through \/ p > through
      BY DEF TypeOK
    <2>4. QED
      BY <2>1, <2>2, <2>3 DEF SameMarks, Mem!Locked, Sql!Locked, TypeOK
  <1>4. QED
    BY <1>1, <1>2, <1>3, TypeCorrect, PTL DEF Spec
-----------------------------------------------------------------------------
\* The calls that overwrite the row of the SQL store's highest mark.
OverwritesMark == \E p \in Period : TopMark(p) /\ (Lock(p) \/ Unlock(p))

\* Every other call keeps the contract in the SQL store too: the erased mark of
\* SqlKeepsPromise's counterexample is the only way a seal is lost there.
THEOREM SqlBreaksOnlyAtTheMark ==
  Spec => [][OverwritesMark \/ [SqlPromise!Next]_SqlSealed]_vars
  <1> USE MonthsAssumption DEF SqlPromise!Period
  <1>1. ASSUME TypeOK, [Next]_vars, ~OverwritesMark
        PROVE  [SqlPromise!Next]_SqlSealed
    <2> USE DEF SqlSealed, Sql!Locked, Sql!Watermarked
    <2>1. ASSUME NEW p \in Period, ~TopMark(p), rows' = [rows EXCEPT ![p] = "LOCKED"]
          PROVE  SqlPromise!Lock(p)
      <3>1. /\ rows'[p] = "LOCKED"
            /\ \A q \in Period : q # p => rows'[q] = rows[q]
        BY <1>1, <2>1 DEF TypeOK
      <3>2. \A q \in Period : q # p => (Sql!Watermarked(q) <=> Sql!Watermarked(q)')
        BY <2>1, <3>1 DEF TopMark
      <3>3. QED
        BY <3>1, <3>2 DEF SqlPromise!Lock
    <2>2. ASSUME NEW p \in Period, LockThrough(p)
          PROVE  SqlPromise!LockThrough(p)
      <3>1. /\ rows'[p] = "LOCKED_THROUGH"
            /\ \A q \in Period : q # p =>
                 rows'[q] = IF rows[q] = "OPEN" /\ q <= p THEN "none" ELSE rows[q]
        BY <2>2 DEF LockThrough, Sql!LockThrough
      <3>2. SqlSealed \cup 1..p \subseteq SqlSealed'
        BY <1>1, <3>1 DEF TypeOK
      <3>3. SqlSealed' \in SUBSET Period
        OBVIOUS
      <3>4. QED
        BY <3>2, <3>3 DEF SqlPromise!LockThrough
    <2>3. ASSUME NEW p \in Period, ~TopMark(p), rows' = [rows EXCEPT ![p] = "OPEN"]
          PROVE  SqlPromise!Unlock(p)
      <3>1. /\ rows'[p] = "OPEN"
            /\ \A q \in Period : q # p => rows'[q] = rows[q]
        BY <1>1, <2>3 DEF TypeOK
      <3>2. \A q \in Period : q # p => (Sql!Watermarked(q) <=> Sql!Watermarked(q)')
        BY <2>3, <3>1 DEF TopMark
      <3>3. QED
        BY <3>1, <3>2 DEF SqlPromise!Unlock
    <2>4. CASE UNCHANGED vars
      BY <2>4 DEF vars
    <2>5. ASSUME NEW p \in Period, Lock(p) \/ Unlock(p)
          PROVE  SqlPromise!Lock(p) \/ SqlPromise!Unlock(p)
      BY <1>1, <2>1, <2>3, <2>5 DEF OverwritesMark, Lock, Sql!Lock, Unlock, Sql!Unlock
    <2>6. QED
      BY <1>1, <2>2, <2>4, <2>5 DEF Next, SqlPromise!Next
  <1>2. QED
    BY <1>1, TypeCorrect, PTL DEF Spec
=============================================================================
