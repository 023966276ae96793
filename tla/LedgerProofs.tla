---------------------------- MODULE LedgerProofs ----------------------------
(***************************************************************************)
(* Proofs about Ledger.tla, for any number of callers, keys and periods.   *)
(***************************************************************************)
EXTENDS Ledger, TLAPS

\* The one-line helpers of the actions are expanded everywhere.
USE DEF OppositeSides, Sealed, CounterFree, Rollback, WriteEntry

\* Every variable keeps its type in every step of the specification.
LEMMA TypeInit == Init => TypeOK
  BY DEF Init, TypeOK, Idle, Steps, InTxn

LEMMA TypeStart ==
  ASSUME TypeOK, NEW p \in Poster, NEW d \in Draft, Start(p, d)
  PROVE  TypeOK'
  BY DEF TypeOK, Start, Goto, store, Idle, Steps, InTxn

LEMMA TypeReturn ==
  ASSUME TypeOK, NEW p \in Poster, NEW e \in Entry, Return(p, e)
  PROVE  /\ pc' \in [Poster -> Idle \cup Steps]
         /\ draft' \in [Poster -> Draft \cup {None}]
         /\ \A x \in Poster : pc'[x] \in Steps => draft'[x] \in Draft
         /\ taken' \in [Poster -> Nat]
         /\ \A x \in Poster : pc'[x] \in InTxn => taken'[x] # 0
         /\ reply' \in [Poster -> Entry \cup {None}]
         /\ base' \in [Poster -> Nat]
         /\ wasOpen' \in [Poster -> BOOLEAN]
  BY DEF TypeOK, Return, Goto, Idle, Steps, InTxn

LEMMA TypeThrow ==
  ASSUME TypeOK, NEW p \in Poster, NEW o \in {"refused", "failed"}, Throw(p, o)
  PROVE  /\ pc' \in [Poster -> Idle \cup Steps]
         /\ draft' \in [Poster -> Draft \cup {None}]
         /\ \A x \in Poster : pc'[x] \in Steps => draft'[x] \in Draft
         /\ taken' \in [Poster -> Nat]
         /\ \A x \in Poster : pc'[x] \in InTxn => taken'[x] # 0
         /\ reply' \in [Poster -> Entry \cup {None}]
         /\ base' \in [Poster -> Nat]
         /\ wasOpen' \in [Poster -> BOOLEAN]
  BY DEF TypeOK, Throw, Goto, Idle, Steps, InTxn

LEMMA TypeEntryOf ==
  ASSUME NEW d \in Draft, NEW s \in Nat \ {0}
  PROVE  EntryOf(d, s) \in Entry
  BY DEF EntryOf, Draft, Entry

LEMMA TypeNext == TypeOK /\ [Next]_vars => TypeOK'
  <1> SUFFICES ASSUME TypeOK, [Next]_vars PROVE TypeOK'
    OBVIOUS
  <1>1. ASSUME NEW p \in Poster, NEW k \in Key, NEW q \in Period,
               NEW s \in Stamp, NEW b \in Body, Post(p, k, q, b, s)
        PROVE  TypeOK'
    BY <1>1, TypeStart DEF Post, Draft
  <1>2. ASSUME NEW p \in Poster, NEW k \in Key, NEW q \in Period,
               NEW s \in Stamp, NEW e \in journal, Reverse(p, e, k, q, s)
        PROVE  TypeOK'
    <2>1. PICK memo \in {0, e.seq} :
            Start(p, [key |-> k, period |-> q, body |-> e.body,
                      swapped |-> ~e.swapped, stamp |-> s, of |-> e.seq,
                      memo |-> memo])
      BY <1>2 DEF Reverse
    <2>2. e \in Entry
      BY DEF TypeOK
    <2>3. [key |-> k, period |-> q, body |-> e.body, swapped |-> ~e.swapped,
           stamp |-> s, of |-> e.seq, memo |-> memo] \in Draft
      BY <2>2 DEF Draft, Entry
    <2>4. QED
      BY <2>1, <2>3, TypeStart
  <1>3. ASSUME NEW p \in Poster, Lookup(p)
        PROVE  TypeOK'
    <2>1. ASSUME NEW e \in WithKey(draft[p].key), Return(p, e)
          PROVE  TypeOK'
      BY <1>3, <2>1, TypeReturn DEF Lookup, WithKey, TypeOK, store
    <2>2. ASSUME Throw(p, "refused")
          PROVE  TypeOK'
      BY <1>3, <2>2, TypeThrow DEF Lookup, TypeOK, store
    <2>3. CASE Goto(p, "status") /\ UNCHANGED <<draft, taken, reply, base, wasOpen>>
      BY <1>3, <2>3 DEF Lookup, Goto, TypeOK, store, Steps, InTxn, Idle
    <2>4. QED
      BY <1>3, <2>1, <2>2, <2>3 DEF Lookup
  <1>4. ASSUME NEW p \in Poster, CheckStatus(p)
        PROVE  TypeOK'
    <2>1. CASE Throw(p, "refused")
      BY <1>4, <2>1, TypeThrow DEF CheckStatus, TypeOK, store
    <2>2. CASE Goto(p, "begin") /\ UNCHANGED <<draft, taken, reply, base, wasOpen>>
      BY <1>4, <2>2 DEF CheckStatus, Goto, TypeOK, store, Steps, InTxn, Idle
    <2>3. QED
      BY <1>4, <2>1, <2>2 DEF CheckStatus
  <1>5. ASSUME NEW p \in Poster, BeginAppend(p)
        PROVE  TypeOK'
    <2>1. ASSUME NEW e \in WithKey(draft[p].key), Return(p, e)
          PROVE  TypeOK'
      BY <1>5, <2>1, TypeReturn DEF BeginAppend, WithKey, TypeOK, store
    <2>2. CASE Goto(p, "bump") /\ UNCHANGED <<draft, taken, reply, base, wasOpen>>
      BY <1>5, <2>2 DEF BeginAppend, Goto, TypeOK, store, Steps, InTxn, Idle
    <2>3. QED
      BY <1>5, <2>1, <2>2 DEF BeginAppend
  <1>6. ASSUME NEW p \in Poster, BumpSequence(p)
        PROVE  TypeOK'
    BY <1>6 DEF BumpSequence, Goto, TypeOK, Steps, InTxn, Idle
  <1>7. ASSUME NEW p \in Poster, InsertEntry(p)
        PROVE  TypeOK'
    BY <1>7 DEF InsertEntry, Goto, TypeOK, Steps, InTxn, Idle
  <1>8. ASSUME NEW p \in Poster, Commit(p)
        PROVE  TypeOK'
    <2>1. pc[p] \in InTxn /\ pc[p] \in Steps
      BY <1>8 DEF Commit, InTxn, Steps
    <2>2. draft[p] \in Draft /\ taken[p] \in Nat \ {0}
      BY <2>1, <1>8 DEF Commit, InTxn, TypeOK
    <2>3. EntryOf(draft[p], taken[p]) \in Entry
      BY <2>2, TypeEntryOf
    <2>4. QED
      BY <1>8, <2>2, <2>3, TypeReturn, TypeThrow DEF Commit, TypeOK
  <1>9. ASSUME NEW p \in Poster, ReturnWinner(p)
        PROVE  TypeOK'
    BY <1>9, TypeReturn DEF ReturnWinner, WithKey, TypeOK, store
  <1>10. ASSUME NEW p \in Poster, Fail(p)
         PROVE  TypeOK'
    BY <1>10, TypeThrow DEF Fail, TypeOK
  <1>11. ASSUME NEW q \in Period, LockPeriod(q) \/ UnlockPeriod(q)
         PROVE  TypeOK'
    BY <1>11 DEF LockPeriod, UnlockPeriod, TypeOK, store, calls
  <1>12. CASE UNCHANGED vars
    BY <1>12 DEF vars, TypeOK
  <1>13. QED
    BY <1>1, <1>2, <1>3, <1>4, <1>5, <1>6, <1>7, <1>8, <1>9, <1>10, <1>11,
       <1>12 DEF Next, Step

\* Type correctness of the posting engine for any number of concurrent calls.
THEOREM TypeCorrect == Spec => []TypeOK
  <1>1. Init => TypeOK
    BY TypeInit
  <1>2. TypeOK /\ [Next]_vars => TypeOK'
    BY TypeNext
  <1>3. QED
    BY <1>1, <1>2, PTL DEF Spec

-----------------------------------------------------------------------------
\* The safety invariants.  IInv adds to them what makes them inductive: who
\* holds the counter row (CounterIsLocked) and what a running call knows of its
\* draft (DraftKnowledge).

\* Only a COMMIT writes the journal or the counter.
LEMMA OnlyCommitWrites ==
  ASSUME [Next]_vars
  PROVE  UNCHANGED <<journal, lastSeq>> \/ \E p \in Poster : Commit(p)
  BY DEF Next, Step, vars, store, Post, Reverse, Start, Lookup, CheckStatus,
         BeginAppend, BumpSequence, InsertEntry, ReturnWinner, Fail,
         LockPeriod, UnlockPeriod

LEMMA InitIInv == Init => IInv
  <1> SUFFICES ASSUME Init PROVE IInv
    OBVIOUS
  <1>1. TypeOK
    BY TypeInit
  <1>2. GapFree /\ OncePerKey /\ ReversalMirrorsOriginal
    BY DEF Init, GapFree, OncePerKey, ReversalMirrorsOriginal
  <1>3. AnswerIsPosted /\ DivergenceOnlyByRace
    BY DEF Init, AnswerIsPosted, DivergenceOnlyByRace
  <1>4. CounterIsLocked /\ DraftKnowledge
    BY NoneAssumption
       DEF Init, CounterIsLocked, DraftKnowledge, Knows, Steps, InTxn
  <1>5. QED
    BY <1>1, <1>2, <1>3, <1>4 DEF IInv

\* The counter row's lock is held by exactly the open transactions.
LEMMA CounterStep ==
  ASSUME TypeOK, CounterIsLocked, [Next]_vars
  PROVE  CounterIsLocked'
  <1> USE NoneAssumption DEF CounterIsLocked, InTxn
  <1>1. ASSUME NEW p \in Poster, NEW d, Start(p, d)
        PROVE  CounterIsLocked'
    BY <1>1 DEF Start, Goto, store, TypeOK, Idle
  <1>2. ASSUME NEW p \in Poster, Lookup(p) \/ CheckStatus(p)
        PROVE  CounterIsLocked'
    BY <1>2 DEF Lookup, CheckStatus, Return, Throw, Goto, store, TypeOK
  <1>3. ASSUME NEW p \in Poster, BeginAppend(p) \/ ReturnWinner(p)
        PROVE  CounterIsLocked'
    BY <1>3 DEF BeginAppend, ReturnWinner, Return, Goto, store, TypeOK
  <1>4. ASSUME NEW p \in Poster, BumpSequence(p)
        PROVE  CounterIsLocked'
    BY <1>4 DEF BumpSequence, Goto, TypeOK
  <1>5. ASSUME NEW p \in Poster, InsertEntry(p)
        PROVE  CounterIsLocked'
    BY <1>5 DEF InsertEntry, Goto, TypeOK
  <1>6. ASSUME NEW p \in Poster, Commit(p)
        PROVE  CounterIsLocked'
    BY <1>6 DEF Commit, Return, Throw, Goto, TypeOK
  <1>7. ASSUME NEW p \in Poster, Fail(p)
        PROVE  CounterIsLocked'
    BY <1>7 DEF Fail, Throw, Goto, TypeOK
  <1>8. ASSUME NEW q \in Period, LockPeriod(q) \/ UnlockPeriod(q)
        PROVE  CounterIsLocked'
    BY <1>8 DEF LockPeriod, UnlockPeriod, store, calls
  <1>9. CASE UNCHANGED vars
    BY <1>9 DEF vars
  <1>10. QED
    BY <1>1, <1>2, <1>3, <1>4, <1>5, <1>6, <1>7, <1>8, <1>9
       DEF Next, Step, Post, Reverse

\* What a COMMIT adds: one entry of the next sequence under a fresh key.
LEMMA CommitAdds ==
  ASSUME IInv, NEW p \in Poster, Commit(p)
  PROVE  LET e == EntryOf(draft[p], lastSeq + 1)
         IN  /\ journal' = journal \cup {e}
             /\ lastSeq' = lastSeq + 1
             /\ e.seq = lastSeq + 1
             /\ e.key = draft[p].key /\ e.period = draft[p].period
             /\ e.body = draft[p].body /\ e.swapped = draft[p].swapped
             /\ e.of = draft[p].of
             /\ \A f \in journal : f.key # e.key /\ f.seq <= lastSeq
  <1>1. pc[p] \in InTxn /\ pc[p] = "commit"
    BY DEF Commit, InTxn
  <1>2. taken[p] = lastSeq + 1
    BY <1>1 DEF IInv, CounterIsLocked
  <1>3. \A f \in journal : f.seq \in 1..lastSeq
    BY DEF IInv, GapFree
  <1>4. \A f \in journal : f.key # draft[p].key
    BY <1>1 DEF IInv, DraftKnowledge, Knows
  <1>5. QED
    BY <1>2, <1>3, <1>4 DEF Commit, EntryOf, IInv, TypeOK

\* The journal stays gap-free, one entry per key, reversals mirrored.
LEMMA JournalStep ==
  ASSUME IInv, [Next]_vars
  PROVE  GapFree' /\ OncePerKey' /\ ReversalMirrorsOriginal'
  <1>1. CASE UNCHANGED <<journal, lastSeq>>
    BY <1>1 DEF IInv, GapFree, OncePerKey, ReversalMirrorsOriginal
  <1>2. ASSUME NEW p \in Poster, Commit(p)
        PROVE  GapFree' /\ OncePerKey' /\ ReversalMirrorsOriginal'
    <2> DEFINE e == EntryOf(draft[p], lastSeq + 1)
    <2>1. /\ journal' = journal \cup {e}
          /\ lastSeq' = lastSeq + 1
          /\ e.seq = lastSeq + 1
          /\ \A f \in journal : f.key # e.key /\ f.seq <= lastSeq
      BY <1>2, CommitAdds
    <2>2. /\ e.key = draft[p].key /\ e.body = draft[p].body
          /\ e.swapped = draft[p].swapped /\ e.of = draft[p].of
      BY <1>2, CommitAdds
    <2>3. pc[p] \in Steps /\ draft[p] \in Draft
      BY <1>2 DEF Commit, Steps, InTxn, IInv, TypeOK
    <2>4. lastSeq \in Nat /\ \A f \in journal : f.seq \in Nat \ {0}
      BY DEF IInv, TypeOK, Entry
    <2> HIDE DEF e
    <2>5. GapFree'
      <3>1. {f.seq : f \in journal'} = {f.seq : f \in journal} \cup {e.seq}
        BY <2>1
      <3>2. 1..(lastSeq + 1) = (1..lastSeq) \cup {lastSeq + 1}
        BY <2>4
      <3>3. \A f, g \in journal' : f.seq = g.seq => f = g
        BY <2>1, <2>4 DEF IInv, GapFree
      <3>4. QED
        BY <2>1, <3>1, <3>2, <3>3 DEF IInv, GapFree
    <2>6. OncePerKey'
      BY <2>1 DEF IInv, OncePerKey
    <2>7. ReversalMirrorsOriginal'
      <3>1. ASSUME e.of # 0
            PROVE  \E o \in journal : /\ o.seq = e.of /\ o.seq < e.seq
                                      /\ o.body = e.body
                                      /\ o.swapped = ~e.swapped
        <4>1. PICK o \in journal : /\ o.seq = draft[p].of
                                   /\ o.body = draft[p].body
                                   /\ draft[p].swapped = ~o.swapped
          BY <2>2, <2>3, <3>1 DEF IInv, DraftKnowledge, Knows
        <4>2. o.swapped \in BOOLEAN
          BY DEF IInv, TypeOK, Entry
        <4>3. o.seq < e.seq
          BY <2>1, <2>4
        <4>4. o.swapped = ~e.swapped
          BY <4>1, <4>2, <2>2
        <4>5. QED
          BY <4>1, <4>3, <4>4, <2>2
      <3>2. QED
        BY <2>1, <3>1 DEF IInv, ReversalMirrorsOriginal
    <2>8. QED
      BY <2>5, <2>6, <2>7
  <1>3. QED
    BY <1>1, <1>2, OnlyCommitWrites

\* What a call has learnt stays true while others commit.
LEMMA KnowledgeStep ==
  ASSUME IInv, [Next]_vars
  PROVE  DraftKnowledge'
  <1> USE DEF Steps, InTxn, Knows
  <1>0. /\ TypeOK /\ CounterIsLocked /\ DraftKnowledge /\ AnswerIsPosted
        /\ lastSeq \in Nat
        /\ \A e \in journal : e \in Entry /\ e.seq <= lastSeq
    <2>1. \A e \in journal : e.seq \in 1..lastSeq
      BY DEF IInv, GapFree
    <2>2. QED
      BY <2>1 DEF IInv, TypeOK
  <1>a. ASSUME NEW p \in Poster, NEW d \in Draft, Start(p, d),
               d.of # 0 => \E o \in journal : /\ o.seq = d.of
                                              /\ o.body = d.body
                                              /\ d.swapped = ~o.swapped
        PROVE  DraftKnowledge'
    <2>1. /\ UNCHANGED <<journal, lastSeq, locked>>
          /\ pc'[p] = "lookup" /\ draft'[p] = d /\ reply'[p] = None
          /\ base'[p] = lastSeq
          /\ wasOpen'[p] = (d.period \notin locked)
      BY <1>0, <1>a DEF Start, Goto, store, TypeOK
    <2>2. \A x \in Poster : x # p => /\ pc'[x] = pc[x] /\ draft'[x] = draft[x]
                                     /\ reply'[x] = reply[x] /\ base'[x] = base[x]
                                     /\ wasOpen'[x] = wasOpen[x]
      BY <1>0, <1>a DEF Start, Goto, TypeOK
    <2>3. Knows(p)'
      <3>1. draft'[p].period \notin locked' => wasOpen'[p]
        BY <2>1
      <3>2. QED
        BY <1>0, <1>a, <2>1, <3>1 DEF Knows
    <2>4. \A x \in Poster : x # p => Knows(x)'
      BY <1>0, <2>1, <2>2 DEF DraftKnowledge
    <2>5. QED
      BY <2>3, <2>4 DEF DraftKnowledge
  <1>1. ASSUME NEW p \in Poster, NEW k \in Key, NEW q \in Period,
               NEW s \in Stamp, NEW b \in Body, Post(p, k, q, b, s)
        PROVE  DraftKnowledge'
    BY <1>1, <1>a DEF Post, Draft
  <1>2. ASSUME NEW p \in Poster, NEW k \in Key, NEW q \in Period,
               NEW s \in Stamp, NEW e \in journal, Reverse(p, e, k, q, s)
        PROVE  DraftKnowledge'
    <2>1. PICK memo \in {0, e.seq} :
            Start(p, [key |-> k, period |-> q, body |-> e.body,
                      swapped |-> ~e.swapped, stamp |-> s, of |-> e.seq,
                      memo |-> memo])
      BY <1>2 DEF Reverse
    <2> DEFINE d == [key |-> k, period |-> q, body |-> e.body,
                     swapped |-> ~e.swapped, stamp |-> s, of |-> e.seq,
                     memo |-> memo]
    <2>2. d \in Draft /\ d.of = e.seq /\ d.body = e.body /\ d.swapped = ~e.swapped
      BY <1>0 DEF Draft, Entry
    <2> HIDE DEF d
    <2>3. Start(p, d)
      BY <2>1 DEF d
    <2>4. QED
      BY <2>2, <2>3, <1>a
  <1>3. ASSUME NEW p \in Poster, NEW e \in journal, Return(p, e),
               UNCHANGED <<journal, lastSeq, locked>>
        PROVE  DraftKnowledge'
    BY <1>0, <1>3 DEF Return, Goto, TypeOK, DraftKnowledge
  <1>4. ASSUME NEW p \in Poster, NEW o \in {"refused", "failed"}, Throw(p, o),
               UNCHANGED <<journal, lastSeq, locked>>
        PROVE  DraftKnowledge'
    BY <1>0, <1>4 DEF Throw, Goto, TypeOK, DraftKnowledge
  <1>5. ASSUME NEW p \in Poster, Lookup(p)
        PROVE  DraftKnowledge'
    <2>1. CASE /\ WithKey(draft[p].key) = {} /\ Goto(p, "status")
               /\ UNCHANGED <<draft, taken, reply, base, wasOpen>>
      BY <1>0, <1>5, <2>1 DEF Lookup, WithKey, Goto, store, TypeOK, DraftKnowledge
    <2>2. QED
      BY <1>3, <1>4, <1>5, <2>1 DEF Lookup, WithKey, store
  <1>6. ASSUME NEW p \in Poster, CheckStatus(p)
        PROVE  DraftKnowledge'
    <2>1. CASE /\ draft[p].period \notin locked /\ Goto(p, "begin")
               /\ UNCHANGED <<draft, taken, reply, base, wasOpen>>
      BY <1>0, <1>6, <2>1 DEF CheckStatus, Goto, store, TypeOK, DraftKnowledge
    <2>2. QED
      BY <1>4, <1>6, <2>1 DEF CheckStatus, store
  <1>7. ASSUME NEW p \in Poster, BeginAppend(p)
        PROVE  DraftKnowledge'
    <2>1. CASE /\ WithKey(draft[p].key) = {} /\ Goto(p, "bump")
               /\ UNCHANGED <<draft, taken, reply, base, wasOpen>>
      BY <1>0, <1>7, <2>1 DEF BeginAppend, Goto, store, TypeOK, DraftKnowledge
    <2>2. QED
      BY <1>3, <1>7, <2>1 DEF BeginAppend, WithKey, store
  <1>8. ASSUME NEW p \in Poster, BumpSequence(p)
        PROVE  DraftKnowledge'
    BY <1>0, <1>8 DEF BumpSequence, Goto, TypeOK, DraftKnowledge
  <1>9. ASSUME NEW p \in Poster, InsertEntry(p)
        PROVE  DraftKnowledge'
    BY <1>0, <1>9 DEF InsertEntry, KeyConflict, WithKey, Goto, TypeOK, DraftKnowledge
  <1>10. ASSUME NEW p \in Poster, Commit(p)
         PROVE  DraftKnowledge'
    <2> DEFINE e == EntryOf(draft[p], lastSeq + 1)
    <2>1. /\ journal' = journal \cup {e}
          /\ lastSeq' = lastSeq + 1
          /\ e.seq = lastSeq + 1
          /\ \A f \in journal : f.key # e.key
      BY <1>10, CommitAdds
    <2>2. e = EntryOf(draft[p], taken[p])
      BY <1>0, <1>10 DEF Commit, CounterIsLocked
    <2> HIDE DEF e
    <2>3. Return(p, e) \/ Throw(p, "failed")
      BY <1>10, <2>2 DEF Commit
    <2>4. \A x \in Poster : x # p => pc[x] # "commit"
      BY <1>0, <1>10 DEF Commit, CounterIsLocked
    <2>5. /\ pc' \in [Poster -> Idle \cup Steps] /\ pc'[p] \in {"answered", "failed"}
          /\ \A x \in Poster : x # p => /\ pc'[x] = pc[x] /\ draft'[x] = draft[x]
                                        /\ base'[x] = base[x]
                                        /\ wasOpen'[x] = wasOpen[x]
                                        /\ reply'[x] = reply[x]
          /\ base'[p] \in {base[p], 0}
          /\ reply'[p] \in {reply[p], e}
          /\ locked' = locked
      BY <1>0, <1>10, <2>3 DEF Commit, Return, Throw, Goto, TypeOK, Idle
    <2>6. \A x \in Poster : base[x] \in Nat /\ base[x] <= lastSeq
      BY <1>0 DEF DraftKnowledge, TypeOK
    <2>7. QED
      BY <1>0, <2>1, <2>4, <2>5, <2>6 DEF DraftKnowledge
  <1>11. ASSUME NEW p \in Poster, ReturnWinner(p)
         PROVE  DraftKnowledge'
    BY <1>3, <1>11 DEF ReturnWinner, WithKey, store
  <1>12. ASSUME NEW p \in Poster, Fail(p)
         PROVE  DraftKnowledge'
    BY <1>4, <1>12 DEF Fail
  <1>13. ASSUME NEW q \in Period, LockPeriod(q)
         PROVE  DraftKnowledge'
    BY <1>0, <1>13 DEF LockPeriod, store, calls, DraftKnowledge
  <1>14. ASSUME NEW q \in Period, UnlockPeriod(q)
         PROVE  DraftKnowledge'
    BY <1>0, <1>14 DEF UnlockPeriod, store, TypeOK, DraftKnowledge
  <1>15. CASE UNCHANGED vars
    BY <1>0, <1>15 DEF vars, DraftKnowledge
  <1>16. QED
    BY <1>1, <1>2, <1>5, <1>6, <1>7, <1>8, <1>9, <1>10, <1>11, <1>12, <1>13,
       <1>14, <1>15 DEF Next, Step

\* An answer stays what it was: a committed entry of the call's key, which can
\* say something else only if it was posted while the call ran.
LEMMA AnswerStep ==
  ASSUME IInv, [Next]_vars
  PROVE  AnswerIsPosted' /\ DivergenceOnlyByRace'
  <1> DEFINE A(x) == pc[x] = "answered" =>
                       /\ reply[x] \in journal
                       /\ reply[x].key = draft[x].key
                       /\ \/ Fingerprint(reply[x]) = Fingerprint(draft[x])
                          \/ reply[x].seq > base[x]
  <1>0. TypeOK /\ DraftKnowledge /\ \A x \in Poster : A(x)
    BY DEF IInv, AnswerIsPosted, DivergenceOnlyByRace
  <1>1. journal \subseteq journal'
    BY OnlyCommitWrites, CommitAdds
  <1>2. ASSUME NEW p \in Poster,
               \A x \in Poster : x # p => /\ pc'[x] = pc[x] /\ reply'[x] = reply[x]
                                          /\ draft'[x] = draft[x]
                                          /\ base'[x] = base[x],
               A(p)'
        PROVE  \A x \in Poster : A(x)'
    BY <1>0, <1>1, <1>2 DEF Fingerprint
  <1>3. ASSUME NEW p \in Poster, NEW e \in journal', Return(p, e),
               e.key = draft[p].key,
               Fingerprint(e) = Fingerprint(draft[p]) \/ e.seq > base[p]
        PROVE  \A x \in Poster : A(x)'
    <2>1. /\ pc'[p] = "answered" /\ reply'[p] = e
          /\ UNCHANGED <<draft, base>>
          /\ \A x \in Poster : x # p => pc'[x] = pc[x] /\ reply'[x] = reply[x]
      BY <1>0, <1>3 DEF Return, Goto, TypeOK
    <2>2. A(p)'
      BY <1>3, <2>1 DEF Fingerprint
    <2>3. QED
      BY <1>2, <2>1, <2>2
  <1>4. ASSUME NEW p \in Poster, NEW o \in {"refused", "failed"}, Throw(p, o)
        PROVE  \A x \in Poster : A(x)'
    BY <1>0, <1>2, <1>4 DEF Throw, Goto, TypeOK
  <1>5. ASSUME NEW p \in Poster, NEW o \in Steps \ {"answered"}, Goto(p, o),
               UNCHANGED <<draft, reply, base>>
        PROVE  \A x \in Poster : A(x)'
    BY <1>0, <1>2, <1>5 DEF Goto, TypeOK
  <1>6. ASSUME NEW p \in Poster, NEW d, Start(p, d)
        PROVE  \A x \in Poster : A(x)'
    BY <1>0, <1>2, <1>6 DEF Start, Goto, TypeOK
  <1>7. ASSUME NEW p \in Poster, Lookup(p)
        PROVE  \A x \in Poster : A(x)'
    BY <1>3, <1>4, <1>5, <1>7 DEF Lookup, Replays, WithKey, store, Steps
  <1>8. ASSUME NEW p \in Poster, CheckStatus(p)
        PROVE  \A x \in Poster : A(x)'
    BY <1>4, <1>5, <1>8 DEF CheckStatus, Steps
  <1>9. ASSUME NEW p \in Poster, BeginAppend(p) \/ ReturnWinner(p)
        PROVE  \A x \in Poster : A(x)'
    <2>1. pc[p] \in Steps \ {"lookup"}
      BY <1>9 DEF BeginAppend, ReturnWinner, Steps, InTxn
    <2>2. \A e \in WithKey(draft[p].key) : e \in journal /\ e.key = draft[p].key
                                           /\ e.seq > base[p]
      BY <1>0, <2>1 DEF WithKey, DraftKnowledge, Knows
    <2>3. QED
      BY <1>1, <1>3, <1>5, <1>9, <2>2 DEF BeginAppend, ReturnWinner, Steps
  <1>10. ASSUME NEW p \in Poster, BumpSequence(p) \/ InsertEntry(p)
         PROVE  \A x \in Poster : A(x)'
    BY <1>5, <1>10 DEF BumpSequence, InsertEntry, Steps, InTxn
  <1>11. ASSUME NEW p \in Poster, Commit(p)
         PROVE  \A x \in Poster : A(x)'
    <2> DEFINE e == EntryOf(draft[p], taken[p])
    <2>1. e \in journal' /\ (Return(p, e) \/ Throw(p, "failed"))
      BY <1>11 DEF Commit
    <2>2. e.key = draft[p].key /\ Fingerprint(e) = Fingerprint(draft[p])
      BY DEF EntryOf, Fingerprint
    <2>3. QED
      BY <2>1, <2>2, <1>3, <1>4
  <1>12. ASSUME NEW p \in Poster, Fail(p)
         PROVE  \A x \in Poster : A(x)'
    BY <1>4, <1>12 DEF Fail
  <1>13. ASSUME UNCHANGED <<pc, draft, reply, base>>
         PROVE  \A x \in Poster : A(x)'
    BY <1>0, <1>1, <1>13 DEF Fingerprint
  <1>14. \A x \in Poster : A(x)'
    BY <1>6, <1>7, <1>8, <1>9, <1>10, <1>11, <1>12, <1>13
       DEF Next, Step, Post, Reverse, LockPeriod, UnlockPeriod, store, calls, vars
  <1>15. QED
    BY <1>14 DEF AnswerIsPosted, DivergenceOnlyByRace

LEMMA IInvStep == IInv /\ [Next]_vars => IInv'
  BY TypeNext, CounterStep, JournalStep, KnowledgeStep, AnswerStep DEF IInv

LEMMA Inductive == Spec => []IInv
  BY InitIInv, IInvStep, PTL DEF Spec

\* The journal is numbered 1..lastSeq without a gap or a repeat, whatever
\* transactions collide, die or lose their answer.
THEOREM GapFreeHolds == Spec => []GapFree
  <1>1. IInv => GapFree
    BY DEF IInv
  <1>2. QED
    BY <1>1, Inductive, PTL

\* However often and however concurrently a command is retried, its key posts
\* one entry.
THEOREM OncePerKeyHolds == Spec => []OncePerKey
  <1>1. IInv => OncePerKey
    BY DEF IInv
  <1>2. QED
    BY <1>1, Inductive, PTL

\* What a caller was told is posted stays posted, and is its own key's entry.
THEOREM AnswerIsPostedHolds == Spec => []AnswerIsPosted
  <1>1. IInv => AnswerIsPosted
    BY DEF IInv
  <1>2. QED
    BY <1>1, Inductive, PTL

\* A divergent payload slips through only in a race with the entry it meets.
THEOREM DivergenceOnlyByRaceHolds == Spec => []DivergenceOnlyByRace
  <1>1. IInv => DivergenceOnlyByRace
    BY DEF IInv
  <1>2. QED
    BY <1>1, Inductive, PTL

\* Every reversal in the journal mirrors an earlier entry of the journal.
THEOREM ReversalsMirror == Spec => []ReversalMirrorsOriginal
  <1>1. IInv => ReversalMirrorsOriginal
    BY DEF IInv
  <1>2. QED
    BY <1>1, Inductive, PTL

-----------------------------------------------------------------------------
\* An entry reaches the journal only for a call in whose lifetime its period
\* was open: after periods.lock, only the calls already running can still post.
THEOREM SealStopsLater == Spec => SealStopsLaterCalls
  <1> DEFINE A == \A e \in journal' \ journal :
                    \E p \in Poster : pc[p] = "commit" /\ e.key = draft[p].key
                                      /\ e.period = draft[p].period /\ wasOpen[p]
  <1>1. ASSUME IInv, [Next]_vars
        PROVE  A
    <2>1. CASE UNCHANGED <<journal, lastSeq>>
      BY <2>1
    <2>2. ASSUME NEW p \in Poster, Commit(p)
          PROVE  A
      <3>1. pc[p] = "commit" /\ wasOpen[p]
        BY <1>1, <2>2 DEF Commit, IInv, DraftKnowledge, Knows, Steps, InTxn
      <3>2. QED
        BY <1>1, <2>2, <3>1, CommitAdds
    <2>3. QED
      BY <1>1, <2>1, <2>2, OnlyCommitWrites
  <1>2. IInv /\ [Next]_vars => [A]_vars
    BY <1>1
  <1>3. QED
    BY <1>2, Inductive, PTL DEF Spec, SealStopsLaterCalls

\* The engine over the SQL store implements the journal LedgerStore promises.
THEOREM ImplementsJournal == Spec => JournalPromise
  <1> USE DEF Promise!vars
  <1>1. Init => Promise!Init
    BY DEF Init, Promise!Init
  <1>2. ASSUME IInv, [Next]_vars
        PROVE  [Promise!Next]_(Promise!vars)
    <2>0. reply \in [Poster -> Entry \cup {None}]
      BY <1>2 DEF IInv, TypeOK
    <2>1. ASSUME NEW p \in Poster, NEW r \in journal \cup {None},
                 reply' = [reply EXCEPT ![p] = r], UNCHANGED <<journal, lastSeq>>
          PROVE  Promise!Next
      BY <2>1 DEF Promise!Next, Promise!Tell
    <2>2. ASSUME NEW p \in Poster, Commit(p)
          PROVE  Promise!Next
      <3> DEFINE e == EntryOf(draft[p], lastSeq + 1)
      <3>1. /\ journal' = journal \cup {e}
            /\ lastSeq' = lastSeq + 1
            /\ e.seq = lastSeq + 1
            /\ \A f \in journal : f.key # e.key
        BY <1>2, <2>2, CommitAdds
      <3>2. e = EntryOf(draft[p], taken[p])
        BY <1>2, <2>2 DEF Commit, IInv, CounterIsLocked, InTxn
      <3> HIDE DEF e
      <3>3. reply' = reply \/ reply' = [reply EXCEPT ![p] = e]
        BY <2>2, <3>2 DEF Commit, Return, Throw
      <3>4. e.key \notin Promise!Keys /\ e \in journal' \ journal
        BY <3>1 DEF Promise!Keys
      <3>5. Promise!Append(p)
        BY <3>1, <3>3, <3>4 DEF Promise!Append
      <3>6. QED
        BY <3>5 DEF Promise!Next
    <2>3. ASSUME NEW p \in Poster, Lookup(p) \/ BeginAppend(p) \/ ReturnWinner(p)
          PROVE  [Promise!Next]_(Promise!vars)
      BY <2>1, <2>3 DEF Lookup, BeginAppend, ReturnWinner, WithKey, Return, Throw, store
    <2>4. ASSUME NEW p \in Poster,
                 CheckStatus(p) \/ BumpSequence(p) \/ InsertEntry(p) \/ Fail(p)
          PROVE  UNCHANGED Promise!vars
      BY <2>4 DEF CheckStatus, BumpSequence, InsertEntry, Fail, Throw, store
    <2>5. ASSUME NEW p \in Poster, NEW d, Start(p, d)
          PROVE  Promise!Next
      BY <2>1, <2>5 DEF Start, store
    <2>6. CASE \/ UNCHANGED vars
               \/ \E q \in Period : LockPeriod(q) \/ UnlockPeriod(q)
      BY <2>6 DEF vars, LockPeriod, UnlockPeriod, store, calls
    <2>7. QED
      BY <1>2, <2>2, <2>3, <2>4, <2>5, <2>6 DEF Next, Step, Post, Reverse
  <1>3. QED
    BY <1>1, <1>2, Inductive, PTL DEF Spec, JournalPromise, Promise!Spec
=============================================================================
