----------------------------- MODULE CloseProofs -----------------------------
(***************************************************************************)
(* Proofs about Close.tla, for any number of requests, people and contents *)
(* of the books, and histories of any length.                              *)
(***************************************************************************)
EXTENDS Close, TLAPS

\* The one-line helpers of the actions are expanded everywhere.
USE DEF PeriodBalances, MayApprove, SealPeriod, SamePackage, NoPackageRow

\* What a call is while it runs, as far as types go.
CallTypes(p, b, k, s, w) ==
  /\ p \in [Caller -> Idle \cup Steps]
  /\ b \in [Caller -> Person \cup {None}]
  /\ \A c \in Caller : p[c] \in Steps => b[c] \in Person
  /\ k \in [Caller -> Package \cup {None}]
  /\ \A c \in Caller : p[c] \in {"balances", "gate"} \cup Sealing => k[c] \in Package
  /\ s \in [Caller -> CloseState \cup {None}]
  /\ \A c \in Caller : p[c] \in {"asked"} \cup Approving => s[c] \in CloseState
  /\ w \in [Caller -> BOOLEAN]

LEMMA TypeInit == Init => TypeOK
  BY DEF Init, TypeOK, Package, Idle, Steps, Sealing, Approving

\* A call that ends leaves every call well typed.
LEMMA TypeEnd ==
  ASSUME TypeOK, NEW c \in Caller, NEW o \in Idle, End(c, o)
  PROVE  CallTypes(pc, by, pkg, seen, switched)' /\ crossed' \in BOOLEAN
  BY DEF TypeOK, CallTypes, End, Goto, Idle, Steps, Sealing, Approving

\* The records the three puts write.
LEMMA TypeRecords ==
  ASSUME TypeOK, NEW c \in Caller
  PROVE  /\ pc[c] = "sealed" => Published(c) \in CloseState
         /\ pc[c] = "asked" => Requested(c) \in CloseState
         /\ pc[c] = "opened" => Reopened(c) \in CloseState
  <1>1. pc[c] \in Steps => by[c] \in Person
    BY DEF TypeOK
  <1>2. ASSUME pc[c] = "sealed"
        PROVE  Published(c) \in CloseState
    <2>1. pkg[c] \in Package /\ by[c] \in Person
      BY <1>1, <1>2 DEF TypeOK, Sealing, Steps
    <2>2. HistoryOf(seen[c]) \in Seq(Transition)
      BY DEF TypeOK, HistoryOf, CloseState
    <2>3. [action |-> "PUBLISH", by |-> by[c]] \in Transition
      BY <2>1 DEF Transition, Action
    <2>4. Append(HistoryOf(seen[c]), [action |-> "PUBLISH", by |-> by[c]]) \in Seq(Transition)
      BY <2>2, <2>3
    <2>5. QED
      BY <2>1, <2>4 DEF Published, CloseState
  <1>3. ASSUME pc[c] = "asked"
        PROVE  Requested(c) \in CloseState
    <2>1. seen[c] \in CloseState /\ by[c] \in Person
      BY <1>1, <1>3 DEF TypeOK, Steps
    <2>2. [action |-> "REQUEST_REOPEN", by |-> by[c]] \in Transition
      BY <2>1 DEF Transition, Action
    <2>3. Append(seen[c].history, [action |-> "REQUEST_REOPEN", by |-> by[c]]) \in Seq(Transition)
      BY <2>1, <2>2 DEF CloseState
    <2>4. QED
      BY <2>1, <2>3 DEF Requested, CloseState
  <1>4. ASSUME pc[c] = "opened"
        PROVE  Reopened(c) \in CloseState
    <2>1. seen[c] \in CloseState /\ by[c] \in Person
      BY <1>1, <1>4 DEF TypeOK, Approving, Steps
    <2>2. [action |-> "APPROVE_REOPEN", by |-> by[c]] \in Transition
      BY <2>1 DEF Transition, Action
    <2>3. Append(seen[c].history, [action |-> "APPROVE_REOPEN", by |-> by[c]]) \in Seq(Transition)
      BY <2>1, <2>2 DEF CloseState
    <2>4. QED
      BY <2>1, <2>3 DEF Reopened, CloseState
  <1>5. QED
    BY <1>2, <1>3, <1>4

\* Every variable keeps its type in every step.
LEMMA TypeNext == TypeOK /\ [Next]_vars => TypeOK'
  <1> SUFFICES ASSUME TypeOK, [Next]_vars PROVE TypeOK'
    OBVIOUS
  <1> USE DEF Idle, Steps, Sealing, Approving
  <1>1. ASSUME NEW c \in Caller, NEW person \in Person, Call(c, person)
        PROVE  TypeOK'
    BY <1>1 DEF Call, Goto, TypeOK
  <1>2. ASSUME NEW c \in Caller, ReadPeriod(c)
        PROVE  TypeOK'
    BY <1>2 DEF ReadPeriod, Goto, TypeOK, Package
  <1>3. ASSUME NEW c \in Caller, ReadBalances(c)
        PROVE  TypeOK'
    <2>1. CASE End(c, "refused")
      BY <1>3, <2>1, TypeEnd DEF ReadBalances, TypeOK, CallTypes
    <2>2. <<pkg[c][1], books[2]>> \in Package
      BY <1>3 DEF ReadBalances, TypeOK, Package
    <2>3. CASE /\ Goto(c, "gate")
               /\ pkg' = [pkg EXCEPT ![c] = <<@[1], books[2]>>]
               /\ UNCHANGED <<by, seen, switched>>
      BY <1>3, <2>2, <2>3 DEF ReadBalances, Goto, TypeOK
    <2>4. QED
      BY <1>3, <2>1, <2>3 DEF ReadBalances
  <1>4. ASSUME NEW c \in Caller, Gate(c)
        PROVE  TypeOK'
    <2>1. ASSUME NEW o \in {"idle", "refused"}, End(c, o)
          PROVE  TypeOK'
      BY <1>4, <2>1, TypeEnd DEF Gate, TypeOK, CallTypes
    <2>2. CASE /\ Goto(c, "lock")
               /\ seen' = [seen EXCEPT ![c] = state]
               /\ UNCHANGED <<by, pkg, switched>>
      BY <1>4, <2>2 DEF Gate, Goto, TypeOK
    <2>3. QED
      BY <1>4, <2>1, <2>2 DEF Gate
  <1>5. ASSUME NEW c \in Caller, Lock(c)
        PROVE  TypeOK'
    BY <1>5 DEF Lock, Goto, TypeOK
  <1>6. ASSUME NEW c \in Caller, Save(c)
        PROVE  TypeOK'
    <2>1. CASE End(c, "refused")
      BY <1>6, <2>1, TypeEnd DEF Save, TypeOK, CallTypes
    <2>2. ASSUME NEW o \in {"insert", "sealed"}, Goto(c, o),
                 UNCHANGED <<by, pkg, seen, switched>>
          PROVE  TypeOK'
      BY <1>6, <2>2 DEF Save, Goto, TypeOK
    <2>3. QED
      BY <1>6, <2>1, <2>2 DEF Save
  <1>7. ASSUME NEW c \in Caller, Insert(c)
        PROVE  TypeOK'
    <2>1. CASE End(c, "refused") /\ UNCHANGED saved
      BY <1>7, <2>1, TypeEnd DEF Insert, TypeOK, CallTypes
    <2>2. CASE Goto(c, "sealed") /\ saved' = pkg[c] /\ UNCHANGED <<by, pkg, seen, switched>>
      BY <1>7, <2>2 DEF Insert, Goto, TypeOK
    <2>3. QED
      BY <1>7, <2>1, <2>2 DEF Insert
  <1>8. ASSUME NEW c \in Caller, Publish(c) \/ RequestReopen(c) \/ ApproveReopen(c)
        PROVE  TypeOK'
    <2>1. state' \in CloseState /\ End(c, "idle") /\ UNCHANGED <<books, locked, saved, late>>
      BY <1>8, TypeRecords DEF Publish, RequestReopen, ApproveReopen
    <2>2. QED
      BY <2>1, TypeEnd DEF TypeOK, CallTypes
  <1>9. ASSUME NEW c \in Caller, Ask(c) \/ Review(c)
        PROVE  TypeOK'
    <2>1. CASE End(c, "refused")
      BY <1>9, <2>1, TypeEnd DEF Ask, Review, TypeOK, CallTypes
    <2>2. ASSUME NEW o \in {"asked", "unlock"}, Goto(c, o), state # None,
                 seen' = [seen EXCEPT ![c] = state],
                 UNCHANGED <<by, pkg, switched>>
          PROVE  TypeOK'
      BY <1>9, <2>2 DEF Ask, Review, Goto, TypeOK
    <2>3. QED
      BY <1>9, <2>1, <2>2 DEF Ask, Review, StatusOf
  <1>10. ASSUME NEW c \in Caller, Unlock(c)
         PROVE  TypeOK'
    BY <1>10 DEF Unlock, Goto, TypeOK
  <1>11. ASSUME NEW c \in Caller, Die(c)
         PROVE  TypeOK'
    BY <1>11, TypeEnd DEF Die, TypeOK, CallTypes
  <1>12. ASSUME NEW content \in Content, Post(content) \/ PostEarlier(content)
         PROVE  TypeOK'
    <2>1. <<content, books[2]>> \in Content \X Content
      BY DEF TypeOK
    <2>2. <<books[1], content>> \in Content \X Content
      BY DEF TypeOK
    <2>3. books' \in Content \X Content
      BY <1>12, <2>1, <2>2 DEF Post, PostEarlier
    <2>4. UNCHANGED <<locked, saved, state, calls>> /\ late' \in BOOLEAN
      BY <1>12 DEF Post, PostEarlier, TypeOK
    <2>5. QED
      BY <2>3, <2>4 DEF calls, TypeOK
  <1>13. CASE LockDirectly
    BY <1>13 DEF LockDirectly, calls, TypeOK
  <1>14. CASE UNCHANGED vars
    BY <1>14 DEF vars, TypeOK
  <1>15. QED
    BY <1>1, <1>2, <1>3, <1>4, <1>5, <1>6, <1>7, <1>8, <1>9, <1>10, <1>11,
       <1>12, <1>13, <1>14 DEF Next, Step

\* Type correctness of publishing and re-opening for any number of requests.
THEOREM TypeCorrect == Spec => []TypeOK
  <1>1. QED
    BY TypeInit, TypeNext, PTL DEF Spec

-----------------------------------------------------------------------------
\* What an ended call leaves behind: itself idle and empty, the others alone.
LEMMA EndEffect ==
  ASSUME TypeOK, NEW c \in Caller, NEW o \in Idle, End(c, o)
  PROVE  /\ pc'[c] = o /\ pkg'[c] = None /\ seen'[c] = None
         /\ \A d \in Caller : d # c => /\ pc'[d] = pc[d] /\ by'[d] = by[d]
                                       /\ pkg'[d] = pkg[d] /\ seen'[d] = seen[d]
         /\ crossed' = (crossed \/ Crossing')
  BY DEF TypeOK, End, Goto

\* A call that moves on without ending.
LEMMA GotoEffect ==
  ASSUME TypeOK, NEW c \in Caller, NEW o, Goto(c, o)
  PROVE  /\ pc'[c] = o
         /\ \A d \in Caller : d # c => pc'[d] = pc[d]
         /\ crossed' = (crossed \/ Crossing')
  BY DEF TypeOK, Goto

LEMMA InitIInv == Init => IInv
  <1> SUFFICES ASSUME Init PROVE IInv
    OBVIOUS
  <1>1. TypeOK
    BY TypeInit
  <1>2. StateNamesPackage /\ PackageKnowledge
    BY DEF Init, StateNamesPackage, PackageKnowledge
  <1>3. HistoryKnowledge
    BY DEF Init, HistoryKnowledge, WrittenWell, ReadLegal, Sealing, Approving
  <1>4. PublishedIsLocked /\ LockKnowledge /\ PackageIsTheBooks /\ BooksKnowledge
    BY DEF Init, PublishedIsLocked, LockKnowledge, PackageIsTheBooks,
           BooksKnowledge, StatusOf, Crossing, Sealing, Approving
  <1>5. QED
    BY <1>1, <1>2, <1>3, <1>4 DEF IInv

\* The package row is written once, and every state in use names it.
LEMMA PackageStep ==
  ASSUME IInv, [Next]_vars
  PROVE  /\ StateNamesPackage' /\ PackageKnowledge'
         /\ saved # None => saved' = saved
  <1> USE DEF Idle, Steps, Sealing, Approving
  <1> DEFINE Goal == /\ StateNamesPackage' /\ PackageKnowledge'
                     /\ saved # None => saved' = saved
  <1>0. TypeOK /\ StateNamesPackage /\ PackageKnowledge
    BY DEF IInv
  <1>1. None \notin Package /\ \A s \in CloseState : s.fingerprint \in Package
    BY NoneAssumption DEF Package, CloseState
  <1>2. ASSUME NEW c \in Caller, NEW o \in {"idle", "refused"}, End(c, o),
               UNCHANGED <<saved, state>>
        PROVE  Goal
    BY <1>0, <1>2, EndEffect DEF StateNamesPackage, PackageKnowledge
  <1>3. ASSUME NEW c \in Caller, NEW o \in Steps \ {"sealed"}, Goto(c, o),
               UNCHANGED <<saved, state, seen>>,
               \A d \in Caller : d # c => pkg'[d] = pkg[d]
        PROVE  Goal
    BY <1>0, <1>3, GotoEffect DEF StateNamesPackage, PackageKnowledge
  <1>4. ASSUME NEW c \in Caller, NEW o \in Steps \ {"sealed"}, Goto(c, o),
               UNCHANGED <<saved, state, pkg>>,
               seen' = [seen EXCEPT ![c] = state]
        PROVE  Goal
    BY <1>0, <1>4, GotoEffect DEF StateNamesPackage, PackageKnowledge, TypeOK
  <1>5. ASSUME NEW c \in Caller, Lock(c) \/ Unlock(c)
        PROVE  Goal
    BY <1>3, <1>5 DEF Lock, Unlock
  <1>6. ASSUME NEW c \in Caller, ReadPeriod(c) \/ ReadBalances(c)
        PROVE  Goal
    BY <1>0, <1>2, <1>3, <1>6 DEF ReadPeriod, ReadBalances, TypeOK
  <1>7. ASSUME NEW c \in Caller, Gate(c) \/ Ask(c) \/ Review(c)
        PROVE  Goal
    BY <1>2, <1>4, <1>7 DEF Gate, Ask, Review
  <1>8. ASSUME NEW c \in Caller, Save(c)
        PROVE  Goal
    <2>1. CASE Goto(c, "sealed") /\ SamePackage(pkg[c]) /\ UNCHANGED <<by, pkg, seen, switched>>
      BY <1>0, <1>8, <2>1, GotoEffect DEF Save, StateNamesPackage, PackageKnowledge
    <2>2. QED
      BY <1>2, <1>3, <1>8, <2>1 DEF Save
  <1>9. ASSUME NEW c \in Caller, Insert(c)
        PROVE  Goal
    <2>1. CASE /\ saved = None /\ saved' = pkg[c] /\ Goto(c, "sealed")
               /\ UNCHANGED <<by, pkg, seen, switched>>
      <3>1. state = None /\ \A d \in Caller : seen[d] = None
        BY <1>0, <1>1, <2>1 DEF StateNamesPackage, PackageKnowledge, TypeOK
      <3>2. \A d \in Caller : pc[d] # "sealed"
        BY <1>0, <1>1, <2>1 DEF PackageKnowledge, TypeOK
      <3>3. QED
        BY <1>0, <1>9, <2>1, <3>1, <3>2, GotoEffect
           DEF Insert, StateNamesPackage, PackageKnowledge
    <2>2. QED
      BY <1>2, <1>9, <2>1 DEF Insert
  <1>10. ASSUME NEW c \in Caller, Publish(c) \/ RequestReopen(c) \/ ApproveReopen(c)
         PROVE  Goal
    <2>1. state' # None /\ state'.fingerprint = saved
      <3>1. CASE Publish(c)
        BY <1>0, <1>1, <3>1, TypeRecords, NoneAssumption
           DEF Publish, Published, PackageKnowledge
      <3>2. CASE RequestReopen(c) \/ ApproveReopen(c)
        <4>1. seen[c] \in CloseState /\ seen[c].fingerprint = saved
          BY <1>0, <1>1, <3>2, NoneAssumption
             DEF RequestReopen, ApproveReopen, PackageKnowledge, TypeOK
        <4>2. state' \in CloseState
          BY <1>0, <3>2, TypeRecords DEF RequestReopen, ApproveReopen
        <4>3. state'.fingerprint = seen[c].fingerprint
          BY <3>2, <4>1 DEF RequestReopen, ApproveReopen, Requested, Reopened, CloseState
        <4>4. QED
          BY <4>1, <4>2, <4>3, NoneAssumption
      <3>3. QED
        BY <1>10, <3>1, <3>2
    <2>2. End(c, "idle") /\ UNCHANGED saved
      BY <1>10 DEF Publish, RequestReopen, ApproveReopen
    <2>3. QED
      BY <1>0, <2>1, <2>2, EndEffect DEF StateNamesPackage, PackageKnowledge
  <1>11. ASSUME NEW c \in Caller, Die(c)
         PROVE  Goal
    BY <1>2, <1>11 DEF Die
  <1>12. CASE UNCHANGED <<saved, state, pc, pkg, seen>>
    BY <1>0, <1>12 DEF StateNamesPackage, PackageKnowledge
  <1>13. ASSUME NEW c \in Caller, NEW person \in Person, Call(c, person)
         PROVE  Goal
    BY <1>3, <1>13 DEF Call
  <1>14. QED
    BY <1>5, <1>6, <1>7, <1>8, <1>9, <1>10, <1>11, <1>12, <1>13
       DEF Next, Step, Post, PostEarlier, LockDirectly, calls, vars

\* Unless a publish and an approval were decided side by side, a published period
\* is locked and its package is what its books say.
LEMMA LockStep ==
  ASSUME IInv, [Next]_vars
  PROVE  PublishedIsLocked' /\ LockKnowledge'
  <1> USE DEF Idle, Steps, Sealing, Approving, Crossing
  <1> DEFINE Goal == PublishedIsLocked' /\ LockKnowledge'
  <1>0. TypeOK /\ PublishedIsLocked /\ LockKnowledge
    BY DEF IInv
  <1>1. ASSUME NEW c \in Caller, NEW o \in {"idle", "refused"}, End(c, o),
               UNCHANGED <<locked, state>>
        PROVE  Goal
    BY <1>0, <1>1, EndEffect DEF PublishedIsLocked, LockKnowledge
  <1>2. ASSUME NEW c \in Caller, NEW o \in {"build", "balances", "gate", "ask", "asked", "review"},
               Goto(c, o), UNCHANGED <<locked, state>>
        PROVE  Goal
    BY <1>0, <1>2, GotoEffect DEF PublishedIsLocked, LockKnowledge
  <1>3. ASSUME NEW c \in Caller, NEW person \in Person, Call(c, person)
        PROVE  Goal
    BY <1>2, <1>3 DEF Call
  <1>4. ASSUME NEW c \in Caller, ReadPeriod(c) \/ ReadBalances(c) \/ Ask(c) \/ Die(c)
        PROVE  Goal
    BY <1>1, <1>2, <1>4 DEF ReadPeriod, ReadBalances, Ask, Die
  <1>5. ASSUME NEW c \in Caller, Gate(c)
        PROVE  Goal
    <2>1. CASE Goto(c, "lock") /\ UNCHANGED <<locked, state>>
      BY <1>0, <2>1, GotoEffect DEF PublishedIsLocked, LockKnowledge
    <2>2. CASE (End(c, "idle") \/ End(c, "refused")) /\ UNCHANGED <<locked, state>>
      BY <1>1, <2>2
    <2>3. QED
      BY <1>5, <2>1, <2>2 DEF Gate
  <1>6. ASSUME NEW c \in Caller, Lock(c)
        PROVE  Goal
    BY <1>0, <1>6, GotoEffect DEF Lock, PublishedIsLocked, LockKnowledge
  <1>7. ASSUME NEW c \in Caller, Save(c) \/ Insert(c)
        PROVE  Goal
    <2>1. ASSUME NEW o \in {"insert", "sealed"}, Goto(c, o), pc[c] \in {"save", "insert"},
                 UNCHANGED <<locked, state>>
          PROVE  Goal
      BY <1>0, <2>1, GotoEffect DEF PublishedIsLocked, LockKnowledge
    <2>2. QED
      BY <1>1, <1>7, <2>1 DEF Save, Insert
  <1>8. ASSUME NEW c \in Caller, Publish(c)
        PROVE  Goal
    <2>1. /\ pc[c] = "sealed" /\ End(c, "idle") /\ UNCHANGED locked
      BY <1>8 DEF Publish
    <2>2. ~crossed => locked /\ \A d \in Caller : pc[d] \notin Approving
      BY <1>0, <2>1 DEF LockKnowledge
    <2>3. QED
      BY <1>0, <2>1, <2>2, EndEffect DEF PublishedIsLocked, LockKnowledge
  <1>9. ASSUME NEW c \in Caller, RequestReopen(c) \/ ApproveReopen(c)
        PROVE  Goal
    <2>1. StatusOf(state)' # "PUBLISHED"
      <3>1. seen[c] \in CloseState /\ state' \in CloseState
        BY <1>0, <1>9, TypeRecords DEF RequestReopen, ApproveReopen, TypeOK
      <3>2. state'.status \in {"REOPEN_REQUESTED", "REOPENED"}
        BY <1>9, <3>1 DEF RequestReopen, ApproveReopen, Requested, Reopened, CloseState
      <3>3. QED
        BY <3>1, <3>2, NoneAssumption DEF StatusOf
    <2>2. End(c, "idle") /\ UNCHANGED locked
      BY <1>9 DEF RequestReopen, ApproveReopen
    <2>3. QED
      BY <1>0, <2>1, <2>2, EndEffect DEF PublishedIsLocked, LockKnowledge
  <1>10. ASSUME NEW c \in Caller, Review(c)
         PROVE  Goal
    <2>1. CASE Goto(c, "unlock") /\ StatusOf(state) # "PUBLISHED" /\ UNCHANGED <<locked, state>>
      BY <1>0, <2>1, GotoEffect DEF PublishedIsLocked, LockKnowledge, StatusOf
    <2>2. QED
      BY <1>1, <1>10, <2>1 DEF Review
  <1>11. ASSUME NEW c \in Caller, Unlock(c)
         PROVE  Goal
    <2>1. ~crossed => /\ StatusOf(state) # "PUBLISHED"
                      /\ \A d \in Caller : pc[d] \notin Sealing
      BY <1>0, <1>11 DEF Unlock, LockKnowledge
    <2>2. Goto(c, "opened") /\ UNCHANGED state
      BY <1>11 DEF Unlock
    <2>3. QED
      BY <1>0, <2>1, <2>2, GotoEffect DEF PublishedIsLocked, LockKnowledge, StatusOf
  <1>12. CASE UNCHANGED <<state, pc, crossed>> /\ (locked => locked')
    BY <1>0, <1>12 DEF PublishedIsLocked, LockKnowledge, StatusOf
  <1>13. QED
    BY <1>3, <1>4, <1>5, <1>6, <1>7, <1>8, <1>9, <1>10, <1>11, <1>12
       DEF Next, Step, Post, PostEarlier, LockDirectly, calls, vars

\* The packages under way, and the published one, are what the books say, unless
\* the period was posted to beside a publish.
LEMMA BooksStep ==
  ASSUME IInv, [Next]_vars
  PROVE  PackageIsTheBooks' /\ BooksKnowledge'
  <1> USE DEF Idle, Steps, Sealing, Approving
  <1> DEFINE Building == {"balances", "gate", "lock", "save", "insert", "sealed"}
  <1> DEFINE Goal == PackageIsTheBooks' /\ BooksKnowledge'
  <1>0. /\ TypeOK /\ PublishedIsLocked /\ LockKnowledge /\ PackageIsTheBooks
        /\ BooksKnowledge /\ StateNamesPackage /\ PackageKnowledge
    BY DEF IInv
  <1>1. saved # None => saved' = saved
    BY PackageStep
  <1>2. ASSUME NEW c \in Caller, NEW o \in Idle, End(c, o),
               UNCHANGED <<books, saved, state, late>>
        PROVE  Goal
    BY <1>0, <1>2, EndEffect DEF PackageIsTheBooks, BooksKnowledge
  <1>3. ASSUME NEW c \in Caller, NEW o \in Steps \ Building, Goto(c, o),
               UNCHANGED <<books, saved, state, late, pkg>>
        PROVE  Goal
    BY <1>0, <1>3, GotoEffect DEF PackageIsTheBooks, BooksKnowledge
  <1>4. ASSUME NEW c \in Caller, NEW o \in Building, pc[c] \in Building, Goto(c, o),
               UNCHANGED <<books, late, pkg, state>>,
               saved' = saved \/ StatusOf(state) # "PUBLISHED"
        PROVE  Goal
    BY <1>0, <1>4, GotoEffect DEF PackageIsTheBooks, BooksKnowledge, StatusOf
  <1>5. ASSUME NEW c \in Caller, NEW person \in Person, Call(c, person)
        PROVE  Goal
    BY <1>3, <1>5 DEF Call
  <1>6. ASSUME NEW c \in Caller, ReadPeriod(c)
        PROVE  Goal
    <2>1. pkg'[c] = books /\ \A d \in Caller : d # c => pkg'[d] = pkg[d]
      BY <1>0, <1>6 DEF ReadPeriod, TypeOK
    <2>2. Goto(c, "balances") /\ UNCHANGED <<books, saved, state, late>>
      BY <1>6 DEF ReadPeriod
    <2>3. QED
      BY <1>0, <2>1, <2>2, GotoEffect DEF PackageIsTheBooks, BooksKnowledge
  <1>7. ASSUME NEW c \in Caller, ReadBalances(c)
        PROVE  Goal
    <2>1. CASE /\ Goto(c, "gate")
               /\ pkg' = [pkg EXCEPT ![c] = <<@[1], books[2]>>]
               /\ UNCHANGED <<books, saved, state, late>>
      <3>1. pkg'[c][1] = pkg[c][1] /\ \A d \in Caller : d # c => pkg'[d] = pkg[d]
        BY <1>0, <2>1 DEF TypeOK
      <3>2. pc[c] = "balances"
        BY <1>7 DEF ReadBalances
      <3>3. QED
        BY <1>0, <2>1, <3>1, <3>2, GotoEffect DEF PackageIsTheBooks, BooksKnowledge
    <2>2. QED
      BY <1>2, <1>7, <2>1 DEF ReadBalances
  <1>8. ASSUME NEW c \in Caller, Gate(c)
        PROVE  Goal
    <2>1. CASE Goto(c, "lock") /\ UNCHANGED <<books, saved, state, late, pkg>>
      BY <1>4, <1>8, <2>1 DEF Gate
    <2>2. CASE /\ End(c, "idle") \/ End(c, "refused")
               /\ UNCHANGED <<books, saved, state, late>>
      BY <1>2, <2>2
    <2>3. QED
      BY <1>8, <2>1, <2>2 DEF Gate
  <1>9. ASSUME NEW c \in Caller, Lock(c) \/ Save(c)
        PROVE  Goal
    BY <1>2, <1>4, <1>9 DEF Lock, Save
  <1>10. ASSUME NEW c \in Caller, Insert(c)
         PROVE  Goal
    <2>1. saved = None => StatusOf(state) # "PUBLISHED"
      <3>1. \A s \in CloseState : s.fingerprint # None
        BY NoneAssumption DEF CloseState
      <3>2. QED
        BY <1>0, <3>1 DEF StateNamesPackage, StatusOf, TypeOK
    <2>2. QED
      BY <1>2, <1>4, <1>10, <2>1 DEF Insert
  <1>11. ASSUME NEW c \in Caller, Publish(c)
         PROVE  Goal
    <2>1. /\ End(c, "idle") /\ pc[c] = "sealed"
          /\ UNCHANGED <<books, saved, late>>
      BY <1>11 DEF Publish
    <2>2. ~crossed /\ ~late => saved[1] = books[1]
      BY <1>0, <2>1 DEF BooksKnowledge, PackageKnowledge
    <2>3. QED
      BY <1>0, <2>1, <2>2, EndEffect DEF PackageIsTheBooks, BooksKnowledge
  <1>12. ASSUME NEW c \in Caller, RequestReopen(c) \/ ApproveReopen(c)
         PROVE  Goal
    <2>1. StatusOf(state)' # "PUBLISHED"
      <3>1. seen[c] \in CloseState /\ state' \in CloseState
        BY <1>0, <1>12, TypeRecords DEF RequestReopen, ApproveReopen, TypeOK
      <3>2. state'.status \in {"REOPEN_REQUESTED", "REOPENED"}
        BY <1>12, <3>1 DEF RequestReopen, ApproveReopen, Requested, Reopened, CloseState
      <3>3. QED
        BY <3>1, <3>2, NoneAssumption DEF StatusOf
    <2>2. End(c, "idle") /\ UNCHANGED <<books, saved, late>>
      BY <1>12 DEF RequestReopen, ApproveReopen
    <2>3. QED
      BY <1>0, <2>1, <2>2, EndEffect DEF PackageIsTheBooks, BooksKnowledge
  <1>13. ASSUME NEW c \in Caller, Ask(c) \/ Review(c) \/ Unlock(c)
         PROVE  Goal
    BY <1>2, <1>3, <1>13 DEF Ask, Review, Unlock
  <1>14. ASSUME NEW c \in Caller, Die(c)
         PROVE  Goal
    BY <1>2, <1>14 DEF Die
  <1>15. ASSUME NEW content \in Content, Post(content)
         PROVE  Goal
    <2>1. /\ ~locked /\ UNCHANGED <<saved, state, pc, pkg, crossed>>
          /\ late' = (late \/ \E c \in Caller : pc[c] \in {"balances", "gate", "lock"})
      BY <1>15 DEF Post, calls
    <2>2. ~crossed' /\ ~late' => /\ StatusOf(state') # "PUBLISHED"
                                /\ \A c \in Caller : pc'[c] \notin Building
      BY <1>0, <2>1 DEF PublishedIsLocked, LockKnowledge
    <2>3. QED
      BY <2>2 DEF PackageIsTheBooks, BooksKnowledge
  <1>16. ASSUME NEW content \in Content, PostEarlier(content)
         PROVE  Goal
    <2>1. books'[1] = books[1] /\ UNCHANGED <<saved, state, pc, pkg, crossed, late>>
      BY <1>0, <1>16 DEF PostEarlier, calls, TypeOK
    <2>2. QED
      BY <1>0, <2>1 DEF PackageIsTheBooks, BooksKnowledge
  <1>17. CASE UNCHANGED <<books, saved, state, pc, pkg, crossed, late>>
    BY <1>0, <1>17 DEF PackageIsTheBooks, BooksKnowledge
  <1>18. QED
    BY <1>5, <1>6, <1>7, <1>8, <1>9, <1>10, <1>11, <1>12, <1>13, <1>14, <1>15,
       <1>16, <1>17 DEF Next, Step, LockDirectly, calls, vars

\* A legal history stays legal when a transition that may follow is appended.
LEMMA AppendLegal ==
  ASSUME NEW h \in Seq(Transition), NEW t \in Transition, Legal(h),
         h # <<>> => LET last == h[Len(h)]
                     IN  /\ t.action = "PUBLISH" => last.action # "PUBLISH"
                         /\ t.action = "REQUEST_REOPEN" => last.action = "PUBLISH"
                         /\ t.action = "APPROVE_REOPEN" =>
                              last.action = "REQUEST_REOPEN" /\ last.by # t.by,
         h = <<>> => t.action = "PUBLISH"
  PROVE  /\ Append(h, t) # <<>>
         /\ Legal(Append(h, t))
         /\ Append(h, t)[Len(Append(h, t))] = t
  <1> DEFINE g == Append(h, t)
  <1>1. /\ Len(g) = Len(h) + 1 /\ Len(h) \in Nat /\ g[Len(h) + 1] = t
        /\ \A i \in 1..Len(h) : g[i] = h[i]
    OBVIOUS
  <1>2. h # <<>> <=> Len(h) > 0
    OBVIOUS
  <1> HIDE DEF g
  <1>3. ASSUME NEW i \in 1..Len(h)
        PROVE  LegalAt(g, i)
    <2>1. LegalAt(h, i) /\ g[i] = h[i] /\ (i > 1 => g[i - 1] = h[i - 1])
      BY <1>1, <1>3 DEF Legal
    <2>2. QED
      BY <2>1 DEF LegalAt
  <1>4. LegalAt(g, Len(h) + 1)
    <2>1. h = <<>> => Len(h) + 1 = 1
      BY <1>1, <1>2
    <2>2. h # <<>> => Len(h) + 1 > 1 /\ g[Len(h)] = h[Len(h)]
      BY <1>1, <1>2
    <2>3. (Len(h) + 1) - 1 = Len(h)
      BY <1>1
    <2>4. CASE h = <<>>
      BY <1>1, <2>1, <2>4 DEF LegalAt
    <2>5. CASE h # <<>>
      BY <1>1, <2>2, <2>3, <2>5 DEF LegalAt
    <2>6. QED
      BY <2>4, <2>5
  <1>5. Legal(g)
    BY <1>1, <1>3, <1>4 DEF Legal
  <1>6. QED
    BY <1>1, <1>2, <1>5 DEF g

\* A close state whose history grows by a transition that may follow is written
\* well again.
LEMMA GrowsWell ==
  ASSUME NEW s \in CloseState \cup {None}, WrittenWell(s), NEW r \in CloseState,
         NEW person \in Person,
         \/ /\ StatusOf(s) # "PUBLISHED"
            /\ r.status = "PUBLISHED"
            /\ r.history = Append(HistoryOf(s), [action |-> "PUBLISH", by |-> person])
         \/ /\ StatusOf(s) = "PUBLISHED"
            /\ r.status = "REOPEN_REQUESTED" /\ r.requestedBy = person
            /\ r.history = Append(HistoryOf(s), [action |-> "REQUEST_REOPEN", by |-> person])
         \/ /\ StatusOf(s) = "REOPEN_REQUESTED" /\ s.requestedBy # person
            /\ r.status = "REOPENED"
            /\ r.history = Append(HistoryOf(s), [action |-> "APPROVE_REOPEN", by |-> person])
  PROVE  WrittenWell(r)
  <1>1. PICK t \in Transition : /\ t.by = person
                               /\ r.history = Append(HistoryOf(s), t)
                               /\ \/ /\ StatusOf(s) # "PUBLISHED" /\ r.status = "PUBLISHED"
                                     /\ t.action = "PUBLISH"
                                  \/ /\ StatusOf(s) = "PUBLISHED" /\ r.status = "REOPEN_REQUESTED"
                                     /\ t.action = "REQUEST_REOPEN" /\ r.requestedBy = person
                                  \/ /\ StatusOf(s) = "REOPEN_REQUESTED" /\ s.requestedBy # person
                                     /\ t.action = "APPROVE_REOPEN" /\ r.status = "REOPENED"
    BY DEF Transition, Action
  <1>2. /\ HistoryOf(s) \in Seq(Transition)
        /\ s = None => HistoryOf(s) = <<>> /\ StatusOf(s) = "OPEN"
        /\ s # None => HistoryOf(s) = s.history /\ StatusOf(s) = s.status
    BY DEF HistoryOf, StatusOf, CloseState
  <1>3. Legal(HistoryOf(s))
    BY <1>2 DEF WrittenWell, Legal
  <1>4. /\ Legal(r.history) /\ r.history # <<>>
        /\ r.history[Len(r.history)] = t
    BY <1>1, <1>2, <1>3, AppendLegal DEF WrittenWell
  <1>5. QED
    BY <1>1, <1>4 DEF WrittenWell

\* Every close state in use has a history the workflow could have written.
LEMMA HistoryStep ==
  ASSUME IInv, [Next]_vars
  PROVE  HistoryKnowledge'
  <1> USE DEF Idle, Steps, Sealing, Approving
  <1>0. TypeOK /\ HistoryKnowledge
    BY DEF IInv
  <1>1. ASSUME NEW c \in Caller, NEW o \in Idle, End(c, o), WrittenWell(state)'
        PROVE  HistoryKnowledge'
    BY <1>0, <1>1, EndEffect DEF HistoryKnowledge, ReadLegal, WrittenWell
  <1>2. ASSUME NEW c \in Caller, NEW o \in Steps, Goto(c, o), UNCHANGED <<state, seen>>,
               \A d \in Caller : d # c => by'[d] = by[d],
               \/ o \in {"build", "balances", "gate", "ask", "review"}
               \/ by'[c] = by[c] /\ {pc[c], o} \subseteq Sealing
               \/ by'[c] = by[c] /\ {pc[c], o} \subseteq Approving
        PROVE  HistoryKnowledge'
    <2>1. ReadLegal(c)'
      BY <1>0, <1>2, GotoEffect DEF HistoryKnowledge, ReadLegal
    <2>2. \A d \in Caller : d # c => ReadLegal(d)'
      BY <1>0, <1>2, GotoEffect DEF HistoryKnowledge, ReadLegal
    <2>3. QED
      BY <1>0, <1>2, <2>1, <2>2 DEF HistoryKnowledge
  <1>3. ASSUME NEW c \in Caller, NEW o \in {"lock", "asked", "unlock"}, Goto(c, o),
               UNCHANGED <<state, by>>, seen' = [seen EXCEPT ![c] = state],
               o = "lock" => StatusOf(state) # "PUBLISHED",
               o = "asked" => StatusOf(state) = "PUBLISHED",
               o = "unlock" => StatusOf(state) = "REOPEN_REQUESTED" /\ MayApprove(state, by[c])
        PROVE  HistoryKnowledge'
    <2>1. seen'[c] = state /\ \A d \in Caller : d # c => seen'[d] = seen[d]
      BY <1>0, <1>3 DEF TypeOK
    <2>2. QED
      BY <1>0, <1>3, <2>1, GotoEffect DEF HistoryKnowledge, ReadLegal
  <1>4. ASSUME NEW c \in Caller, NEW person \in Person, Call(c, person)
        PROVE  HistoryKnowledge'
    BY <1>0, <1>2, <1>4 DEF Call, TypeOK
  <1>5. ASSUME NEW c \in Caller, NEW o \in Idle, End(c, o), UNCHANGED state
        PROVE  HistoryKnowledge'
    BY <1>0, <1>1, <1>5 DEF HistoryKnowledge
  <1>6. ASSUME NEW c \in Caller, ReadPeriod(c) \/ ReadBalances(c) \/ Die(c)
        PROVE  HistoryKnowledge'
    BY <1>2, <1>5, <1>6 DEF ReadPeriod, ReadBalances, Die
  <1>7. ASSUME NEW c \in Caller, Gate(c) \/ Ask(c) \/ Review(c)
        PROVE  HistoryKnowledge'
    BY <1>3, <1>5, <1>7 DEF Gate, Ask, Review
  <1>8. ASSUME NEW c \in Caller, Lock(c) \/ Save(c) \/ Insert(c) \/ Unlock(c)
        PROVE  HistoryKnowledge'
    BY <1>2, <1>5, <1>8 DEF Lock, Save, Insert, Unlock
  <1>9. ASSUME NEW c \in Caller, Publish(c) \/ RequestReopen(c) \/ ApproveReopen(c)
        PROVE  HistoryKnowledge'
    <2>1. /\ WrittenWell(seen[c]) /\ ReadLegal(c) /\ End(c, "idle")
          /\ seen[c] \in CloseState \cup {None} /\ by[c] \in Person
      BY <1>0, <1>9 DEF Publish, RequestReopen, ApproveReopen, HistoryKnowledge, TypeOK
    <2>2. ASSUME Publish(c)
          PROVE  WrittenWell(state')
      <3>1. Published(c) \in CloseState /\ state' = Published(c)
            /\ StatusOf(seen[c]) # "PUBLISHED"
        BY <1>0, <2>1, <2>2, TypeRecords DEF Publish, ReadLegal
      <3>2. /\ Published(c).status = "PUBLISHED"
            /\ Published(c).history =
                 Append(HistoryOf(seen[c]), [action |-> "PUBLISH", by |-> by[c]])
        BY DEF Published
      <3>3. QED
        BY <2>1, <3>1, <3>2, GrowsWell
    <2>3. ASSUME RequestReopen(c)
          PROVE  WrittenWell(state')
      <3>1. /\ Requested(c) \in CloseState /\ state' = Requested(c)
            /\ StatusOf(seen[c]) = "PUBLISHED"
            /\ seen[c] \in CloseState /\ seen[c] # None
        BY <1>0, <2>1, <2>3, TypeRecords, NoneAssumption DEF RequestReopen, ReadLegal, TypeOK
      <3>2. /\ Requested(c).status = "REOPEN_REQUESTED"
            /\ Requested(c).requestedBy = by[c]
            /\ Requested(c).history =
                 Append(HistoryOf(seen[c]), [action |-> "REQUEST_REOPEN", by |-> by[c]])
        BY <3>1 DEF Requested, CloseState, HistoryOf
      <3>3. QED
        BY <2>1, <3>1, <3>2, GrowsWell
    <2>4. ASSUME ApproveReopen(c)
          PROVE  WrittenWell(state')
      <3>1. /\ Reopened(c) \in CloseState /\ state' = Reopened(c)
            /\ StatusOf(seen[c]) = "REOPEN_REQUESTED" /\ seen[c].requestedBy # by[c]
            /\ seen[c] \in CloseState /\ seen[c] # None
        BY <1>0, <2>1, <2>4, TypeRecords, NoneAssumption DEF ApproveReopen, ReadLegal, TypeOK
      <3>2. /\ Reopened(c).status = "REOPENED"
            /\ Reopened(c).history =
                 Append(HistoryOf(seen[c]), [action |-> "APPROVE_REOPEN", by |-> by[c]])
        BY <3>1 DEF Reopened, CloseState, HistoryOf
      <3>3. QED
        BY <2>1, <3>1, <3>2, GrowsWell
    <2>5. WrittenWell(state')
      BY <1>9, <2>2, <2>3, <2>4
    <2>6. QED
      BY <1>1, <2>1, <2>5
  <1>10. CASE UNCHANGED <<state, pc, by, seen>>
    BY <1>0, <1>10 DEF HistoryKnowledge, ReadLegal
  <1>11. QED
    BY <1>4, <1>6, <1>7, <1>8, <1>9, <1>10
       DEF Next, Step, Post, PostEarlier, LockDirectly, calls, vars

LEMMA IInvStep == IInv /\ [Next]_vars => IInv'
  BY TypeNext, PackageStep, HistoryStep, LockStep, BooksStep DEF IInv

LEMMA Inductive == Spec => []IInv
  BY InitIInv, IInvStep, PTL DEF Spec

-----------------------------------------------------------------------------
\* The stored package of a period is never replaced.
THEOREM PackageImmutableHolds == Spec => PackageImmutable
  <1>1. IInv /\ [Next]_vars => [saved # None => saved' = saved]_saved
    BY PackageStep
  <1>2. QED
    BY <1>1, Inductive, PTL DEF Spec, PackageImmutable

\* Every close state on record names the stored package.
THEOREM StateNamesPackageHolds == Spec => []StateNamesPackage
  <1>1. IInv => StateNamesPackage
    BY DEF IInv
  <1>2. QED
    BY <1>1, Inductive, PTL

\* However the calls interleave, the recorded history alternates publish, request
\* and approval, and nobody approved a reopen of their own.
THEOREM HistoryLegalHolds == Spec => []HistoryLegal
  <1>1. IInv => HistoryLegal
    <2>1. Legal(<<>>)
      BY DEF Legal
    <2>2. QED
      BY <2>1 DEF IInv, HistoryKnowledge, WrittenWell, HistoryLegal, HistoryOf
  <1>2. QED
    BY <1>1, Inductive, PTL

\* A published period is locked, unless an approval crossed the publish.
THEOREM PublishedIsLockedHolds == Spec => []PublishedIsLocked
  <1>1. IInv => PublishedIsLocked
    BY DEF IInv
  <1>2. QED
    BY <1>1, Inductive, PTL

\* A published period's package is what its books say, unless an approval or a
\* posting crossed the publish.
THEOREM PackageIsTheBooksHolds == Spec => []PackageIsTheBooks
  <1>1. IInv => PackageIsTheBooks
    BY DEF IInv
  <1>2. QED
    BY <1>1, Inductive, PTL
=============================================================================
