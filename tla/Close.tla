------------------------------- MODULE Close -------------------------------
(***************************************************************************)
(* Publishing and re-opening one period of one tenant: the handlers of     *)
(* ledger-service/src/handlers.ts over close/src/closeState.ts, the SQL    *)
(* close-state and package stores and the period store, with postings      *)
(* going on meanwhile.  Each action is the code between two awaits:        *)
(*                                                                         *)
(*   publish: build the package from trial balances read one by one; read  *)
(*            the state, gate; periods.lock; packages.save (SELECT,        *)
(*            INSERT); states.put                                          *)
(*   request: read the state; states.put                                   *)
(*   approve: read the state; periods.unlock; states.put                   *)
(*                                                                         *)
(* None of these is in a transaction with another.                         *)
(***************************************************************************)
EXTENDS Integers, Sequences

CONSTANTS Caller,      \* concurrent requests
          Person,      \* who may make them
          Content,     \* what the books of a period can say
          MaxHistory,  \* bound: transitions a history grows to
          None         \* no row, no package

VARIABLES
  books,     \* <<this period, the periods before it>>, as posted
  locked,    \* the PeriodStore status of this period is LOCKED
  saved,     \* the financial_package row: its fingerprinted content
  state,     \* the close_state row
  pc,        \* where each call is
  by,        \* the person making it (None between calls)
  pkg,       \* the package a publish has built
  seen,      \* the close state a call has read
  switched,  \* history: this publish turned the period from open to locked
  crossed,   \* history: a publish and an approval were decided side by side
  late       \* history: the period was posted to while a publish ran

calls == <<pc, by, pkg, seen, switched, crossed>>
vars  == <<books, locked, saved, state, pc, by, pkg, seen, switched, crossed, late>>

Package == Content \X Content

Action == {"PUBLISH", "REQUEST_REOPEN", "APPROVE_REOPEN"}
Transition == [action : Action, by : Person]
CloseState == [status : {"PUBLISHED", "REOPEN_REQUESTED", "REOPENED"},
               fingerprint : Package, requestedBy : Person \cup {None},
               history : Seq(Transition)]

ASSUME NoneAssumption ==
  None \notin Package /\ None \notin Person /\ None \notin CloseState

Idle       == {"idle", "refused"}
Sealing    == {"lock", "save", "insert", "sealed"}
Approving  == {"unlock", "opened"}
Steps      == {"build", "balances", "gate", "ask", "asked", "review"} \cup Sealing \cup Approving

Init ==
  /\ books \in Content \X Content
  /\ locked = FALSE
  /\ saved = None
  /\ state = None
  /\ pc = [c \in Caller |-> "idle"]
  /\ by = [c \in Caller |-> None]
  /\ pkg = [c \in Caller |-> None]
  /\ seen = [c \in Caller |-> None]
  /\ switched = [c \in Caller |-> FALSE]
  /\ crossed = FALSE
  /\ late = FALSE

-----------------------------------------------------------------------------
\* A publish past its check of the state and an approval past its own.
Crossing == \E a, b \in Caller : pc[a] \in Sealing /\ pc[b] \in Approving

Goto(c, step) == /\ pc' = [pc EXCEPT ![c] = step]
                 /\ crossed' = (crossed \/ Crossing')

\* The call is over; nothing it remembers outlives it.
End(c, outcome) ==
  /\ Goto(c, outcome)
  /\ pkg' = [pkg EXCEPT ![c] = None]
  /\ seen' = [seen EXCEPT ![c] = None]
  /\ by' = [by EXCEPT ![c] = None]
  /\ switched' = [switched EXCEPT ![c] = FALSE]

HistoryOf(s) == IF s = None THEN <<>> ELSE s.history
StatusOf(s)  == IF s = None THEN "OPEN" ELSE s.status

\* What the trial balance of the period says.  Fault: it is not kept.
NothingRead == None
PeriodBalances == books

\* Separation of duties on a reopen.  Fault: one person may do both.
AnyoneApproves(s, person) == TRUE
MayApprove(s, person) == s.requestedBy # person

\* periods.lock.  Fault: the period is left open.
LeftOpen == UNCHANGED locked
SealPeriod == locked' = TRUE

\* packages.save accepts the package beside the row it reads.  Fault: any
\* package is accepted once one is published.
AnyPackage(p) == TRUE
SamePackage(p) == saved = p

\* INSERT under the primary key (tenant, period).  Fault: the last write wins.
NoPrimaryKey == TRUE
NoPackageRow == saved = None

\* The record publishClose puts: built afresh, the history it read carried on.
Published(c) ==
  [status |-> "PUBLISHED", fingerprint |-> pkg[c], requestedBy |-> None,
   history |-> Append(HistoryOf(seen[c]), [action |-> "PUBLISH", by |-> by[c]])]

\* The record requestReopen and approveReopen put: the one they read, with its
\* new status.
Requested(c) ==
  [seen[c] EXCEPT
     !.status = "REOPEN_REQUESTED", !.requestedBy = by[c],
     !.history = Append(@, [action |-> "REQUEST_REOPEN", by |-> by[c]])]
Reopened(c) ==
  [seen[c] EXCEPT
     !.status = "REOPENED",
     !.history = Append(@, [action |-> "APPROVE_REOPEN", by |-> by[c]])]

-----------------------------------------------------------------------------
\* A handler is called: closePublish, closeReopenRequest, closeReopenApprove.
Call(c, person) ==
  /\ pc[c] \in Idle
  /\ Len(HistoryOf(state)) < MaxHistory
  /\ \E step \in {"build", "ask", "review"} : Goto(c, step)
  /\ by' = [by EXCEPT ![c] = person]
  /\ UNCHANGED <<books, locked, saved, state, pkg, seen, switched, late>>

\* buildPackageInput: the trial balance of the period.
ReadPeriod(c) ==
  /\ pc[c] = "build"
  /\ Goto(c, "balances")
  /\ pkg' = [pkg EXCEPT ![c] = PeriodBalances]
  /\ UNCHANGED <<books, locked, saved, state, by, seen, switched, late>>

\* buildPackageInput: the trial balances up to its end and up to its beginning;
\* buildFinancialPackage refuses books that do not tie out.
ReadBalances(c) ==
  /\ pc[c] = "balances"
  /\ \/ /\ Goto(c, "gate")
        /\ pkg' = [pkg EXCEPT ![c] = <<@[1], books[2]>>]
        /\ UNCHANGED <<by, seen, switched>>
     \/ End(c, "refused")
  /\ UNCHANGED <<books, locked, saved, state, late>>

\* publishClose: a published period is returned or refused as it is; the gate
\* and the separation of duties may refuse any other.
Gate(c) ==
  /\ pc[c] = "gate"
  /\ \/ /\ StatusOf(state) = "PUBLISHED"
        /\ state.fingerprint = pkg[c]
        /\ End(c, "idle")
     \/ /\ StatusOf(state) = "PUBLISHED" => state.fingerprint # pkg[c]
        /\ End(c, "refused")
     \/ /\ StatusOf(state) # "PUBLISHED"
        /\ Goto(c, "lock")
        /\ seen' = [seen EXCEPT ![c] = state]
        /\ UNCHANGED <<by, pkg, switched>>
  /\ UNCHANGED <<books, locked, saved, state, late>>

\* publishClose: periods.lock.
Lock(c) ==
  /\ pc[c] = "lock"
  /\ SealPeriod
  /\ switched' = [switched EXCEPT ![c] = ~locked]
  /\ Goto(c, "save")
  /\ UNCHANGED <<books, saved, state, by, pkg, seen, late>>

\* packages.save: the SELECT.  The same package is already published; another
\* one is a PackagePublishedError.
Save(c) ==
  /\ pc[c] = "save"
  /\ \/ /\ saved = None
        /\ Goto(c, "insert")
        /\ UNCHANGED <<by, pkg, seen, switched>>
     \/ /\ saved # None
        /\ SamePackage(pkg[c])
        /\ Goto(c, "sealed")
        /\ UNCHANGED <<by, pkg, seen, switched>>
     \/ /\ saved # None
        /\ ~SamePackage(pkg[c])
        /\ End(c, "refused")
  /\ UNCHANGED <<books, locked, saved, state, late>>

\* packages.save: the INSERT, refused when another has got in since.
Insert(c) ==
  /\ pc[c] = "insert"
  /\ \/ /\ NoPackageRow
        /\ saved' = pkg[c]
        /\ Goto(c, "sealed")
        /\ UNCHANGED <<by, pkg, seen, switched>>
     \/ /\ ~NoPackageRow
        /\ End(c, "refused")
        /\ UNCHANGED saved
  /\ UNCHANGED <<books, locked, state, late>>

\* publishClose: states.put.
Publish(c) ==
  /\ pc[c] = "sealed"
  /\ state' = Published(c)
  /\ End(c, "idle")
  /\ UNCHANGED <<books, locked, saved, late>>

\* requestReopen: states.get; only a published period can be re-opened.
Ask(c) ==
  /\ pc[c] = "ask"
  /\ IF StatusOf(state) = "PUBLISHED"
     THEN /\ Goto(c, "asked")
          /\ seen' = [seen EXCEPT ![c] = state]
          /\ UNCHANGED <<by, pkg, switched>>
     ELSE End(c, "refused")
  /\ UNCHANGED <<books, locked, saved, state, late>>

\* requestReopen: states.put.
RequestReopen(c) ==
  /\ pc[c] = "asked"
  /\ state' = Requested(c)
  /\ End(c, "idle")
  /\ UNCHANGED <<books, locked, saved, late>>

\* approveReopen: states.get, a pending request by somebody else.
Review(c) ==
  /\ pc[c] = "review"
  /\ IF StatusOf(state) = "REOPEN_REQUESTED" /\ MayApprove(state, by[c])
     THEN /\ Goto(c, "unlock")
          /\ seen' = [seen EXCEPT ![c] = state]
          /\ UNCHANGED <<by, pkg, switched>>
     ELSE End(c, "refused")
  /\ UNCHANGED <<books, locked, saved, state, late>>

\* approveReopen: periods.unlock.
Unlock(c) ==
  /\ pc[c] = "unlock"
  /\ locked' = FALSE
  /\ Goto(c, "opened")
  /\ UNCHANGED <<books, saved, state, by, pkg, seen, switched, late>>

\* approveReopen: states.put.
ApproveReopen(c) ==
  /\ pc[c] = "opened"
  /\ state' = Reopened(c)
  /\ End(c, "idle")
  /\ UNCHANGED <<books, locked, saved, late>>

\* The process dies, or a store throws.
Die(c) ==
  /\ pc[c] \in Steps
  /\ End(c, "idle")
  /\ UNCHANGED <<books, locked, saved, state, late>>

\* The posting engine changes what the period's books say: only while it is
\* open.  Its own race with the lock is in Ledger.tla.
Post(content) ==
  /\ ~locked
  /\ content # books[1]
  /\ books' = <<content, books[2]>>
  /\ late' = (late \/ \E c \in Caller : pc[c] \in {"balances", "gate", "lock"})
  /\ UNCHANGED <<locked, saved, state, calls>>

\* An earlier period, whose own lock this is not, is posted to.
PostEarlier(content) ==
  /\ content # books[2]
  /\ books' = <<books[1], content>>
  /\ UNCHANGED <<locked, saved, state, calls, late>>

\* POST /periods/<p>/lock (handlers.ts) and cutover seal a period directly.
LockDirectly ==
  /\ ~locked
  /\ locked' = TRUE
  /\ UNCHANGED <<books, saved, state, calls, late>>

Step(c) ==
  \/ ReadPeriod(c) \/ ReadBalances(c) \/ Gate(c) \/ Lock(c) \/ Save(c) \/ Insert(c) \/ Publish(c)
  \/ Ask(c) \/ RequestReopen(c)
  \/ Review(c) \/ Unlock(c) \/ ApproveReopen(c)

Next ==
  \/ \E c \in Caller : Step(c) \/ Die(c)
  \/ \E c \in Caller, person \in Person : Call(c, person)
  \/ \E content \in Content : Post(content) \/ PostEarlier(content)
  \/ LockDirectly

Spec == Init /\ [][Next]_vars

-----------------------------------------------------------------------------
\* Types of every variable.
TypeOK ==
  /\ books \in Content \X Content
  /\ locked \in BOOLEAN
  /\ saved \in Package \cup {None}
  /\ state \in CloseState \cup {None}
  /\ pc \in [Caller -> Idle \cup Steps]
  /\ by \in [Caller -> Person \cup {None}]
  /\ \A c \in Caller : pc[c] \in Steps => by[c] \in Person
  /\ pkg \in [Caller -> Package \cup {None}]
  /\ \A c \in Caller : pc[c] \in {"balances", "gate"} \cup Sealing => pkg[c] \in Package
  /\ seen \in [Caller -> CloseState \cup {None}]
  /\ \A c \in Caller : pc[c] \in {"asked"} \cup Approving => seen[c] \in CloseState
  /\ switched \in [Caller -> BOOLEAN]
  /\ crossed \in BOOLEAN
  /\ late \in BOOLEAN

\* "writing a different package for a period that already has one throws"
\* (packageStore.ts): whoever else publishes, crashes or re-opens, the package
\* of a period is never replaced.
PackageImmutable == [][saved # None => saved' = saved]_saved

\* Every close state names the package that is stored for the period: no state
\* is left pointing at evidence that was refused or never written.
StateNamesPackage == state # None => state.fingerprint = saved

\* What transition i of a history may follow.
LegalAt(h, i) ==
  /\ h[i].action = "PUBLISH" => i = 1 \/ h[i - 1].action # "PUBLISH"
  /\ h[i].action = "REQUEST_REOPEN" => i > 1 /\ h[i - 1].action = "PUBLISH"
  /\ h[i].action = "APPROVE_REOPEN" =>
       i > 1 /\ h[i - 1].action = "REQUEST_REOPEN" /\ h[i - 1].by # h[i].by

Legal(h) == \A i \in 1..Len(h) : LegalAt(h, i)

\* Whatever stale states the calls put back, the history on record is one a
\* strict alternation of the workflow could have written: nothing re-opened
\* without a request, and never by the person who requested it.
HistoryLegal == Legal(HistoryOf(state))

\* A published period is locked, whatever crashed on the way, unless an approval
\* to re-open it was decided beside the publish.
PublishedIsLocked == StatusOf(state) = "PUBLISHED" /\ ~crossed => locked

\* A published period's books say what its package says, unless they were posted
\* to between the reading of the books and the lock.
PackageIsTheBooks ==
  StatusOf(state) = "PUBLISHED" /\ ~crossed /\ ~late => saved[1] = books[1]

\* What a call has learnt from the state it read: a publish that none was
\* published, a request that it was, an approval that somebody else asked.
ReadLegal(c) ==
  /\ pc[c] \in Sealing => StatusOf(seen[c]) # "PUBLISHED"
  /\ pc[c] = "asked" => StatusOf(seen[c]) = "PUBLISHED"
  /\ pc[c] \in Approving => /\ StatusOf(seen[c]) = "REOPEN_REQUESTED"
                            /\ MayApprove(seen[c], by[c])

\* A close state as the workflow writes it: its status and its requester are
\* those of its latest transition.
WrittenWell(s) ==
  s # None =>
    /\ s.history # <<>>
    /\ Legal(s.history)
    /\ LET last == s.history[Len(s.history)]
       IN  /\ s.status = "PUBLISHED" <=> last.action = "PUBLISH"
           /\ s.status = "REOPEN_REQUESTED" <=> last.action = "REQUEST_REOPEN"
           /\ s.status = "REOPEN_REQUESTED" => s.requestedBy = last.by

HistoryKnowledge ==
  /\ WrittenWell(state)
  /\ \A c \in Caller : WrittenWell(seen[c]) /\ ReadLegal(c)

\* Every state any call holds names the stored package, and a publish that got
\* past packages.save holds that package.
PackageKnowledge ==
  \A c \in Caller : /\ seen[c] # None => seen[c].fingerprint = saved
                    /\ pc[c] = "sealed" => saved = pkg[c]

\* Without a crossing, a publish past its lock and a published period exclude
\* every approval under way.
LockKnowledge ==
  /\ Crossing => crossed
  /\ ~crossed => \A c \in Caller : pc[c] \in {"save", "insert", "sealed"} => locked
  /\ ~crossed /\ StatusOf(state) = "PUBLISHED" =>
       \A c \in Caller : pc[c] \notin Approving

\* Without a crossing and a late posting, the packages under way are current.
BooksKnowledge ==
  ~crossed /\ ~late =>
    \A c \in Caller : pc[c] \in {"balances", "gate"} \cup Sealing => pkg[c][1] = books[1]

\* The inductive invariant of the proofs.
IInv ==
  /\ TypeOK
  /\ StateNamesPackage
  /\ PackageKnowledge
  /\ HistoryKnowledge
  /\ PublishedIsLocked
  /\ LockKnowledge
  /\ PackageIsTheBooks
  /\ BooksKnowledge

\* "LOCKS the period durably, and BUILDS+PERSISTS the immutable package - all
\* three, or none" (closeState.ts): a publish that is refused has not sealed the
\* period.
AllThreeOrNone ==
  [][\A c \in Caller : switched[c] => pc'[c] # "refused"]_vars
=============================================================================
