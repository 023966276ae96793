------------------------------- MODULE Ledger -------------------------------
(***************************************************************************)
(* The posting engine (ledger-kernel/src/postingEngine.ts) over the        *)
(* PostgreSQL journal (ledger-postgres/src/pgLedgerStore.ts) and the       *)
(* period store, for one tenant.  Each action is the code between two      *)
(* awaits, so callers interleave exactly where the database lets them:     *)
(*                                                                         *)
(*   post/reverse: getByIdempotencyKey; periods.status; store.append       *)
(*   append      : BEGIN, pre-check; bump the counter row (its row lock    *)
(*                 serialises the tenant); INSERT; COMMIT                  *)
(*                                                                         *)
(* Lines are abstracted to a body (what they book) and whether the sides   *)
(* are swapped; a stamp is the part of the fingerprint the caller chooses  *)
(* anew (dates, provenance).                                               *)
(***************************************************************************)
EXTENDS Integers, FiniteSets

CONSTANTS Poster,  \* concurrent calls into the engine
          Key,     \* idempotency keys
          Period,  \* accounting periods
          Body,    \* sets of lines that pass validateAndBuildLines
          Stamp,   \* provenance records
          None     \* no entry, no draft, no lock holder

ASSUME NoneAssumption == None \notin Poster

VARIABLES
  journal,    \* committed rows of journal_entry (with their lines)
  lastSeq,    \* committed ledger_tenant_seq.last_seq
  holder,     \* the transaction holding the counter row's lock
  locked,     \* periods whose PeriodStore status is LOCKED
  pc,         \* where each call is
  draft,      \* the entry each call means to append
  taken,      \* the sequence number each open transaction was given
  reply,      \* the entry each finished call returned
  base,       \* history: lastSeq when the call began
  wasOpen     \* history: the call's period has been OPEN since it began

store == <<journal, lastSeq, holder>>
calls == <<pc, draft, taken, reply, base, wasOpen>>
vars  == <<journal, lastSeq, holder, locked, pc, draft, taken, reply, base, wasOpen>>

\* An entry's economic content: of is the sequence of the entry it reverses
\* (0: POSTED, else REVERSAL), memo is of for the default memo "Reversal of
\* <id>" and 0 for the caller's own.
Draft == [key : Key, period : Period, body : Body, swapped : BOOLEAN,
          stamp : Stamp, of : Nat, memo : Nat]
Entry == [seq : Nat \ {0}, key : Key, period : Period, body : Body,
          swapped : BOOLEAN, stamp : Stamp, of : Nat, memo : Nat]

Idle   == {"idle", "answered", "refused", "failed"}
InTxn  == {"insert", "commit"}
Steps  == {"lookup", "status", "begin", "bump", "winner"} \cup InTxn

Init ==
  /\ journal = {}
  /\ lastSeq = 0
  /\ holder = None
  /\ locked = {}
  /\ pc = [p \in Poster |-> "idle"]
  /\ draft = [p \in Poster |-> None]
  /\ taken = [p \in Poster |-> 0]
  /\ reply = [p \in Poster |-> None]
  /\ base = [p \in Poster |-> 0]
  /\ wasOpen = [p \in Poster |-> FALSE]

-----------------------------------------------------------------------------
\* The entry draft d becomes when it is given sequence s.
\* Fault: the sequence read before the bump.
EntryBeforeBump(d, s) ==
  [seq |-> s - 1, key |-> d.key, period |-> d.period, body |-> d.body,
   swapped |-> d.swapped, stamp |-> d.stamp, of |-> d.of, memo |-> d.memo]
EntryOf(d, s) ==
  [seq |-> s, key |-> d.key, period |-> d.period, body |-> d.body,
   swapped |-> d.swapped, stamp |-> d.stamp, of |-> d.of, memo |-> d.memo]

\* fingerprintOfEntry / fingerprintOfCommand / fingerprintOfReversal: everything
\* that changes what the entry means, which leaves out status and reversalOf.
Fingerprint(x) == <<x.period, x.memo, x.stamp, x.body, x.swapped>>

\* The divergence check of an idempotent replay.  Fault: any payload replays.
ReplaysAnything(e, d) == TRUE
Replays(e, d) == Fingerprint(e) = Fingerprint(d)

\* The sides of a reversal's lines.  Fault: they are copied as they are.
CopiedSides(swapped) == swapped
OppositeSides(swapped) == ~swapped

\* periods.status says LOCKED.  Fault: a posting engine that never asks.
NeverSealed(q) == FALSE
Sealed(q) == q \in locked

\* getByIdempotencyKey: the committed rows of a key.
WithKey(k) == {e \in journal : e.key = k}

\* UNIQUE (tenant_id, idempotency_key).  Fault: no such constraint.
NoConflict(k) == FALSE
KeyConflict(k) == WithKey(k) # {}

\* The counter row can be locked.  Fault: a counter read without its lock.
CounterUnguarded == TRUE
CounterFree == holder = None

\* ROLLBACK, by the code or by the server when the connection is gone.
\* Fault: the lock stays behind.
RollbackForgotten(p) == UNCHANGED holder
Rollback(p) == holder' = IF holder = p THEN None ELSE holder

\* The rows a COMMIT makes visible.  Fault: an answer without them.
NothingWritten(e) == UNCHANGED journal
WriteEntry(e) == journal' = journal \cup {e}

Goto(p, step) == pc' = [pc EXCEPT ![p] = step]

\* The call is over: it returned entry r.
Return(p, r) ==
  /\ Goto(p, "answered")
  /\ reply' = [reply EXCEPT ![p] = r]
  /\ taken' = [taken EXCEPT ![p] = 0]
  /\ wasOpen' = [wasOpen EXCEPT ![p] = FALSE]
  /\ UNCHANGED <<draft, base>>

\* The call is over: it threw (refused), or died (failed).
Throw(p, outcome) ==
  /\ Goto(p, outcome)
  /\ draft' = [draft EXCEPT ![p] = None]
  /\ base' = [base EXCEPT ![p] = 0]
  /\ taken' = [taken EXCEPT ![p] = 0]
  /\ wasOpen' = [wasOpen EXCEPT ![p] = FALSE]
  /\ UNCHANGED reply

Start(p, d) ==
  /\ pc[p] \in Idle
  /\ Goto(p, "lookup")
  /\ draft' = [draft EXCEPT ![p] = d]
  /\ reply' = [reply EXCEPT ![p] = None]
  /\ base' = [base EXCEPT ![p] = lastSeq]
  /\ wasOpen' = [wasOpen EXCEPT ![p] = d.period \notin locked]
  /\ UNCHANGED <<taken, store, locked>>

\* PostingEngine.post is called.
Post(p, k, q, b, s) ==
  Start(p, [key |-> k, period |-> q, body |-> b, swapped |-> FALSE,
            stamp |-> s, of |-> 0, memo |-> 0])

\* PostingEngine.reverse is called and finds the original by id; the draft has
\* its lines with the sides swapped.
Reverse(p, e, k, q, s) ==
  \E memo \in {0, e.seq} :
    Start(p, [key |-> k, period |-> q, body |-> e.body,
              swapped |-> OppositeSides(e.swapped), stamp |-> s,
              of |-> e.seq, memo |-> memo])

\* The first await of both: an existing entry of the key is returned if it says
\* the same, and is a DuplicateIdempotencyKeyError if it does not.  A reversal
\* is refused before that when an account of the original is inactive.
Lookup(p) ==
  /\ pc[p] = "lookup"
  /\ \/ /\ draft[p].of # 0
        /\ Throw(p, "refused")
     \/ \E e \in WithKey(draft[p].key) :
          IF Replays(e, draft[p])
          THEN Return(p, e)
          ELSE Throw(p, "refused")
     \/ /\ WithKey(draft[p].key) = {}
        /\ Goto(p, "status")
        /\ UNCHANGED <<draft, taken, reply, base, wasOpen>>
  /\ UNCHANGED <<store, locked>>

\* periods.status, then (post only) validateAndBuildLines against the chart of
\* accounts, whose verdict on these lines is an input.
CheckStatus(p) ==
  /\ pc[p] = "status"
  /\ \/ /\ Sealed(draft[p].period) \/ draft[p].of = 0
        /\ Throw(p, "refused")
     \/ /\ ~Sealed(draft[p].period)
        /\ Goto(p, "begin")
        /\ UNCHANGED <<draft, taken, reply, base, wasOpen>>
  /\ UNCHANGED <<store, locked>>

\* append: BEGIN and the pre-check.  An entry found here is returned as it is.
BeginAppend(p) ==
  /\ pc[p] = "begin"
  /\ \/ \E e \in WithKey(draft[p].key) : Return(p, e)
     \/ /\ WithKey(draft[p].key) = {}
        /\ Goto(p, "bump")
        /\ UNCHANGED <<draft, taken, reply, base, wasOpen>>
  /\ UNCHANGED <<store, locked>>

\* append: the upsert of the counter row waits for the row lock and returns the
\* next sequence; the new value is this transaction's until it commits.
BumpSequence(p) ==
  /\ pc[p] = "bump"
  /\ CounterFree
  /\ holder' = p
  /\ taken' = [taken EXCEPT ![p] = lastSeq + 1]
  /\ Goto(p, "insert")
  /\ UNCHANGED <<journal, lastSeq, locked, draft, reply, base, wasOpen>>

\* append: INSERT the entry and its lines.  The UNIQUE (tenant, key) constraint
\* refuses a key committed since the pre-check: ROLLBACK takes the bump back.
InsertEntry(p) ==
  /\ pc[p] = "insert"
  /\ \/ /\ ~KeyConflict(draft[p].key)
        /\ Goto(p, "commit")
        /\ UNCHANGED <<holder, taken>>
     \/ /\ KeyConflict(draft[p].key)
        /\ Goto(p, "winner")
        /\ Rollback(p)
        /\ taken' = [taken EXCEPT ![p] = 0]
  /\ UNCHANGED <<journal, lastSeq, locked, draft, reply, base, wasOpen>>

\* append: COMMIT makes the rows and the bump visible together.  The answer
\* may be lost with the connection or the process.
Commit(p) ==
  /\ pc[p] = "commit"
  /\ LET e == EntryOf(draft[p], taken[p])
     IN  /\ WriteEntry(e)
         /\ \/ Return(p, e)
            \/ Throw(p, "failed")
  /\ lastSeq' = taken[p]
  /\ holder' = None
  /\ UNCHANGED locked

\* append, after the idempotency conflict: return the winning entry.
ReturnWinner(p) ==
  /\ pc[p] = "winner"
  /\ \E e \in WithKey(draft[p].key) : Return(p, e)
  /\ UNCHANGED <<store, locked>>

\* The process or its connection dies, or a statement fails: an open
\* transaction is rolled back and its row lock released.
Fail(p) ==
  /\ pc[p] \in Steps
  /\ Throw(p, "failed")
  /\ Rollback(p)
  /\ UNCHANGED <<journal, lastSeq, locked>>

\* PeriodStore.lock, alone or as one of the months of a lockThrough.
LockPeriod(q) ==
  /\ q \notin locked
  /\ locked' = locked \cup {q}
  /\ UNCHANGED <<store, calls>>

\* PeriodStore.unlock.
UnlockPeriod(q) ==
  /\ q \in locked
  /\ locked' = locked \ {q}
  /\ wasOpen' = [p \in Poster |->
                   wasOpen[p] \/ (pc[p] \in Steps /\ draft[p].period = q)]
  /\ UNCHANGED <<store, pc, draft, taken, reply, base>>

Step(p) ==
  \/ Lookup(p)
  \/ CheckStatus(p)
  \/ BeginAppend(p)
  \/ BumpSequence(p)
  \/ InsertEntry(p)
  \/ Commit(p)
  \/ ReturnWinner(p)

Next ==
  \/ \E p \in Poster, k \in Key, q \in Period, s \in Stamp :
        \/ \E b \in Body : Post(p, k, q, b, s)
        \/ \E e \in journal : Reverse(p, e, k, q, s)
  \/ \E p \in Poster : Step(p) \/ Fail(p)
  \/ \E q \in Period : LockPeriod(q) \/ UnlockPeriod(q)

Spec == Init /\ [][Next]_vars

\* A running call is run to its end; PostgreSQL queues waiters on a row lock,
\* so one that waits for the counter row gets it eventually.
Fairness == \A p \in Poster : WF_vars(Step(p)) /\ SF_vars(BumpSequence(p))

FairSpec == Spec /\ Fairness

-----------------------------------------------------------------------------
\* Types of every variable.
TypeOK ==
  /\ journal \subseteq Entry
  /\ lastSeq \in Nat
  /\ holder \in Poster \cup {None}
  /\ locked \subseteq Period
  /\ pc \in [Poster -> Idle \cup Steps]
  /\ draft \in [Poster -> Draft \cup {None}]
  /\ \A p \in Poster : pc[p] \in Steps => draft[p] \in Draft
  /\ taken \in [Poster -> Nat]
  /\ \A p \in Poster : pc[p] \in InTxn => taken[p] # 0
  /\ reply \in [Poster -> Entry \cup {None}]
  /\ base \in [Poster -> Nat]
  /\ wasOpen \in [Poster -> BOOLEAN]

\* Gap-free numbering (pgLedgerStore.ts "Atomic, gap-free per-tenant
\* sequencing"): whatever transactions die or collide, the committed entries
\* carry exactly the sequences 1..lastSeq, one each.
GapFree ==
  /\ {e.seq : e \in journal} = 1..lastSeq
  /\ \A e, f \in journal : e.seq = f.seq => e = f

\* Retries and races of one command post once: no two committed entries share
\* an idempotency key.
OncePerKey == \A e, f \in journal : e.key = f.key => e = f

\* A call that answered has returned a committed entry of its own key: nothing
\* is reported posted that a rollback could take back.
AnswerIsPosted ==
  \A p \in Poster : pc[p] = "answered" =>
    /\ reply[p] \in journal
    /\ reply[p].key = draft[p].key

\* The engine's divergence check can be passed by only when the other command
\* was posted while this call was running: an entry that says something else
\* than the caller asked is never returned for a key already used before.
DivergenceOnlyByRace ==
  \A p \in Poster :
    pc[p] = "answered" /\ Fingerprint(reply[p]) # Fingerprint(draft[p])
      => reply[p].seq > base[p]

\* A reversal is the mirror of an entry posted before it: the same lines, the
\* sides swapped, whatever was posted or died in between.
ReversalMirrorsOriginal ==
  \A e \in journal : e.of # 0 =>
    \E o \in journal : /\ o.seq = e.of
                       /\ o.seq < e.seq
                       /\ o.body = e.body
                       /\ o.swapped = ~e.swapped

\* An entry is appended only for a call in whose lifetime its period was open:
\* sealing a period turns away every call that begins after it.
SealStopsLaterCalls ==
  [][\A e \in journal' \ journal :
       \E p \in Poster : pc[p] = "commit" /\ e.key = draft[p].key
                         /\ e.period = draft[p].period /\ wasOpen[p]]_vars

\* The row lock: a transaction that was given a sequence holds the counter row,
\* it is the only one, and its sequence is the next one.
CounterIsLocked ==
  \A p \in Poster :
    /\ pc[p] \in InTxn <=> holder = p
    /\ pc[p] \in InTxn => taken[p] = lastSeq + 1

\* What a running call knows of its draft: nobody has posted its key since the
\* insert went through; an entry of its key was posted after it began; its
\* period has been open; the original of a reversal is in the journal.
Knows(p) ==
  /\ base[p] <= lastSeq
  /\ reply[p] \in journal \cup {None}
  /\ pc[p] = "commit" => \A e \in journal : e.key # draft[p].key
  /\ pc[p] \in Steps \ {"lookup"} =>
       \A e \in journal : e.key = draft[p].key => e.seq > base[p]
  /\ pc[p] \in Steps /\ draft[p].period \notin locked => wasOpen[p]
  /\ pc[p] \in Steps \ {"lookup", "status"} => wasOpen[p]
  /\ pc[p] \in Steps /\ draft[p].of # 0 =>
       \E o \in journal : /\ o.seq = draft[p].of
                          /\ o.body = draft[p].body
                          /\ draft[p].swapped = ~o.swapped

DraftKnowledge == \A p \in Poster : Knows(p)

\* The inductive invariant of the proofs.
IInv ==
  /\ TypeOK
  /\ GapFree
  /\ OncePerKey
  /\ AnswerIsPosted
  /\ DivergenceOnlyByRace
  /\ ReversalMirrorsOriginal
  /\ CounterIsLocked
  /\ DraftKnowledge

\* The journal LedgerStore promises (Journal.tla) is implemented: entries are
\* only ever added, in sequence, under fresh keys.
Promise == INSTANCE Journal
             WITH Caller <- Poster, NoReply <- None,
                  entries <- journal, count <- lastSeq, told <- reply

JournalPromise == Promise!Spec

\* Every call ends in an answer, a refusal or an error: the row lock of the
\* tenant's counter is always given back.
EveryCallEnds == \A p \in Poster : pc[p] \in Steps ~> pc[p] \in Idle

\* "A LOCKED period rejects postings" (periods.ts): no entry is committed into
\* a period that is LOCKED at that moment.
LockedPeriodRejects ==
  [][\A e \in journal' \ journal : e.period \notin locked]_vars
=============================================================================
