# Verification of RGNR8

RGNR8 keeps the books of many tenants: a double-entry ledger kernel in
TypeScript, a PostgreSQL journal under it, an HTTP ledger service over it, a
month-end close, connectors that bring bank and QuickBooks data in, and a Python
tier with the web application, the worker that sends briefings, alerts and
reports, the webhook outbox, the QuickBooks connection and billing. This
directory holds TLA+ models of the parts where correctness rests on the order of
steps of several actors, TLC runs on small instances of them, and TLAPS proofs
of what matters most for every instance.

Paths below are relative to `src/packages/`. `PROJECT.json` gives, for every
definition, the lines it models.

    tlc -workers 2 -config MCLedger.cfg MCLedger     # a run
    tlapm LedgerProofs.tla                           # the proofs of a module

## 1. The system

| Component | State it keeps | Operations | Hard behaviour |
|---|---|---|---|
| Posting engine, journal (`ledger-kernel/src/postingEngine.ts`, `ledger-postgres/src/pgLedgerStore.ts`) | `journal_entry`, `journal_line`, the counter row `ledger_tenant_seq` | `post`, `reverse`, `append`, lookups | concurrent calls, idempotent retries, a lost COMMIT answer, rollbacks, the period check outside the transaction |
| Periods (`ledger-kernel/src/periods.ts`, `ledger-postgres/src/pgPeriodStore.ts`) | one row per period (SQL); a set, a mark and exceptions (memory) | `lock`, `lockThrough`, `unlock`, `status` | long sequences of calls; two implementations of one interface |
| Close (`close/src/closeState.ts`, `packageStore.ts`, close handlers of `ledger-service/src/handlers.ts`) | `close_state`, `financial_package` | publish, request and approve a re-open | four stores written one after another with no transaction; crashes; stale reads; postings meanwhile |
| AR/AP and bank inbox (`ledger-service/src/arap.ts`, `inbox.ts`) | open items, payments, feed lines | create, pay, credit, refund; accept, match, exclude, undo | post first, save after; read-modify-write of open balances |
| Book of record, cutover, go-live (`ledger-service/src/bookOfRecord.ts`, `cutover.ts`, `ledger-kernel/src/goLive.ts`, `ledger-postgres/src/transaction.ts`) | settings, cutover record, open items | execute, back out; guarded append | a dozen writes with crash points; check-then-append |
| Recurring entries (`ledger-service/src/recurring.ts`) | templates with the last posted date | save, run due | stale template written back |
| Connector sync (`connectors/src/runner.ts`, `syncRuntime.ts`) | cursors, health, back-off | tick, page, retry, sink | cursor ahead of the sink |
| Webhook outbox (`web/src/rgnr8_web/webhook_outbox.py`) | one row per endpoint and event | enqueue, deliver due, replay | sweeps that share rows, lost answers, retries, dead letters |
| Worker (`ops/src/rgnr8_ops/scheduler.py`, `worker.py`, `runtime`, `briefing/.../scheduler.py`, `reports/.../schedule.py`, `alerts/.../engine.py`) | the lease, subscriptions and report schedules with their cursors; in memory, the alerts announced | tick: acquire, three jobs, renew; the owner's edits | ticks that outlive the lease, crashes between a send and its save, stale rows saved whole |
| QuickBooks connection (`qbo/src/rgnr8_qbo/service.py`, `connection.py`, `oauth.py`) | one row per tenant, locks in memory; Intuit's tokens | connect, refresh, needs-reconnect, disconnect | refresh tokens that rotate at a third party before the row is saved, two processes, an owner who acts meanwhile |
| Billing (`billing/src/rgnr8_billing/`) | the account row; in memory, what was closed and provisioned and when the account went down | attach, plan changes, activate, cancel, pause, revive, checkout, close | whole-row saves, a processor with state of its own, memory lost at a restart |
| QuickBooks mirror (`web/src/rgnr8_web/qbo_mirror.py`) | none: QuickBooks' trial balance and the journal | refresh | two systems read at different times, one idempotency key per difference |
| Identity (`web/src/rgnr8_web/credentials.py`, `invitations.py`) | credentials, sessions, invitations | reset, log in, invite, accept, revoke | acceptance racing revocation |
| HTTP API, other documents, subledgers, reconciliation, QuickBooks migration, web pages, analytics | mostly none of their own | compute, render, post through the engine | little beyond the above |

How they interact: every accounting operation of the service ends in
`PostingEngine.post` or `reverse`, which asks the period store and appends to the
journal. The close reads trial balances from the journal, locks through the
period store and keeps its own two tables. Cutover seals history through
`lockThrough` and switches the book of record that guards every append. The web
tier calls the service over HTTP and retries; it queues events in the outbox,
holds the QuickBooks connection, and mirrors QuickBooks' balances into the
journal while QuickBooks keeps the books. The worker's processes meet only in
the lease and in the stores they share with the web process.

What makes each correct, in a sentence: the journal is gap-free and books each
command once, whatever is retried; a sealed period stays sealed; a published
period is locked, its state names the stored package, and the package is what
the books say; an open item equals its document minus its payments in the
journal; one side keeps the books at any time; every provider record reaches the
sink; every event is delivered or dead-lettered; one worker runs the jobs, and
what it sends goes out once; the stored QuickBooks connection says what Intuit
would say and what the owner decided; an account holds no more than its plan; a
refresh makes the mirror exact.

The hazards these properties are for are listed, each at its line, in
`PROJECT.json`.

## 2. Modules

| Module | What it is |
|---|---|
| `Journal` | abstract: what the `LedgerStore` interface promises |
| `Ledger` | posting engine over the SQL journal, one tenant, step by step |
| `LedgerProofs` | theorems about `Ledger` |
| `PeriodSeal` | abstract: what the `PeriodStore` interface promises |
| `MemPeriods`, `SqlPeriods` | the two period stores |
| `PeriodStores` | both stores under the same calls |
| `PeriodProofs` | theorems about `PeriodStores` |
| `Close` | publish and re-open of one period, await by await |
| `CloseProofs` | theorems about `Close` |
| `Worker` | worker processes, the lease, the three jobs, the owner |
| `WorkerProofs` | theorem about the lease of `Worker` |
| `DeliveryProofs` | theorems about what the jobs of `Worker` send and save |
| `Outbox` | the webhook outbox, its sweeps and replays |
| `OutboxProofs` | theorems about `Outbox` |
| `QboConnect` | one tenant's QuickBooks connection and Intuit's tokens |
| `QboConnectProofs` | theorems about `QboConnect` |
| `Billing` | one billing account, the processor and the service's memory |
| `BillingProofs` | theorems about `Billing` |
| `Mirror` | refreshes of the QuickBooks mirror |
| `MC*` | instances for TLC |

`PeriodStores` instantiates `MemPeriods` and `SqlPeriods` and both refinements of
`PeriodSeal`; `Ledger` instantiates `Journal` as its refinement target. `Ledger`
and `Close` see a period store through the status of the periods only; its
details are in `PeriodStores`.

### Ledger

An action is the code between two awaits. A call goes

    lookup (getByIdempotencyKey) -> status (periods.status, validateAndBuildLines)
    -> begin (BEGIN, pre-check) -> bump (counter upsert) -> insert -> commit

with the exits of the code: an entry of the key that says the same is returned
at `lookup`, one that does not is refused; a locked period is refused; an entry
found by the pre-check is returned; a lost unique constraint rolls back and
returns the winner. `Fail` is a dead process, connection or statement at any
step; `Commit` may lose its answer. The counter row's lock is `holder`: taken by
the upsert, kept to COMMIT or ROLLBACK. The uncommitted bump is visible to its
own transaction only (`taken`).

Abstractions. Lines are a member of `Body` with a flag for swapped sides: the
arithmetic of lines is `validateAndBuildLines`' and its verdict on a posting is
an input (both outcomes are explored). The rest of the fingerprint is the
period, the memo of a reversal (its default names the original; a caller may give
its own) and a `Stamp` for dates and provenance. The fingerprint leaves out
status and `reversalOf`, as in the code: a reversal of another entry with the
same content replays. One tenant: every statement filters by tenant and no row
is shared between two. `base` and `wasOpen` are history variables: they change
no step, and two properties are stated with them.

### PeriodSeal, MemPeriods, SqlPeriods, PeriodStores

Periods are `1..Months` (`YYYY-MM` strings order as dates). The in-memory store
has its set, its mark and its exceptions; the SQL one has one status per row.
Each SQL method is one action although `lockThrough` has two statements: each
method is one transaction (`withTenant`), its first statement takes the row lock
of its period, and the DELETE of the second touches only exceptions at or below
it. `parted` is a history variable that records the two kinds of call after which the stores
differ by design: `lock`/`unlock` of the period that carries the top mark, and
`lockThrough` of a period earlier than the mark with an exception in between.
`PeriodRegistry` adds tenant-agnostic in-process locks that no service wires; it
is not modelled.

### Close

One period of one tenant. `books` is what the trial balances say of the period
and of the periods before it; a package is what a publish read of both. The three
trial-balance reads of `buildPackageInput` are two actions: the one of the period, and the two
cumulative ones (which differ from it by what earlier periods say) together. Then come
the state's read with the gate, `periods.lock`, `packages.save` (SELECT, then
INSERT under the primary key) and `states.put`. `requestReopen` and
`approveReopen` are their reads, `periods.unlock` and their puts. Every `put`
writes back the record that was read, stale or not. `Die` is a crash or a
throwing store at any step. `Post` changes the period's books while it is open,
`PostEarlier` the ones before it (their locks are others), and `LockDirectly` is
`POST /periods/<p>/lock` and cutover.

Abstractions. Whether books tie out, whether the gate passes and whether the
preparer is the publisher are inputs: all outcomes are explored. `Post` respects
the lock in one step: its own race with the lock is `Ledger`'s subject.
`switched`, `crossed` and `late` are history variables.

### Worker

A worker reads its clock once (`Wake`) and the tick acts on that reading:

    acquire (upsert) -> read back -> for each of briefings, alerts, reports:
    load -> deliver, row by row -> save, row by row -> renew

Each commit is an action. The briefing and report jobs have one shape (list the
store, run the due ones, save those that fired) and share their actions; which
store a key lives in is `RowsOf`. `Skip` is every way a row is passed over:
paused, not due, or no envelope. A transport that raises (`Raise`) ends the job
with nothing saved and the next job runs, as `Dispatcher.tick` isolates
failures. `Crash` brings the process back through `Fleet.load`, which onboards
every tenant again. The owner's edits are a read and a whole-row write
(`SubscriptionManager`), a removal, or `schedule_report`, which replaces the row.

Time is a small clock; a week is `Week` ticks, a schedule is its phase in that
week. Left out: the dispatcher's own last-run cursor (every job of `worker.py`
returns True from `due`, so it is written and never decides anything), what a
message says, time zones, and `release`, which nothing calls. `disturbed`,
`raced`, `silenced`, `twice` and `said` are history variables; they say what the
code cannot prevent, and the properties say nothing else goes wrong.

### Outbox

A row's id is an endpoint and a stamp, since an event's id is its tenant, type
and second. A sweep reads the due rows without claiming them, attempts each one
and updates the row by id, whatever it has become; the attempt and the update
are separate actions. Time is reduced to whether a pending row is due
(`Elapse`). `Refuse` is every failed attempt, also of an endpoint no longer
registered; `TimeOut` is one the endpoint took in. A replay re-arms the row it
read and keeps its attempts, so one failure makes it a dead letter again. Left
out: the LIMIT of 100 rows in a sweep, bodies and signatures.

### QboConnect

A token stands for the pair Intuit issues; `live`, `aged` and `lapsed` are what
Intuit and the clock say of it. A caller goes through `ensure_fresh` (read
before the lock, read again under it), the data call, and one refresh after a
401. The tenant's lock is per process: the web's threads share one, the recorder
(`recorder.py`) has its own service over the same row. `replace_if_refresh_token`
is its read and its conditional UPDATE. The UPDATE compares row text; the model
compares the row's content, which is what the text is without encryption (under
Fernet it also differs when the content is the same, and the swap is refused
more often). `adrift` is a history variable: the tokens no row and no caller has
any more, because a write replaced or deleted the row that held them or a fault lost an
answer. `on_needs_reconnect` is wired nowhere and left out. `Intuit` is
external: it takes a refresh token once, and a revoked one never.

### Billing

A request reads the row and calls the processor in one action and saves the
whole row in another; what lies between them depends on nothing but the row that
was read. What the service keeps in memory only (`_closed`, `_provisioned`,
`_grace_start`) is lost by `Restart`. Subscriptions are numbered as the
processor creates them; the Stripe provider in the repository returns a
placeholder and says the real id is parsed in production, which is what is
modelled. Left out: amounts and usage, seats (nothing changes them), a second
period or account, the portal. The plans are constants with the assumption
`PlansGrow`, read off `plans.py`: a plan that costs no more holds no more.

### Mirror

A trial balance that balances, over two accounts, is one number. A refresh is
its reads and its post; the ledger posts a key once and refuses a second entry
under it for its later stamp, or returns the first when the two race (both
outcomes are `Ledger`'s). QuickBooks and RGNR8's own postings change meanwhile.

## 3. Runs

| Run | Instance | Shows |
|---|---|---|
| `ledger` | 2 callers, 2 keys, 2 bodies, 1 period, 1 stamp; fairness | all properties of the journal below, the refinement of `Journal`, and termination of every call |
| `ledger_locked_period` | 2 callers, 1 key | violation: an entry is committed into a locked period |
| `period_stores` | 4 months | the in-memory store implements `PeriodSeal`; the stores agree |
| `period_watermark` | 3 months | violation: the SQL store does not implement `PeriodSeal` |
| `close` | 2 calls, 2 people, 2 contents, histories begun up to 4 transitions | all properties of the close below |
| `close_all_or_none` | 1 call | violation: a refused publish has locked the period |
| `worker` | 2 processes, 1 briefing, 2 reports, 1 alert condition that holds at first; lease of 1 tick, week of 2, clock to 1; 1 fault, 1 edit or clearing | all properties of the worker below |
| `outbox` | 2 sweepers, 1 endpoint, 2 events in one second, 3 attempts, 1 replay, 2 faults; fairness | all properties of the outbox below, and that every delivery settles |
| `qbo_connect` | 2 web threads and the recorder, 2 consents, 3 tokens, 1 expiry, 1 fault | all properties of the connection below |
| `billing` | 2 requests at a time and 5 in all, 2 tenants, 2 plans, 2 subscriptions, 1 restart | all properties of the account below |
| `billing_cancel` | the same | violation: a cancel leaves a subscription running |
| `mirror` | 2 refreshers, 2 balances, 2 days, 3 changes | violation: a refresh that ran alone leaves the books unequal |

Properties of `Ledger`:

- `GapFree`: committed sequences are exactly `1..last_seq`, one each.
- `OncePerKey`: no two entries share an idempotency key.
- `AnswerIsPosted`: what a call returned is committed and of its key.
- `DivergenceOnlyByRace`: `append` returns an entry of the key without comparing
  it; a caller can be handed one that says something else only if it was posted
  while the call ran, never one the engine's own check should have caught.
- `ReversalMirrorsOriginal`: a reversal mirrors an earlier entry.
- `SealStopsLaterCalls` (action property): an entry is committed only for a call
  in whose lifetime its period was open.
- `JournalPromise` (refinement): each step is an append in sequence under a fresh key, a
  truthful answer to one caller, or a stutter.
- `EveryCallEnds` (liveness).

Properties of `PeriodStores`: `MemKeepsPromise` (refinement: only an unlock of a
period opens it, a mark seals everything before it) and `StoresAgree`.

Properties of `Close`:

- `PackageImmutable` (action property): a stored package is never replaced.
- `StateNamesPackage`: every close state names the stored package.
- `HistoryLegal`: the recorded history alternates publish, request and an
  approval by somebody else, whatever stale record was put back.
- `PublishedIsLocked`: a published period is locked unless a publish and an
  approval were past their checks at the same time.
- `PackageIsTheBooks`: a published package says what the books say unless they
  were posted to between the first read and the lock.

Properties of `Worker`:

- `OneRunnerUnlessOverrun`: two workers run the job set at one time only if one
  has outstayed the lease it was granted at the time its tick began.
- `SentOnceUnlessDisturbed`: a fire goes out twice only when its cursor was put
  back by a crash or raise before the save, a second runner, a stale edit or a
  replaced schedule.
- `PassedMeansSent`: a stored cursor never passes a fire that did not go out.
- `EditStandsUnlessRaced`: what the owner last asked is what is stored, unless
  the edit fell into a tick that had the row loaded or a restart onboarded a
  removed tenant anew.
- `AlertOncePerProcess`, `QuietMeansAnnounced`: a lasting condition is announced
  at most once by each life of a process, and one that a process is quiet about
  was announced, except where its mark is of an earlier condition or a failed send.

Properties of `Outbox`: `TwiceOnlyExcused` (an endpoint gets an event twice only
for a lost outcome, overlapping sweeps or a replay), `DeliveredMeansReceived`,
`DeadMeansExhausted` (a dead letter was really attempted `Max` times),
`QueuedUnlessLost` (an event reaches the outbox unless the process died or the
second's id was taken) and `EveryDeliverySettles` (liveness).

Properties of `QboConnect`:

- `NeedsReconnectIsTrue`: a connection marked needs-reconnect has no good token
  left but one still being saved, lost on the way, or dropped when a write replaced its row.
- `ConnectedIsUsable`: a stored connected row holds the token Intuit will take
  next, its successor is on the way to the row, or a fault ended it.
- `OwnerDecisionStands`: the owner's last connect or disconnect stands unless a
  refresh was in flight when it was written.
- `NoSelfInflictedRefusal`: a process never presents a token it rotated away.

Properties of `Billing`: `PlanHoldsTenants` (the stored account never holds more
than its plan unless an operator set the plan, whatever requests race),
`OncePerLifetime` (hook and invoice once between restarts, for requests that do
not overlap) and `WindowHolds` (nobody is let back after the window, but after a
restart or an overlap).

The exceptions in `PublishedIsLocked` and `PackageIsTheBooks` are not decoration: without `crossed` or without `late`
TLC finds them violated, so the exceptions say how far the code's guarantee goes.

### Bounds

Two callers are what every race of these protocols needs (a winner and a loser of
the row lock, the unique constraint or the primary key; a publish and an
approval). In `Ledger`, keys bound the journal: two keys give up to two
entries, an original and its reversal, a posting raced by another on its key
with another body, and a reversal of a reversal is left to the proofs, which
hold for any number. Two bodies make divergence possible. One period is enough
because calls meet a period only through its own status. In `Close`, `MaxHistory`
guards the start of calls: with 4, a history runs publish, request, approve,
publish and one more request or approval from calls already running. Two
contents make a changed book, two people make separation of duties bite.
Callers and people are symmetric (no liveness is checked there). In
`PeriodStores`, 4 months give a mark, a later mark, an exception between and a
month before them.

In `Worker`, two processes make a hand-off and an overrun; a lease of one tick
and a clock to 1 let a tick outlive its lease while the other worker begins and
ends one. Two reports make a batch of which one part is sent and not saved. Every key
has a fire at the start; a second one falls due within the clock's bound when
the owner moves a schedule. One fault and one edit are
enough to disturb any cursor, and with the hand-off they reach every excuse the
properties name. The condition holds at first; when it clears, which takes the
place of the owner's edit, it may appear again. In `Outbox`, two events in one second compete for an id, `Max`
is 3, so that a row fails, waits and fails again before it is dead, and two
faults let a lost answer meet a crash. In `QboConnect`, three tokens are a consent, its
refresh and a second consent or a second refresh; one expiry starts every race,
a second exceeds the run's time. In `Billing`, two subscriptions are one kept
and one lost, and five requests are a checkout, its repetition, and a cancel,
an activation or a plan change between. `Mirror` needs a difference, its
opposite and the difference again: two balances and three changes.

Deadlock is checked where an idle caller can always call again: in `Ledger`,
`PeriodStores` and `Worker`, whose workers wake for ever, and in `Close`, where
the books of earlier periods change when the history bound stops new calls. It
is not checked in the runs of `Outbox` (its events run out), `QboConnect` (its
tokens do), `Billing` (its requests do) and `Mirror` (its days and changes do).

### Fairness

`EveryCallEnds` assumes weak fairness of a call's own steps (Node runs a
continuation whose promise has resolved, and the pool's connection either answers
or fails) and strong fairness of taking the counter row's lock: PostgreSQL queues
waiters on a row lock, so one that keeps finding it free is served. Nothing is
assumed about callers starting, crashing or locking periods.

`EveryDeliverySettles` assumes weak fairness of each sweeper's steps and of the
end of a back-off: `deliver_due` is "the worker the scheduler runs"
(webhook_outbox.py), and its steps are a loop in one thread. Nothing in the
repository calls it outside its tests, so whoever deploys it owes this
assumption. Nothing is assumed of endpoints: they may refuse for ever, and the
delivery then settles as a dead letter.

## 4. Findings

1. **A locked period can still receive an entry.** The status is read before the
   append's transaction and not in it. `SealStopsLaterCalls` is what remains true.
2. **The SQL high-water mark can be erased.** `unlock` and `lock` overwrite the
   row that carries it: after a cutover that sealed history through a month,
   publishing that month (`periods.lock`) or re-opening it opens every earlier
   converted month. The in-memory store the tests use does not behave so.
3. **A refused publish leaves the period locked.** The package store refuses a
   changed package after the lock is set. Since packages are never replaced, a
   period re-opened for an adjustment can never be published again, and stays
   locked with no transition that unlocks it.

4. **A cancel can leave a subscription running.** `change_plan`, `change_tier`
   and `_revive` create a subscription when the account has none and drop its
   id. A trial account that changes its plan and cancels is charged on.
5. **A refresh can be unable to make the mirror exact.** The key of a refresh's
   entry is the date and the difference; once a difference was posted, it cannot
   be posted again that day. Overlapping refreshes, or a balance that goes back
   and forth, leave the books wrong, reported but not mended until the next day.

Two more divergences are recorded as hazards without a run: re-sealing through a
month earlier than the mark clears different exceptions in the two period
stores, and two concurrent transitions of one period lose one from the
"append-only" history (`HistoryLegal` shows what is on record is always a legal
history, not that it is complete).

## 5. Proofs

All theorems hold for arbitrary constants. What is assumed of them: `None` is
none of the values it stands beside (a caller in `Ledger`; a package, person or
close state in `Close`; an endpoint, event, stamp or record in `Outbox`; a
worker, row or edit in `Worker`; a caller, process, consent or row in
`QboConnect`; a plan or request in `Billing`); `Months` and the bounds are
natural numbers; `Max` attempts of `Outbox`, the lease and the week of `Worker`
are positive; `Worker`'s kinds of keys are distinct, its first breaches are
conditions and its workers are finitely many; and, in `Billing`, every plan has
a price and room for a business, and `PlansGrow`. The bounds that keep a run
small (`MaxTime`, `MaxReplays`, `MaxSubs`, ...) are constants like the others:
a theorem holds for each of their values.

Every invariant and action property of a passing run has its theorem.

**Ledger.** `TypeCorrect` is inductive by itself. The other invariants are not:
that a commit uses a fresh sequence and a fresh key needs to be known before
it. `IInv` adds `CounterIsLocked` (a transaction that was given a sequence
holds the row lock, is the only one, and its sequence is `last_seq + 1`) and
`DraftKnowledge` (what a call knows at each step: no entry has its key once its
insert went through; an entry of its key found after the lookup was posted
after the call began; its period has been open; a reversal's original is in the
journal). From `Inductive` follow `GapFreeHolds`, `OncePerKeyHolds`,
`AnswerIsPostedHolds`, `DivergenceOnlyByRaceHolds`, `ReversalsMirror` and, as
action properties, `SealStopsLater` and `ImplementsJournal`: a commit is
`Journal!Append`, an answer from the journal or a new call is `Journal!Tell`,
every other step stutters.

**PeriodStores.** `MemImplementsPromise` needs only the types: each of the
three calls maps to the same call of `PeriodSeal`. `StoresAgreeHolds` is
strengthened to `SameMarks`: until the stores part, the in-memory mark is the
highest `LOCKED_THROUGH` row, the exceptions are the `OPEN` rows at or below
it, and single locks are the `LOCKED` rows.

The SQL store alone does not implement `PeriodSeal` (finding 2).
`SqlBreaksOnlyAtTheMark` says how far it does: every step is one of `PeriodSeal`'s
but a `lock` or `unlock` of the month whose row carries the highest mark.

**Close.** `IInv` adds to the properties `PackageKnowledge` (every state a call
holds names the stored package, and a publish past `packages.save` holds that
package), `HistoryKnowledge` (a record's status and requester are those of its
last transition, in the table and in every call's copy, and a call's copy
passed the check its step made), `LockKnowledge` (without a crossing, a publish
past its lock keeps the period locked and a published period has no approval
under way) and `BooksKnowledge` (without a crossing or a late posting, packages
under way are current). `HistoryLegalHolds` rests on `AppendLegal`: a legal
history stays legal when the transition its end allows is appended.

**Worker, the lease.** `OneRunner` needs to know what the lease says of each
worker that runs or is about to. `IInv` is `Clocks` (no tick's time is ahead of
the clock) and `Tenure`: a worker that runs and holds the lease holds it to the
end of what its tick was granted, and one that has lost it has outstayed that.
A second worker is granted the lease only at or after that end, by its own
clock reading, which is never ahead of the clock.

**Worker, the jobs.** A tick holds copies of the rows it loaded and saves them
whole, so `DeliveryProofs` says of every copy what it says of the stored row.
`Shape` is what a worker has in hand at each place of a job. `FiresGoOutOnce`
rests on where a fire that went out is recorded: in the stored cursor, or with
the one worker that sent it and has still to save, unless the key is disturbed.
`CursorsAreTrue` says of every cursor, stored, loaded by a tick or held by the
owner's edit, that its fire went out. `EditsStand` compares the owner's last
request with the stored row and with each loaded copy that could be written
over it. `AlertsAreFew` counts the announcements of a condition against the
workers that will not announce it again and the faults that made one forget;
there, the workers being finitely many is used. `QuietIsExplained` says the
same of each worker by itself.

**Outbox.** A row is copied into a sweep's batch, into the outcome the sweep is
about to write and into an operator's replay, and each of these may overwrite
the table later. `Copies` claims of all of them what is to hold of the table:
it is of the event that has the id, does not run ahead of the attempts made,
and its status is true of the endpoint. `DeliveredIsTrue` and `DeadIsExhausted`
follow at once. `Once` gives `DuplicatesAreExcused`: of an id no fault, overlap
or replay has touched, one sweep at most has the row, and once the endpoint has
the event no sweep is going to send it. `Fanout` ties the events already
emitted to the ids under way, for `EventsAreQueued`.

**QboConnect.** The argument follows the tokens. `Hands`: one that a caller is
about to save, or that a callback was given for its code, is in one hand only
and nobody has read it from the row; Intuit takes it, or it was lost. `Marked`:
every other live token is the row's or adrift, and a caller that goes to mark a
refusal holds a token Intuit does not take. From these, `ConnectedWorks` and
`ReconnectIsNeeded`. `Spared`: a process that rotated the row's token away has
a caller, still under its lock, that is to save the successor, so nobody of
that process presents the old one (`NoSelfRefusal`). `Decided`: a refresh in
flight is of the consent the owner wants, unless the owner wrote while one was
in flight (`OwnerPrevails`). `ReconnectIsNeeded` was not inductive as first
stated: with three processes a stale row, lapsed, is saved over a newly
connected one, and then a good token is lost by the save and not by a fault.
That is what the code does, and it is why `adrift` counts the tokens a write
replaces. The run's two processes never got there.

**Billing.** `AccountKeepsToItsPlan` is inductive once requests are included:
`IInv` says that unless an operator set a plan, the stored row and every row a
request is about to save keep to their plan. Each operation has a lemma
(`AttachFits`, `DetachFits`, `PlanFits`, ...); `PlanFits` is where `PlansGrow`
is used, for the upgrade `change_plan` does not check. `DoneOnce` needs
`Orderly`: while requests do not overlap, one is under way at most, and hooks
and invoices number no more than the restarts and what the service remembers.
`WindowIsKept` needs `Windowed`: an account that is down has its window in
memory, or the request that took it down is still to open one; a revival saved
late was let in by a window that had lapsed.

Only model-checked: the two liveness properties (`EveryCallEnds`,
`EveryDeliverySettles`), since the prover has no rule for fairness, and the
five violations, which are traces.

## 6. Not modelled, and the plan

Not modelled because they are pure or leave no state behind: line validation,
money and FX arithmetic, the canonical fingerprint, calculators of the other
documents, reconciliation matching, statements, rendering, analytics. The rest
is planned, most important first:

1. `OpenItem` (abstract: an open balance is the total minus what the journal
   applied) and `ArAp`: `createDocument`, `recordPayment`, credits and refunds
   over a journal reduced to `Journal`'s promise, with crashes between posting
   and saving and retries with a fresh stamp. Two callers, one invoice of two
   units. Expected: what a single caller gets is proved, and the lost update is a run.
2. The bank inbox over `ArAp`: accept, match, undo, re-sync; recurring entries.
3. `BookOfRecord` and `Cutover`: the guarded append against `executeCutover` and
   `backOutCutover` with a crash after every write; abstract: one keeper of the
   books at a time. Go-live and its shared transaction with it.
4. `ConnectorSync`: cursor, pages, sink, errors; abstract: every record reaches
   the sink at least once.
5. Identity: password resets, session versions, and invitations accepted while
   they are revoked.
6. The close checklist and its override rule as operators against a reference
   definition.

Theorems planned for them: the open-item invariant of a single writer, one
keeper of the books, at-least-once of the sink for a connector that reports no
error. For what is modelled already: how far a refresh of `Mirror` makes the
books exact, and what a cancel of `Billing` ends, each the rest of a finding.

The map covers a small part of the Python code, most of which is pages, rendering, parsing
and arithmetic (the web tier's screens and shell, report sections, forecasts,
statements): no order of steps matters there, and no state outlives the call.
