------------------------------- MODULE Worker -------------------------------
(***************************************************************************)
(* The production worker of ops/worker.py: processes that share a leased   *)
(* dispatcher and run, on every tick, the weekly briefings, the cash       *)
(* alerts and the scheduled reports, each against its SQL store, while an  *)
(* owner edits the same stores from the web process.                       *)
(*                                                                         *)
(* A tick reads the clock once and carries that reading through, so a slow *)
(* tick acts on a time that has passed.  Every commit is a step of its     *)
(* own: the lease upsert, the read-back, the load of a job's rows, each    *)
(* send and each save.  A week is Week ticks of the clock and a schedule's *)
(* weekday, hour and minute are its phase in that week.  Every job of      *)
(* worker.py is due on every tick, so the dispatcher's own last-run cursor *)
(* is written and never read, and is left out.                             *)
(***************************************************************************)
EXTENDS Integers, FiniteSets

CONSTANTS Workers,    \* worker processes
          Briefing,   \* keys of the briefing subscriptions
          Report,     \* keys of the report schedules
          Condition,  \* alert keys
          Phase0,     \* the phase each key is given at first
          Breach0,    \* the conditions that hold at first
          TTL,        \* length of a lease
          Week,       \* clock ticks between two fires of a schedule
          MaxTime,    \* bound on the clock
          MaxFaults,  \* bound on crashes and failing sends
          MaxEdits,   \* bound on the owner's edits and on conditions clearing
          None        \* an absent row, lease or edit

ASSUME WorkerAssumption ==
  /\ TTL \in Nat \ {0} /\ Week \in Nat \ {0} /\ MaxTime \in Nat
  /\ MaxFaults \in Nat /\ MaxEdits \in Nat
  /\ Briefing \cap Report = {} /\ Condition \cap (Briefing \cup Report) = {}
  /\ Phase0 \in [Briefing \cup Report -> 0..(Week - 1)]
  /\ Breach0 \subseteq Condition
  /\ None \notin Workers

VARIABLES now,        \* the clock
          lease,      \* the row of scheduler_lease, or None
          rows,       \* the stored subscription or schedule of each key
          breach,     \* the conditions that hold in the forecasts
          pc, at,     \* where a worker is, and the time its tick read
          job,        \* the job its tick is running
          copy,       \* the rows it loaded, with the cursors it advanced
          todo,       \* the rows or alerts it has not come to
          fired,      \* the rows it sent and has not saved
          marked,     \* the alert keys its process remembers as active
          edit,       \* the owner's edit between its read and its write
          want,       \* the settings the owner last gave each key
          raced,      \* the keys edited while a tick had them loaded
          sent,       \* every <<key, fire>> that went out
          twice,      \* the keys of the fires that went out again
          disturbed,  \* the keys whose cursor a fault or an edit put back
          said,       \* how often a condition was announced since it appeared
          silenced,   \* <<w, c>>: w's mark of c is outdated, or was never sent
          faults, edits

world  == <<now, breach>>
worker == <<pc, at, job, copy, todo, fired, marked>>
owner  == <<edit, want, raced, edits>>
record == <<sent, twice, disturbed, said, silenced, faults>>
vars   == <<world, lease, rows, worker, owner, record>>

Entry == Briefing \cup Report
Time  == 0..MaxTime
Phase == 0..(Week - 1)
Never == -2 * Week          \* last_sent = NULL: older than every fire
Fires == (1 - Week)..MaxTime
Row   == [phase : Phase, last : {Never} \cup Fires, active : BOOLEAN]
Edit  == [key : Entry, row : Row \cup {None}]
Job   == {"briefings", "alerts", "reports"}
Stage == {"idle", "acquire", "readback", "load", "deliver", "save", "renew"}

ASSUME Absent == None \notin Row \cup Edit
ASSUME FiniteWorkers == IsFiniteSet(Workers)

RowsOf(j) == CASE j = "briefings" -> Briefing
               [] j = "reports"   -> Report
               [] OTHER           -> {}

Unloaded == [k \in Entry |-> None]

Settings(r) == IF r = None THEN None
               ELSE [phase |-> r.phase, active |-> r.active]
Cursor(r)   == IF r = None THEN Never ELSE r.last
Fresh(p)    == [phase |-> p, last |-> Never, active |-> TRUE]

\* The latest scheduled instant at or before t.
NextFire(phase, t) == t - ((t - phase) % Week) + Week
MostRecentFire(phase, t) == t - ((t - phase) % Week)

\* Due when that instant is newer than the last delivery.
IsDue(r, t) == r.last < MostRecentFire(r.phase, t)

\* Every tenant of the fleet is given its subscription when it is onboarded.
Init ==
  /\ now = 0 /\ breach = Breach0
  /\ lease = None /\ rows = [k \in Entry |-> Fresh(Phase0[k])]
  /\ pc = [w \in Workers |-> "idle"] /\ at = [w \in Workers |-> 0]
  /\ job = [w \in Workers |-> "briefings"]
  /\ copy = [w \in Workers |-> Unloaded]
  /\ todo = [w \in Workers |-> {}] /\ fired = [w \in Workers |-> {}]
  /\ marked = [w \in Workers |-> {}]
  /\ edit = None /\ raced = {} /\ edits = 0
  /\ want = [k \in Entry |-> Settings(Fresh(Phase0[k]))]
  /\ sent = {} /\ twice = {} /\ disturbed = {} /\ faults = 0
  /\ said = [c \in Condition |-> 0] /\ silenced = {}

running == {w \in Workers : pc[w] \in {"load", "deliver", "save", "renew"}}

-----------------------------------------------------------------------------
(* The lease                                                               *)

\* The process reads its clock; the tick uses this reading throughout.
Wake(w) ==
  /\ pc[w] = "idle"
  /\ pc' = [pc EXCEPT ![w] = "acquire"] /\ at' = [at EXCEPT ![w] = now]
  /\ UNCHANGED <<world, lease, rows, job, copy, todo, fired, marked, owner,
                 record>>

\* The conditional upsert takes a lease that is free, expired or one's own.
GrantedUnexpired(w, t) == \/ lease = None
                          \/ lease.expires >= t
                          \/ lease.holder = w
Grantable(w, t) == \/ lease = None
                   \/ lease.expires <= t
                   \/ lease.holder = w

Acquire(w) ==
  /\ pc[w] = "acquire"
  /\ lease' = IF Grantable(w, at[w])
              THEN [holder |-> w, expires |-> at[w] + TTL] ELSE lease
  /\ pc' = [pc EXCEPT ![w] = "readback"]
  /\ UNCHANGED <<world, rows, at, job, copy, todo, fired, marked, owner,
                 record>>

Holds(w) == lease # None /\ lease.holder = w

\* The row is read back: the holder runs the jobs, anyone else skips the tick.
\* A leader that starts beside another makes every unsaved cursor uncertain.
ReadBack(w) ==
  /\ pc[w] = "readback"
  /\ IF Holds(w)
     THEN /\ pc' = [pc EXCEPT ![w] = "load"]
          /\ disturbed' = IF running = {} THEN disturbed ELSE Entry
          /\ UNCHANGED at
     ELSE /\ pc' = [pc EXCEPT ![w] = "idle"] /\ at' = [at EXCEPT ![w] = 0]
          /\ UNCHANGED disturbed
  /\ UNCHANGED <<world, lease, rows, job, copy, todo, fired, marked, owner,
                 sent, twice, said, silenced, faults>>

\* The lease is extended from the time the tick began, whoever else waits.
Renew(w) ==
  /\ pc[w] = "renew"
  /\ lease' = IF Holds(w) THEN [lease EXCEPT !.expires = at[w] + TTL] ELSE lease
  /\ pc' = [pc EXCEPT ![w] = "idle"] /\ at' = [at EXCEPT ![w] = 0]
  /\ UNCHANGED <<world, rows, job, copy, todo, fired, marked, owner, record>>

-----------------------------------------------------------------------------
(* The dispatcher's jobs                                                   *)

\* Where a worker goes when its job returns or raises: a failing job never
\* stops the next one.
AfterJob(w) ==
  /\ pc' = [pc EXCEPT ![w] = IF job[w] = "reports" THEN "renew" ELSE "load"]
  /\ job' = [job EXCEPT ![w] = CASE job[w] = "briefings" -> "alerts"
                                 [] job[w] = "alerts"    -> "reports"
                                 [] OTHER                -> "briefings"]

\* The job's loop goes on with the rest, then saves what it fired, then returns
\* and lets its rows go.
Proceed(w, loaded, rest, unsaved) ==
  /\ todo' = [todo EXCEPT ![w] = rest] /\ fired' = [fired EXCEPT ![w] = unsaved]
  /\ IF rest \cup unsaved = {}
     THEN AfterJob(w) /\ copy' = [copy EXCEPT ![w] = Unloaded]
     ELSE /\ pc' = [pc EXCEPT ![w] = IF rest = {} THEN "save" ELSE "deliver"]
          /\ copy' = [copy EXCEPT ![w] = loaded] /\ UNCHANGED job

\* DeliveryRuntime.tick and ReportJob.run begin by listing the whole store.
LoadRows(w) ==
  /\ pc[w] = "load" /\ job[w] # "alerts"
  /\ Proceed(w, [k \in Entry |-> IF k \in RowsOf(job[w]) THEN rows[k] ELSE None],
             {k \in RowsOf(job[w]) : rows[k] # None}, {})
  /\ UNCHANGED <<world, lease, rows, at, marked, owner, record>>

\* AlertsJob.run evaluates the fleet; dispatch re-arms what has cleared.
NeverRearmed(w) == marked[w]
Rearmed(w) == marked[w] \cap breach

LoadAlerts(w) ==
  /\ pc[w] = "load" /\ job[w] = "alerts"
  /\ marked' = [marked EXCEPT ![w] = Rearmed(w)]
  /\ silenced' = silenced \ ({w} \X (Condition \ breach))
  /\ Proceed(w, Unloaded, breach, {})
  /\ UNCHANGED <<world, lease, rows, at, owner, sent, twice, disturbed, said,
                 faults>>

\* The guards of the loop body, shared by run_due and run_due_reports.
Sendable(w, k) == copy[w][k].active /\ IsDue(copy[w][k], at[w])

\* Paused, not due, or no envelope (an unknown tenant, a briefing whose numbers
\* do not validate, a spec or a context that is not there): nothing happens.
Skip(w, k) ==
  /\ pc[w] = "deliver" /\ k \in todo[w] \cap Entry
  /\ Proceed(w, copy[w], todo[w] \ {k}, fired[w])
  /\ UNCHANGED <<world, lease, rows, at, marked, owner, record>>

\* The transport takes it, and only then does the loaded row's cursor advance.
NotAdvanced(r, t) == r
AdvancedToNow(r, t) == [r EXCEPT !.last = t]
Advanced(r, t) == [r EXCEPT !.last = MostRecentFire(r.phase, t)]

Send(w, k) ==
  /\ pc[w] = "deliver" /\ k \in todo[w] \cap Entry /\ Sendable(w, k)
  /\ LET d == <<k, MostRecentFire(copy[w][k].phase, at[w])>>
     IN  /\ sent' = sent \cup {d}
         /\ twice' = IF d \in sent THEN twice \cup {k} ELSE twice
  /\ Proceed(w, [copy[w] EXCEPT ![k] = Advanced(@, at[w])],
             todo[w] \ {k}, fired[w] \cup {k})
  /\ UNCHANGED <<world, lease, rows, at, marked, owner, disturbed, said,
                 silenced, faults>>

NotMarking(w, c) == marked[w]
Marking(w, c) == marked[w] \cup {c}

\* An alert not yet active is marked and then sent; an active one stays quiet.
SendAlert(w, c) ==
  /\ pc[w] = "deliver" /\ c \in todo[w] \cap Condition
  /\ marked' = [marked EXCEPT ![w] = Marking(w, c)]
  /\ said' = IF c \in marked[w] THEN said ELSE [said EXCEPT ![c] = @ + 1]
  /\ Proceed(w, Unloaded, todo[w] \ {c}, {})
  /\ UNCHANGED <<world, lease, rows, at, owner, sent, twice, disturbed,
                 silenced, faults>>

\* The transport raises: the job is over, nothing it sent before is saved, and
\* an alert it had marked stays marked.
Raise(w, k) ==
  /\ pc[w] = "deliver" /\ k \in todo[w] /\ faults < MaxFaults
  /\ IF k \in Entry THEN Sendable(w, k) ELSE k \notin marked[w]
  /\ marked' = [marked EXCEPT ![w] = IF k \in Condition THEN Marking(w, k) ELSE @]
  /\ silenced' = silenced \cup ({w} \X ({k} \cap Condition))
  /\ disturbed' = disturbed \cup fired[w]
  /\ faults' = faults + 1
  /\ Proceed(w, Unloaded, {}, {})
  /\ UNCHANGED <<world, lease, rows, at, owner, sent, twice, said>>

\* One upsert per fired row, of the whole row as it was loaded.
SaveRow(w, k) ==
  /\ pc[w] = "save" /\ k \in fired[w]
  /\ rows' = [rows EXCEPT ![k] = copy[w][k]]
  /\ Proceed(w, copy[w], {}, fired[w] \ {k})
  /\ UNCHANGED <<world, lease, at, marked, owner, record>>

\* Fleet.load onboards every tenant again, and a tenant that has no
\* subscription is given a new one, with no cursor.
OnboardedAnew == [k \in Entry |-> IF k \in Briefing THEN Fresh(Phase0[k])
                                  ELSE rows[k]]
Reloaded == [k \in Entry |-> IF k \in Briefing /\ rows[k] = None
                             THEN Fresh(Phase0[k]) ELSE rows[k]]

\* The process dies and comes back with nothing but the stores.
Crash(w) ==
  /\ faults < MaxFaults
  /\ pc' = [pc EXCEPT ![w] = "idle"] /\ rows' = Reloaded
  /\ at' = [at EXCEPT ![w] = 0] /\ job' = [job EXCEPT ![w] = "briefings"]
  /\ copy' = [copy EXCEPT ![w] = Unloaded]
  /\ todo' = [todo EXCEPT ![w] = {}] /\ fired' = [fired EXCEPT ![w] = {}]
  /\ marked' = [marked EXCEPT ![w] = {}]
  /\ disturbed' = disturbed \cup fired[w]
  /\ raced' = raced \cup {k \in Briefing : rows[k] = None}
  /\ silenced' = silenced \ ({w} \X Condition)
  /\ faults' = faults + 1
  /\ UNCHANGED <<world, lease, edit, want, edits, sent, twice, said>>

-----------------------------------------------------------------------------
(* The owner, and the world                                                *)

\* A tick that has k loaded will not see an edit made now.
Loaded(k) == \E w \in Workers : pc[w] \in {"deliver", "save"} /\ copy[w][k] # None

Write(k, r) ==
  /\ rows' = [rows EXCEPT ![k] = r]
  /\ want' = [want EXCEPT ![k] = Settings(r)]
  /\ raced' = IF Loaded(k) THEN raced \cup {k} ELSE raced

\* The manager looks the subscription up ...
OwnerRead(k) ==
  /\ edit = None /\ edits < MaxEdits
  /\ edit' = [key |-> k, row |-> rows[k]] /\ edits' = edits + 1
  /\ UNCHANGED <<world, lease, rows, worker, want, raced, record>>

\* ... and saves the object it found, whole: pause and resume, set_schedule,
\* and add, which keeps the cursor it read.
Edited(r) ==
  IF r = None THEN {Fresh(p) : p \in Phase}
  ELSE {[r EXCEPT !.active = b] : b \in BOOLEAN} \cup
       {[r EXCEPT !.phase = p] : p \in Phase} \cup
       {[phase |-> p, last |-> r.last, active |-> TRUE] : p \in Phase}

OwnerWrite ==
  /\ edit # None /\ edit' = None
  /\ \E r \in Edited(edit.row) : Write(edit.key, r)
  /\ disturbed' = IF Cursor(rows[edit.key]) = Cursor(edit.row) THEN disturbed
                  ELSE disturbed \cup {edit.key}
  /\ UNCHANGED <<world, lease, worker, edits, sent, twice, said, silenced, faults>>

\* SubscriptionManager.remove deletes the row at once.
Remove(k) ==
  /\ edits < MaxEdits /\ edits' = edits + 1
  /\ Write(k, None)
  /\ disturbed' = disturbed \cup {k}
  /\ UNCHANGED <<world, lease, worker, edit, sent, twice, said, silenced, faults>>

\* Fleet.schedule_report replaces the stored schedule, cursor and all.
ScheduleReport(k) ==
  /\ edits < MaxEdits /\ edits' = edits + 1
  /\ \E p \in Phase : Write(k, Fresh(p))
  /\ disturbed' = disturbed \cup {k}
  /\ UNCHANGED <<world, lease, worker, edit, sent, twice, said, silenced, faults>>

Tick ==
  /\ now < MaxTime /\ now' = now + 1
  /\ UNCHANGED <<breach, lease, rows, worker, owner, record>>

\* The forecasts change: a condition appears or clears.
Appear(c) ==
  /\ c \notin breach /\ breach' = breach \cup {c}
  /\ said' = [said EXCEPT ![c] = 0]
  /\ UNCHANGED <<now, lease, rows, worker, owner, sent, twice, disturbed,
                 silenced, faults>>

Clear(c) ==
  /\ c \in breach /\ breach' = breach \ {c}
  /\ edits < MaxEdits /\ edits' = edits + 1
  /\ silenced' = silenced \cup
       {<<w, c>> : w \in {v \in Workers : c \in marked[v] \cup todo[v]}}
  /\ UNCHANGED <<now, lease, rows, worker, edit, want, raced, sent, twice,
                 disturbed, said, faults>>

Step(w) ==
  \/ Wake(w) \/ Acquire(w) \/ ReadBack(w) \/ Renew(w)
  \/ LoadRows(w) \/ LoadAlerts(w)
  \/ \E k \in Entry : Skip(w, k) \/ Send(w, k) \/ SaveRow(w, k)
  \/ \E c \in Condition : SendAlert(w, c)

Fault(w) == Crash(w) \/ \E k \in Entry \cup Condition : Raise(w, k)

Next == \/ \E w \in Workers : Step(w) \/ Fault(w)
        \/ \E k \in Briefing : OwnerRead(k) \/ Remove(k)
        \/ \E k \in Report : ScheduleReport(k)
        \/ OwnerWrite
        \/ Tick \/ \E c \in Condition : Appear(c) \/ Clear(c)

Spec == Init /\ [][Next]_vars

-----------------------------------------------------------------------------
(* Properties                                                              *)

TypeOK ==
  /\ now \in Time /\ breach \subseteq Condition
  /\ lease \in {None} \cup [holder : Workers, expires : Nat]
  /\ rows \in [Entry -> Row \cup {None}]
  /\ pc \in [Workers -> Stage] /\ at \in [Workers -> Time]
  /\ job \in [Workers -> Job]
  /\ copy \in [Workers -> [Entry -> Row \cup {None}]]
  /\ todo \in [Workers -> SUBSET (Entry \cup Condition)]
  /\ fired \in [Workers -> SUBSET Entry]
  /\ marked \in [Workers -> SUBSET Condition]
  /\ edit \in {None} \cup Edit
  /\ want \in [Entry -> [phase : Phase, active : BOOLEAN] \cup {None}]
  /\ raced \subseteq Entry /\ disturbed \subseteq Entry
  /\ sent \subseteq Entry \X Fires /\ twice \subseteq Entry
  /\ said \in [Condition -> Nat] /\ silenced \subseteq Workers \X Condition
  /\ faults \in 0..MaxFaults /\ edits \in 0..MaxEdits

\* The lease guarantees that no two workers run the job set in one window
\* (LeasedDispatcher): where two do run, one of them has outstayed the lease it
\* was granted at the time its tick began.
OneRunnerUnlessOverrun ==
  \A v, w \in running : v # w => \/ now >= at[v] + TTL
                                 \/ now >= at[w] + TTL

\* A fire is delivered once, across restarts, hand-offs and the owner's edits:
\* the only keys sent twice are those whose cursor was put back (a crash or a
\* raise between the send and the save, a second runner, an edit that saved a
\* stale row, a schedule that was replaced).
SentOnceUnlessDisturbed == twice \subseteq disturbed

\* A fire a cursor has passed is one that was delivered: a tenant that was not
\* ready, or a transport that raised, leaves the schedule due.
PassedMeansSent ==
  \A k \in Entry : Cursor(rows[k]) = Never \/ <<k, Cursor(rows[k])>> \in sent

\* What the owner last asked of a subscription or a schedule is what is stored,
\* unless the edit fell inside a tick that had the row loaded, or a restart gave
\* a tenant back the subscription that was removed.
EditStandsUnlessRaced ==
  \A k \in Entry \ raced : Settings(rows[k]) = want[k]

\* A condition that persists is announced at most once by each process that
\* leads in the meantime; a process remembers what it announced until it dies.
AlertOncePerProcess ==
  \A c \in Condition : said[c] <= Cardinality(Workers) + faults

\* A process stays quiet about a condition because the condition was announced
\* since it appeared, except where the mark outlived the condition it was made
\* for or was made for an announcement that failed.
QuietMeansAnnounced ==
  \A w \in Workers : \A c \in marked[w] \cap breach :
    said[c] > 0 \/ <<w, c>> \in silenced
=============================================================================
