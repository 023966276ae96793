--------------------------- MODULE DeliveryProofs ---------------------------
(***************************************************************************)
(* What the worker's jobs send and save, for any number of workers, keys,  *)
(* conditions and ticks.  A tick holds copies of the rows it loaded, so    *)
(* the arguments say of every copy what they say of the stored row, and of *)
(* every row that was sent and not yet saved where its fire is recorded.   *)
(***************************************************************************)
EXTENDS Worker, FiniteSetTheorems, TLAPS

\* What a worker has in hand at each place of a job.
Shape ==
  \A w \in Workers :
    /\ pc[w] \notin {"deliver", "save"} =>
         copy[w] = Unloaded /\ todo[w] = {} /\ fired[w] = {}
    /\ pc[w] = "save" => todo[w] = {}
    /\ todo[w] \cap fired[w] = {}
    /\ \A k \in Entry : k \in todo[w] \cup fired[w] => copy[w][k] # None
    /\ todo[w] \subseteq Entry \/ (todo[w] \subseteq Condition /\ fired[w] = {}
                                                  /\ copy[w] = Unloaded)

Sound == TypeOK /\ Shape

\* A job's step: w goes on with rest and unsaved, and no other worker moves.
Moved(w, loaded, rest, unsaved) ==
  /\ \A v \in Workers : v # w => /\ pc'[v] = pc[v] /\ copy'[v] = copy[v]
                                 /\ todo'[v] = todo[v] /\ fired'[v] = fired[v]
  /\ todo'[w] = rest /\ fired'[w] = unsaved
  /\ IF rest \cup unsaved = {}
     THEN pc'[w] \in {"load", "renew"} /\ copy'[w] = Unloaded
     ELSE pc'[w] = (IF rest = {} THEN "save" ELSE "deliver") /\ copy'[w] = loaded

InHand(w, loaded, rest, unsaved) ==
  /\ loaded \in [Entry -> Row \cup {None}]
  /\ rest \subseteq Entry \cup Condition /\ unsaved \subseteq Entry
  /\ rest \cap unsaved = {}
  /\ \A k \in Entry : k \in rest \cup unsaved => loaded[k] # None
  /\ rest \subseteq Entry \/ (rest \subseteq Condition /\ unsaved = {}
                                                  /\ loaded = Unloaded)

LEMMA Proceeding ==
  ASSUME Sound, NEW w \in Workers, NEW loaded, NEW rest, NEW unsaved,
         InHand(w, loaded, rest, unsaved), Proceed(w, loaded, rest, unsaved)
  PROVE  /\ Moved(w, loaded, rest, unsaved) /\ Shape'
         /\ pc' \in [Workers -> Stage] /\ job' \in [Workers -> Job]
         /\ copy' \in [Workers -> [Entry -> Row \cup {None}]]
         /\ todo' \in [Workers -> SUBSET (Entry \cup Condition)]
         /\ fired' \in [Workers -> SUBSET Entry]
<1> USE WorkerAssumption
<1>1. Unloaded \in [Entry -> Row \cup {None}] /\ \A k \in Entry : Unloaded[k] = None
  BY DEF Unloaded
<1>2. todo' \in [Workers -> SUBSET (Entry \cup Condition)] /\ todo'[w] = rest
      /\ \A v \in Workers : v # w => todo'[v] = todo[v]
  BY DEF Proceed, Sound, TypeOK, InHand
<1>3. fired' \in [Workers -> SUBSET Entry] /\ fired'[w] = unsaved
      /\ \A v \in Workers : v # w => fired'[v] = fired[v]
  BY DEF Proceed, Sound, TypeOK, InHand
<1>4. copy' \in [Workers -> [Entry -> Row \cup {None}]]
      /\ (\A v \in Workers : v # w => copy'[v] = copy[v])
      /\ copy'[w] = IF rest \cup unsaved = {} THEN Unloaded ELSE loaded
  BY <1>1 DEF Proceed, Sound, TypeOK, InHand
<1>5. pc' \in [Workers -> Stage]
      /\ (\A v \in Workers : v # w => pc'[v] = pc[v])
      /\ IF rest \cup unsaved = {} THEN pc'[w] \in {"load", "renew"}
         ELSE pc'[w] = (IF rest = {} THEN "save" ELSE "deliver")
  BY DEF Proceed, AfterJob, Sound, TypeOK, Stage
<1>6. job' \in [Workers -> Job]
  BY DEF Proceed, AfterJob, Sound, TypeOK, Job
<1>7. Moved(w, loaded, rest, unsaved)
  BY <1>2, <1>3, <1>4, <1>5 DEF Moved
<1>8. ASSUME NEW v \in Workers
      PROVE  /\ pc'[v] \notin {"deliver", "save"} =>
                  copy'[v] = Unloaded /\ todo'[v] = {} /\ fired'[v] = {}
             /\ pc'[v] = "save" => todo'[v] = {}
             /\ todo'[v] \cap fired'[v] = {}
             /\ \A k \in Entry : k \in todo'[v] \cup fired'[v] => copy'[v][k] # None
             /\ todo'[v] \subseteq Entry
                \/ (todo'[v] \subseteq Condition /\ fired'[v] = {} /\ copy'[v] = Unloaded)
  <2>1. CASE v = w
    BY <1>1, <1>2, <1>3, <1>4, <1>5, <2>1 DEF InHand
  <2>2. CASE v # w
    BY <1>2, <1>3, <1>4, <1>5, <2>2 DEF Sound, Shape
  <2> QED BY <2>1, <2>2
<1>9. Shape'
  BY <1>8 DEF Shape, Unloaded
<1> QED BY <1>2, <1>3, <1>4, <1>5, <1>6, <1>7, <1>9

-----------------------------------------------------------------------------
(* Types and shape, step by step                                           *)

\* The latest fire at or before t is at most t and less than a week before it.
LEMMA FireTime ==
  ASSUME NEW p \in Phase, NEW t \in Time
  PROVE  MostRecentFire(p, t) \in Fires /\ MostRecentFire(p, t) <= t
<1>1. Week \in Nat \ {0} /\ MaxTime \in Nat
  BY WorkerAssumption
<1>2. t - p \in Int
  BY <1>1 DEF Phase, Time
<1>3. (t - p) % Week \in 0..(Week - 1)
  BY <1>1, <1>2
<1> QED BY <1>1, <1>3 DEF MostRecentFire, Fires, Time

LEMMA AdvancedRow ==
  ASSUME NEW r \in Row, NEW t \in Time
  PROVE  /\ Advanced(r, t) \in Row /\ Advanced(r, t) # None
         /\ Settings(Advanced(r, t)) = Settings(r)
         /\ Cursor(Advanced(r, t)) = MostRecentFire(r.phase, t)
<1>1. r \in [phase : Phase, last : {Never} \cup Fires, active : BOOLEAN]
  BY DEF Row
<1>2. MostRecentFire(r.phase, t) \in Fires
  BY <1>1, FireTime
<1>3. Advanced(r, t) \in Row
  BY <1>1, <1>2 DEF Advanced, Row
<1>4. r # None /\ Advanced(r, t) # None
  BY <1>3, Absent
<1> QED BY <1>1, <1>3, <1>4 DEF Advanced, Settings, Cursor

LEMMA FreshRow == \A p \in Phase : Fresh(p) \in Row /\ Cursor(Fresh(p)) = Never
BY Absent DEF Fresh, Row, Cursor

Listed(w)  == [k \in Entry |-> IF k \in RowsOf(job[w]) THEN rows[k] ELSE None]
Present(w) == {k \in RowsOf(job[w]) : rows[k] # None}

LEMMA LoadRowsMoves ==
  ASSUME Sound, NEW w \in Workers, LoadRows(w)
  PROVE  Sound' /\ Moved(w, Listed(w), Present(w), {})
<1>1. RowsOf(job[w]) \subseteq Entry
  BY DEF RowsOf, Entry
<1>2. InHand(w, Listed(w), Present(w), {})
  BY <1>1 DEF InHand, Listed, Present, Sound, TypeOK
<1>3. Proceed(w, Listed(w), Present(w), {})
  BY DEF LoadRows, Listed, Present
<1> QED BY <1>2, <1>3, Proceeding DEF LoadRows, Sound, TypeOK, world, owner, record

LEMMA LoadAlertsMoves ==
  ASSUME Sound, NEW w \in Workers, LoadAlerts(w)
  PROVE  Sound' /\ Moved(w, Unloaded, breach, {})
<1>1. InHand(w, Unloaded, breach, {})
  BY WorkerAssumption DEF InHand, Unloaded, Sound, TypeOK, Entry
<1>2. marked' \in [Workers -> SUBSET Condition] /\ silenced' \subseteq Workers \X Condition
  BY DEF LoadAlerts, Rearmed, Sound, TypeOK
<1>3. Proceed(w, Unloaded, breach, {})
  BY DEF LoadAlerts
<1> QED BY <1>1, <1>2, <1>3, Proceeding DEF LoadAlerts, Sound, TypeOK, world, owner

LEMMA SkipMoves ==
  ASSUME Sound, NEW w \in Workers, NEW k \in Entry, Skip(w, k)
  PROVE  Sound' /\ Moved(w, copy[w], todo[w] \ {k}, fired[w])
<1>1. InHand(w, copy[w], todo[w] \ {k}, fired[w])
  BY DEF Skip, InHand, Sound, TypeOK, Shape
<1>2. Proceed(w, copy[w], todo[w] \ {k}, fired[w])
  BY DEF Skip
<1> QED BY <1>1, <1>2, Proceeding DEF Skip, Sound, TypeOK, world, owner, record

LEMMA SendMoves ==
  ASSUME Sound, NEW w \in Workers, NEW k \in Entry, Send(w, k)
  PROVE  /\ Sound' /\ copy[w][k] \in Row
         /\ Moved(w, [copy[w] EXCEPT ![k] = Advanced(@, at[w])],
                  todo[w] \ {k}, fired[w] \cup {k})
<1> DEFINE c == [copy[w] EXCEPT ![k] = Advanced(@, at[w])]
<1>0. k \in todo[w] /\ k \notin Condition
  BY WorkerAssumption DEF Send, Entry
<1>1. copy[w][k] \in Row /\ at[w] \in Time /\ k \in todo[w] /\ todo[w] \subseteq Entry
  BY <1>0 DEF Sound, TypeOK, Shape
<1>2. c \in [Entry -> Row \cup {None}] /\ c[k] # None
  BY <1>1, AdvancedRow DEF Sound, TypeOK
<1>3. InHand(w, c, todo[w] \ {k}, fired[w] \cup {k})
  BY <1>1, <1>2 DEF InHand, Sound, TypeOK, Shape
<1>4. Proceed(w, c, todo[w] \ {k}, fired[w] \cup {k})
  BY DEF Send
<1>5. copy[w][k].phase \in Phase
  BY <1>1 DEF Row
<1>6. sent' \subseteq Entry \X Fires /\ twice' \subseteq Entry
  BY <1>1, <1>5, FireTime DEF Send, Sound, TypeOK
<1> QED BY <1>1, <1>3, <1>4, <1>6, Proceeding DEF Send, Sound, TypeOK, world, owner

LEMMA SendAlertMoves ==
  ASSUME Sound, NEW w \in Workers, NEW c \in Condition, SendAlert(w, c)
  PROVE  Sound' /\ Moved(w, Unloaded, todo[w] \ {c}, {})
<1>1. InHand(w, Unloaded, todo[w] \ {c}, {})
  BY WorkerAssumption DEF SendAlert, InHand, Unloaded, Sound, TypeOK, Shape, Entry
<1>2. marked' \in [Workers -> SUBSET Condition] /\ said' \in [Condition -> Nat]
  BY DEF SendAlert, Marking, Sound, TypeOK
<1>3. Proceed(w, Unloaded, todo[w] \ {c}, {})
  BY DEF SendAlert
<1> QED BY <1>1, <1>2, <1>3, Proceeding DEF SendAlert, Sound, TypeOK, world, owner

LEMMA RaiseMoves ==
  ASSUME Sound, NEW w \in Workers, NEW k \in Entry \cup Condition, Raise(w, k)
  PROVE  Sound' /\ Moved(w, Unloaded, {}, {})
<1>1. InHand(w, Unloaded, {}, {})
  BY DEF InHand, Unloaded
<1>2. /\ marked' \in [Workers -> SUBSET Condition] /\ disturbed' \subseteq Entry
      /\ silenced' \subseteq Workers \X Condition /\ faults' \in 0..MaxFaults
  BY WorkerAssumption DEF Raise, Marking, Sound, TypeOK
<1>3. Proceed(w, Unloaded, {}, {})
  BY DEF Raise
<1> QED BY <1>1, <1>2, <1>3, Proceeding DEF Raise, Sound, TypeOK, world, owner

LEMMA SaveRowMoves ==
  ASSUME Sound, NEW w \in Workers, NEW k \in Entry, SaveRow(w, k)
  PROVE  /\ Sound' /\ copy[w][k] \in Row /\ todo[w] = {}
         /\ Moved(w, copy[w], {}, fired[w] \ {k})
<1>1. copy[w][k] \in Row /\ todo[w] = {}
  BY DEF SaveRow, Sound, TypeOK, Shape
<1>2. InHand(w, copy[w], {}, fired[w] \ {k})
  BY DEF SaveRow, InHand, Sound, TypeOK, Shape
<1>3. rows' \in [Entry -> Row \cup {None}]
  BY <1>1 DEF SaveRow, Sound, TypeOK
<1>4. Proceed(w, copy[w], {}, fired[w] \ {k})
  BY DEF SaveRow
<1> QED BY <1>1, <1>2, <1>3, <1>4, Proceeding DEF SaveRow, Sound, TypeOK, world, owner, record

\* The steps of the lease: no worker's hands change.
LEMMA LeaseSteps ==
  ASSUME Sound, NEW w \in Workers, Wake(w) \/ Acquire(w) \/ ReadBack(w) \/ Renew(w)
  PROVE  /\ Sound' /\ UNCHANGED <<world, rows, copy, todo, fired, marked, owner>>
         /\ UNCHANGED <<sent, twice, said, silenced, faults>>
         /\ disturbed' = disturbed \/ (disturbed' = Entry /\ ReadBack(w))
         /\ \A v \in Workers : v # w => pc'[v] = pc[v]
         /\ pc[w] \notin {"deliver", "save"} /\ pc'[w] \notin {"deliver", "save"}
<1> USE WorkerAssumption
<1>1. /\ UNCHANGED <<world, rows, job, copy, todo, fired, marked, owner>>
      /\ UNCHANGED <<sent, twice, said, silenced, faults>>
      /\ disturbed' = disturbed \/ (disturbed' = Entry /\ ReadBack(w))
  BY DEF Wake, Acquire, ReadBack, Renew, record
<1>2. /\ \E x \in Stage \ {"deliver", "save"} : pc' = [pc EXCEPT ![w] = x]
      /\ pc[w] \notin {"deliver", "save"}
  BY DEF Wake, Acquire, ReadBack, Renew, Stage
<1>3. at' \in [Workers -> Time]
  BY DEF Wake, Acquire, ReadBack, Renew, Sound, TypeOK, Time
<1>4. lease' \in {None} \cup [holder : Workers, expires : Nat]
  <2>1. at[w] + TTL \in Nat
    BY DEF Sound, TypeOK, Time
  <2>2. [holder |-> w, expires |-> at[w] + TTL] \in [holder : Workers, expires : Nat]
    BY <2>1
  <2>3. Holds(w) => [lease EXCEPT !.expires = at[w] + TTL] \in [holder : Workers, expires : Nat]
    BY <2>1 DEF Holds, Sound, TypeOK
  <2> QED BY <2>2, <2>3 DEF Wake, Acquire, ReadBack, Renew, Sound, TypeOK
<1>5. /\ pc' \in [Workers -> Stage] /\ \A v \in Workers : v # w => pc'[v] = pc[v]
      /\ pc'[w] \notin {"deliver", "save"}
  BY <1>2 DEF Sound, TypeOK
<1>6. TypeOK'
  BY <1>1, <1>3, <1>4, <1>5 DEF Sound, TypeOK, world, owner
<1>7. Shape'
  BY <1>1, <1>2, <1>5 DEF Sound, Shape, Unloaded
<1> QED BY <1>1, <1>2, <1>5, <1>6, <1>7 DEF Sound

LEMMA CrashMoves ==
  ASSUME Sound, NEW w \in Workers, Crash(w)
  PROVE  /\ Sound'
         /\ \A v \in Workers : v # w => /\ pc'[v] = pc[v] /\ copy'[v] = copy[v]
                                        /\ todo'[v] = todo[v] /\ fired'[v] = fired[v]
         /\ pc'[w] = "idle" /\ copy'[w] = Unloaded /\ todo'[w] = {} /\ fired'[w] = {}
<1> USE WorkerAssumption
<1>1. /\ \A v \in Workers : v # w => /\ pc'[v] = pc[v] /\ copy'[v] = copy[v]
                                     /\ todo'[v] = todo[v] /\ fired'[v] = fired[v]
      /\ pc'[w] = "idle" /\ copy'[w] = Unloaded /\ todo'[w] = {} /\ fired'[w] = {}
  BY DEF Crash, Sound, TypeOK
<1>2. rows' \in [Entry -> Row \cup {None}]
  <2>1. \A k \in Briefing : Fresh(Phase0[k]) \in Row
    BY FreshRow DEF Phase
  <2> QED BY <2>1 DEF Crash, Reloaded, Sound, TypeOK
<1>3. /\ pc' \in [Workers -> Stage] /\ at' \in [Workers -> Time]
      /\ job' \in [Workers -> Job] /\ copy' \in [Workers -> [Entry -> Row \cup {None}]]
      /\ todo' \in [Workers -> SUBSET (Entry \cup Condition)]
      /\ fired' \in [Workers -> SUBSET Entry] /\ marked' \in [Workers -> SUBSET Condition]
  BY DEF Crash, Sound, TypeOK, Stage, Time, Job, Unloaded
<1>4. /\ disturbed' \subseteq Entry /\ raced' \subseteq Entry
      /\ silenced' \subseteq Workers \X Condition /\ faults' \in 0..MaxFaults
  BY DEF Crash, Sound, TypeOK, Entry
<1>5. TypeOK'
  BY <1>2, <1>3, <1>4 DEF Crash, Sound, TypeOK, world
<1>6. Shape'
  BY <1>1 DEF Sound, Shape, Unloaded
<1> QED BY <1>1, <1>5, <1>6 DEF Sound

LEMMA EditedRow ==
  ASSUME NEW r \in Row \cup {None}, NEW x \in Edited(r)
  PROVE  x \in Row /\ Cursor(x) = Cursor(r)
<1>1. CASE r = None
  BY <1>1, FreshRow DEF Edited, Cursor
<1>2. CASE r \in Row
  <2>1. r # None
    BY <1>2, Absent
  <2>2. x \in Row /\ x.last = r.last
    <3>1. CASE \E b \in BOOLEAN : x = [r EXCEPT !.active = b]
      BY <1>2, <3>1 DEF Row
    <3>2. CASE \E p \in Phase : x = [r EXCEPT !.phase = p]
      BY <1>2, <3>2 DEF Row
    <3>3. CASE \E p \in Phase : x = [phase |-> p, last |-> r.last, active |-> TRUE]
      BY <1>2, <3>3 DEF Row
    <3> QED BY <2>1, <3>1, <3>2, <3>3 DEF Edited
  <2>3. x # None
    BY <2>2, Absent
  <2> QED BY <2>1, <2>2, <2>3 DEF Cursor
<1> QED BY <1>1, <1>2

LEMMA SettingsType == \A r \in Row \cup {None} :
                        Settings(r) \in [phase : Phase, active : BOOLEAN] \cup {None}
BY Absent DEF Settings, Row

\* The owner's write, whole: what is stored and what is wanted are one row.
LEMMA Written ==
  ASSUME Sound, NEW k \in Entry, NEW r \in Row \cup {None}, Write(k, r)
  PROVE  /\ rows' \in [Entry -> Row \cup {None}] /\ rows'[k] = r
         /\ \A j \in Entry : j # k => rows'[j] = rows[j] /\ want'[j] = want[j]
         /\ want' \in [Entry -> [phase : Phase, active : BOOLEAN] \cup {None}]
         /\ want'[k] = Settings(r)
         /\ raced \subseteq raced' /\ raced' \subseteq Entry
         /\ Loaded(k) => k \in raced'
BY SettingsType DEF Write, Sound, TypeOK

\* The owner's steps and the world's: the workers do not move.
LEMMA OtherSteps ==
  ASSUME Sound,
         \/ \E k \in Entry : OwnerRead(k) \/ Remove(k) \/ ScheduleReport(k)
         \/ OwnerWrite \/ Tick \/ UNCHANGED vars
         \/ \E c \in Condition : Appear(c) \/ Clear(c)
  PROVE  Sound' /\ UNCHANGED worker
<1> USE WorkerAssumption
<1>1. UNCHANGED worker
  BY DEF OwnerRead, Remove, ScheduleReport, OwnerWrite, Tick, vars, Appear, Clear
<1>2. Shape'
  BY <1>1 DEF worker, Sound, Shape
<1>3. ASSUME NEW k \in Entry, OwnerRead(k) PROVE TypeOK'
  <2>1. [key |-> k, row |-> rows[k]] \in Edit
    BY DEF Sound, TypeOK, Edit
  <2> QED BY <1>1, <1>3, <2>1 DEF OwnerRead, Sound, TypeOK, world, worker, record
<1>4. ASSUME NEW k \in Entry, Remove(k) PROVE TypeOK'
  BY <1>1, <1>4, Written DEF Remove, Sound, TypeOK, world, worker
<1>5. ASSUME NEW k \in Entry, ScheduleReport(k) PROVE TypeOK'
  BY <1>1, <1>5, Written, FreshRow DEF ScheduleReport, Sound, TypeOK, world, worker
<1>6. ASSUME OwnerWrite PROVE TypeOK'
  <2>1. edit.key \in Entry /\ edit.row \in Row \cup {None}
    BY <1>6 DEF OwnerWrite, Sound, TypeOK, Edit
  <2>2. PICK r \in Edited(edit.row) : Write(edit.key, r)
    BY <1>6 DEF OwnerWrite
  <2>3. r \in Row
    BY <2>1, EditedRow
  <2>4. disturbed' \subseteq Entry
    BY <1>6, <2>1 DEF OwnerWrite, Sound, TypeOK
  <2> QED BY <1>1, <1>6, <2>1, <2>2, <2>3, <2>4, Written
          DEF OwnerWrite, Sound, TypeOK, world, worker
<1>7. ASSUME Tick PROVE TypeOK'
  BY <1>1, <1>7 DEF Tick, Sound, TypeOK, Time, worker, owner, record
<1>8. ASSUME NEW c \in Condition, Appear(c) PROVE TypeOK'
  BY <1>1, <1>8 DEF Appear, Sound, TypeOK, worker, owner
<1>9. ASSUME NEW c \in Condition, Clear(c) PROVE TypeOK'
  BY <1>1, <1>9 DEF Clear, Sound, TypeOK, worker
<1>10. ASSUME UNCHANGED vars PROVE TypeOK'
  BY <1>10 DEF vars, Sound, TypeOK, world, worker, owner, record
<1> QED BY <1>1, <1>2, <1>3, <1>4, <1>5, <1>6, <1>7, <1>8, <1>9, <1>10 DEF Sound

JobSteps(w) == \/ LoadRows(w) \/ LoadAlerts(w)
               \/ \E k \in Entry : Skip(w, k) \/ Send(w, k) \/ SaveRow(w, k)
               \/ \E c \in Condition : SendAlert(w, c)
               \/ \E k \in Entry \cup Condition : Raise(w, k)
LeaseStep(w) == Wake(w) \/ Acquire(w) \/ ReadBack(w) \/ Renew(w)
OwnerStep == \/ \E k \in Entry : OwnerRead(k) \/ Remove(k) \/ ScheduleReport(k)
             \/ OwnerWrite
WorldStep == Tick \/ UNCHANGED vars \/ \E c \in Condition : Appear(c) \/ Clear(c)

LEMMA Cases ==
  ASSUME [Next]_vars
  PROVE  \/ \E w \in Workers : JobSteps(w) \/ LeaseStep(w) \/ Crash(w)
         \/ OwnerStep \/ WorldStep
BY DEF Next, Step, Fault, JobSteps, LeaseStep, OwnerStep, WorldStep, Entry

LEMMA SoundStep ==
  ASSUME Sound, [Next]_vars
  PROVE  Sound'
<1>1. ASSUME NEW w \in Workers, JobSteps(w) PROVE Sound'
  BY <1>1, LoadRowsMoves, LoadAlertsMoves, SkipMoves, SendMoves, SaveRowMoves,
     SendAlertMoves, RaiseMoves DEF JobSteps
<1>2. ASSUME NEW w \in Workers, LeaseStep(w) PROVE Sound'
  BY <1>2, LeaseSteps DEF LeaseStep
<1>3. ASSUME NEW w \in Workers, Crash(w) PROVE Sound'
  BY <1>3, CrashMoves
<1>4. ASSUME OwnerStep \/ WorldStep PROVE Sound'
  BY <1>4, OtherSteps DEF OwnerStep, WorldStep
<1> QED BY <1>1, <1>2, <1>3, <1>4, Cases

-----------------------------------------------------------------------------
(* Where a cursor came from                                                *)

Passed(k, r) == Cursor(r) = Never \/ <<k, Cursor(r)>> \in sent

EveryPassed == /\ \A k \in Entry : Passed(k, rows[k])
               /\ \A w \in Workers, k \in Entry : Passed(k, copy[w][k])
               /\ edit # None => Passed(edit.key, edit.row)

\* A copy that a step does not make anew has a cursor that was passed before.
LEMMA PassedKept ==
  ASSUME EveryPassed, Sound, Sound', sent \subseteq sent',
         \A k \in Entry : Cursor(rows'[k]) = Cursor(rows[k])
                          \/ \E w \in Workers : rows'[k] = copy[w][k],
         \A w \in Workers, k \in Entry :
           copy'[w][k] \in {None, rows[k], copy[w][k]} \/ Passed(k, copy[w][k])',
         edit' = edit
  PROVE  EveryPassed'
<1>1. ASSUME NEW k \in Entry PROVE Passed(k, rows[k])'
  BY DEF EveryPassed, Passed
<1>2. ASSUME NEW w \in Workers, NEW k \in Entry PROVE Passed(k, copy[w][k])'
  BY DEF EveryPassed, Passed, Cursor
<1>3. edit' # None => Passed(edit.key, edit.row)'
  BY DEF EveryPassed, Passed
<1> QED BY <1>1, <1>2, <1>3 DEF EveryPassed

LEMMA PassedStep ==
  ASSUME Sound, EveryPassed, [Next]_vars
  PROVE  EveryPassed'
<1>0. Sound'
  BY SoundStep
<1>1. ASSUME NEW w \in Workers, LoadRows(w) PROVE EveryPassed'
  <2>1. Moved(w, Listed(w), Present(w), {})
    BY <1>1, LoadRowsMoves
  <2>2. \A v \in Workers, k \in Entry : copy'[v][k] \in {None, rows[k], copy[v][k]}
    BY <2>1 DEF Moved, Listed, Unloaded
  <2> QED BY <1>0, <1>1, <2>2, PassedKept DEF LoadRows, owner, record
<1>2. ASSUME NEW w \in Workers,
             \/ LoadAlerts(w) \/ \E c \in Condition : SendAlert(w, c)
             \/ \E k \in Entry \cup Condition : Raise(w, k)
      PROVE  EveryPassed'
  <2>1. /\ \A v \in Workers : v # w => copy'[v] = copy[v]
        /\ copy'[w] = Unloaded
    BY <1>2, LoadAlertsMoves, SendAlertMoves, RaiseMoves DEF Moved
  <2>2. \A v \in Workers, k \in Entry : copy'[v][k] \in {None, copy[v][k]}
    BY <2>1 DEF Unloaded
  <2> QED BY <1>0, <1>2, <2>2, PassedKept DEF LoadAlerts, SendAlert, Raise, owner
<1>3. ASSUME NEW w \in Workers, NEW k \in Entry, Skip(w, k) \/ SaveRow(w, k)
      PROVE  EveryPassed'
  <2>1. /\ \A v \in Workers : v # w => copy'[v] = copy[v]
        /\ copy'[w] = Unloaded \/ copy'[w] = copy[w]
    BY <1>3, SkipMoves, SaveRowMoves DEF Moved
  <2>2. \A v \in Workers, j \in Entry : copy'[v][j] \in {None, copy[v][j]}
    BY <2>1 DEF Unloaded
  <2>3. \A j \in Entry : rows'[j] \in {rows[j], copy[w][j]}
    BY <1>3 DEF Skip, SaveRow, Sound, TypeOK
  <2> QED BY <1>0, <1>3, <2>2, <2>3, PassedKept DEF Skip, SaveRow, owner, record
<1>4. ASSUME NEW w \in Workers, NEW k \in Entry, Send(w, k) PROVE EveryPassed'
  <2> DEFINE r == Advanced(copy[w][k], at[w])
             c == [copy[w] EXCEPT ![k] = Advanced(@, at[w])]
  <2>1. Moved(w, c, todo[w] \ {k}, fired[w] \cup {k}) /\ copy[w][k] \in Row
    BY <1>4, SendMoves
  <2>2. c[k] = r /\ \A j \in Entry : j # k => c[j] = copy[w][j]
    BY DEF Sound, TypeOK
  <2>3. <<k, Cursor(r)>> \in sent' /\ sent \subseteq sent'
    <3>1. at[w] \in Time
      BY DEF Sound, TypeOK
    <3> QED BY <1>4, <2>1, <3>1, AdvancedRow DEF Send
  <2>4. \A v \in Workers, j \in Entry :
          copy'[v][j] \in {None, copy[v][j]} \/ Passed(j, copy[v][j])'
    BY <2>1, <2>2, <2>3 DEF Moved, Passed, Unloaded
  <2> QED BY <1>0, <1>4, <2>3, <2>4, PassedKept DEF Send, owner
<1>5. ASSUME NEW w \in Workers, LeaseStep(w) PROVE EveryPassed'
  <2>1. UNCHANGED <<rows, copy, owner, sent>>
    BY <1>5, LeaseSteps DEF LeaseStep
  <2> QED BY <2>1 DEF EveryPassed, Passed, owner
<1>6. ASSUME NEW w \in Workers, Crash(w) PROVE EveryPassed'
  <2>1. \A v \in Workers, k \in Entry : copy'[v][k] \in {None, copy[v][k]}
    BY <1>6, CrashMoves DEF Unloaded
  <2>2. \A k \in Entry : Cursor(rows'[k]) = Cursor(rows[k])
    <3>1. \A k \in Briefing : Cursor(Fresh(Phase0[k])) = Never
      BY FreshRow, WorkerAssumption DEF Phase
    <3> QED BY <1>6, <3>1 DEF Crash, Reloaded, Cursor
  <2> QED BY <1>0, <1>6, <2>1, <2>2, PassedKept DEF Crash
<1>7. ASSUME NEW k \in Entry, OwnerRead(k) PROVE EveryPassed'
  <2>1. /\ edit' = [key |-> k, row |-> rows[k]]
        /\ rows' = rows /\ copy' = copy /\ sent' = sent
    BY <1>7 DEF OwnerRead, worker, record
  <2> QED BY <2>1 DEF EveryPassed, Passed
<1>8. ASSUME NEW k \in Entry, NEW r \in Row \cup {None}, Write(k, r), Passed(k, r),
             UNCHANGED <<worker, sent>>, edit' \in {edit, None}
      PROVE  EveryPassed'
  <2>1. rows'[k] = r /\ \A j \in Entry : j # k => rows'[j] = rows[j]
    BY <1>8, Written
  <2> QED BY <1>8, <2>1 DEF EveryPassed, Passed, worker
<1>9. ASSUME NEW k \in Entry, Remove(k) \/ ScheduleReport(k) PROVE EveryPassed'
  <2>1. PICK r \in Row \cup {None} : Write(k, r) /\ Cursor(r) = Never
    BY <1>9, FreshRow DEF Remove, ScheduleReport, Cursor
  <2> QED BY <1>8, <1>9, <2>1 DEF Passed, Remove, ScheduleReport
<1>10. ASSUME OwnerWrite PROVE EveryPassed'
  <2>1. edit.key \in Entry /\ edit.row \in Row \cup {None}
    BY <1>10 DEF OwnerWrite, Sound, TypeOK, Edit
  <2>2. PICK r \in Edited(edit.row) : Write(edit.key, r)
    BY <1>10 DEF OwnerWrite
  <2>3. r \in Row /\ Cursor(r) = Cursor(edit.row)
    BY <2>1, EditedRow
  <2> QED BY <1>8, <1>10, <2>1, <2>2, <2>3 DEF OwnerWrite, EveryPassed, Passed
<1>11. ASSUME WorldStep PROVE EveryPassed'
  <2>1. UNCHANGED <<rows, copy, edit, sent>>
    BY <1>11 DEF WorldStep, Tick, Appear, Clear, vars, worker, owner, record
  <2> QED BY <2>1 DEF EveryPassed, Passed
<1> QED BY <1>1, <1>2, <1>3, <1>4, <1>5, <1>6, <1>7, <1>9, <1>10, <1>11, Cases
        DEF JobSteps, OwnerStep

-----------------------------------------------------------------------------
(* Whose settings are stored                                               *)

\* A tick that has a row loaded has the settings the owner gave it last.
EditsHeld ==
  \A k \in Entry \ raced :
    /\ Settings(rows[k]) = want[k]
    /\ \A w \in Workers : copy[w][k] # None => Settings(copy[w][k]) = want[k]

\* A step that makes no copy with settings of its own.
SettingsCopied ==
  \A w \in Workers, k \in Entry :
    \/ copy'[w][k] \in {None, rows[k], copy[w][k]}
    \/ copy[w][k] # None /\ Settings(copy'[w][k]) = Settings(copy[w][k])

LEMMA EditsKept ==
  ASSUME EditsHeld, raced \subseteq raced', want' = want,
         \A k \in Entry \ raced' : rows'[k] = rows[k] \/ Settings(rows'[k]) = want[k],
         SettingsCopied
  PROVE  EditsHeld'
<1> SUFFICES ASSUME NEW k \in Entry \ raced'
    PROVE  /\ Settings(rows'[k]) = want'[k]
           /\ \A w \in Workers : copy'[w][k] # None => Settings(copy'[w][k]) = want'[k]
  BY DEF EditsHeld
<1>1. Settings(rows'[k]) = want[k]
  BY DEF EditsHeld
<1>2. ASSUME NEW w \in Workers, copy'[w][k] # None
      PROVE  Settings(copy'[w][k]) = want[k]
  <2>1. CASE copy'[w][k] \in {None, rows[k], copy[w][k]}
    BY <1>2, <2>1 DEF EditsHeld
  <2>2. CASE copy[w][k] # None /\ Settings(copy'[w][k]) = Settings(copy[w][k])
    BY <2>2 DEF EditsHeld
  <2> QED BY <2>1, <2>2 DEF SettingsCopied
<1> QED BY <1>1, <1>2

LEMMA EditsStep ==
  ASSUME Sound, EditsHeld, [Next]_vars
  PROVE  EditsHeld'
<1>1. ASSUME NEW w \in Workers, LoadRows(w) PROVE EditsHeld'
  <2>1. Moved(w, Listed(w), Present(w), {})
    BY <1>1, LoadRowsMoves
  <2>2. SettingsCopied
    BY <2>1 DEF SettingsCopied, Moved, Listed, Unloaded
  <2> QED BY <1>1, <2>2, EditsKept DEF LoadRows, owner
<1>2. ASSUME NEW w \in Workers,
             \/ LoadAlerts(w) \/ \E c \in Condition : SendAlert(w, c)
             \/ \E k \in Entry \cup Condition : Raise(w, k)
      PROVE  EditsHeld'
  <2>1. /\ \A v \in Workers : v # w => copy'[v] = copy[v]
        /\ copy'[w] = Unloaded
    BY <1>2, LoadAlertsMoves, SendAlertMoves, RaiseMoves DEF Moved
  <2>2. SettingsCopied
    BY <2>1 DEF SettingsCopied, Unloaded
  <2> QED BY <1>2, <2>2, EditsKept DEF LoadAlerts, SendAlert, Raise, owner
<1>3. ASSUME NEW w \in Workers, NEW k \in Entry, Skip(w, k) \/ SaveRow(w, k)
      PROVE  EditsHeld'
  <2>1. /\ \A v \in Workers : v # w => copy'[v] = copy[v]
        /\ copy'[w] = Unloaded \/ copy'[w] = copy[w]
    BY <1>3, SkipMoves, SaveRowMoves DEF Moved
  <2>2. SettingsCopied
    BY <2>1 DEF SettingsCopied, Unloaded
  <2>3. SaveRow(w, k) => copy[w][k] # None
    BY DEF SaveRow, Sound, Shape
  <2>4. \A j \in Entry : rows'[j] = rows[j] \/ (rows'[j] = copy[w][j] /\ copy[w][j] # None)
    BY <1>3, <2>3 DEF Skip, SaveRow, Sound, TypeOK
  <2>5. \A j \in Entry \ raced : rows'[j] = rows[j] \/ Settings(rows'[j]) = want[j]
    BY <2>4 DEF EditsHeld
  <2> QED BY <1>3, <2>2, <2>5, EditsKept DEF Skip, SaveRow, owner
<1>4. ASSUME NEW w \in Workers, NEW k \in Entry, Send(w, k) PROVE EditsHeld'
  <2> DEFINE c == [copy[w] EXCEPT ![k] = Advanced(@, at[w])]
  <2>1. Moved(w, c, todo[w] \ {k}, fired[w] \cup {k}) /\ copy[w][k] \in Row
    BY <1>4, SendMoves
  <2>2. c[k] = Advanced(copy[w][k], at[w]) /\ \A j \in Entry : j # k => c[j] = copy[w][j]
    BY DEF Sound, TypeOK
  <2>3. Settings(c[k]) = Settings(copy[w][k]) /\ copy[w][k] # None
    <3>1. at[w] \in Time
      BY DEF Sound, TypeOK
    <3> QED BY <2>1, <2>2, <3>1, AdvancedRow, Absent
  <2>4. SettingsCopied
    BY <2>1, <2>2, <2>3 DEF SettingsCopied, Moved, Unloaded
  <2> QED BY <1>4, <2>4, EditsKept DEF Send, owner
<1>5. ASSUME NEW w \in Workers, LeaseStep(w) PROVE EditsHeld'
  <2>1. UNCHANGED <<rows, copy, owner>>
    BY <1>5, LeaseSteps DEF LeaseStep
  <2> QED BY <2>1 DEF EditsHeld, owner
<1>6. ASSUME NEW w \in Workers, Crash(w) PROVE EditsHeld'
  <2>1. SettingsCopied
    BY <1>6, CrashMoves DEF SettingsCopied, Unloaded
  <2>2. \A k \in Entry \ raced' : rows'[k] = rows[k]
    BY <1>6 DEF Crash, Reloaded
  <2> QED BY <1>6, <2>1, <2>2, EditsKept DEF Crash
<1>7. ASSUME NEW k \in Entry, NEW r \in Row \cup {None}, Write(k, r), UNCHANGED worker
      PROVE  EditsHeld'
  <2>1. /\ rows'[k] = r /\ want'[k] = Settings(r) /\ raced \subseteq raced'
        /\ \A j \in Entry : j # k => rows'[j] = rows[j] /\ want'[j] = want[j]
        /\ Loaded(k) => k \in raced'
    BY <1>7, Written
  <2>2. \A w \in Workers : k \notin raced' => copy[w][k] = None
    BY <2>1 DEF Loaded, Sound, Shape, Unloaded
  <2>3. copy' = copy
    BY <1>7 DEF worker
  <2> QED BY <2>1, <2>2, <2>3 DEF EditsHeld
<1>8. ASSUME NEW k \in Entry, Remove(k) \/ ScheduleReport(k) PROVE EditsHeld'
  <2>1. PICK r \in Row \cup {None} : Write(k, r)
    BY <1>8, FreshRow DEF Remove, ScheduleReport
  <2> QED BY <1>7, <1>8, <2>1 DEF Remove, ScheduleReport
<1>9. ASSUME OwnerWrite PROVE EditsHeld'
  <2>1. edit.key \in Entry /\ edit.row \in Row \cup {None}
    BY <1>9 DEF OwnerWrite, Sound, TypeOK, Edit
  <2>2. PICK r \in Edited(edit.row) : Write(edit.key, r)
    BY <1>9 DEF OwnerWrite
  <2>3. r \in Row
    BY <2>1, EditedRow
  <2> QED BY <1>7, <1>9, <2>1, <2>2, <2>3 DEF OwnerWrite
<1>10. ASSUME WorldStep \/ \E k \in Entry : OwnerRead(k) PROVE EditsHeld'
  <2>1. UNCHANGED <<rows, copy, want, raced>>
    BY <1>10 DEF WorldStep, OwnerRead, Tick, Appear, Clear, vars, worker, owner, record
  <2> QED BY <2>1 DEF EditsHeld
<1> QED BY <1>1, <1>2, <1>3, <1>4, <1>5, <1>6, <1>8, <1>9, <1>10, Cases
        DEF JobSteps, OwnerStep

-----------------------------------------------------------------------------
(* What is sent once                                                       *)

\* Two that run side by side make every cursor uncertain.
Alone == \A v, w \in running : v # w => disturbed = Entry

\* A fire that went out is behind the stored cursor, or behind the one that the
\* worker that sent it has yet to save; what a worker has still to come to, it
\* knows the stored cursor of.
Accounted(k) ==
  /\ \A f \in Fires : <<k, f>> \in sent =>
       \/ f <= Cursor(rows[k])
       \/ \E w \in Workers : k \in fired[w] /\ f <= Cursor(copy[w][k])
  /\ \A w \in Workers : k \in todo[w] => Cursor(copy[w][k]) = Cursor(rows[k])
  /\ \A w \in Workers : k \in fired[w] => Cursor(rows[k]) <= Cursor(copy[w][k])

SentOnce == /\ Alone /\ SentOnceUnlessDisturbed
            /\ \A k \in Entry \ disturbed : Accounted(k)

LEMMA CursorType == \A r \in Row \cup {None} : Cursor(r) \in Int
<1>1. Never \in Int /\ Fires \subseteq Int
  BY WorkerAssumption DEF Never, Fires
<1> QED BY <1>1 DEF Cursor, Row

\* A key whose row, copies and fires a step leaves alone stays accounted for.
LEMMA StaysAccounted ==
  ASSUME NEW k \in Entry, Accounted(k),
         Cursor(rows'[k]) = Cursor(rows[k]),
         \A f \in Fires : <<k, f>> \in sent' => <<k, f>> \in sent,
         \A w \in Workers : k \in fired[w] => k \in fired'[w],
         \A w \in Workers : k \in fired'[w] => k \in fired[w] /\ copy'[w][k] = copy[w][k],
         \A w \in Workers : k \in todo'[w] =>
           \/ k \in todo[w] /\ copy'[w][k] = copy[w][k]
           \/ copy'[w][k] = rows[k]
  PROVE  Accounted(k)'
<1>1. ASSUME NEW f \in Fires, <<k, f>> \in sent'
      PROVE  \/ f <= Cursor(rows'[k])
             \/ \E w \in Workers : k \in fired'[w] /\ f <= Cursor(copy'[w][k])
  BY <1>1 DEF Accounted
<1>2. ASSUME NEW w \in Workers, k \in todo'[w]
      PROVE  Cursor(copy'[w][k]) = Cursor(rows'[k])
  BY <1>2 DEF Accounted
<1>3. ASSUME NEW w \in Workers, k \in fired'[w]
      PROVE  Cursor(rows'[k]) <= Cursor(copy'[w][k])
  BY <1>3 DEF Accounted
<1> QED BY <1>1, <1>2, <1>3 DEF Accounted

LEMMA AloneKept ==
  ASSUME Sound', Alone, running' \subseteq running, disturbed \subseteq disturbed'
  PROVE  Alone'
BY DEF Alone, Sound, TypeOK

\* While w runs, nobody else has a certain key in hand.
LEMMA OthersIdle ==
  ASSUME Sound, Alone, NEW k \in Entry \ disturbed, NEW w \in running,
         NEW v \in Workers, v # w
  PROVE  todo[v] = {} /\ fired[v] = {}
<1>1. v \notin running
  BY DEF Alone
<1> QED BY <1>1 DEF running, Sound, Shape

\* The steps of a job that neither send nor save a row.
LEMMA SentQuietSteps ==
  ASSUME Sound, SentOnce, NEW w \in Workers,
         \/ LoadRows(w) \/ LoadAlerts(w) \/ \E k \in Entry : Skip(w, k)
         \/ \E c \in Condition : SendAlert(w, c)
         \/ \E k \in Entry \cup Condition : Raise(w, k)
  PROVE  SentOnce'
<1>0. Sound'
  BY SoundStep DEF Next, Step, Fault
<1>1. /\ \A v \in Workers : v # w => /\ pc'[v] = pc[v] /\ copy'[v] = copy[v]
                                     /\ todo'[v] = todo[v] /\ fired'[v] = fired[v]
      /\ pc[w] \in {"load", "deliver"}
  BY LoadRowsMoves, LoadAlertsMoves, SkipMoves, SendAlertMoves, RaiseMoves
     DEF Moved, LoadRows, LoadAlerts, Skip, SendAlert, Raise
<1>2. UNCHANGED <<rows, sent, twice>> /\ disturbed \subseteq disturbed'
  BY DEF LoadRows, LoadAlerts, Skip, SendAlert, Raise, record
<1>3. running' \subseteq running
  BY <1>1 DEF running
<1>4. ASSUME NEW k \in Entry, k \notin disturbed'
      PROVE  /\ k \in fired[w] <=> k \in fired'[w]
             /\ k \in fired'[w] => copy'[w][k] = copy[w][k]
             /\ k \in todo'[w] => \/ k \in todo[w] /\ copy'[w][k] = copy[w][k]
                                  \/ copy'[w][k] = rows[k]
  <2>1. CASE LoadRows(w)
    <3>1. Moved(w, Listed(w), Present(w), {}) /\ fired[w] = {}
      BY <2>1, LoadRowsMoves DEF LoadRows, Sound, Shape
    <3>2. k \in todo'[w] => copy'[w][k] = rows[k]
      BY <3>1 DEF Moved, Listed, Present
    <3> QED BY <3>1, <3>2 DEF Moved
  <2>2. CASE LoadAlerts(w)
    <3>1. Moved(w, Unloaded, breach, {}) /\ fired[w] = {} /\ k \notin breach
      BY <2>2, LoadAlertsMoves, WorkerAssumption DEF LoadAlerts, Sound, Shape, TypeOK, Entry
    <3> QED BY <3>1 DEF Moved
  <2>3. ASSUME NEW j \in Entry, Skip(w, j)
        PROVE  /\ k \in fired[w] <=> k \in fired'[w]
               /\ k \in fired'[w] => copy'[w][k] = copy[w][k]
               /\ k \in todo'[w] => k \in todo[w] /\ copy'[w][k] = copy[w][k]
    BY <2>3, SkipMoves DEF Moved
  <2>4. ASSUME NEW c \in Condition, SendAlert(w, c)
        PROVE  k \notin fired[w] /\ k \notin fired'[w] /\ k \notin todo'[w]
    <3>1. c \in todo[w] /\ c \notin Entry /\ k \notin Condition
      BY <2>4, WorkerAssumption DEF SendAlert, Entry
    <3>2. fired[w] = {} /\ k \notin todo[w]
      BY <3>1 DEF Sound, Shape
    <3> QED BY <2>4, <3>2, SendAlertMoves DEF Moved
  <2>5. ASSUME NEW j \in Entry \cup Condition, Raise(w, j)
        PROVE  k \notin fired[w] /\ k \notin fired'[w] /\ k \notin todo'[w]
    BY <1>4, <2>5, RaiseMoves DEF Moved, Raise
  <2> QED BY <2>1, <2>2, <2>3, <2>4, <2>5
<1>5. ASSUME NEW k \in Entry, k \notin disturbed' PROVE Accounted(k)'
  <2>1. Accounted(k)
    BY <1>2, <1>5 DEF SentOnce
  <2>2. \A v \in Workers : k \in fired[v] => k \in fired'[v]
    BY <1>1, <1>4, <1>5
  <2>3. \A v \in Workers : k \in fired'[v] => k \in fired[v] /\ copy'[v][k] = copy[v][k]
    BY <1>1, <1>4, <1>5
  <2>4. \A v \in Workers : k \in todo'[v] =>
          \/ k \in todo[v] /\ copy'[v][k] = copy[v][k]
          \/ copy'[v][k] = rows[k]
    BY <1>1, <1>4, <1>5
  <2> QED BY <1>2, <2>1, <2>2, <2>3, <2>4, StaysAccounted
<1> QED BY <1>0, <1>2, <1>3, <1>5, AloneKept DEF SentOnce, SentOnceUnlessDisturbed

LEMMA SentSend ==
  ASSUME Sound, SentOnce, NEW w \in Workers, NEW k \in Entry, Send(w, k)
  PROVE  SentOnce'
<1> DEFINE r == copy[w][k]
           f0 == MostRecentFire(r.phase, at[w])
           c == [copy[w] EXCEPT ![k] = Advanced(@, at[w])]
<1>0. Sound'
  BY SoundStep DEF Next, Step
<1>1. Moved(w, c, todo[w] \ {k}, fired[w] \cup {k}) /\ r \in Row
  BY SendMoves
<1>2. c[k] = Advanced(r, at[w]) /\ \A j \in Entry : j # k => c[j] = copy[w][j]
  BY DEF Sound, TypeOK
<1>3. /\ at[w] \in Time /\ r # None /\ r.phase \in Phase
      /\ f0 \in Fires /\ Fires \subseteq Int /\ Cursor(c[k]) = f0
  <2>1. at[w] \in Time /\ r # None /\ r.phase \in Phase
    BY <1>1, Absent DEF Sound, TypeOK, Row
  <2> QED BY <1>1, <1>2, <2>1, AdvancedRow, FireTime, WorkerAssumption DEF Fires
<1>4. /\ Cursor(r) < f0 /\ k \in todo[w] /\ pc[w] = "deliver"
      /\ sent' = sent \cup {<<k, f0>>}
      /\ twice' = IF <<k, f0>> \in sent THEN twice \cup {k} ELSE twice
      /\ UNCHANGED <<rows, disturbed>>
  BY <1>3 DEF Send, Sendable, IsDue, Cursor
<1>5. /\ copy'[w] = c /\ todo'[w] = todo[w] \ {k} /\ fired'[w] = fired[w] \cup {k}
      /\ \A v \in Workers : v # w => /\ pc'[v] = pc[v] /\ copy'[v] = copy[v]
                                     /\ todo'[v] = todo[v] /\ fired'[v] = fired[v]
  BY <1>1 DEF Moved
<1>6. w \in running /\ running' \subseteq running
  BY <1>4, <1>5 DEF running
<1>7. k \in fired'[w] /\ Cursor(copy'[w][k]) = f0 /\ f0 \in Int
  BY <1>3, <1>5
<1>8. ASSUME k \notin disturbed
      PROVE  /\ \A f \in Fires : <<k, f>> \in sent => f <= Cursor(rows[k])
             /\ Cursor(rows[k]) = Cursor(r) /\ Cursor(r) \in Int
             /\ \A v \in Workers : v # w => k \notin todo[v] \cup fired[v]
  <2>1. Accounted(k) /\ k \notin fired[w]
    BY <1>4, <1>8 DEF SentOnce, Sound, Shape
  <2>2. \A v \in Workers : v # w => k \notin todo[v] \cup fired[v]
    BY <1>6, <1>8, OthersIdle DEF SentOnce
  <2> QED BY <1>1, <1>4, <2>1, <2>2, CursorType DEF Accounted
<1> HIDE DEF c, f0, r
<1>9. ASSUME NEW j \in Entry, j \notin disturbed, j # k PROVE Accounted(j)'
  <2>1. Accounted(j)
    BY <1>9 DEF SentOnce
  <2>2. \A v \in Workers : /\ j \in fired'[v] <=> j \in fired[v]
                           /\ j \in todo'[v] => j \in todo[v]
                           /\ copy'[v][j] = copy[v][j]
    BY <1>2, <1>5, <1>9
  <2>3. \A f \in Fires : <<j, f>> \in sent' => <<j, f>> \in sent
    BY <1>4, <1>9
  <2> QED BY <1>4, <2>1, <2>2, <2>3, StaysAccounted
<1>10. ASSUME k \notin disturbed PROVE Accounted(k)'
  <2>1. ASSUME NEW f \in Fires, <<k, f>> \in sent'
        PROVE  \/ f <= Cursor(rows'[k])
               \/ \E v \in Workers : k \in fired'[v] /\ f <= Cursor(copy'[v][k])
    <3>1. CASE f = f0
      <4>1. f0 <= Cursor(copy'[w][k])
        BY <1>7
      <4> QED BY <1>7, <3>1, <4>1
    <3>2. CASE f # f0
      BY <1>4, <1>8, <1>10, <2>1, <3>2
    <3> QED BY <3>1, <3>2
  <2>2. \A v \in Workers : k \notin todo'[v]
    BY <1>5, <1>8, <1>10
  <2>3. ASSUME NEW v \in Workers, k \in fired'[v]
        PROVE  Cursor(rows'[k]) <= Cursor(copy'[v][k])
    <3>1. v = w
      BY <1>5, <1>8, <1>10, <2>3
    <3>2. Cursor(rows'[k]) \in Int /\ Cursor(rows'[k]) < f0
      BY <1>4, <1>8, <1>10
    <3> QED BY <1>7, <3>1, <3>2
  <2> QED BY <2>1, <2>2, <2>3 DEF Accounted
<1>11. twice' \subseteq disturbed'
  BY <1>3, <1>4, <1>8 DEF SentOnce, SentOnceUnlessDisturbed
<1> QED BY <1>0, <1>4, <1>6, <1>9, <1>10, <1>11, AloneKept
        DEF SentOnce, SentOnceUnlessDisturbed

LEMMA SentSave ==
  ASSUME Sound, SentOnce, NEW w \in Workers, NEW k \in Entry, SaveRow(w, k)
  PROVE  SentOnce'
<1>0. Sound'
  BY SoundStep DEF Next, Step
<1>1. Moved(w, copy[w], {}, fired[w] \ {k})
  BY SaveRowMoves
<1>2. /\ k \in fired[w] /\ pc[w] = "save"
      /\ rows'[k] = copy[w][k] /\ \A j \in Entry : j # k => rows'[j] = rows[j]
      /\ UNCHANGED <<sent, twice, disturbed>>
  BY DEF SaveRow, Sound, TypeOK, record
<1>3. w \in running /\ running' \subseteq running
  BY <1>1, <1>2 DEF running, Moved
<1>4. ASSUME NEW j \in Entry, j \notin disturbed, j # k PROVE Accounted(j)'
  <2>1. Accounted(j)
    BY <1>4 DEF SentOnce
  <2>2. \A v \in Workers : /\ j \in fired'[v] <=> j \in fired[v]
                           /\ j \in fired'[v] => copy'[v][j] = copy[v][j]
                           /\ j \in todo'[v] => j \in todo[v] /\ copy'[v][j] = copy[v][j]
    BY <1>1, <1>4 DEF Moved
  <2> QED BY <1>2, <1>4, <2>1, <2>2, StaysAccounted
<1>5. ASSUME k \notin disturbed PROVE Accounted(k)'
  <2>1. Accounted(k)
    BY <1>5 DEF SentOnce
  <2>2. \A v \in Workers : v # w => k \notin todo[v] \cup fired[v]
    BY <1>3, <1>5, OthersIdle DEF SentOnce
  <2>3. \A v \in Workers : k \notin todo'[v] \cup fired'[v]
    BY <1>1, <2>2 DEF Moved
  <2>4. Cursor(rows[k]) \in Int /\ Cursor(copy[w][k]) \in Int /\ Fires \subseteq Int
    BY CursorType, WorkerAssumption DEF Sound, TypeOK, Fires
  <2>5. \A f \in Fires : <<k, f>> \in sent => f <= Cursor(copy[w][k])
    <3>1. Cursor(rows[k]) <= Cursor(copy[w][k])
      BY <1>2, <2>1 DEF Accounted
    <3>2. ASSUME NEW f \in Fires, <<k, f>> \in sent, ~(f <= Cursor(copy[w][k]))
          PROVE  f <= Cursor(rows[k])
      BY <2>1, <2>2, <3>2 DEF Accounted
    <3>3. ASSUME NEW f \in Fires, <<k, f>> \in sent PROVE f <= Cursor(copy[w][k])
      <4>1. f \in Int
        BY <2>4
      <4> QED BY <2>4, <3>1, <3>2, <3>3, <4>1
    <3> QED BY <3>3
  <2> QED BY <1>2, <2>3, <2>5 DEF Accounted
<1> QED BY <1>0, <1>2, <1>3, <1>4, <1>5, AloneKept DEF SentOnce, SentOnceUnlessDisturbed

\* A step that sends nothing and saves nothing, and leaves the workers' hands
\* and every certain key's cursor alone.
LEMMA SentElsewhere ==
  ASSUME Sound', SentOnce, Alone', UNCHANGED <<sent, twice>>,
         disturbed \subseteq disturbed',
         \A k \in Entry \ disturbed' : Cursor(rows'[k]) = Cursor(rows[k]),
         \A w \in Workers, k \in Entry \ disturbed' :
           /\ k \in fired[w] <=> k \in fired'[w]
           /\ k \in todo'[w] => k \in todo[w]
           /\ k \in todo'[w] \cup fired'[w] => copy'[w][k] = copy[w][k]
  PROVE  SentOnce'
<1>1. ASSUME NEW k \in Entry, k \notin disturbed' PROVE Accounted(k)'
  <2>1. Accounted(k)
    BY <1>1 DEF SentOnce
  <2>2. \A w \in Workers : k \in fired[w] => k \in fired'[w]
    BY <1>1
  <2>3. \A w \in Workers : k \in fired'[w] => k \in fired[w] /\ copy'[w][k] = copy[w][k]
    BY <1>1
  <2>4. \A w \in Workers : k \in todo'[w] => k \in todo[w] /\ copy'[w][k] = copy[w][k]
    BY <1>1
  <2> QED BY <1>1, <2>1, <2>2, <2>3, <2>4, StaysAccounted
<1> QED BY <1>1 DEF SentOnce, SentOnceUnlessDisturbed

LEMMA SentStep ==
  ASSUME Sound, SentOnce, [Next]_vars
  PROVE  SentOnce'
<1>0. Sound'
  BY SoundStep
<1>1. ASSUME NEW w \in Workers, JobSteps(w) PROVE SentOnce'
  BY <1>1, SentQuietSteps, SentSend, SentSave DEF JobSteps
<1>2. ASSUME NEW w \in Workers, LeaseStep(w) PROVE SentOnce'
  <2>1. /\ UNCHANGED <<rows, copy, todo, fired, sent, twice>>
        /\ disturbed \subseteq disturbed'
        /\ \A v \in Workers : v # w => pc'[v] = pc[v]
    BY <1>2, <1>0, LeaseSteps DEF LeaseStep, Sound, TypeOK
  <2>2. CASE running' \subseteq running
    <3>1. Alone'
      BY <1>0, <2>1, <2>2, AloneKept DEF SentOnce
    <3> QED BY <1>0, <2>1, <3>1, SentElsewhere
  <2>3. CASE ~(running' \subseteq running)
    <3>1. ReadBack(w) /\ Holds(w)
      <4>1. pc'[w] \in {"load", "deliver", "save", "renew"} /\ pc[w] # "renew"
        BY <2>1, <2>3 DEF running
      <4> QED BY <1>2, <4>1 DEF LeaseStep, Wake, Acquire, ReadBack, Renew, Sound, TypeOK
    <3>2. CASE running = {}
      <4>1. \A v \in running' : v = w
        BY <2>1, <3>2 DEF running
      <4>2. Alone'
        BY <4>1 DEF Alone
      <4> QED BY <1>0, <2>1, <4>2, SentElsewhere
    <3>3. CASE running # {}
      <4>1. disturbed' = Entry
        BY <3>1, <3>3 DEF ReadBack
      <4> QED BY <1>0, <2>1, <4>1 DEF SentOnce, Alone, SentOnceUnlessDisturbed, Sound, TypeOK
    <3> QED BY <3>2, <3>3
  <2> QED BY <2>2, <2>3
<1>3. ASSUME NEW w \in Workers, Crash(w) PROVE SentOnce'
  <2>1. /\ \A v \in Workers : v # w => /\ pc'[v] = pc[v] /\ copy'[v] = copy[v]
                                       /\ todo'[v] = todo[v] /\ fired'[v] = fired[v]
        /\ pc'[w] = "idle" /\ copy'[w] = Unloaded /\ todo'[w] = {} /\ fired'[w] = {}
    BY <1>3, CrashMoves
  <2>2. disturbed' = disturbed \cup fired[w] /\ UNCHANGED <<sent, twice>>
    BY <1>3 DEF Crash
  <2>3. \A k \in Entry : Cursor(rows'[k]) = Cursor(rows[k])
    <3>1. \A k \in Briefing : Cursor(Fresh(Phase0[k])) = Never
      BY FreshRow, WorkerAssumption DEF Phase
    <3> QED BY <1>3, <3>1 DEF Crash, Reloaded, Cursor
  <2>4. running' \subseteq running
    BY <2>1 DEF running
  <2>5. Alone'
    BY <1>0, <2>2, <2>4, AloneKept DEF SentOnce
  <2>6. \A v \in Workers, k \in Entry \ disturbed' :
           /\ k \in fired[v] <=> k \in fired'[v]
           /\ k \in todo'[v] => k \in todo[v]
           /\ k \in todo'[v] \cup fired'[v] => copy'[v][k] = copy[v][k]
    BY <2>1, <2>2
  <2> QED BY <1>0, <2>2, <2>3, <2>5, <2>6, SentElsewhere
<1>4. ASSUME UNCHANGED <<worker, sent, twice>>, disturbed \subseteq disturbed',
             \A k \in Entry \ disturbed' : Cursor(rows'[k]) = Cursor(rows[k])
      PROVE  SentOnce'
  <2>1. UNCHANGED <<pc, copy, todo, fired>>
    BY <1>4 DEF worker
  <2>2. Alone'
    BY <1>0, <1>4, <2>1, AloneKept DEF running, SentOnce
  <2> QED BY <1>0, <1>4, <2>1, <2>2, SentElsewhere
<1>5. ASSUME NEW k \in Entry, Remove(k) \/ ScheduleReport(k) PROVE SentOnce'
  <2>1. disturbed' = disturbed \cup {k} /\ UNCHANGED <<worker, sent, twice>>
    BY <1>5 DEF Remove, ScheduleReport
  <2>2. \A j \in Entry : j # k => rows'[j] = rows[j]
    BY <1>5 DEF Remove, ScheduleReport, Write, Sound, TypeOK
  <2> QED BY <1>4, <2>1, <2>2
<1>6. ASSUME OwnerWrite PROVE SentOnce'
  <2>1. edit.key \in Entry /\ edit.row \in Row \cup {None}
    BY <1>6 DEF OwnerWrite, Sound, TypeOK, Edit
  <2>2. PICK r \in Edited(edit.row) : Write(edit.key, r)
    BY <1>6 DEF OwnerWrite
  <2>3. r \in Row /\ Cursor(r) = Cursor(edit.row)
    BY <2>1, EditedRow
  <2>4. rows'[edit.key] = r /\ \A j \in Entry : j # edit.key => rows'[j] = rows[j]
    BY <2>1, <2>2, <2>3, Written
  <2>5. disturbed' = IF Cursor(rows[edit.key]) = Cursor(edit.row) THEN disturbed
                     ELSE disturbed \cup {edit.key}
    BY <1>6 DEF OwnerWrite
  <2>6. \A k \in Entry \ disturbed' : Cursor(rows'[k]) = Cursor(rows[k])
    BY <2>3, <2>4, <2>5
  <2> QED BY <1>4, <1>6, <2>5, <2>6 DEF OwnerWrite
<1>7. ASSUME WorldStep \/ \E k \in Entry : OwnerRead(k) PROVE SentOnce'
  <2>1. UNCHANGED <<rows, disturbed, worker, sent, twice>>
    BY <1>7 DEF WorldStep, OwnerRead, Tick, Appear, Clear, vars, owner, record
  <2> QED BY <1>4, <2>1
<1> QED BY <1>1, <1>2, <1>3, <1>5, <1>6, <1>7, Cases DEF OwnerStep

-----------------------------------------------------------------------------
(* What is said of a condition                                             *)

\* The workers that will not announce c again: they remember that they did, or
\* c has cleared and they have loaded what holds since.
Spent(c) == {w \in Workers : c \in marked[w] \/ (c \notin breach /\ c \notin todo[w])}

SaidEnough == \A c \in Condition : said[c] <= Cardinality(Spent(c)) + faults

\* Why a worker is, or will be, quiet about c.
Quiet(w, c) == /\ c \in marked[w] \cap breach => said[c] > 0 \/ <<w, c>> \in silenced
               /\ c \notin breach /\ c \in marked[w] \cup todo[w] =>
                    <<w, c>> \in silenced

Announced == SaidEnough /\ \A w \in Workers, c \in Condition : Quiet(w, c)

LEMMA SpentFinite ==
  ASSUME NEW c \in Condition
  PROVE  /\ IsFiniteSet(Spent(c)) /\ Cardinality(Spent(c)) \in Nat
         /\ Cardinality(Spent(c)) <= Cardinality(Workers)
BY FiniteWorkers, FS_Subset, FS_CardinalityType DEF Spent

\* The spent only grow, but for the one whose process dies.
LEMMA SpentGrows ==
  ASSUME TypeOK, TypeOK', SaidEnough, NEW c \in Condition, NEW S,
         IsFiniteSet(S), Spent(c) \subseteq S
  PROVE  said[c] <= Cardinality(S) + faults /\ Cardinality(S) \in Nat
<1>1. /\ Cardinality(Spent(c)) \in Nat /\ Cardinality(S) \in Nat
      /\ Cardinality(Spent(c)) <= Cardinality(S)
  BY FS_Subset, FS_CardinalityType
<1>2. said[c] \in Nat /\ faults \in Nat /\ said[c] <= Cardinality(Spent(c)) + faults
  BY WorkerAssumption DEF TypeOK, SaidEnough
<1> QED BY <1>1, <1>2

\* A condition a step does not concern.
LEMMA StaysAnnounced ==
  ASSUME Sound, Sound', Announced, NEW c \in Condition,
         said'[c] = said[c], faults <= faults',
         \A w \in Workers : w \in Spent(c) => w \in Spent(c)',
         c \in breach' <=> c \in breach,
         \A w \in Workers : \/ <<w, c>> \in silenced'
                            \/ /\ <<w, c>> \notin silenced
                               /\ c \in marked'[w] => c \in marked[w]
                               /\ c \in todo'[w] => c \in todo[w] \/ c \in breach
                            \/ c \notin marked'[w] \cup todo'[w]
  PROVE  said'[c] <= Cardinality(Spent(c)') + faults' /\ \A w \in Workers : Quiet(w, c)'
<1>1. IsFiniteSet(Spent(c)') /\ Spent(c) \subseteq Spent(c)'
  BY FiniteWorkers, FS_Subset DEF Spent
<1>2. said[c] <= Cardinality(Spent(c)') + faults /\ Cardinality(Spent(c)') \in Nat
  BY <1>1, SpentGrows DEF Sound, Announced
<1>3. said'[c] <= Cardinality(Spent(c)') + faults'
  BY <1>2, WorkerAssumption DEF Sound, TypeOK
<1>4. \A w \in Workers : Quiet(w, c)'
  BY DEF Announced, Quiet
<1> QED BY <1>3, <1>4

\* An alert is sent and marked at once: one more said, one more spent.
LEMMA AlertSent ==
  ASSUME Sound, Sound', Announced, NEW w \in Workers, NEW c \in Condition, SendAlert(w, c)
  PROVE  Announced'
<1>1. /\ \A v \in Workers : v # w => todo'[v] = todo[v]
      /\ todo'[w] = todo[w] \ {c}
  BY SendAlertMoves DEF Moved
<1>2. /\ \A v \in Workers : v # w => marked'[v] = marked[v]
      /\ marked'[w] = marked[w] \cup {c}
      /\ c \in todo[w] /\ breach' = breach /\ faults' = faults /\ silenced' = silenced
      /\ \A e \in Condition : e # c => said'[e] = said[e]
      /\ said'[c] = IF c \in marked[w] THEN said[c] ELSE said[c] + 1
  BY DEF SendAlert, Marking, Sound, TypeOK, world
<1>3. ASSUME NEW e \in Condition, e # c
      PROVE  said'[e] <= Cardinality(Spent(e)') + faults' /\ \A v \in Workers : Quiet(v, e)'
  <2>1. \A v \in Workers : v \in Spent(e) => v \in Spent(e)'
    BY <1>1, <1>2, <1>3 DEF Spent
  <2>2. \A v \in Workers : \/ <<v, e>> \in silenced'
                           \/ /\ <<v, e>> \notin silenced
                              /\ e \in marked'[v] => e \in marked[v]
                              /\ e \in todo'[v] => e \in todo[v] \/ e \in breach
                           \/ e \notin marked'[v] \cup todo'[v]
    BY <1>1, <1>2, <1>3
  <2>3. faults <= faults'
    BY <1>2, WorkerAssumption DEF Sound, TypeOK
  <2> QED BY <1>2, <1>3, <2>1, <2>2, <2>3, StaysAnnounced
<1>4. said'[c] <= Cardinality(Spent(c)') + faults'
  <2>1. Spent(c)' = Spent(c) \cup {w}
    BY <1>1, <1>2 DEF Spent
  <2>2. IsFiniteSet(Spent(c)) /\ IsFiniteSet(Spent(c)')
    BY <2>1, SpentFinite, FS_AddElement
  <2>3. CASE c \in marked[w]
    <3>1. said[c] <= Cardinality(Spent(c)') + faults
      BY <2>1, <2>2, SpentGrows DEF Sound, Announced
    <3> QED BY <1>2, <2>3, <3>1
  <2>4. CASE c \notin marked[w]
    <3>1. w \notin Spent(c)
      BY <1>2, <2>4 DEF Spent
    <3>2. Cardinality(Spent(c)') = Cardinality(Spent(c)) + 1
      BY <2>1, <2>2, <3>1, FS_AddElement
    <3>3. said[c] \in Nat /\ faults \in Nat /\ said[c] <= Cardinality(Spent(c)) + faults
          /\ Cardinality(Spent(c)) \in Nat
      BY SpentFinite, WorkerAssumption DEF Sound, TypeOK, Announced, SaidEnough
    <3> QED BY <1>2, <2>4, <3>2, <3>3
  <2> QED BY <2>3, <2>4
<1>5. ASSUME NEW v \in Workers PROVE Quiet(v, c)'
  <2>1. said[c] \in Nat /\ said'[c] >= said[c] /\ (c \notin marked[w] => said'[c] > 0)
    BY <1>2 DEF Sound, TypeOK
  <2>2. Quiet(v, c)
    BY DEF Announced
  <2>3. c \in marked'[v] \cap breach' => said'[c] > 0 \/ <<v, c>> \in silenced'
    BY <1>2, <2>1, <2>2 DEF Quiet
  <2>4. c \notin breach' /\ c \in marked'[v] \cup todo'[v] => <<v, c>> \in silenced'
    BY <1>1, <1>2, <2>2 DEF Quiet
  <2> QED BY <2>3, <2>4 DEF Quiet
<1> QED BY <1>3, <1>4, <1>5 DEF Announced, SaidEnough

\* A process that dies forgets what it announced; its crash pays for that.
LEMMA AlertCrash ==
  ASSUME Sound, Sound', Announced, NEW w \in Workers, Crash(w)
  PROVE  Announced'
<1>1. /\ \A v \in Workers : v # w => todo'[v] = todo[v] /\ marked'[v] = marked[v]
      /\ todo'[w] = {} /\ marked'[w] = {}
      /\ breach' = breach /\ said' = said /\ faults' = faults + 1
      /\ silenced' = silenced \ ({w} \X Condition)
  BY CrashMoves DEF Crash, Sound, TypeOK, world
<1>2. ASSUME NEW c \in Condition PROVE said'[c] <= Cardinality(Spent(c)') + faults'
  <2>1. IsFiniteSet(Spent(c)') /\ Spent(c) \subseteq Spent(c)' \cup {w}
    BY <1>1, FiniteWorkers, FS_Subset DEF Spent
  <2>2. IsFiniteSet(Spent(c)' \cup {w})
        /\ Cardinality(Spent(c)' \cup {w}) <= Cardinality(Spent(c)') + 1
        /\ Cardinality(Spent(c)') \in Nat
    <3> DEFINE T == Spent(c)'
    <3> HIDE DEF T
    <3>1. IsFiniteSet(T)
      BY <2>1 DEF T
    <3>2. Cardinality(T) \in Nat
      BY <3>1, FS_CardinalityType
    <3>3. IsFiniteSet(T \cup {w}) /\ Cardinality(T \cup {w}) \in {Cardinality(T), Cardinality(T) + 1}
      BY <3>1, FS_AddElement
    <3> QED BY <3>2, <3>3 DEF T
  <2>3. said[c] <= Cardinality(Spent(c)' \cup {w}) + faults
        /\ Cardinality(Spent(c)' \cup {w}) \in Nat
    BY <2>1, <2>2, SpentGrows DEF Sound, Announced
  <2>4. said[c] \in Nat /\ faults \in Nat
    BY WorkerAssumption DEF Sound, TypeOK
  <2> QED BY <1>1, <2>2, <2>3, <2>4
<1>3. ASSUME NEW v \in Workers, NEW c \in Condition PROVE Quiet(v, c)'
  <2>1. CASE v = w
    BY <1>1, <2>1 DEF Quiet
  <2>2. CASE v # w
    <3>1. <<v, c>> \in silenced => <<v, c>> \in silenced'
      BY <1>1, <2>2
    <3> QED BY <1>1, <2>2, <3>1 DEF Announced, Quiet
  <2> QED BY <2>1, <2>2
<1> QED BY <1>2, <1>3 DEF Announced, SaidEnough

LEMMA AlertStep ==
  ASSUME Sound, Announced, [Next]_vars
  PROVE  Announced'
<1>0. Sound'
  BY SoundStep
<1>1. said \in [Condition -> Nat] /\ faults \in Nat
  BY WorkerAssumption DEF Sound, TypeOK
<1>2. ASSUME UNCHANGED <<breach, marked, said, silenced, faults>>,
             \A w \in Workers, c \in Condition : c \in todo'[w] <=> c \in todo[w]
      PROVE  Announced'
  <2>1. \A c \in Condition : Spent(c)' = Spent(c)
    BY <1>2 DEF Spent
  <2> QED BY <1>2, <2>1 DEF Announced, SaidEnough, Quiet
<1>3. ASSUME NEW w \in Workers, LoadRows(w) PROVE Announced'
  <2>1. Moved(w, Listed(w), Present(w), {}) /\ todo[w] = {}
    BY <1>3, LoadRowsMoves DEF LoadRows, Sound, Shape
  <2>2. \A c \in Condition : c \notin Present(w)
    BY WorkerAssumption DEF Present, RowsOf
  <2>3. \A v \in Workers, c \in Condition : c \in todo'[v] <=> c \in todo[v]
    BY <2>1, <2>2 DEF Moved
  <2> QED BY <1>2, <1>3, <2>3 DEF LoadRows, world, record
<1>4. ASSUME NEW w \in Workers, NEW k \in Entry, Skip(w, k) \/ Send(w, k) \/ SaveRow(w, k)
      PROVE  Announced'
  <2>1. \A v \in Workers : v # w => todo'[v] = todo[v]
    BY <1>4, SkipMoves, SendMoves, SaveRowMoves DEF Moved
  <2>2. todo'[w] = todo[w] \ {k} \/ (todo'[w] = {} /\ todo[w] = {})
    <3>1. Skip(w, k) => todo'[w] = todo[w] \ {k}
      BY SkipMoves DEF Moved
    <3>2. Send(w, k) => todo'[w] = todo[w] \ {k}
      BY SendMoves DEF Moved
    <3>3. SaveRow(w, k) => todo'[w] = {} /\ todo[w] = {}
      BY SaveRowMoves DEF Moved
    <3> QED BY <1>4, <3>1, <3>2, <3>3
  <2>3. k \notin Condition
    BY WorkerAssumption DEF Entry
  <2>4. \A v \in Workers, c \in Condition : c \in todo'[v] <=> c \in todo[v]
    BY <2>1, <2>2, <2>3
  <2> QED BY <1>2, <1>4, <2>4 DEF Skip, Send, SaveRow, world, record
<1>5. ASSUME NEW w \in Workers, LoadAlerts(w) PROVE Announced'
  <2>1. Moved(w, Unloaded, breach, {})
    BY <1>5, LoadAlertsMoves
  <2>2. /\ \A v \in Workers : v # w => todo'[v] = todo[v] /\ marked'[v] = marked[v]
        /\ todo'[w] = breach /\ marked'[w] = marked[w] \cap breach
        /\ breach' = breach /\ said' = said /\ faults' = faults
        /\ silenced' = silenced \ ({w} \X (Condition \ breach))
    BY <1>5, <2>1 DEF LoadAlerts, Rearmed, Moved, Sound, TypeOK, world
  <2>3. ASSUME NEW c \in Condition
        PROVE  said'[c] <= Cardinality(Spent(c)') + faults' /\ \A v \in Workers : Quiet(v, c)'
    <3>1. \A v \in Workers : v \in Spent(c) => v \in Spent(c)'
      BY <2>2 DEF Spent
    <3>2. \A v \in Workers : \/ <<v, c>> \in silenced'
                             \/ /\ <<v, c>> \notin silenced
                                /\ c \in marked'[v] => c \in marked[v]
                                /\ c \in todo'[v] => c \in todo[v] \/ c \in breach
                             \/ c \notin marked'[v] \cup todo'[v]
      BY <2>2
    <3> QED BY <1>0, <1>1, <2>2, <3>1, <3>2, StaysAnnounced
  <2> QED BY <2>3 DEF Announced, SaidEnough
<1>6. ASSUME NEW w \in Workers, NEW k \in Entry \cup Condition, Raise(w, k) PROVE Announced'
  <2>1. Moved(w, Unloaded, {}, {})
    BY <1>6, RaiseMoves
  <2>2. /\ \A v \in Workers : v # w => todo'[v] = todo[v] /\ marked'[v] = marked[v]
        /\ todo'[w] = {} /\ marked[w] \subseteq marked'[w]
        /\ \A c \in Condition : c # k => (c \in marked'[w] => c \in marked[w])
        /\ breach' = breach /\ said' = said /\ faults' = faults + 1
        /\ silenced' = silenced \cup ({w} \X ({k} \cap Condition))
    BY <1>6, <2>1 DEF Raise, Marking, Moved, Sound, TypeOK, world
  <2>3. ASSUME NEW c \in Condition
        PROVE  said'[c] <= Cardinality(Spent(c)') + faults' /\ \A v \in Workers : Quiet(v, c)'
    <3>1. \A v \in Workers : v \in Spent(c) => v \in Spent(c)'
      BY <2>2 DEF Spent
    <3>2. \A v \in Workers : \/ <<v, c>> \in silenced'
                             \/ /\ <<v, c>> \notin silenced
                                /\ c \in marked'[v] => c \in marked[v]
                                /\ c \in todo'[v] => c \in todo[v] \/ c \in breach
                             \/ c \notin marked'[v] \cup todo'[v]
      BY <2>2
    <3>3. faults <= faults'
      BY <1>1, <2>2
    <3> QED BY <1>0, <2>2, <3>1, <3>2, <3>3, StaysAnnounced
  <2> QED BY <2>3 DEF Announced, SaidEnough
<1>7. ASSUME NEW w \in Workers, LeaseStep(w) PROVE Announced'
  BY <1>2, <1>7, LeaseSteps DEF LeaseStep, world
<1>8. ASSUME OwnerStep \/ Tick \/ UNCHANGED vars PROVE Announced'
  BY <1>2, <1>8 DEF OwnerStep, OwnerRead, Remove, ScheduleReport, OwnerWrite, Tick, vars,
     world, worker, record
<1>9. ASSUME NEW c \in Condition, Appear(c) PROVE Announced'
  <2>1. /\ c \notin breach /\ breach' = breach \cup {c} /\ said'[c] = 0
        /\ \A e \in Condition : e # c => said'[e] = said[e]
        /\ UNCHANGED <<todo, marked, silenced, faults>>
    BY <1>1, <1>9 DEF Appear, worker
  <2>2. \A e \in Condition : e # c => Spent(e)' = Spent(e)
    BY <2>1 DEF Spent
  <2>3. said'[c] <= Cardinality(Spent(c)') + faults'
    <3>1. Cardinality(Spent(c)') \in Nat
      BY FiniteWorkers, FS_Subset, FS_CardinalityType DEF Spent
    <3> QED BY <1>1, <2>1, <3>1
  <2>4. \A w \in Workers, e \in Condition : Quiet(w, e)'
    BY <2>1 DEF Announced, Quiet
  <2> QED BY <2>1, <2>2, <2>3, <2>4 DEF Announced, SaidEnough
<1>10. ASSUME NEW c \in Condition, Clear(c) PROVE Announced'
  <2>1. /\ breach' = breach \ {c} /\ UNCHANGED <<said, todo, marked, faults>>
        /\ silenced' = silenced \cup {<<w, c>> : w \in {v \in Workers : c \in marked[v] \cup todo[v]}}
    BY <1>10 DEF Clear, worker
  <2>2. ASSUME NEW e \in Condition PROVE said'[e] <= Cardinality(Spent(e)') + faults'
    <3>1. IsFiniteSet(Spent(e)') /\ Spent(e) \subseteq Spent(e)'
      BY <2>1, FiniteWorkers, FS_Subset DEF Spent
    <3>2. said[e] <= Cardinality(Spent(e)') + faults
      BY <1>0, <3>1, SpentGrows DEF Sound, Announced
    <3> QED BY <2>1, <3>2
  <2>3. \A w \in Workers, e \in Condition : Quiet(w, e)'
    BY <2>1 DEF Announced, Quiet
  <2> QED BY <2>2, <2>3 DEF Announced, SaidEnough
<1>11. ASSUME NEW w \in Workers, Crash(w) PROVE Announced'
  BY <1>0, <1>11, AlertCrash
<1>12. ASSUME NEW w \in Workers, NEW c \in Condition, SendAlert(w, c) PROVE Announced'
  BY <1>0, <1>12, AlertSent
<1> QED BY <1>3, <1>4, <1>5, <1>6, <1>7, <1>8, <1>9, <1>10, <1>11, <1>12, Cases
        DEF JobSteps, WorldStep

-----------------------------------------------------------------------------
(* The properties                                                          *)

IInv == Sound /\ EveryPassed /\ EditsHeld /\ SentOnce /\ Announced

LEMMA Initially == Init => IInv
<1> SUFFICES ASSUME Init PROVE IInv
  OBVIOUS
<1> USE WorkerAssumption
<1>1. /\ rows \in [Entry -> Row]
      /\ \A k \in Entry : Cursor(rows[k]) = Never /\ Settings(rows[k]) = want[k]
      /\ want \in [Entry -> [phase : Phase, active : BOOLEAN] \cup {None}]
  <2>1. \A k \in Entry : Phase0[k] \in Phase
    BY DEF Entry, Phase
  <2>2. rows \in [Entry -> Row] /\ \A k \in Entry : rows[k] = Fresh(Phase0[k])
    BY <2>1, FreshRow DEF Init
  <2>3. \A k \in Entry : Settings(rows[k]) = want[k]
    BY <2>2 DEF Init
  <2>4. want \in [Entry -> [phase : Phase, active : BOOLEAN] \cup {None}]
    <3>1. \A k \in Entry : Settings(Fresh(Phase0[k])) \in [phase : Phase, active : BOOLEAN] \cup {None}
      BY <2>1, FreshRow, SettingsType
    <3> QED BY <3>1 DEF Init
  <2> QED BY <2>1, <2>2, <2>3, <2>4, FreshRow
<1>2. copy = [w \in Workers |-> Unloaded] /\ Unloaded \in [Entry -> Row \cup {None}]
      /\ \A w \in Workers, k \in Entry : copy[w][k] = None
  BY DEF Init, Unloaded
<1>3. /\ pc = [w \in Workers |-> "idle"] /\ running = {}
      /\ \A w \in Workers : todo[w] = {} /\ fired[w] = {} /\ marked[w] = {}
  BY DEF Init, running
<1>4. TypeOK
  <2>1. /\ pc \in [Workers -> Stage] /\ at \in [Workers -> Time] /\ job \in [Workers -> Job]
        /\ now \in Time
    BY DEF Init, Stage, Time, Job
  <2>2. /\ todo \in [Workers -> SUBSET (Entry \cup Condition)]
        /\ fired \in [Workers -> SUBSET Entry] /\ marked \in [Workers -> SUBSET Condition]
        /\ copy \in [Workers -> [Entry -> Row \cup {None}]]
    BY <1>2 DEF Init
  <2>3. said \in [Condition -> Nat] /\ faults \in 0..MaxFaults /\ edits \in 0..MaxEdits
    BY DEF Init
  <2> QED BY <1>1, <2>1, <2>2, <2>3 DEF Init, TypeOK
<1>5. Shape
  BY <1>2, <1>3 DEF Init, Shape
<1>6. EveryPassed
  BY <1>1, <1>2 DEF Init, EveryPassed, Passed, Cursor
<1>7. EditsHeld
  BY <1>1, <1>2 DEF EditsHeld
<1>8. SentOnce
  BY <1>3 DEF Init, SentOnce, Alone, SentOnceUnlessDisturbed, Accounted
<1>9. Announced
  <2>1. SaidEnough
    BY SpentFinite DEF Init, SaidEnough
  <2>2. \A w \in Workers, c \in Condition : Quiet(w, c)
    BY <1>3 DEF Quiet
  <2> QED BY <2>1, <2>2 DEF Announced
<1> QED BY <1>4, <1>5, <1>6, <1>7, <1>8, <1>9 DEF IInv, Sound

LEMMA Invariance == Spec => []IInv
<1>1. IInv /\ [Next]_vars => IInv'
  BY SoundStep, PassedStep, EditsStep, SentStep, AlertStep DEF IInv
<1> QED BY Initially, <1>1, PTL DEF Spec

\* The lease, the stores, the hands of every worker and the owner's edit have
\* their types, for any number of workers, keys and conditions.
THEOREM TypeCorrect == Spec => []TypeOK
<1>1. IInv => TypeOK
  BY DEF IInv, Sound
<1> QED BY Invariance, <1>1, PTL

\* run_due and run_due_reports send a fire once, over restarts, hand-offs of the
\* lease and the owner's edits, of every key whose cursor nobody put back.
THEOREM FiresGoOutOnce == Spec => []SentOnceUnlessDisturbed
<1>1. IInv => SentOnceUnlessDisturbed
  BY DEF IInv, SentOnce
<1> QED BY Invariance, <1>1, PTL

\* A stored last_sent names a fire that was delivered: no path advances it for a
\* tenant that was skipped or a transport that raised.
THEOREM CursorsAreTrue == Spec => []PassedMeansSent
<1>1. IInv => PassedMeansSent
  BY DEF IInv, EveryPassed, Passed, PassedMeansSent
<1> QED BY Invariance, <1>1, PTL

\* The whole-row saves of a tick undo no edit but one made while the tick had
\* the row loaded, or the removal a restart onboards again.
THEOREM EditsStand == Spec => []EditStandsUnlessRaced
<1>1. IInv => EditStandsUnlessRaced
  BY DEF IInv, EditsHeld, EditStandsUnlessRaced
<1> QED BY Invariance, <1>1, PTL

\* A condition that persists is announced once by each process at most, and once
\* more for a fault: the active set of a process is its own.
THEOREM AlertsAreFew == Spec => []AlertOncePerProcess
<1>1. ASSUME IInv, NEW c \in Condition
      PROVE  said[c] <= Cardinality(Workers) + faults
  <2>1. /\ said[c] \in Nat /\ faults \in Nat
        /\ said[c] <= Cardinality(Spent(c)) + faults
    BY <1>1, WorkerAssumption DEF IInv, Sound, TypeOK, Announced, SaidEnough
  <2>2. /\ Cardinality(Spent(c)) \in Nat /\ Cardinality(Workers) \in Nat
        /\ Cardinality(Spent(c)) <= Cardinality(Workers)
    BY SpentFinite, FiniteWorkers, FS_CardinalityType
  <2> QED BY <2>1, <2>2
<1>2. IInv => AlertOncePerProcess
  BY <1>1 DEF AlertOncePerProcess
<1> QED BY Invariance, <1>2, PTL

\* A process is quiet about a condition that holds because it was announced since
\* it appeared, but for a mark that outlived its condition or a failed send.
THEOREM QuietIsExplained == Spec => []QuietMeansAnnounced
<1>1. IInv => QuietMeansAnnounced
  <2> SUFFICES ASSUME IInv, NEW w \in Workers, NEW c \in marked[w] \cap breach
               PROVE  said[c] > 0 \/ <<w, c>> \in silenced
    BY DEF QuietMeansAnnounced
  <2>1. c \in Condition
    BY DEF IInv, Sound, TypeOK
  <2> QED BY <2>1 DEF IInv, Announced, Quiet
<1> QED BY Invariance, <1>1, PTL
=============================================================================
