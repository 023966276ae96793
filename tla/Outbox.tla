------------------------------- MODULE Outbox -------------------------------
(***************************************************************************)
(* The durable webhook outbox (web/webhook_outbox.py): the web process     *)
(* writes one row per endpoint that subscribes to an event, sweeps of      *)
(* deliver_due POST what is due and write each outcome back, and an        *)
(* operator replays a row.                                                 *)
(*                                                                         *)
(* A row's id is its endpoint and the event's id, which app.py makes of    *)
(* the tenant, the event type and the clock's second: a stamp.  A sweep    *)
(* works on the rows it read, so what it writes back may be out of date.   *)
(* Times are abstracted to whether a pending row is due: back-off is a     *)
(* wait that ends (Elapse).                                                *)
(***************************************************************************)
EXTENDS Naturals, FiniteSets

CONSTANTS Sweeper,    \* processes that run deliver_due
          Endpoint,   \* registered webhook endpoints
          Stamp,      \* seconds in which an event of one type is emitted
          Event,      \* the events: what is to be announced
          Max,        \* attempts before a delivery is a dead letter
          MaxReplays, \* bound on replays
          MaxFaults,  \* bound on crashes and on lost answers
          None

ASSUME OutboxAssumption ==
  /\ Max \in Nat \ {0} /\ MaxReplays \in Nat /\ MaxFaults \in Nat
  /\ None \notin Endpoint /\ None \notin Event /\ None \notin Stamp

VARIABLES rows,       \* the table: id -> row, or None
          registered, \* the endpoints still registered and active
          emit,       \* the web process's fan-out under way, or None
          emitted,    \* every <<event, endpoint, id>> that was to be queued
          batch,      \* the rows a sweep read and has not settled
          outcome,    \* the row a sweep is about to write, or None
          known,      \* endpoints a sweep has looked up
          held,       \* the row an operator's replay has read, or None
          tries,      \* attempts really made, up to Max
          received,   \* ids an endpoint has taken in
          again,      \* ids an endpoint has taken in more than once
          excused,    \* ids a fault, an overlap or a replay sent out again
          lost,       \* <<event, endpoint>> a crash or a full id kept out
          replays, faults

table  == <<rows, registered>>
web    == <<emit, emitted, lost>>
sweep  == <<batch, outcome, known>>
record == <<tries, received, again, excused>>
vars   == <<table, web, sweep, held, record, replays, faults>>

Id     == Endpoint \X Stamp
Status == {"pending", "delivered", "dead"}
Row    == [event : Event, status : Status, attempts : 0..(Max + MaxReplays),
           due : BOOLEAN]
Held   == [id : Id, row : Row]
Fan    == [event : Event, at : Stamp, left : SUBSET Endpoint]

ASSUME Absent == None \notin Row \cup Held \cup Fan

Init ==
  /\ rows = [d \in Id |-> None] /\ registered = Endpoint
  /\ emit = None /\ emitted = {} /\ lost = {}
  /\ batch = [s \in Sweeper |-> [d \in Id |-> None]]
  /\ outcome = [s \in Sweeper |-> None] /\ known = [s \in Sweeper |-> {}]
  /\ held = None
  /\ tries = [d \in Id |-> 0] /\ received = {} /\ again = {} /\ excused = {}
  /\ replays = 0 /\ faults = 0

-----------------------------------------------------------------------------
(* The web process                                                         *)

\* _emit_event: one event, the second it happens in, the endpoints that want it;
\* when there are none, nothing happens.
Emit(e, t) ==
  /\ emit = None /\ registered # {} /\ \A x \in emitted : x[1] # e
  /\ emit' = [event |-> e, at |-> t, left |-> registered]
  /\ emitted' = emitted \cup {<<e, p, <<p, t>>>> : p \in registered}
  /\ UNCHANGED <<table, lost, sweep, held, record, replays, faults>>

Fresh(e) == [event |-> e, status |-> "pending", attempts |-> 0, due |-> TRUE]

\* INSERT ... ON CONFLICT (id) DO NOTHING.
Overwritten(d, e) == Fresh(e)
Inserted(d, e) == IF rows[d] = None THEN Fresh(e) ELSE rows[d]

Queue(p) ==
  /\ emit # None /\ p \in emit.left
  /\ LET d == <<p, emit.at>>
     IN  /\ rows' = [rows EXCEPT ![d] = Inserted(d, emit.event)]
         /\ lost' = IF rows[d] = None THEN lost
                    ELSE lost \cup {<<emit.event, p>>}
  /\ emit' = IF emit.left = {p} THEN None ELSE [emit EXCEPT !.left = @ \ {p}]
  /\ UNCHANGED <<registered, emitted, sweep, held, record, replays, faults>>

\* The web process dies before the fan-out is complete.
WebCrash ==
  /\ emit # None /\ faults < MaxFaults /\ faults' = faults + 1
  /\ lost' = lost \cup {<<emit.event, p>> : p \in emit.left}
  /\ emit' = None
  /\ UNCHANGED <<table, emitted, sweep, held, record, replays>>

\* The owner removes an endpoint; its queued rows stay.
Unregister(p) ==
  /\ p \in registered /\ registered' = registered \ {p}
  /\ UNCHANGED <<rows, web, sweep, held, record, replays, faults>>

-----------------------------------------------------------------------------
(* A sweep of deliver_due                                                  *)

Due == {d \in Id : rows[d] # None /\ rows[d].status = "pending" /\ rows[d].due}
Batched(s) == {d \in Id : batch[s][d] # None}

\* The due rows are read and not claimed: another sweep may have them too.
Read(s) ==
  /\ Batched(s) = {} /\ outcome[s] = None /\ Due # {}
  /\ batch' = [batch EXCEPT ![s] = [d \in Id |-> IF d \in Due THEN rows[d]
                                                 ELSE None]]
  /\ known' = [known EXCEPT ![s] = {}]
  /\ excused' = excused \cup {d \in Due : \E o \in Sweeper \ {s} :
                  d \in Batched(o) \/ (outcome[o] # None /\ outcome[o].id = d)}
  /\ UNCHANGED <<table, web, outcome, held, tries, received, again, replays,
                 faults>>

\* _fail: a retry with back-off, or a dead letter.
ExhaustedLate(n)  == n > Max
ExhaustedEarly(n) == n >= Max - 1
Exhausted(n)      == n >= Max

FailedUncounted(r) == [r EXCEPT !.due = FALSE]
FailedAsDone(r)    == [r EXCEPT !.attempts = @ + 1, !.status = "delivered"]
Failed(r) == [event |-> r.event, attempts |-> r.attempts + 1, due |-> FALSE,
              status |-> IF Exhausted(r.attempts + 1) THEN "dead" ELSE "pending"]

DeliveredUnmarked(r) == [r EXCEPT !.attempts = @ + 1]
Delivered(r) == [event |-> r.event, attempts |-> r.attempts + 1, due |-> r.due,
                 status |-> "delivered"]

\* An attempt's row goes to the update, and leaves the batch.
Settle(s, d, r) ==
  /\ outcome' = [outcome EXCEPT ![s] = [id |-> d, row |-> r]]
  /\ batch' = [batch EXCEPT ![s][d] = None]
  /\ tries' = [tries EXCEPT ![d] = IF @ < Max THEN @ + 1 ELSE @]

Take(d) == /\ received' = received \cup {d}
           /\ again' = IF d \in received THEN again \cup {d} ELSE again

\* The endpoint is found once in a sweep, and remembered to its end.
Found(s, d) == d[1] \in registered \cup known[s]

\* The endpoint answers 2xx.
Deliver(s, d) ==
  /\ outcome[s] = None /\ d \in Batched(s) /\ Found(s, d)
  /\ Settle(s, d, Delivered(batch[s][d])) /\ Take(d)
  /\ known' = [known EXCEPT ![s] = @ \cup {d[1]}]
  /\ UNCHANGED <<table, web, held, excused, replays, faults>>

\* It answers anything else, cannot be reached, is refused as a target, or is
\* no longer registered.
Refuse(s, d) ==
  /\ outcome[s] = None /\ d \in Batched(s)
  /\ Settle(s, d, Failed(batch[s][d]))
  /\ known' = [known EXCEPT ![s] = IF Found(s, d) THEN @ \cup {d[1]} ELSE @]
  /\ UNCHANGED <<table, web, held, received, again, excused, replays, faults>>

\* It takes the event in and the answer is lost.
TimeOut(s, d) ==
  /\ outcome[s] = None /\ d \in Batched(s) /\ Found(s, d)
  /\ faults < MaxFaults /\ faults' = faults + 1
  /\ Settle(s, d, Failed(batch[s][d])) /\ Take(d)
  /\ excused' = excused \cup {d}
  /\ known' = [known EXCEPT ![s] = @ \cup {d[1]}]
  /\ UNCHANGED <<table, web, held, replays>>

\* UPDATE ... WHERE id, whatever the row has become.
Update(s) ==
  /\ outcome[s] # None
  /\ rows' = [rows EXCEPT ![outcome[s].id] = outcome[s].row]
  /\ outcome' = [outcome EXCEPT ![s] = None]
  /\ UNCHANGED <<registered, web, batch, known, held, record, replays, faults>>

\* The sweeper dies: what it was about to write is not written.
Crash(s) ==
  /\ faults < MaxFaults /\ faults' = faults + 1
  /\ Batched(s) # {} \/ outcome[s] # None
  /\ batch' = [batch EXCEPT ![s] = [d \in Id |-> None]]
  /\ outcome' = [outcome EXCEPT ![s] = None]
  /\ known' = [known EXCEPT ![s] = {}]
  /\ excused' = IF outcome[s] = None THEN excused
                ELSE excused \cup {outcome[s].id}
  /\ UNCHANGED <<table, web, held, tries, received, again, replays>>

\* Back-off ends.
Elapse(d) ==
  /\ rows[d] # None /\ rows[d].status = "pending" /\ ~rows[d].due
  /\ rows' = [rows EXCEPT ![d].due = TRUE]
  /\ UNCHANGED <<registered, web, sweep, held, record, replays, faults>>

-----------------------------------------------------------------------------
(* An operator's replay, from the Connections page                         *)

ReplayRead(d) ==
  /\ held = None /\ rows[d] # None /\ replays < MaxReplays
  /\ held' = [id |-> d, row |-> rows[d]] /\ replays' = replays + 1
  /\ UNCHANGED <<table, web, sweep, record, faults>>

\* The row is re-armed as it was read, its attempts with it.
Rearmed(r) == [event |-> r.event, attempts |-> r.attempts, due |-> TRUE,
               status |-> "pending"]

ReplayWrite ==
  /\ held # None /\ held' = None
  /\ rows' = [rows EXCEPT ![held.id] = Rearmed(held.row)]
  /\ excused' = excused \cup {held.id}
  /\ UNCHANGED <<registered, web, sweep, tries, received, again, replays,
                 faults>>

Sweep(s) == \/ Read(s) \/ Update(s)
            \/ \E d \in Id : Deliver(s, d) \/ Refuse(s, d) \/ TimeOut(s, d)

Next == \/ \E s \in Sweeper : Sweep(s) \/ Crash(s)
        \/ \E e \in Event, t \in Stamp : Emit(e, t)
        \/ \E p \in Endpoint : Queue(p) \/ Unregister(p)
        \/ \E d \in Id : Elapse(d) \/ ReplayRead(d)
        \/ WebCrash \/ ReplayWrite

Spec == Init /\ [][Next]_vars

\* Time passes, and the sweeps are run again and again.
FairSpec == /\ Spec
            /\ \A s \in Sweeper : WF_vars(Sweep(s))
            /\ \A d \in Id : WF_vars(Elapse(d))

-----------------------------------------------------------------------------
(* Properties                                                              *)

TypeOK ==
  /\ rows \in [Id -> Row \cup {None}] /\ registered \subseteq Endpoint
  /\ emit \in Fan \cup {None}
  /\ emitted \subseteq Event \X Endpoint \X Id
  /\ lost \subseteq Event \X Endpoint
  /\ batch \in [Sweeper -> [Id -> Row \cup {None}]]
  /\ outcome \in [Sweeper -> Held \cup {None}]
  /\ known \in [Sweeper -> SUBSET Endpoint] /\ held \in Held \cup {None}
  /\ tries \in [Id -> 0..Max]
  /\ received \subseteq Id /\ again \subseteq received /\ excused \subseteq Id
  /\ replays \in 0..MaxReplays /\ faults \in 0..MaxFaults

\* An endpoint takes an event in twice only when the outcome of an attempt was
\* lost with its answer or its sweeper, two sweeps had the row at one time, or
\* an operator replayed it: a failed attempt alone never duplicates.
TwiceOnlyExcused == again \subseteq excused

\* A delivery is recorded as delivered only when its endpoint has it, also when
\* sweeps and replays overwrite each other's rows.
DeliveredMeansReceived ==
  \A d \in Id : rows[d] # None /\ rows[d].status = "delivered" => d \in received

\* A dead letter was attempted Max times: no interleaving of sweeps makes the
\* attempts of a row run ahead of the attempts made for it.
DeadMeansExhausted ==
  \A d \in Id : rows[d] # None /\ rows[d].status = "dead" => tries[d] = Max

\* An event reaches the outbox once for every endpoint that wanted it, unless
\* the process died during the fan-out or an earlier event of the same second
\* took its id.
QueuedUnlessLost ==
  \A x \in emitted :
    \/ rows[x[3]] # None /\ rows[x[3]].event = x[1]
    \/ emit # None /\ emit.event = x[1] /\ x[2] \in emit.left
    \/ <<x[1], x[2]>> \in lost

\* No delivery is pending for ever: it is delivered or a dead letter in the
\* end, however the sweeps interleave.
EveryDeliverySettles ==
  \A d \in Id : rows[d] # None /\ rows[d].status = "pending"
                ~> rows[d] # None /\ rows[d].status # "pending"
=============================================================================
