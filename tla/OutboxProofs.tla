---------------------------- MODULE OutboxProofs ----------------------------
(***************************************************************************)
(* That the outbox is right about its endpoints, for any number of         *)
(* sweepers, endpoints, events and attempts.  A row is copied: a sweep's   *)
(* batch, the outcome it is about to write and an operator's replay each   *)
(* hold one, and any of them may overwrite the table later.  So what is to *)
(* hold of the table is claimed of every copy, and each step makes a copy  *)
(* of a copy that has it.                                                  *)
(***************************************************************************)
EXTENDS Outbox, TLAPS

\* What is true of every copy r of d's row, now and after any later step: it is
\* of the event x has the id for, it does not run ahead of the n attempts made,
\* and what its status says of the endpoint is so.
CopyOf(d, r, x, n, got, q) ==
  /\ r \in [event : Event, status : Status, attempts : Nat, due : BOOLEAN]
  /\ x # None /\ r.event = x.event
  /\ r.attempts <= n \/ n = Max
  /\ r.attempts <= Max + q
  /\ r.status = "pending"   => r.attempts < Max + q
  /\ r.status = "delivered" => d \in got
  /\ r.status = "dead"      => r.attempts >= Max

Copy(d, r) == CopyOf(d, r, rows[d], tries[d], received, replays)

RowCopies     == \A d \in Id : rows[d] # None => Copy(d, rows[d])
BatchCopies   == \A s \in Sweeper, d \in Id : batch[s][d] # None =>
                   Copy(d, batch[s][d]) /\ batch[s][d].status = "pending"
OutcomeCopies == \A s \in Sweeper : outcome[s] # None =>
                   Copy(outcome[s].id, outcome[s].row)
HeldCopy      == held # None => /\ Copy(held.id, held.row)
                                /\ held.row.attempts < Max + replays

Copies == RowCopies /\ BatchCopies /\ OutcomeCopies /\ HeldCopy

\* What no step takes away.
Grows ==
  /\ \A d \in Id : rows[d] # None => rows'[d] # None /\ rows'[d].event = rows[d].event
  /\ \A d \in Id : tries[d] <= tries'[d]
  /\ received \subseteq received' /\ replays <= replays'

\* A sweep has a row from its read to its update.
Writing(s, d) == outcome[s] # None /\ outcome[s].id = d
Has(s, d)     == batch[s][d] # None \/ Writing(s, d)

\* Of an id no fault, overlap or replay has touched, one sweep at most has the
\* row, and once the endpoint has the event no sweep is going to send it.
Once ==
  \A d \in Id \ excused :
    /\ \A s, o \in Sweeper : Has(s, d) /\ Has(o, d) => s = o
    /\ d \in received =>
         /\ \A s \in Sweeper : batch[s][d] = None
         /\ \A s \in Sweeper : Writing(s, d) => outcome[s].row.status = "delivered"
         /\ \/ rows[d] # None /\ rows[d].status = "delivered"
            \/ \E s \in Sweeper : Writing(s, d)

\* No sweep is about to write the row it still has to send.
Apart == \A s \in Sweeper, d \in Id : Writing(s, d) => batch[s][d] = None

\* The fan-out under way is of one event and one second.
Fanout == emit # None => \A x \in emitted :
            x[1] = emit.event => x[3] = <<x[2], emit.at>>

IInv == TypeOK /\ Copies /\ Apart /\ Once /\ TwiceOnlyExcused /\ Fanout
        /\ QueuedUnlessLost

-----------------------------------------------------------------------------
(* Types                                                                   *)

LEMMA Initially == Init => IInv
<1> SUFFICES ASSUME Init PROVE IInv
  OBVIOUS
<1> USE OutboxAssumption
<1>1. TypeOK
  BY DEF Init, TypeOK
<1>2. Copies
  BY DEF Init, Copies, RowCopies, BatchCopies, OutcomeCopies, HeldCopy
<1>3. Apart /\ Once /\ TwiceOnlyExcused
  BY DEF Init, Apart, Once, TwiceOnlyExcused, Writing, Has
<1>4. Fanout /\ QueuedUnlessLost
  BY DEF Init, Fanout, QueuedUnlessLost
<1> QED BY <1>1, <1>2, <1>3, <1>4 DEF IInv

\* A copy that keeps within the bounds is a row the table may hold.
LEMMA CopyIsRow ==
  ASSUME TypeOK, NEW d \in Id, NEW r, Copy(d, r)
  PROVE  /\ r \in Row
         /\ r.attempts <= Max + replays /\ replays <= MaxReplays
         /\ r = [event |-> r.event, status |-> r.status,
                 attempts |-> r.attempts, due |-> r.due]
<1> USE OutboxAssumption
<1>1. r \in [event : Event, status : Status, attempts : Nat, due : BOOLEAN]
  BY DEF Copy, CopyOf
<1>2. r.attempts <= Max + MaxReplays
  BY <1>1 DEF Copy, CopyOf, TypeOK
<1> QED BY <1>1, <1>2 DEF Copy, CopyOf, Row, TypeOK

\* What an attempt makes of a row is a row, and a true one after the attempt.
LEMMA AttemptIsCopy ==
  ASSUME TypeOK, NEW d \in Id, NEW r, Copy(d, r), r.status = "pending",
         NEW n \in 0..Max, n = IF tries[d] < Max THEN tries[d] + 1 ELSE tries[d],
         NEW got, received \subseteq got
  PROVE  /\ CopyOf(d, Failed(r), rows[d], n, got, replays) /\ Failed(r) \in Row
         /\ d \in got => /\ CopyOf(d, Delivered(r), rows[d], n, got, replays)
                         /\ Delivered(r) \in Row
<1> USE OutboxAssumption
<1>1. r \in [event : Event, status : Status, attempts : Nat, due : BOOLEAN]
  BY DEF Copy, CopyOf
<1>2. r.attempts + 1 \in Nat /\ r.attempts + 1 <= Max + replays /\ replays <= MaxReplays
  BY <1>1 DEF Copy, CopyOf, TypeOK
<1>3. r.attempts + 1 <= n \/ n = Max
  BY <1>1 DEF Copy, CopyOf, TypeOK
<1>4. CopyOf(d, Failed(r), rows[d], n, got, replays)
  BY <1>1, <1>2, <1>3 DEF Failed, Copy, CopyOf, Exhausted, Status, TypeOK
<1>5. d \in got => CopyOf(d, Delivered(r), rows[d], n, got, replays)
  BY <1>1, <1>2, <1>3 DEF Delivered, Copy, CopyOf, Status
<1>6. Failed(r) \in Row /\ Delivered(r) \in Row
  BY <1>1, <1>2 DEF Failed, Delivered, Row, Status, TypeOK
<1> QED BY <1>4, <1>5, <1>6

\* Events, attempts made and receipts only grow, so a copy stays true.
LEMMA Grown ==
  ASSUME TypeOK, TypeOK', Grows
  PROVE  \A d \in Id : \A r : Copy(d, r) =>
           CopyOf(d, r, rows'[d], tries'[d], received', replays')
<1> SUFFICES ASSUME NEW d \in Id, NEW r, Copy(d, r)
    PROVE CopyOf(d, r, rows'[d], tries'[d], received', replays')
  OBVIOUS
<1> USE OutboxAssumption
<1>1. r \in [event : Event, status : Status, attempts : Nat, due : BOOLEAN]
  BY DEF Copy, CopyOf
<1>2. rows'[d] # None /\ r.event = rows'[d].event
  BY DEF Copy, CopyOf, Grows
<1>3. /\ tries[d] \in 0..Max /\ tries'[d] \in 0..Max /\ tries[d] <= tries'[d]
      /\ replays \in Nat /\ replays' \in Nat /\ replays <= replays'
  BY DEF TypeOK, Grows
<1>4. received \subseteq received'
  BY DEF Grows
<1> QED BY <1>1, <1>2, <1>3, <1>4 DEF Copy, CopyOf

\* A copy that a step does not touch stays true.
LEMMA Unmoved ==
  ASSUME TypeOK, TypeOK', Copies, Grows
  PROVE  /\ \A d \in Id : rows[d] # None /\ rows'[d] = rows[d] =>
              CopyOf(d, rows'[d], rows'[d], tries'[d], received', replays')
         /\ (\A q \in Sweeper, c \in Id :
               batch'[q][c] # None => batch'[q][c] = batch[q][c]) => BatchCopies'
         /\ (\A q \in Sweeper :
               outcome'[q] # None => outcome'[q] = outcome[q]) => OutcomeCopies'
         /\ UNCHANGED held => HeldCopy'
<1> USE OutboxAssumption
<1>1. \A d \in Id : rows[d] # None /\ rows'[d] = rows[d] =>
        CopyOf(d, rows'[d], rows'[d], tries'[d], received', replays')
  BY Grown DEF Copies, RowCopies
<1>2. ASSUME NEW q \in Sweeper, NEW c \in Id, batch'[q][c] # None,
             batch'[q][c] = batch[q][c]
      PROVE  /\ CopyOf(c, batch'[q][c], rows'[c], tries'[c], received', replays')
             /\ batch'[q][c].status = "pending"
  BY <1>2, Grown DEF Copies, BatchCopies
<1>3. ASSUME NEW s \in Sweeper, outcome'[s] # None, outcome'[s] = outcome[s]
      PROVE  CopyOf(outcome'[s].id, outcome'[s].row, rows'[outcome'[s].id],
                    tries'[outcome'[s].id], received', replays')
  <2>1. outcome[s].id \in Id
    BY <1>3 DEF TypeOK, Held
  <2> QED BY <1>3, <2>1, Grown DEF Copies, OutcomeCopies
<1>4. ASSUME UNCHANGED held, held # None
      PROVE  /\ held' = held /\ held.row.attempts < Max + replays'
             /\ CopyOf(held.id, held.row, rows'[held.id], tries'[held.id],
                       received', replays')
  <2>1. held.id \in Id /\ held.row.attempts \in Nat
    BY <1>4 DEF TypeOK, Held, Row
  <2>2. replays \in Nat /\ replays' \in Nat /\ replays <= replays'
    BY DEF TypeOK, Grows
  <2> QED BY <1>4, <2>1, <2>2, Grown DEF Copies, HeldCopy
<1> QED BY <1>1, <1>2, <1>3, <1>4 DEF BatchCopies, OutcomeCopies, HeldCopy, Copy

-----------------------------------------------------------------------------
(* Rows, and the copies of them                                            *)

\* The steps that leave rows, copies and the endpoint's record alone.
LEMMA OtherSteps ==
  ASSUME TypeOK, Copies,
         \/ \E e \in Event, t \in Stamp : Emit(e, t)
         \/ WebCrash \/ \E p \in Endpoint : Unregister(p)
         \/ UNCHANGED vars
  PROVE  TypeOK' /\ Grows /\ Copies'
<1> USE OutboxAssumption
<1>1. UNCHANGED <<rows, sweep, held, record, replays>>
  BY DEF Emit, WebCrash, Unregister, vars, table
<1>2. Grows
  BY <1>1 DEF Grows, TypeOK, record
<1>3. Copies'
  BY <1>1 DEF Copies, RowCopies, BatchCopies, OutcomeCopies, HeldCopy, Copy, sweep, record
<1>4. ASSUME NEW e \in Event, NEW t \in Stamp, Emit(e, t)
      PROVE emit' \in Fan \cup {None} /\ emitted' \subseteq Event \X Endpoint \X Id
                      /\ lost' \subseteq Event \X Endpoint
  <2>1. emit' \in Fan
    BY <1>4 DEF Emit, Fan, TypeOK
  <2>2. {<<e, p, <<p, t>>>> : p \in registered} \subseteq Event \X Endpoint \X Id
    BY DEF TypeOK, Id
  <2> QED BY <1>4, <2>1, <2>2 DEF Emit, TypeOK
<1>5. ASSUME WebCrash
      PROVE emit' \in Fan \cup {None} /\ emitted' \subseteq Event \X Endpoint \X Id
                      /\ lost' \subseteq Event \X Endpoint
  BY <1>5 DEF WebCrash, TypeOK, Fan
<1>6. emit' \in Fan \cup {None} /\ emitted' \subseteq Event \X Endpoint \X Id
      /\ lost' \subseteq Event \X Endpoint
  BY <1>4, <1>5 DEF Unregister, vars, web, TypeOK
<1>7. registered' \subseteq Endpoint /\ faults' \in 0..MaxFaults
  BY DEF Emit, WebCrash, Unregister, vars, table, TypeOK
<1> QED BY <1>1, <1>2, <1>3, <1>6, <1>7 DEF TypeOK, sweep, record

LEMMA QueueStep ==
  ASSUME TypeOK, Copies, NEW p \in Endpoint, Queue(p)
  PROVE  TypeOK' /\ Grows /\ Copies'
<1> USE OutboxAssumption
<1> DEFINE d == <<p, emit.at>>
<1>1. emit \in Fan /\ d \in Id /\ emit.event \in Event
  BY DEF Queue, TypeOK, Fan, Id
<1>2. Fresh(emit.event) \in Row
  BY <1>1 DEF Fresh, Row, Status
<1>3. CopyOf(d, Fresh(emit.event), Fresh(emit.event), tries[d], received, replays)
  <2>1. tries[d] \in 0..Max /\ replays \in Nat /\ Max \in Nat \ {0}
    BY <1>1 DEF TypeOK
  <2>2. Fresh(emit.event) # None
    BY <1>2, Absent
  <2> QED BY <1>1, <2>1, <2>2 DEF Fresh, CopyOf, Status
<1>4. rows' = [rows EXCEPT ![d] = Inserted(d, emit.event)]
  BY DEF Queue
<1>5. /\ rows[d] = None => rows'[d] = Fresh(emit.event)
      /\ \A c \in Id : rows[c] # None \/ c # d => rows'[c] = rows[c]
      /\ rows' \in [Id -> Row \cup {None}]
  BY <1>1, <1>2, <1>4 DEF Inserted, TypeOK
<1>6. emit' \in Fan \cup {None}
  <2>1. [emit EXCEPT !.left = @ \ {p}] \in Fan
    BY <1>1 DEF Fan
  <2> QED BY <2>1 DEF Queue
<1>7. lost' \subseteq Event \X Endpoint
  BY <1>1 DEF Queue, TypeOK
<1>8. TypeOK'
  BY <1>5, <1>6, <1>7 DEF Queue, TypeOK, sweep, record
<1>9. Grows
  BY <1>5 DEF Queue, Grows, TypeOK, record
<1>10. ASSUME NEW c \in Id, rows'[c] # None
       PROVE CopyOf(c, rows'[c], rows'[c], tries'[c], received', replays')
  <2>1. CASE rows[c] = None
    BY <1>3, <1>5, <1>10, <2>1 DEF Queue, record
  <2>2. CASE rows[c] # None
    BY <1>5, <1>8, <1>9, <2>2, Unmoved
  <2> QED BY <2>1, <2>2
<1>11. RowCopies'
  BY <1>10 DEF RowCopies, Copy
<1>12. BatchCopies' /\ OutcomeCopies' /\ HeldCopy'
  BY <1>8, <1>9, Unmoved DEF Queue, sweep
<1> QED BY <1>8, <1>9, <1>11, <1>12 DEF Copies

\* A sweep reads its batch; a copy of the row is as true as the row.
LEMMA ReadStep ==
  ASSUME TypeOK, Copies, NEW s \in Sweeper, Read(s)
  PROVE  TypeOK' /\ Grows /\ Copies'
<1> USE OutboxAssumption
<1> DEFINE b == [d \in Id |-> IF d \in Due THEN rows[d] ELSE None]
<1>1. batch' = [batch EXCEPT ![s] = b] /\ b \in [Id -> Row \cup {None}]
  BY DEF Read, TypeOK
<1>2. batch' \in [Sweeper -> [Id -> Row \cup {None}]]
  BY <1>1 DEF TypeOK
<1>3. excused' \subseteq Id
  BY DEF Read, Due, TypeOK
<1>4. known' \in [Sweeper -> SUBSET Endpoint]
  BY DEF Read, TypeOK
<1>5. TypeOK'
  BY <1>2, <1>3, <1>4 DEF Read, TypeOK, table, web
<1>6. Grows
  BY DEF Read, Grows, TypeOK, table
<1>7. RowCopies' /\ OutcomeCopies' /\ HeldCopy'
  BY <1>5, <1>6, Unmoved DEF Read, table, RowCopies, Copy
<1>8. ASSUME NEW o \in Sweeper, NEW d \in Id, batch'[o][d] # None
      PROVE /\ CopyOf(d, batch'[o][d], rows'[d], tries'[d], received', replays')
            /\ batch'[o][d].status = "pending"
  <2>1. CASE o = s
    <3>1. d \in Due /\ batch'[o][d] = rows[d]
      BY <1>1, <1>8, <2>1 DEF TypeOK
    <3>2. rows' = rows
      BY DEF Read, table
    <3> QED BY <1>5, <1>6, <3>1, <3>2, Unmoved DEF Due
  <2>2. CASE o # s
    <3>1. batch'[o] = batch[o]
      BY <1>1, <2>2 DEF TypeOK
    <3> QED BY <1>5, <1>6, <1>8, <3>1, Grown DEF Copies, BatchCopies
  <2> QED BY <2>1, <2>2
<1> QED BY <1>5, <1>6, <1>7, <1>8 DEF Copies, BatchCopies, Copy

\* An attempt: its outcome is a true copy of the row it was made with.
LEMMA AttemptStep ==
  ASSUME TypeOK, Copies, NEW s \in Sweeper, NEW d \in Id,
         Deliver(s, d) \/ Refuse(s, d) \/ TimeOut(s, d)
  PROVE  TypeOK' /\ Grows /\ Copies' /\ outcome'[s] # None
<1> USE OutboxAssumption
<1> DEFINE r == batch[s][d]
<1>1. /\ r # None /\ outcome[s] = None /\ rows' = rows /\ held' = held
      /\ replays' = replays /\ UNCHANGED web /\ registered' = registered
      /\ received' \in {received, received \cup {d}}
      /\ Deliver(s, d) => d \in received'
  BY DEF Deliver, Refuse, TimeOut, Batched, Take, table
<1>2. Copy(d, r) /\ r.status = "pending"
  BY <1>1 DEF Copies, BatchCopies
<1>3. PICK o : /\ o \in {Failed(r), Delivered(r)} /\ (o = Delivered(r) => d \in received')
               /\ Settle(s, d, o)
  <2>1. CASE Deliver(s, d)
    BY <1>1, <2>1 DEF Deliver
  <2>2. CASE Refuse(s, d) \/ TimeOut(s, d)
    <3>1. Failed(r) # Delivered(r)
      BY DEF Failed, Delivered
    <3> QED BY <2>2, <3>1 DEF Refuse, TimeOut
  <2> QED BY <2>1, <2>2
<1>4. /\ tries' \in [Id -> 0..Max]
      /\ tries'[d] = IF tries[d] < Max THEN tries[d] + 1 ELSE tries[d]
      /\ \A c \in Id : tries[c] <= tries'[c]
  BY <1>3 DEF Settle, TypeOK
<1>5. o \in Row /\ CopyOf(d, o, rows[d], tries'[d], received', replays)
  BY <1>1, <1>2, <1>3, <1>4, AttemptIsCopy
<1>6. [id |-> d, row |-> o] \in Held
  BY <1>5 DEF Held
<1>7. outcome' = [outcome EXCEPT ![s] = [id |-> d, row |-> o]]
  BY <1>3 DEF Settle
<1>8. outcome' \in [Sweeper -> Held \cup {None}]
  BY <1>6, <1>7 DEF TypeOK
<1>9. /\ batch' \in [Sweeper -> [Id -> Row \cup {None}]]
      /\ \A q \in Sweeper, c \in Id :
           batch'[q][c] # None => batch'[q][c] = batch[q][c]
  BY <1>3 DEF Settle, TypeOK
<1>10. /\ known' \in [Sweeper -> SUBSET Endpoint] /\ again' \subseteq received'
       /\ excused' \subseteq Id /\ faults' \in 0..MaxFaults
  <2>1. d[1] \in Endpoint
    BY DEF Id
  <2>2. known' \in [Sweeper -> SUBSET Endpoint]
    BY <2>1 DEF Deliver, Refuse, TimeOut, TypeOK
  <2>3. again' \subseteq received'
    BY DEF Deliver, Refuse, TimeOut, Take, TypeOK
  <2> QED BY <2>2, <2>3 DEF Deliver, Refuse, TimeOut, TypeOK
<1>11. TypeOK'
  BY <1>1, <1>4, <1>8, <1>9, <1>10 DEF TypeOK, web
<1>12. Grows
  BY <1>1, <1>4 DEF Grows, TypeOK
<1>13. RowCopies' /\ HeldCopy'
  BY <1>1, <1>11, <1>12, Unmoved DEF RowCopies, Copy
<1>14. BatchCopies'
  BY <1>9, <1>11, <1>12, Unmoved
<1>15. ASSUME NEW q \in Sweeper, outcome'[q] # None
       PROVE LET i == outcome'[q].id
             IN  CopyOf(i, outcome'[q].row, rows'[i], tries'[i], received', replays')
  <2>1. CASE q = s
    <3>1. outcome'[q].id = d /\ outcome'[q].row = o
      BY <1>7, <2>1 DEF TypeOK
    <3> QED BY <1>1, <1>5, <3>1
  <2>2. CASE q # s
    <3>1. outcome'[q] = outcome[q]
      BY <1>7, <2>2 DEF TypeOK
    <3>2. outcome[q].id \in Id
      BY <1>15, <3>1 DEF TypeOK, Held
    <3> QED BY <1>11, <1>12, <1>15, <3>1, <3>2, Grown DEF Copies, OutcomeCopies
  <2> QED BY <2>1, <2>2
<1>16. outcome'[s] # None
  BY <1>6, <1>7, Absent DEF TypeOK
<1> QED BY <1>11, <1>12, <1>13, <1>14, <1>15, <1>16 DEF Copies, OutcomeCopies, Copy

\* The table takes a sweep's outcome, whatever the row has become.
LEMMA UpdateStep ==
  ASSUME TypeOK, Copies, NEW s \in Sweeper, Update(s)
  PROVE  TypeOK' /\ Grows /\ Copies'
<1> USE OutboxAssumption
<1> DEFINE d == outcome[s].id
           r == outcome[s].row
<1>1. /\ rows' = [rows EXCEPT ![d] = r]
      /\ outcome' = [outcome EXCEPT ![s] = None]
      /\ UNCHANGED <<registered, web, batch, known, held, record, replays, faults>>
  BY DEF Update
<1>2. d \in Id /\ r \in Row
  BY DEF Update, TypeOK, Held
<1>3. Copy(d, r) /\ r # None
  BY <1>2, Absent DEF Update, Copies, OutcomeCopies
<1>4. rows' \in [Id -> Row \cup {None}] /\ rows'[d] = r
      /\ \A c \in Id : c # d => rows'[c] = rows[c]
  BY <1>1, <1>2 DEF TypeOK
<1>5. TypeOK'
  BY <1>1, <1>4 DEF TypeOK, web, record
<1>6. Grows
  BY <1>1, <1>3, <1>4 DEF Grows, TypeOK, record, Copy, CopyOf
<1>7. ASSUME NEW c \in Id, rows'[c] # None
      PROVE CopyOf(c, rows'[c], rows'[c], tries'[c], received', replays')
  BY <1>2, <1>3, <1>4, <1>5, <1>6, <1>7, Grown, Unmoved
<1>8. BatchCopies' /\ HeldCopy'
  BY <1>1, <1>5, <1>6, Unmoved
<1>9. OutcomeCopies'
  <2>1. \A q \in Sweeper : outcome'[q] # None => outcome'[q] = outcome[q]
    BY <1>1 DEF TypeOK
  <2> QED BY <1>5, <1>6, <2>1, Unmoved
<1> QED BY <1>5, <1>6, <1>7, <1>8, <1>9 DEF Copies, RowCopies, Copy

LEMMA CrashStep ==
  ASSUME TypeOK, Copies, NEW s \in Sweeper, Crash(s)
  PROVE  TypeOK' /\ Grows /\ Copies'
<1> USE OutboxAssumption
<1>1. /\ UNCHANGED <<table, web, held, tries, received, again, replays>>
      /\ \A q \in Sweeper : outcome'[q] # None => outcome'[q] = outcome[q]
      /\ \A q \in Sweeper, d \in Id : batch'[q][d] # None => batch'[q][d] = batch[q][d]
  BY DEF Crash, TypeOK
<1>2. /\ outcome' \in [Sweeper -> Held \cup {None}]
      /\ batch' \in [Sweeper -> [Id -> Row \cup {None}]]
      /\ known' \in [Sweeper -> SUBSET Endpoint]
      /\ excused' \subseteq Id /\ faults' \in 0..MaxFaults
  BY DEF Crash, TypeOK, Held
<1>3. TypeOK'
  BY <1>1, <1>2 DEF TypeOK, table, web
<1>4. Grows
  BY <1>1 DEF Grows, TypeOK, table
<1>5. RowCopies' /\ HeldCopy'
  BY <1>1, <1>3, <1>4, Unmoved DEF RowCopies, Copy, table
<1>6. BatchCopies' /\ OutcomeCopies'
  BY <1>1, <1>3, <1>4, Unmoved
<1> QED BY <1>3, <1>4, <1>5, <1>6 DEF Copies

LEMMA ElapseStep ==
  ASSUME TypeOK, Copies, NEW d \in Id, Elapse(d)
  PROVE  TypeOK' /\ Grows /\ Copies'
<1> USE OutboxAssumption
<1> DEFINE r == [rows[d] EXCEPT !.due = TRUE]
<1>1. /\ rows' = [rows EXCEPT ![d] = r] /\ rows[d] # None
      /\ UNCHANGED <<registered, web, sweep, held, record, replays, faults>>
  BY DEF Elapse
<1>2. rows[d] \in Row /\ Copy(d, rows[d])
  BY <1>1 DEF TypeOK, Copies, RowCopies
<1>3. /\ r \in Row /\ r.event = rows[d].event /\ r.attempts = rows[d].attempts
      /\ r.status = rows[d].status
  BY <1>2 DEF Row
<1>4. r # None
  BY <1>3, Absent
<1>5. /\ r \in [event : Event, status : Status, attempts : Nat, due : BOOLEAN]
      /\ CopyOf(d, r, r, tries[d], received, replays)
  BY <1>2, <1>3, <1>4 DEF Row, Copy, CopyOf
<1>6. rows' \in [Id -> Row \cup {None}] /\ rows'[d] = r
      /\ \A c \in Id : c # d => rows'[c] = rows[c]
  BY <1>1, <1>3 DEF TypeOK
<1>7. TypeOK'
  BY <1>1, <1>6 DEF TypeOK, web, sweep, record
<1>8. Grows
  BY <1>1, <1>3, <1>4, <1>6 DEF Grows, TypeOK, record
<1>9. ASSUME NEW c \in Id, rows'[c] # None
      PROVE CopyOf(c, rows'[c], rows'[c], tries'[c], received', replays')
  <2>1. CASE c = d
    BY <1>1, <1>5, <1>6, <2>1 DEF record
  <2>2. CASE c # d
    BY <1>6, <1>7, <1>8, <1>9, <2>2, Unmoved
  <2> QED BY <2>1, <2>2
<1>10. BatchCopies' /\ OutcomeCopies' /\ HeldCopy'
  BY <1>1, <1>7, <1>8, Unmoved DEF sweep
<1> QED BY <1>7, <1>8, <1>9, <1>10 DEF Copies, RowCopies, Copy

\* A replay pays for the attempt it may add to a dead letter.
LEMMA ReplayReadStep ==
  ASSUME TypeOK, Copies, NEW d \in Id, ReplayRead(d)
  PROVE  TypeOK' /\ Grows /\ Copies'
<1> USE OutboxAssumption
<1>1. /\ rows[d] # None /\ held' = [id |-> d, row |-> rows[d]]
      /\ replays' = replays + 1 /\ replays < MaxReplays
      /\ UNCHANGED <<table, web, sweep, record, faults>>
  BY DEF ReplayRead
<1>2. held' \in Held
  BY <1>1 DEF TypeOK, Held
<1>3. TypeOK'
  BY <1>1, <1>2 DEF TypeOK, table, web, sweep, record
<1>4. Grows
  BY <1>1 DEF Grows, TypeOK, table, record
<1>5. RowCopies' /\ BatchCopies' /\ OutcomeCopies'
  BY <1>1, <1>3, <1>4, Unmoved DEF RowCopies, Copy, table, sweep
<1>6. Copy(d, rows[d])
  BY <1>1 DEF Copies, RowCopies
<1>7. CopyOf(d, rows[d], rows'[d], tries'[d], received', replays')
  BY <1>3, <1>4, <1>6, Grown
<1>8. rows[d].attempts < Max + replays'
  BY <1>1, <1>6 DEF Copy, CopyOf, TypeOK
<1> QED BY <1>1, <1>3, <1>4, <1>5, <1>7, <1>8 DEF Copies, HeldCopy, Copy

LEMMA ReplayWriteStep ==
  ASSUME TypeOK, Copies, ReplayWrite
  PROVE  TypeOK' /\ Grows /\ Copies'
<1> USE OutboxAssumption
<1> DEFINE d == held.id
           r == Rearmed(held.row)
<1>1. /\ rows' = [rows EXCEPT ![d] = r] /\ held # None /\ held' = None
      /\ excused' = excused \cup {d}
      /\ UNCHANGED <<registered, web, sweep, tries, received, again, replays, faults>>
  BY DEF ReplayWrite
<1>2. d \in Id /\ held.row \in Row /\ Copy(d, held.row)
      /\ held.row.attempts < Max + replays
  BY <1>1 DEF TypeOK, Held, Copies, HeldCopy
<1>3. r \in Row
  BY <1>2 DEF Rearmed, Row, Status
<1>4. CopyOf(d, r, rows[d], tries[d], received, replays) /\ r # None
  BY <1>2, <1>3, Absent DEF Rearmed, Copy, CopyOf, Status
<1>5. rows' \in [Id -> Row \cup {None}] /\ rows'[d] = r
      /\ \A c \in Id : c # d => rows'[c] = rows[c]
  BY <1>1, <1>2, <1>3 DEF TypeOK
<1>6. TypeOK'
  BY <1>1, <1>2, <1>5 DEF TypeOK, web, sweep
<1>7. Grows
  BY <1>1, <1>4, <1>5 DEF Grows, TypeOK, CopyOf
<1>8. ASSUME NEW c \in Id, rows'[c] # None
      PROVE CopyOf(c, rows'[c], rows'[c], tries'[c], received', replays')
  <2>1. CASE c = d
    BY <1>2, <1>4, <1>5, <1>6, <1>7, <2>1, Grown DEF Copy
  <2>2. CASE c # d
    BY <1>5, <1>6, <1>7, <1>8, <2>2, Unmoved
  <2> QED BY <2>1, <2>2
<1>9. BatchCopies' /\ OutcomeCopies' /\ HeldCopy'
  BY <1>1, <1>6, <1>7, Unmoved DEF sweep, HeldCopy
<1> QED BY <1>6, <1>7, <1>8, <1>9 DEF Copies, RowCopies, Copy

\* Every step keeps rows and their copies what they claim to be.
LEMMA CopiesStep ==
  ASSUME TypeOK, Copies, [Next]_vars
  PROVE  TypeOK' /\ Grows /\ Copies'
<1>1. CASE \E s \in Sweeper : Sweep(s) \/ Crash(s)
  BY <1>1, ReadStep, UpdateStep, AttemptStep, CrashStep DEF Sweep
<1>2. CASE \E p \in Endpoint : Queue(p)
  BY <1>2, QueueStep
<1>3. CASE \E d \in Id : Elapse(d) \/ ReplayRead(d)
  BY <1>3, ElapseStep, ReplayReadStep
<1>4. CASE ReplayWrite
  BY <1>4, ReplayWriteStep
<1>5. CASE \/ \E e \in Event, t \in Stamp : Emit(e, t)
           \/ WebCrash \/ \E p \in Endpoint : Unregister(p)
           \/ UNCHANGED vars
  BY <1>5, OtherSteps
<1> QED BY <1>1, <1>2, <1>3, <1>4, <1>5 DEF Next

-----------------------------------------------------------------------------
(* Who has a row, and whether its endpoint has the event                   *)

Single == Apart /\ Once /\ TwiceOnlyExcused

\* The steps that move no row in or out of a sweep.
LEMMA SingleElsewhere ==
  ASSUME TypeOK, Copies, Single,
         \/ \E e \in Event, t \in Stamp : Emit(e, t)
         \/ \E p \in Endpoint : Queue(p) \/ Unregister(p)
         \/ \E d \in Id : Elapse(d) \/ ReplayRead(d)
         \/ WebCrash \/ ReplayWrite \/ UNCHANGED vars
  PROVE  Single'
<1>1. /\ UNCHANGED <<sweep, received, again>> /\ excused \subseteq excused'
      /\ \A d \in Id \ excused' : rows[d] # None /\ rows[d].status = "delivered" =>
           rows'[d] = rows[d]
  <2>1. ASSUME NEW p \in Endpoint, Queue(p)
        PROVE \A d \in Id : rows[d] # None => rows'[d] = rows[d]
    BY <2>1 DEF Queue, Inserted, TypeOK
  <2>2. ASSUME NEW c \in Id, Elapse(c)
        PROVE \A d \in Id : rows[d].status = "delivered" => rows'[d] = rows[d]
    BY <2>2 DEF Elapse, TypeOK
  <2>3. ASSUME ReplayWrite
        PROVE \A d \in Id \ excused' : rows'[d] = rows[d]
    BY <2>3 DEF ReplayWrite, TypeOK, Held
  <2>4. (\E d \in Id : ReplayRead(d)) => rows' = rows
    BY DEF ReplayRead, table
  <2>5. (\E e \in Event, t \in Stamp : Emit(e, t)) \/ WebCrash
        \/ (\E p \in Endpoint : Unregister(p)) \/ UNCHANGED vars => rows' = rows
    BY DEF Emit, WebCrash, Unregister, vars, table
  <2>6. UNCHANGED <<sweep, received, again>> /\ excused \subseteq excused'
    BY DEF Emit, Queue, WebCrash, Unregister, Elapse, ReplayRead, ReplayWrite, vars,
       record
  <2> QED BY <2>1, <2>2, <2>3, <2>4, <2>5, <2>6
<1>2. Apart'
  BY <1>1 DEF Single, Apart, Writing, sweep
<1>3. Once'
  BY <1>1 DEF Single, Once, Has, Writing, sweep
<1>4. TwiceOnlyExcused'
  BY <1>1 DEF Single, TwiceOnlyExcused
<1> QED BY <1>2, <1>3, <1>4 DEF Single

\* What a sweep reads and the endpoint has, another sweep is about to write.
LEMMA SingleRead ==
  ASSUME TypeOK, Single, NEW s \in Sweeper, Read(s)
  PROVE  Single'
<1>1. /\ outcome' = outcome /\ outcome[s] = None /\ rows' = rows
      /\ received' = received /\ again' = again /\ excused \subseteq excused'
      /\ \A d \in Id : batch[s][d] = None
      /\ \A d \in Id : batch'[s][d] = IF d \in Due THEN rows[d] ELSE None
      /\ \A q \in Sweeper, d \in Id : q # s => batch'[q][d] = batch[q][d]
  BY DEF Read, table, Batched, TypeOK
<1>2. Apart'
  BY <1>1 DEF Single, Apart, Writing
<1>3. ASSUME NEW d \in Id, d \notin excused'
      PROVE  /\ \A q, o \in Sweeper : Has(q, d)' /\ Has(o, d)' => q = o
             /\ d \in received =>
                  /\ \A q \in Sweeper : batch'[q][d] = None
                  /\ \A q \in Sweeper : Writing(q, d) => outcome[q].row.status = "delivered"
                  /\ \/ rows[d] # None /\ rows[d].status = "delivered"
                     \/ \E q \in Sweeper : Writing(q, d)
  <2>1. CASE d \in Due
    <3>1. \A o \in Sweeper : ~Has(o, d)
      BY <1>1, <1>3, <2>1 DEF Read, Batched, Has, Writing
    <3>2. d \notin received
      BY <1>1, <1>3, <2>1, <3>1 DEF Single, Once, Has, Due
    <3> QED BY <1>1, <3>1, <3>2 DEF Has, Writing
  <2>2. CASE d \notin Due
    <3>1. \A q \in Sweeper : batch'[q][d] = batch[q][d]
      BY <1>1, <2>2
    <3> QED BY <1>1, <1>3, <3>1 DEF Single, Once, Has, Writing
  <2> QED BY <2>1, <2>2
<1>4. Once'
  BY <1>1, <1>3 DEF Once, Writing
<1> QED BY <1>1, <1>2, <1>4 DEF Single, TwiceOnlyExcused

\* The one sweep that has a row the endpoint has not got sends it.
LEMMA SingleAttempt ==
  ASSUME TypeOK, Copies, Single, NEW s \in Sweeper, NEW d \in Id,
         Deliver(s, d) \/ Refuse(s, d) \/ TimeOut(s, d)
  PROVE  Single'
<1>1. PICK r : Settle(s, d, r) /\ (Deliver(s, d) => r = Delivered(batch[s][d]))
  BY DEF Deliver, Refuse, TimeOut
<1>2. Deliver(s, d) => r.status = "delivered"
  BY <1>1 DEF Delivered
<1>3. /\ outcome[s] = None /\ batch[s][d] # None /\ rows' = rows
      /\ excused \subseteq excused' /\ (TimeOut(s, d) => d \in excused')
      /\ received' \in {received, received \cup {d}}
      /\ received' = received \/ Deliver(s, d) \/ TimeOut(s, d)
      /\ outcome'[s] # None
      /\ again' \subseteq again \cup {d} /\ (d \notin received => again' = again)
  BY AttemptStep DEF Deliver, Refuse, TimeOut, Take, Batched, table
<1>4. /\ outcome'[s] = [id |-> d, row |-> r]
      /\ \A q \in Sweeper : q # s => outcome'[q] = outcome[q]
      /\ batch'[s][d] = None
      /\ \A q \in Sweeper, c \in Id : q # s \/ c # d => batch'[q][c] = batch[q][c]
  BY <1>1 DEF Settle, TypeOK
<1>5. [id |-> d, row |-> r].id = d /\ [id |-> d, row |-> r].row = r
  OBVIOUS
<1>6. d \in received => d \in excused
  BY <1>3 DEF Single, Once
<1>7. TwiceOnlyExcused'
  BY <1>3, <1>6 DEF Single, TwiceOnlyExcused
<1>8. Apart'
  BY <1>3, <1>4, <1>5 DEF Single, Apart, Writing
<1>9. ASSUME NEW c \in Id, c \notin excused'
      PROVE  /\ \A q, o \in Sweeper : Has(q, c)' /\ Has(o, c)' => q = o
             /\ c \in received' =>
                  /\ \A q \in Sweeper : batch'[q][c] = None
                  /\ \A q \in Sweeper : Writing(q, c)' => outcome'[q].row.status = "delivered"
                  /\ \/ rows'[c] # None /\ rows'[c].status = "delivered"
                     \/ \E q \in Sweeper : Writing(q, c)'
  <2>1. CASE c = d
    <3>1. \A q \in Sweeper : Has(q, d) => q = s
      BY <1>3, <1>9, <2>1 DEF Single, Once, Has
    <3>2. \A q \in Sweeper : q # s => ~Writing(q, d)' /\ batch'[q][d] = None
      BY <1>4, <3>1 DEF Has, Writing
    <3>3. d \in received' => r.status = "delivered" /\ Writing(s, d)'
      BY <1>2, <1>3, <1>4, <1>5, <1>6, <1>9, <2>1 DEF Writing
    <3> QED BY <1>4, <1>5, <2>1, <3>2, <3>3 DEF Has
  <2>2. CASE c # d
    <3>1. \A q \in Sweeper : /\ batch'[q][c] = batch[q][c]
                             /\ Writing(q, c)' <=> Writing(q, c)
                             /\ Writing(q, c) => outcome'[q] = outcome[q]
      BY <1>3, <1>4, <1>5, <2>2 DEF Writing
    <3> QED BY <1>3, <1>9, <2>2, <3>1 DEF Single, Once, Has
  <2> QED BY <2>1, <2>2
<1>10. Once'
  BY <1>9 DEF Once
<1> QED BY <1>7, <1>8, <1>10 DEF Single

LEMMA SingleUpdate ==
  ASSUME TypeOK, Single, NEW s \in Sweeper, Update(s)
  PROVE  Single'
<1> DEFINE d == outcome[s].id
<1>1. /\ outcome[s] # None /\ rows' = [rows EXCEPT ![d] = outcome[s].row]
      /\ outcome' = [outcome EXCEPT ![s] = None]
      /\ UNCHANGED <<batch, received, again, excused>>
  BY DEF Update, record
<1>2. d \in Id /\ outcome[s].row # None
  BY <1>1, Absent DEF TypeOK, Held
<1>3. /\ rows'[d] = outcome[s].row /\ \A c \in Id : c # d => rows'[c] = rows[c]
      /\ outcome'[s] = None
      /\ \A q \in Sweeper : q # s => outcome'[q] = outcome[q]
  BY <1>1, <1>2 DEF TypeOK
<1>4. \A q \in Sweeper, c \in Id : /\ Writing(q, c)' => Writing(q, c) /\ q # s
                                   /\ Writing(q, c) /\ c # d => Writing(q, c)'
  BY <1>3 DEF Writing
<1>5. Apart'
  BY <1>1, <1>4 DEF Single, Apart
<1>6. ASSUME NEW c \in Id, c \notin excused
      PROVE  /\ \A q, o \in Sweeper : Has(q, c)' /\ Has(o, c)' => q = o
             /\ c \in received =>
                  /\ \A q \in Sweeper : batch'[q][c] = None
                  /\ \A q \in Sweeper : Writing(q, c)' => outcome'[q].row.status = "delivered"
                  /\ \/ rows'[c] # None /\ rows'[c].status = "delivered"
                     \/ \E q \in Sweeper : Writing(q, c)'
  <2>1. \A q, o \in Sweeper : Has(q, c)' /\ Has(o, c)' => q = o
    BY <1>1, <1>4, <1>6 DEF Single, Once, Has
  <2>2. ASSUME c \in received
        PROVE  /\ \A q \in Sweeper : batch'[q][c] = None
               /\ \A q \in Sweeper : Writing(q, c)' => outcome'[q].row.status = "delivered"
    BY <1>1, <1>3, <1>4, <1>6, <2>2 DEF Single, Once
  <2>3. CASE c = d
    <3>1. Writing(s, c)
      BY <1>1, <2>3 DEF Writing
    <3>2. c \in received => rows'[c].status = "delivered"
      BY <1>3, <1>6, <2>3, <3>1 DEF Single, Once
    <3> QED BY <1>2, <1>3, <2>1, <2>2, <2>3, <3>2
  <2>4. CASE c # d
    <3>1. c \in received => \/ rows[c] # None /\ rows[c].status = "delivered"
                            \/ \E q \in Sweeper : Writing(q, c)
      BY <1>6 DEF Single, Once
    <3> QED BY <1>3, <1>4, <2>1, <2>2, <2>4, <3>1
  <2> QED BY <2>3, <2>4
<1>7. Once'
  BY <1>1, <1>6 DEF Once
<1> QED BY <1>1, <1>5, <1>7 DEF Single, TwiceOnlyExcused

\* A sweeper that dies with an unwritten outcome excuses its id.
LEMMA SingleCrash ==
  ASSUME TypeOK, Single, NEW s \in Sweeper, Crash(s)
  PROVE  Single'
<1>1. /\ rows' = rows /\ UNCHANGED <<received, again>> /\ excused \subseteq excused'
      /\ outcome'[s] = None /\ \A q \in Sweeper : q # s => outcome'[q] = outcome[q]
      /\ \A c \in Id : batch'[s][c] = None
      /\ \A q \in Sweeper : q # s => batch'[q] = batch[q]
      /\ outcome[s] # None => outcome[s].id \in excused'
  BY DEF Crash, TypeOK, table
<1>2. \A q \in Sweeper, c \in Id : Writing(q, c)' => Writing(q, c)
  BY <1>1 DEF Writing
<1>3. \A q \in Sweeper, c \in Id \ excused' : Writing(q, c) => Writing(q, c)' /\ q # s
  BY <1>1 DEF Writing
<1>4. Apart'
  BY <1>1, <1>2 DEF Single, Apart
<1>5. \A q \in Sweeper, c \in Id : Has(q, c)' => Has(q, c)
  BY <1>1, <1>2 DEF Has
<1>6. ASSUME NEW c \in Id, c \notin excused'
      PROVE  /\ \A q, o \in Sweeper : Has(q, c)' /\ Has(o, c)' => q = o
             /\ c \in received =>
                  /\ \A q \in Sweeper : batch'[q][c] = None
                  /\ \A q \in Sweeper : Writing(q, c)' => outcome'[q].row.status = "delivered"
                  /\ \/ rows[c] # None /\ rows[c].status = "delivered"
                     \/ \E q \in Sweeper : Writing(q, c)'
  BY <1>1, <1>2, <1>3, <1>5, <1>6 DEF Single, Once
<1>7. Once'
  BY <1>1, <1>6 DEF Once
<1> QED BY <1>1, <1>4, <1>7 DEF Single, TwiceOnlyExcused

LEMMA SingleStep ==
  ASSUME TypeOK, Copies, Single, [Next]_vars
  PROVE  Single'
<1>1. CASE \E s \in Sweeper : Sweep(s) \/ Crash(s)
  BY <1>1, SingleRead, SingleUpdate, SingleAttempt, SingleCrash DEF Sweep
<1>2. CASE ~\E s \in Sweeper : Sweep(s) \/ Crash(s)
  BY <1>2, SingleElsewhere DEF Next
<1> QED BY <1>1, <1>2

-----------------------------------------------------------------------------
(* What is queued                                                          *)

\* A row keeps its event, so an event once queued stays queued.
LEMMA QueuedStep ==
  ASSUME TypeOK, Grows, Fanout, QueuedUnlessLost, [Next]_vars
  PROVE  Fanout' /\ QueuedUnlessLost'
<1>1. CASE \E e \in Event, t \in Stamp : Emit(e, t)
  <2> PICK e \in Event, t \in Stamp : Emit(e, t)
    BY <1>1
  <2>1. /\ emit = None /\ emit' = [event |-> e, at |-> t, left |-> registered]
        /\ \A x \in emitted : x[1] # e
        /\ emitted' = emitted \cup {<<e, p, <<p, t>>>> : p \in registered}
        /\ lost' = lost /\ rows' = rows
    BY DEF Emit, table
  <2>2. emit'.event = e /\ emit'.at = t /\ emit'.left = registered
    BY <2>1
  <2>3. emit' # None
    <3>1. emit' \in Fan
      BY <2>1 DEF Fan, TypeOK
    <3> QED BY <3>1, Absent
  <2>4. \A x \in emitted' : \/ x \in emitted
                            \/ /\ x[1] = e /\ x[2] \in registered
                               /\ x[3] = <<x[2], t>>
    BY <2>1
  <2>5. Fanout'
    BY <2>1, <2>2, <2>4 DEF Fanout
  <2>6. QueuedUnlessLost'
    BY <2>1, <2>2, <2>3, <2>4 DEF QueuedUnlessLost
  <2> QED BY <2>5, <2>6
<1>2. CASE \E p \in Endpoint : Queue(p)
  <2> PICK p \in Endpoint : Queue(p)
    BY <1>2
  <2> DEFINE d == <<p, emit.at>>
  <2>1. /\ emit # None /\ emitted' = emitted /\ emit \in Fan /\ d \in Id
        /\ rows' = [rows EXCEPT ![d] = Inserted(d, emit.event)]
        /\ lost \subseteq lost'
        /\ rows[d] # None => <<emit.event, p>> \in lost'
        /\ emit' # None => /\ emit'.event = emit.event /\ emit'.at = emit.at
                           /\ emit'.left = emit.left \ {p}
        /\ emit' = None => emit.left = {p}
    <3>1. emit # None /\ emit \in Fan
      BY DEF Queue, TypeOK
    <3>2. d \in Id
      BY <3>1 DEF Fan, Id
    <3>3. [emit EXCEPT !.left = @ \ {p}] \in Fan
      BY <3>1 DEF Fan
    <3>4. /\ [emit EXCEPT !.left = @ \ {p}].event = emit.event
          /\ [emit EXCEPT !.left = @ \ {p}].at = emit.at
          /\ [emit EXCEPT !.left = @ \ {p}].left = emit.left \ {p}
      BY <3>1 DEF Fan
    <3> QED BY <3>1, <3>2, <3>3, <3>4, Absent DEF Queue
  <2>2. rows'[d] # None /\ (rows[d] = None => rows'[d].event = emit.event)
    <3>1. Fresh(emit.event) \in Row /\ Fresh(emit.event).event = emit.event
      BY <2>1, OutboxAssumption DEF Fan, Fresh, Row, Status
    <3> QED BY <2>1, <3>1, Absent DEF Inserted, TypeOK
  <2>3. Fanout'
    BY <2>1 DEF Fanout
  <2>4. ASSUME NEW x \in emitted
        PROVE  \/ rows'[x[3]] # None /\ rows'[x[3]].event = x[1]
               \/ emit' # None /\ emit'.event = x[1] /\ x[2] \in emit'.left
               \/ <<x[1], x[2]>> \in lost'
    <3>0. x[3] \in Id
      BY DEF TypeOK
    <3>1. CASE rows[x[3]] # None /\ rows[x[3]].event = x[1]
      BY <3>0, <3>1 DEF Grows
    <3>2. CASE emit.event = x[1] /\ x[2] \in emit.left /\ x[2] # p
      BY <2>1, <3>2
    <3>3. CASE emit.event = x[1] /\ x[2] = p
      <4>1. x[3] = d
        BY <2>1, <3>3 DEF Fanout
      <4> QED BY <2>1, <2>2, <3>3, <4>1
    <3>4. CASE <<x[1], x[2]>> \in lost
      BY <2>1, <3>4
    <3> QED BY <3>1, <3>2, <3>3, <3>4 DEF QueuedUnlessLost
  <2>5. QueuedUnlessLost'
    BY <2>1, <2>4 DEF QueuedUnlessLost
  <2> QED BY <2>3, <2>5
<1>3. CASE WebCrash
  <2>1. /\ emit # None /\ emit' = None /\ emitted' = emitted
        /\ lost' = lost \cup {<<emit.event, p>> : p \in emit.left}
    BY <1>3 DEF WebCrash
  <2>2. \A x \in emitted : x[3] \in Id
    BY DEF TypeOK
  <2> QED BY <2>1, <2>2 DEF Fanout, QueuedUnlessLost, Grows
<1>4. CASE UNCHANGED web
  <2>1. emit' = emit /\ emitted' = emitted /\ lost' = lost
    BY <1>4 DEF web
  <2>2. \A x \in emitted : x[3] \in Id
    BY DEF TypeOK
  <2> QED BY <2>1, <2>2 DEF Fanout, QueuedUnlessLost, Grows
<1>5. \/ \E e \in Event, t \in Stamp : Emit(e, t)
      \/ \E p \in Endpoint : Queue(p)
      \/ WebCrash \/ UNCHANGED web
  BY DEF Next, Sweep, Read, Deliver, Refuse, TimeOut, Update, Crash, Elapse,
     ReplayRead, ReplayWrite, Unregister, vars
<1> QED BY <1>1, <1>2, <1>3, <1>4, <1>5

LEMMA Invariance == Spec => []IInv
<1>1. IInv /\ [Next]_vars => IInv'
  BY CopiesStep, SingleStep, QueuedStep DEF IInv, Single
<1> QED BY Initially, <1>1, PTL DEF Spec

\* What the table and its copies hold is of the right type, for any number of
\* sweepers, endpoints, events and attempts.
THEOREM TypeCorrect == Spec => []TypeOK
<1>1. IInv => TypeOK
  BY DEF IInv
<1> QED BY Invariance, <1>1, PTL

\* deliver_due sends an event twice to an endpoint only after a lost answer, a
\* crash between the POST and the update, two sweeps at one time, or a replay.
THEOREM DuplicatesAreExcused == Spec => []TwiceOnlyExcused
<1>1. IInv => TwiceOnlyExcused
  BY DEF IInv
<1> QED BY Invariance, <1>1, PTL

\* A row that says delivered is of an endpoint that has the event, whoever
\* wrote the row last.
THEOREM DeliveredIsTrue == Spec => []DeliveredMeansReceived
<1>1. IInv => DeliveredMeansReceived
  BY DEF IInv, Copies, RowCopies, Copy, CopyOf, DeliveredMeansReceived
<1> QED BY Invariance, <1>1, PTL

\* A dead letter had all its attempts: each copy of its row counts no more of
\* them than were made.
THEOREM DeadIsExhausted == Spec => []DeadMeansExhausted
<1>1. ASSUME IInv, NEW d \in Id, rows[d] # None, rows[d].status = "dead"
      PROVE  tries[d] = Max
  <2>1. /\ rows[d].attempts \in Nat /\ rows[d].attempts >= Max
        /\ rows[d].attempts <= tries[d] \/ tries[d] = Max
    BY <1>1 DEF IInv, Copies, RowCopies, Copy, CopyOf
  <2>2. tries[d] \in 0..Max /\ Max \in Nat
    BY <1>1, OutboxAssumption DEF IInv, TypeOK
  <2> QED BY <2>1, <2>2
<1>2. IInv => DeadMeansExhausted
  BY <1>1 DEF DeadMeansExhausted
<1> QED BY Invariance, <1>2, PTL

\* An event is queued for every endpoint that wanted it, or was lost to a crash
\* in the fan-out or to an earlier event of its second.
THEOREM EventsAreQueued == Spec => []QueuedUnlessLost
<1>1. IInv => QueuedUnlessLost
  BY DEF IInv
<1> QED BY Invariance, <1>1, PTL
=============================================================================
