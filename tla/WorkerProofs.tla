---------------------------- MODULE WorkerProofs ----------------------------
(***************************************************************************)
(* That two workers run the jobs at one time only when one of them has     *)
(* outstayed its lease, for any number of workers, any lease length and    *)
(* any clock.  The argument follows a worker's tenure: from the moment it  *)
(* reads the lease back as its own until it goes idle, the row either      *)
(* still names it and ends TTL after its tick began, or was taken by a     *)
(* worker whose own reading of the clock was no earlier than that end.     *)
(***************************************************************************)
EXTENDS Worker, TLAPS

Runs == {"load", "deliver", "save", "renew"}

Clocks == /\ now \in Nat
          /\ lease \in {None} \cup [holder : Workers, expires : Nat]
          /\ pc \in [Workers -> Stage] /\ at \in [Workers -> Nat]
          /\ \A w \in Workers : at[w] <= now

Tenure ==
  \A w \in Workers :
    /\ pc[w] \in Runs \cup {"readback"} /\ Holds(w) =>
         lease.expires = at[w] + TTL
    /\ pc[w] \in Runs /\ ~Holds(w) => now >= at[w] + TTL

IInv == Clocks /\ Tenure

\* A step of a job moves its worker from one place among the jobs to another.
LEMMA JobStep ==
  ASSUME IInv, NEW w \in Workers, NEW x \in Runs, pc[w] \in Runs,
         pc' = [pc EXCEPT ![w] = x], at' = at, lease' = lease, now' = now
  PROVE  IInv'
<1>1. x \in Stage
  BY DEF Runs, Stage
<1>2. Clocks'
  BY <1>1 DEF IInv, Clocks
<1>3. ASSUME NEW v \in Workers
      PROVE  /\ pc'[v] \in Runs <=> pc[v] \in Runs
             /\ pc'[v] = "readback" => pc[v] = "readback"
  BY DEF IInv, Clocks, Runs
<1>4. Tenure'
  BY <1>3 DEF IInv, Tenure, Holds
<1> QED BY <1>2, <1>4 DEF IInv

\* Proceed is what every step of a job ends with.
LEMMA Proceeding ==
  ASSUME IInv, NEW w \in Workers, NEW loaded, NEW rest, NEW unsaved,
         pc[w] \in Runs, Proceed(w, loaded, rest, unsaved),
         at' = at, lease' = lease, now' = now
  PROVE  IInv'
<1>1. \E x \in Runs : pc' = [pc EXCEPT ![w] = x]
  BY DEF Proceed, AfterJob, Runs
<1> QED BY <1>1, JobStep

LEMMA Preserved == IInv /\ [Next]_vars => IInv'
<1> SUFFICES ASSUME IInv, [Next]_vars PROVE IInv'
  OBVIOUS
<1> USE WorkerAssumption
<1>1. ASSUME NEW w \in Workers, Wake(w) PROVE IInv'
  <2>1. Clocks'
    BY <1>1 DEF Wake, IInv, Clocks, Stage, world
  <2>2. Tenure'
    BY <1>1 DEF Wake, IInv, Clocks, Tenure, Holds, Runs, world
  <2> QED BY <2>1, <2>2 DEF IInv
<1>2. ASSUME NEW w \in Workers, Acquire(w) PROVE IInv'
  <2>1. Clocks'
    BY <1>2 DEF Acquire, IInv, Clocks, Stage, world
  <2>2. CASE Grantable(w, at[w])
    <3>1. lease' = [holder |-> w, expires |-> at[w] + TTL] /\ now' = now /\ at' = at
      BY <1>2, <2>2 DEF Acquire, world
    <3>2. ASSUME NEW v \in Workers, v # w, pc[v] \in Runs
          PROVE  now >= at[v] + TTL
      <4>1. CASE Holds(v)
        BY <3>2, <4>1, <2>2, <2>1 DEF Grantable, Holds, IInv, Tenure, Clocks
      <4>2. CASE ~Holds(v)
        BY <3>2, <4>2 DEF IInv, Tenure
      <4> QED BY <4>1, <4>2
    <3>3. pc'[w] = "readback" /\ \A v \in Workers : v # w => pc'[v] = pc[v]
      BY <1>2 DEF Acquire, IInv, Clocks
    <3>4. "readback" \notin Runs /\ lease' # None => TRUE
      OBVIOUS
    <3>5. ASSUME NEW v \in Workers
          PROVE  /\ (pc[v] \in Runs \cup {"readback"} /\ Holds(v) =>
                       lease.expires = at[v] + TTL)'
                 /\ (pc[v] \in Runs /\ ~Holds(v) => now >= at[v] + TTL)'
      <4>1. CASE v = w
        BY <3>1, <3>3, <4>1 DEF Runs
      <4>2. CASE v # w
        BY <3>1, <3>2, <3>3, <4>2 DEF Holds
      <4> QED BY <4>1, <4>2
    <3> QED BY <2>1, <3>5 DEF IInv, Tenure
  <2>3. CASE ~Grantable(w, at[w])
    <3>1. lease' = lease /\ ~Holds(w) /\ now' = now /\ at' = at
      BY <1>2, <2>3 DEF Acquire, Grantable, Holds, world
    <3>2. pc'[w] = "readback" /\ \A v \in Workers : v # w => pc'[v] = pc[v]
      BY <1>2 DEF Acquire, IInv, Clocks
    <3>3. Tenure'
      BY <3>1, <3>2 DEF IInv, Tenure, Holds, Runs
    <3> QED BY <2>1, <3>3 DEF IInv
  <2> QED BY <2>2, <2>3
<1>3. ASSUME NEW w \in Workers, ReadBack(w) PROVE IInv'
  <2>1. CASE Holds(w)
    <3>1. pc' = [pc EXCEPT ![w] = "load"] /\ at' = at /\ lease' = lease /\ now' = now
      BY <1>3, <2>1 DEF ReadBack, world
    <3>2. pc[w] = "readback"
      BY <1>3 DEF ReadBack
    <3>3. Clocks'
      BY <3>1 DEF IInv, Clocks, Stage
    <3>4. Tenure'
      BY <2>1, <3>1, <3>2 DEF IInv, Clocks, Tenure, Holds, Runs
    <3> QED BY <3>3, <3>4 DEF IInv
  <2>2. CASE ~Holds(w)
    <3>1. /\ pc' = [pc EXCEPT ![w] = "idle"] /\ at' = [at EXCEPT ![w] = 0]
          /\ lease' = lease /\ now' = now
      BY <1>3, <2>2 DEF ReadBack, world
    <3>2. Clocks'
      BY <3>1 DEF IInv, Clocks, Stage
    <3>3. Tenure'
      BY <3>1 DEF IInv, Clocks, Tenure, Holds, Runs
    <3> QED BY <3>2, <3>3 DEF IInv
  <2> QED BY <2>1, <2>2
<1>4. ASSUME NEW w \in Workers, Renew(w) PROVE IInv'
  <2>1. /\ pc' = [pc EXCEPT ![w] = "idle"] /\ at' = [at EXCEPT ![w] = 0]
        /\ now' = now
        /\ lease' = IF Holds(w) THEN [lease EXCEPT !.expires = at[w] + TTL]
                    ELSE lease
    BY <1>4 DEF Renew, world
  <2>2. Clocks' /\ (\A v \in Workers : v # w => (Holds(v)' <=> Holds(v)))
    BY <2>1 DEF IInv, Clocks, Stage, Holds
  <2>3. ASSUME NEW v \in Workers, v # w, Holds(v) PROVE lease' = lease
    BY <2>1, <2>3 DEF Holds
  <2>4. Tenure'
    BY <2>1, <2>2, <2>3 DEF IInv, Clocks, Tenure, Runs
  <2> QED BY <2>2, <2>4 DEF IInv
<1>5. ASSUME NEW w \in Workers, LoadRows(w) \/ LoadAlerts(w) PROVE IInv'
  <2>1. pc[w] \in Runs
    BY <1>5 DEF LoadRows, LoadAlerts, Runs
  <2> QED BY <1>5, <2>1, Proceeding DEF LoadRows, LoadAlerts, world
<1>6. ASSUME NEW w \in Workers, NEW k \in Entry,
             Skip(w, k) \/ Send(w, k) \/ SaveRow(w, k)
      PROVE  IInv'
  <2>1. pc[w] \in Runs
    BY <1>6 DEF Skip, Send, SaveRow, Runs
  <2> QED BY <1>6, <2>1, Proceeding DEF Skip, Send, SaveRow, world
<1>7. ASSUME NEW w \in Workers, NEW c \in Condition, SendAlert(w, c) PROVE IInv'
  <2>1. pc[w] \in Runs
    BY <1>7 DEF SendAlert, Runs
  <2> QED BY <1>7, <2>1, Proceeding DEF SendAlert, world
<1>8. ASSUME NEW w \in Workers, NEW k \in Entry \cup Condition, Raise(w, k)
      PROVE  IInv'
  <2>1. pc[w] \in Runs
    BY <1>8 DEF Raise, Runs
  <2> QED BY <1>8, <2>1, Proceeding DEF Raise, world
<1>9. ASSUME NEW w \in Workers, Crash(w) PROVE IInv'
  <2>1. /\ pc' = [pc EXCEPT ![w] = "idle"] /\ at' = [at EXCEPT ![w] = 0]
        /\ lease' = lease /\ now' = now
    BY <1>9 DEF Crash, world
  <2>2. Clocks'
    BY <2>1 DEF IInv, Clocks, Stage
  <2>3. Tenure'
    BY <2>1 DEF IInv, Clocks, Tenure, Holds, Runs
  <2> QED BY <2>2, <2>3 DEF IInv
<1>10. ASSUME Tick PROVE IInv'
  <2>1. now' = now + 1 /\ pc' = pc /\ at' = at /\ lease' = lease
    BY <1>10 DEF Tick, worker
  <2> QED BY <2>1 DEF IInv, Clocks, Tenure, Holds
<1>11. ASSUME now' = now, pc' = pc, at' = at, lease' = lease PROVE IInv'
  BY <1>11 DEF IInv, Clocks, Tenure, Holds
<1>12. ASSUME NEW k \in Entry, OwnerRead(k) \/ Remove(k) \/ ScheduleReport(k)
       PROVE  IInv'
  BY <1>11, <1>12 DEF OwnerRead, Remove, ScheduleReport, world, worker
<1>13. ASSUME OwnerWrite PROVE IInv'
  BY <1>11, <1>13 DEF OwnerWrite, world, worker
<1>14. ASSUME NEW c \in Condition, Appear(c) \/ Clear(c) PROVE IInv'
  BY <1>11, <1>14 DEF Appear, Clear, worker
<1>15. CASE UNCHANGED vars
  BY <1>11, <1>15 DEF vars, world, worker
<1> QED
  BY <1>1, <1>2, <1>3, <1>4, <1>5, <1>6, <1>7, <1>8, <1>9, <1>10, <1>12,
     <1>13, <1>14, <1>15 DEF Next, Step, Fault, Entry

\* "The lease guarantees no two workers run the job set in the same window"
\* (LeasedDispatcher), as far as it goes: of two that run, one is past the end of
\* the lease it was granted when its tick began.
THEOREM OneRunner == Spec => []OneRunnerUnlessOverrun
<1>1. Init => IInv
  BY WorkerAssumption DEF Init, IInv, Clocks, Tenure, Stage, Runs
<1>2. IInv => OneRunnerUnlessOverrun
  <2> SUFFICES ASSUME IInv, NEW v \in running, NEW w \in running, v # w
               PROVE  now >= at[v] + TTL \/ now >= at[w] + TTL
    BY DEF OneRunnerUnlessOverrun
  <2>1. v \in Workers /\ w \in Workers /\ pc[v] \in Runs /\ pc[w] \in Runs
    BY DEF running, Runs
  <2>2. ~Holds(v) \/ ~Holds(w)
    BY DEF Holds
  <2> QED BY <2>1, <2>2 DEF IInv, Tenure
<1> QED BY <1>1, <1>2, Preserved, PTL DEF Spec
=============================================================================
