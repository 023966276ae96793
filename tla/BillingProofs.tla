--------------------------- MODULE BillingProofs ---------------------------
(***************************************************************************)
(* That the stored account keeps to its plan, for any number of requests,  *)
(* businesses and plans.  The invariant says of every row a request is     *)
(* about to save what it says of the stored one: a row is checked when it  *)
(* is read and saved whole, so it does not matter which save comes last.   *)
(***************************************************************************)
EXTENDS Billing, FiniteSetTheorems, TLAPS

Fits(a) == /\ a \in Row /\ IsFiniteSet(a.tenants)
           /\ forced \/ Holds(a.tier, Cardinality(a.tenants))

Waiting == {"then", "down", "up", "done", "close"}

IInv ==
  /\ Fits(row) /\ paid \in 0..MaxSubs
  /\ req \in [Request -> {None} \cup [op : Op, new : Row \cup {None}]]
  /\ \A r \in Request : req[r] # None => req[r].op \in Waiting \/ Fits(req[r].new)

\* A request that begins with a row that fits keeps the invariant.
LEMMA BeginFits ==
  ASSUME IInv, NEW r \in Request, NEW op \in Op, NEW a \in Row,
         Begin(r, op, a), IsFiniteSet(a.tenants), row' = row, paid' = paid,
         forced => forced', forced' \/ Holds(a.tier, Cardinality(a.tenants))
  PROVE  IInv'
<1>1. req' = [req EXCEPT ![r] = [op |-> op, new |-> a]]
  BY DEF Begin
<1>2. [op |-> op, new |-> a] \in [op : Op, new : Row \cup {None}]
  OBVIOUS
<1>3. req' \in [Request -> {None} \cup [op : Op, new : Row \cup {None}]]
  BY <1>1, <1>2 DEF IInv
<1>4. ASSUME NEW o \in Request, req'[o] # None
      PROVE  (req[o].op \in Waiting \/ Fits(req[o].new))'
  <2>1. CASE o = r
    <3>1. req'[o].new = a
      BY <1>1, <2>1 DEF IInv
    <3> QED BY <3>1 DEF Fits, Holds
  <2>2. CASE o # r
    <3>1. req'[o] = req[o]
      BY <1>1, <2>2 DEF IInv
    <3> QED BY <1>4, <3>1 DEF IInv, Fits, Holds
  <2> QED BY <2>1, <2>2
<1>5. Fits(row)' /\ paid' \in 0..MaxSubs
  BY DEF IInv, Fits
<1> QED BY <1>3, <1>4, <1>5 DEF IInv, Fits, Holds

\* One business more, one less, another plan: the row still fits when the
\* check that guards the request says so.
LEMMA AttachFits ==
  ASSUME IInv, NEW t \in Tenant, t \in row.tenants \/ CanAddTenant(row)
  PROVE  LET a == [row EXCEPT !.tenants = @ \cup {t}]
         IN  /\ a \in Row /\ IsFiniteSet(a.tenants)
             /\ forced \/ Holds(a.tier, Cardinality(a.tenants))
<1> DEFINE a == [row EXCEPT !.tenants = @ \cup {t}]
<1>1. row \in Row /\ IsFiniteSet(row.tenants)
  BY DEF IInv, Fits
<1>2. a \in Row /\ a.tenants = row.tenants \cup {t} /\ a.tier = row.tier
  BY <1>1 DEF Row
<1>3. CASE t \in row.tenants
  <2>1. a.tenants = row.tenants
    BY <1>2, <1>3
  <2> QED BY <1>1, <1>2, <2>1 DEF IInv, Fits
<1>4. CASE t \notin row.tenants
  <2>1. Cardinality(row.tenants \cup {t}) = Cardinality(row.tenants) + 1
    BY <1>1, <1>4, FS_AddElement
  <2>2. IsFiniteSet(row.tenants \cup {t})
    BY <1>1, FS_AddElement
  <2> QED BY <1>2, <1>4, <2>1, <2>2 DEF CanAddTenant
<1> QED BY <1>3, <1>4

LEMMA DetachFits ==
  ASSUME IInv, NEW t \in Tenant
  PROVE  LET a == [row EXCEPT !.tenants = @ \ {t}]
         IN  /\ a \in Row /\ IsFiniteSet(a.tenants)
             /\ forced \/ Holds(a.tier, Cardinality(a.tenants))
<1> DEFINE a == [row EXCEPT !.tenants = @ \ {t}]
<1>1. row \in Row /\ IsFiniteSet(row.tenants)
  BY DEF IInv, Fits
<1>2. a \in Row /\ a.tenants = row.tenants \ {t} /\ a.tier = row.tier
  BY <1>1 DEF Row
<1>3. /\ IsFiniteSet(row.tenants \ {t})
      /\ Cardinality(row.tenants \ {t}) <= Cardinality(row.tenants)
  BY <1>1, FS_Subset
<1>4. Cardinality(row.tenants \ {t}) \in Nat /\ Cardinality(row.tenants) \in Nat
  BY <1>1, <1>3, FS_CardinalityType
<1>5. row.tier \in Tier /\ (row.tier \in Multi \/ Included[row.tier] \in Nat)
  BY <1>1, BillingAssumption DEF Row
<1>6. Holds(row.tier, Cardinality(row.tenants)) =>
        Holds(row.tier, Cardinality(row.tenants \ {t}))
  BY <1>3, <1>4, <1>5 DEF Holds
<1> QED BY <1>2, <1>3, <1>6 DEF IInv, Fits

LEMMA PlanFits ==
  ASSUME IInv, NEW p \in Tier, Allowed(row, p)
  PROVE  forced \/ Holds(p, Cardinality(row.tenants))
<1>1. row.tier \in Tier /\ Cardinality(row.tenants) \in Nat
  BY FS_CardinalityType DEF IInv, Fits, Row
<1>2. CASE Price[p] < Price[row.tier]
  BY <1>2 DEF Allowed
<1>3. CASE ~(Price[p] < Price[row.tier])
  <2>1. Price[row.tier] <= Price[p]
    BY <1>1, <1>3, BillingAssumption
  <2>2. p \in Multi \/ (row.tier \notin Multi /\ Included[row.tier] <= Included[p])
    BY <1>1, <2>1, PlansGrow
  <2>3. Included[row.tier] \in Nat /\ Included[p] \in Nat
    BY <1>1, BillingAssumption
  <2> QED BY <1>1, <2>2, <2>3 DEF IInv, Fits, Holds
<1> QED BY <1>2, <1>3

LEMMA Initially == Init => IInv
<1> SUFFICES ASSUME Init PROVE IInv
  OBVIOUS
<1>1. PICK p \in Tier : row = [tier |-> p, status |-> "trialing", tenants |-> {},
                               sub |-> 0]
  BY DEF Init
<1>2. row \in Row /\ IsFiniteSet(row.tenants) /\ Cardinality(row.tenants) = 0
  BY <1>1, BillingAssumption, FS_EmptySet DEF Row, Status
<1>3. Holds(row.tier, 0)
  BY <1>1, BillingAssumption DEF Holds
<1>4. paid \in 0..MaxSubs
  BY BillingAssumption DEF Init
<1> QED BY <1>2, <1>3, <1>4 DEF Init, IInv, Fits

\* The steps that begin no request.
LEMMA LaterSteps ==
  ASSUME IInv, NEW r \in Request,
         Save(r) \/ Note(r) \/ SetActive(r) \/ Provision(r) \/ Finalize(r)
  PROVE  IInv'
<1>0. req[r] # None => req[r] \in [op : Op, new : Row \cup {None}]
  BY DEF IInv
<1>1. CASE Save(r)
  <2>1. Fits(req[r].new) /\ row' = req[r].new
    BY <1>1 DEF Save, WholeRow, IInv, Waiting
  <2>2. After(req[r].op) \in Op \cup {"end"} /\ (After(req[r].op) # "end" =>
                                                 After(req[r].op) \in Waiting)
    BY DEF After, Op, Waiting
  <2>3. /\ req' \in [Request -> {None} \cup [op : Op, new : Row \cup {None}]]
        /\ req'[r] # None => req'[r].op \in Waiting
        /\ \A o \in Request : o # r => req'[o] = req[o]
    BY <1>1, <2>2 DEF Save, IInv
  <2> QED BY <1>1, <2>1, <2>3 DEF Save, IInv, Fits, processor
<1>2. CASE SetActive(r)
  <2>1. [row EXCEPT !.status = "active"] \in Row
    BY DEF IInv, Fits, Row, Status
  <2>2. [row EXCEPT !.status = "active"].tenants = row.tenants
        /\ [row EXCEPT !.status = "active"].tier = row.tier
    BY DEF IInv, Fits, Row
  <2>3. Fits([row EXCEPT !.status = "active"])
    BY <2>1, <2>2 DEF IInv, Fits
  <2>4. "status" \in Op
    BY DEF Op
  <2>5. /\ req' \in [Request -> {None} \cup [op : Op, new : Row \cup {None}]]
        /\ req'[r].new = [row EXCEPT !.status = "active"]
        /\ \A o \in Request : o # r => req'[o] = req[o]
    BY <1>2, <2>1, <2>4 DEF SetActive, IInv
  <2> QED BY <1>2, <2>3, <2>5 DEF SetActive, IInv, Fits, processor, record
<1>3. CASE Note(r) \/ Provision(r) \/ Finalize(r)
  <2>1. /\ req' = [req EXCEPT ![r] = None] /\ row' = row /\ paid' = paid
        /\ forced' = forced
    BY <1>3 DEF Note, Provision, Finalize, processor, record
  <2> QED BY <2>1 DEF IInv, Fits
<1> QED BY <1>1, <1>2, <1>3

LEMMA Preserved == IInv /\ [Next]_vars => IInv'
<1> SUFFICES ASSUME IInv, [Next]_vars PROVE IInv'
  OBVIOUS
<1>0. row \in Row /\ IsFiniteSet(row.tenants)
      /\ (forced \/ Holds(row.tier, Cardinality(row.tenants)))
  BY DEF IInv, Fits
<1>1. ASSUME NEW r \in Request, NEW t \in Tenant, Attach(r, t) PROVE IInv'
  BY <1>1, AttachFits, BeginFits DEF Attach, Op, processor, record
<1>2. ASSUME NEW r \in Request, NEW t \in Tenant, Detach(r, t) PROVE IInv'
  BY <1>2, DetachFits, BeginFits DEF Detach, Op, processor, record
<1>3. ASSUME NEW r \in Request, NEW p \in Tier, ChangePlan(r, p) PROVE IInv'
  <2> DEFINE a == [row EXCEPT !.tier = p]
  <2>1. a \in Row /\ a.tier = p /\ a.tenants = row.tenants
    BY <1>0 DEF Row
  <2>2. forced \/ Holds(p, Cardinality(row.tenants))
    BY <1>3, PlanFits DEF ChangePlan
  <2> QED BY <1>0, <1>3, <2>1, <2>2, BeginFits DEF ChangePlan, Op, record
<1>4. ASSUME NEW r \in Request, NEW p \in Tier, SetPlan(r, p) PROVE IInv'
  <2> DEFINE a == [row EXCEPT !.tier = p]
  <2>1. a \in Row /\ a.tier = p /\ a.tenants = row.tenants
    BY <1>0 DEF Row
  <2> QED BY <1>0, <1>4, <2>1, BeginFits DEF SetPlan, Op
<1>5. ASSUME NEW r \in Request, Activate(r) PROVE IInv'
  <2>1. PICK i \in Sub : /\ Ensure(i, row.tier)
                         /\ Begin(r, "activate", [row EXCEPT !.status = "active",
                                                             !.sub = i])
    BY <1>5 DEF Activate
  <2> DEFINE a == [row EXCEPT !.status = "active", !.sub = i]
  <2>2. i \in 0..MaxSubs /\ "active" \in Status
    BY BillingAssumption DEF Sub, Status
  <2>3. a \in Row /\ a.tier = row.tier /\ a.tenants = row.tenants
    BY <1>0, <2>2 DEF Row
  <2>4. row' = row /\ paid' = paid /\ forced' = forced
    BY <1>5 DEF Activate, record
  <2>5. "activate" \in Op
    BY DEF Op
  <2>6. Begin(r, "activate", a)
    BY <2>1
  <2>7. /\ IsFiniteSet(a.tenants)
        /\ forced' \/ Holds(a.tier, Cardinality(a.tenants))
    BY <1>0, <2>3, <2>4
  <2> HIDE DEF a
  <2> QED BY <2>3, <2>4, <2>5, <2>6, <2>7, BeginFits
<1>6. ASSUME NEW r \in Request, NEW s \in Status, NEW op \in Op,
             Begin(r, op, [row EXCEPT !.status = s]), row' = row, paid' = paid,
             forced' = forced
      PROVE  IInv'
  <2> DEFINE a == [row EXCEPT !.status = s]
  <2>1. a \in Row /\ a.tier = row.tier /\ a.tenants = row.tenants
    BY <1>0 DEF Row
  <2> QED BY <1>0, <1>6, <2>1, BeginFits
<1>7. ASSUME NEW r \in Request, Cancel(r) PROVE IInv'
  BY <1>6, <1>7 DEF Cancel, Op, Status
<1>8. ASSUME NEW r \in Request, Pause(r) PROVE IInv'
  BY <1>6, <1>8 DEF Pause, Op, Status, processor, record
<1>9. ASSUME NEW r \in Request, Resume(r) \/ Reactivate(r) PROVE IInv'
  BY <1>6, <1>9 DEF Resume, Reactivate, Revive, Op, Status, record
<1>10. ASSUME NEW r \in Request, Completed(r) PROVE IInv'
  <2> DEFINE a == [row EXCEPT !.sub = paid]
  <2>1. a \in Row /\ a.tier = row.tier /\ a.tenants = row.tenants
    BY <1>0 DEF IInv, Row
  <2> QED BY <1>0, <1>10, <2>1, BeginFits DEF Completed, Op, processor, record
<1>11. ASSUME NEW r \in Request, ClosePeriod(r) PROVE IInv'
  <2>1. req' = [req EXCEPT ![r] = [op |-> "close", new |-> None]]
    BY <1>11 DEF ClosePeriod, Begin
  <2>2. "close" \in Op /\ "close" \in Waiting
    BY DEF Op, Waiting
  <2>3. /\ req' \in [Request -> {None} \cup [op : Op, new : Row \cup {None}]]
        /\ req'[r].op = "close"
        /\ \A o \in Request : o # r => req'[o] = req[o]
    BY <2>1, <2>2 DEF IInv
  <2> QED BY <1>11, <2>2, <2>3 DEF ClosePeriod, IInv, Fits, processor, record
<1>12. ASSUME Pay PROVE IInv'
  BY <1>12, BillingAssumption DEF Pay, IInv, Fits, Sub, record
<1>13. ASSUME Lapse PROVE IInv'
  BY <1>13 DEF Lapse, IInv, Fits, processor
<1>14. ASSUME Restart PROVE IInv'
  BY <1>14 DEF Restart, IInv, Fits, processor, record
<1>15. CASE UNCHANGED vars
  BY <1>15 DEF vars, IInv, Fits, processor, record
<1> QED
  BY <1>1, <1>2, <1>3, <1>4, <1>5, <1>7, <1>8, <1>9, <1>10, <1>11, <1>12,
     <1>13, <1>14, <1>15, LaterSteps DEF Next, Handle

\* The stored account never has more businesses than its plan can hold, unless
\* an operator's change_tier put it there: attach_tenant and change_plan check a
\* row and save it whole, however many requests overlap.
THEOREM AccountKeepsToItsPlan == Spec => []PlanHoldsTenants
<1>1. IInv => PlanHoldsTenants
  BY DEF IInv, Fits, PlanHoldsTenants
<1> QED BY <1>1, Initially, Preserved, PTL DEF Spec

-----------------------------------------------------------------------------
(* Types: a request's row names a subscription that was created            *)

Created(i) == i = 0 \/ (i \in Sub /\ subs[i] # None)
Exists(i)  == i = 0 \/ (i \in Sub /\ subs'[i] # None)   \* after the step
Checkout   == {"refs", "then", "status", "done"}

Ready(r) ==
  req[r] # None =>
    /\ req[r].op \notin Waiting => req[r].new \in Row /\ Created(req[r].new.sub)
    /\ req[r].op \in Checkout => paid # 0

Typed == TypeOK /\ Created(paid) /\ \A r \in Request : Ready(r)

Kept    == {"attach", "detach", "plan", "set", "refs"}
Revived == {"revive", "activate", "status"}

\* What a request is when it begins: the row it will save is the stored one but
\* for the column of its operation, and a subscription it names exists by then.
Legit(op, a) ==
  /\ op \in {"attach", "detach", "plan", "set", "activate", "cancel", "pause",
             "revive", "refs", "close"}
  /\ op = "close" => a = None /\ ~closed
  /\ op # "close" => a \in Row /\ Exists(a.sub)
  /\ op \in Kept => a.status = row.status
  /\ op \in Revived => a.status = "active"
  /\ op = "refs" => paid # 0 /\ paid \notin provisioned

Starts(r, op, a) ==
  /\ Begin(r, op, a) /\ Legit(op, a)
  /\ UNCHANGED <<row, paid, memory, late, hooks, invoices, restarts>>
  /\ subs' \in [Sub -> Tier \cup {None}]
  /\ \A i \in Sub : subs[i] # None => subs'[i] # None
  /\ ended' \subseteq {i \in Sub : subs'[i] # None}
  /\ revivedLate' \in BOOLEAN /\ forced' \in BOOLEAN /\ missed' \in BOOLEAN
  /\ revivedLate' = revivedLate \/ (WindowOpen /\ revivedLate' = (revivedLate \/ late))

Begins(r) ==
  \/ \E t \in Tenant : Attach(r, t) \/ Detach(r, t)
  \/ \E p \in Tier : ChangePlan(r, p) \/ SetPlan(r, p)
  \/ Activate(r) \/ Cancel(r) \/ Pause(r) \/ Resume(r) \/ Reactivate(r)
  \/ Completed(r) \/ ClosePeriod(r)

LEMMA Ensured ==
  ASSUME Typed, NEW p \in Tier, NEW i \in Sub, Ensure(i, p)
  PROVE  /\ subs' \in [Sub -> Tier \cup {None}] /\ Exists(i)
         /\ \A j \in Sub : subs[j] # None => subs'[j] # None
BY BillingAssumption DEF Typed, TypeOK, Ensure, NextId, Created, Exists

LEMMA Beginnings ==
  ASSUME Typed, NEW r \in Request, Begins(r)
  PROVE  \E op \in Op, a \in Row \cup {None} : Starts(r, op, a)
<1> USE BillingAssumption
<1>1. /\ row \in Row /\ Created(row.sub) /\ Created(paid)
      /\ subs \in [Sub -> Tier \cup {None}]
      /\ ended \subseteq {i \in Sub : subs[i] # None}
      /\ revivedLate \in BOOLEAN /\ forced \in BOOLEAN /\ missed \in BOOLEAN
  BY DEF Typed, TypeOK, Created, Row
<1>2. ASSUME NEW op \in Op, NEW a \in Row \cup {None}, Begin(r, op, a), Legit(op, a),
             UNCHANGED <<row, memory, processor, record, restarts>>
      PROVE  Starts(r, op, a)
  BY <1>1, <1>2 DEF Starts, processor, record
<1>3. ASSUME NEW t \in Tenant, Attach(r, t) \/ Detach(r, t)
      PROVE  \E op \in Op, a \in Row \cup {None} : Starts(r, op, a)
  <2>1. ASSUME NEW T \in SUBSET Tenant
        PROVE  /\ [row EXCEPT !.tenants = T] \in Row
               /\ [row EXCEPT !.tenants = T].status = row.status
               /\ [row EXCEPT !.tenants = T].sub = row.sub
    BY <1>1 DEF Row
  <2>2. PICK op \in {"attach", "detach"}, T \in SUBSET Tenant :
          Begin(r, op, [row EXCEPT !.tenants = T])
    BY <1>1, <1>3 DEF Attach, Detach, Row
  <2> DEFINE a == [row EXCEPT !.tenants = T]
  <2>3. a \in Row /\ a.status = row.status /\ a.sub = row.sub /\ Begin(r, op, a)
    BY <2>1, <2>2
  <2> HIDE DEF a
  <2>4. UNCHANGED <<row, memory, processor, record, restarts>>
    BY <1>3 DEF Attach, Detach
  <2>5. Exists(a.sub)
    BY <1>1, <2>3, <2>4 DEF Created, Exists, processor
  <2>6. op \in Op /\ Legit(op, a)
    BY <2>3, <2>5 DEF Op, Legit, Kept, Revived
  <2> QED BY <1>2, <2>3, <2>4, <2>6
<1>4. ASSUME NEW p \in Tier, ChangePlan(r, p) \/ SetPlan(r, p)
      PROVE  \E op \in Op, a \in Row \cup {None} : Starts(r, op, a)
  <2> DEFINE a == [row EXCEPT !.tier = p]
  <2>1. a \in Row /\ a.status = row.status /\ a.sub = row.sub
    BY <1>1 DEF Row
  <2>2. PICK op \in {"plan", "set"} : Begin(r, op, a)
    BY <1>4 DEF ChangePlan, SetPlan
  <2> HIDE DEF a
  <2>3. /\ UNCHANGED <<row, paid, memory, late, hooks, invoices, restarts, ended, revivedLate>>
        /\ forced' \in BOOLEAN /\ missed' \in BOOLEAN
    BY <1>1, <1>4 DEF ChangePlan, SetPlan, record
  <2>4. /\ subs' \in [Sub -> Tier \cup {None}]
        /\ \A j \in Sub : subs[j] # None => subs'[j] # None
    BY <1>4, Ensured DEF ChangePlan, SetPlan
  <2>5. Exists(a.sub)
    BY <1>1, <2>1, <2>3, <2>4 DEF Created, Exists
  <2>6. op \in Op /\ Legit(op, a)
    BY <2>1, <2>5 DEF Op, Legit, Kept, Revived
  <2>7. ended' \subseteq {i \in Sub : subs'[i] # None}
    BY <1>1, <2>3, <2>4
  <2> QED BY <1>1, <2>1, <2>2, <2>3, <2>4, <2>6, <2>7 DEF Starts
<1>5. ASSUME Activate(r)
      PROVE  \E op \in Op, a \in Row \cup {None} : Starts(r, op, a)
  <2>1. PICK i \in Sub : /\ Ensure(i, row.tier)
                         /\ Begin(r, "activate", [row EXCEPT !.status = "active", !.sub = i])
    BY <1>5 DEF Activate
  <2> DEFINE a == [row EXCEPT !.status = "active", !.sub = i]
  <2>2. i \in 0..MaxSubs /\ "active" \in Status
    BY DEF Sub, Status
  <2>3. a \in Row /\ a.status = "active" /\ a.sub = i
    BY <1>1, <2>2 DEF Row
  <2>4. Begin(r, "activate", a)
    BY <2>1
  <2> HIDE DEF a
  <2>5. UNCHANGED <<row, paid, memory, late, hooks, invoices, restarts, ended, revivedLate,
                    forced, missed>>
    BY <1>5 DEF Activate, record
  <2>6. /\ subs' \in [Sub -> Tier \cup {None}] /\ Exists(i)
        /\ \A j \in Sub : subs[j] # None => subs'[j] # None
    <3>1. row.tier \in Tier
      BY <1>1 DEF Row
    <3> QED BY <2>1, <3>1, Ensured
  <2>7. "activate" \in Op /\ Legit("activate", a)
    <3>1. Exists(a.sub)
      BY <2>3, <2>6
    <3> QED BY <2>3, <3>1 DEF Op, Legit, Kept, Revived
  <2>8. ended' \subseteq {j \in Sub : subs'[j] # None}
    BY <1>1, <2>5, <2>6
  <2> QED BY <1>1, <2>3, <2>4, <2>5, <2>6, <2>7, <2>8 DEF Starts
<1>6. ASSUME Cancel(r) \/ Pause(r)
      PROVE  \E op \in Op, a \in Row \cup {None} : Starts(r, op, a)
  <2>1. PICK op \in {"cancel", "pause"}, s \in Status : Begin(r, op, [row EXCEPT !.status = s])
    BY <1>6 DEF Cancel, Pause, Status
  <2> DEFINE a == [row EXCEPT !.status = s]
  <2>2. a \in Row /\ a.sub = row.sub
    BY <1>1 DEF Row
  <2>3. Begin(r, op, a)
    BY <2>1
  <2> HIDE DEF a
  <2>4. /\ UNCHANGED <<row, paid, subs, memory, late, hooks, invoices, restarts, revivedLate, forced>>
        /\ ended' \subseteq ended \cup ({row.sub} \ {0}) /\ missed' \in BOOLEAN
    BY <1>1, <1>6 DEF Cancel, Pause, processor, record
  <2>5. op \in Op /\ Legit(op, a)
    <3>1. Exists(a.sub)
      BY <1>1, <2>2, <2>4 DEF Created, Exists
    <3> QED BY <2>2, <3>1 DEF Op, Legit, Kept, Revived
  <2>6. ended' \subseteq {j \in Sub : subs'[j] # None}
    BY <1>1, <2>4 DEF Created
  <2> QED BY <1>1, <2>2, <2>3, <2>4, <2>5, <2>6 DEF Starts
<1>7. ASSUME Resume(r) \/ Reactivate(r)
      PROVE  \E op \in Op, a \in Row \cup {None} : Starts(r, op, a)
  <2> DEFINE a == [row EXCEPT !.status = "active"]
  <2>1. a \in Row /\ a.sub = row.sub /\ a.status = "active" /\ row.tier \in Tier
    BY <1>1 DEF Row, Status
  <2>2. PICK i \in Sub : Ensure(i, row.tier)
    BY <1>7 DEF Resume, Reactivate, Revive
  <2>3. Begin(r, "revive", a)
    BY <1>7 DEF Resume, Reactivate, Revive
  <2> HIDE DEF a
  <2>4. /\ UNCHANGED <<row, paid, memory, late, hooks, invoices, restarts, ended, forced, missed>>
        /\ revivedLate' \in BOOLEAN
        /\ revivedLate' = revivedLate \/ (WindowOpen /\ revivedLate' = (revivedLate \/ late))
    BY <1>1, <1>7 DEF Resume, Reactivate, record
  <2>5. /\ subs' \in [Sub -> Tier \cup {None}]
        /\ \A j \in Sub : subs[j] # None => subs'[j] # None
    BY <2>1, <2>2, Ensured
  <2>6. "revive" \in Op /\ Legit("revive", a)
    <3>1. Exists(a.sub)
      BY <1>1, <2>1, <2>4, <2>5 DEF Created, Exists
    <3> QED BY <2>1, <3>1 DEF Op, Legit, Kept, Revived
  <2>7. ended' \subseteq {j \in Sub : subs'[j] # None}
    BY <1>1, <2>4, <2>5
  <2> QED BY <1>1, <2>1, <2>3, <2>4, <2>5, <2>6, <2>7 DEF Starts
<1>8. ASSUME Completed(r)
      PROVE  \E op \in Op, a \in Row \cup {None} : Starts(r, op, a)
  <2> DEFINE a == [row EXCEPT !.sub = paid]
  <2>1. a \in Row /\ a.sub = paid /\ a.status = row.status
    BY <1>1 DEF Row, Typed, TypeOK
  <2>2. Begin(r, "refs", a)
    BY <1>8 DEF Completed
  <2> HIDE DEF a
  <2>3. UNCHANGED <<row, memory, processor, record, restarts>>
        /\ paid # 0 /\ paid \notin provisioned
    BY <1>8 DEF Completed
  <2>4. "refs" \in Op /\ Legit("refs", a)
    <3>1. Exists(a.sub)
      BY <1>1, <2>1, <2>3 DEF Created, Exists, processor
    <3> QED BY <2>1, <2>3, <3>1 DEF Op, Legit, Kept, Revived
  <2> QED BY <1>2, <2>1, <2>2, <2>3, <2>4
<1>9. ASSUME ClosePeriod(r)
      PROVE  \E op \in Op, a \in Row \cup {None} : Starts(r, op, a)
  <2>1. "close" \in Op /\ Legit("close", None)
    BY <1>9 DEF ClosePeriod, Op, Legit, Kept, Revived
  <2> QED BY <1>2, <1>9, <2>1 DEF ClosePeriod
<1> QED BY <1>3, <1>4, <1>5, <1>6, <1>7, <1>8, <1>9 DEF Begins

LEMMA TypedInitially == Init => Typed
<1> SUFFICES ASSUME Init PROVE Typed
  OBVIOUS
<1>1. PICK p \in Tier : row = [tier |-> p, status |-> "trialing", tenants |-> {},
                               sub |-> 0]
  BY DEF Init
<1>2. row \in Row /\ row.sub = 0
  BY <1>1, BillingAssumption DEF Row, Status
<1>3. /\ 0 \in 0..Most /\ 0 \in 0..MaxSubs /\ 0 \in 0..MaxRestarts /\ 0 \in 0..MaxRequests
  BY BillingAssumption DEF Most
<1> QED BY <1>2, <1>3 DEF Init, Typed, TypeOK, Created, Ready

LEMMA TypedStarts ==
  ASSUME Typed, NEW r \in Request, NEW op \in Op, NEW a \in Row \cup {None},
         Starts(r, op, a)
  PROVE  Typed'
<1>1. /\ req' = [req EXCEPT ![r] = [op |-> op, new |-> a]]
      /\ requests' \in 0..MaxRequests /\ overlapped' \in BOOLEAN
  BY BillingAssumption DEF Starts, Begin, Typed, TypeOK
<1>2. [op |-> op, new |-> a] \in Pending
  BY DEF Pending
<1>3. req' \in [Request -> {None} \cup Pending]
  BY <1>1, <1>2 DEF Typed, TypeOK
<1>4. ended' \cup ({row'.sub} \ {0}) \subseteq {i \in Sub : subs'[i] # None}
  BY DEF Starts, Typed, TypeOK
<1>5. TypeOK'
  BY <1>1, <1>3, <1>4 DEF Starts, memory, Typed, TypeOK, Live
<1>6. ASSUME NEW o \in Request PROVE Ready(o)'
  <2>1. CASE o = r
    <3>1. req'[o] = [op |-> op, new |-> a]
      BY <1>1, <2>1 DEF Typed, TypeOK
    <3> QED BY <3>1 DEF Starts, Legit, Ready, Waiting, Checkout, Exists, Created
  <2>2. CASE o # r
    <3>1. req'[o] = req[o]
      BY <1>1, <2>2 DEF Typed, TypeOK
    <3> QED BY <3>1 DEF Starts, Typed, Ready, Created
  <2> QED BY <2>1, <2>2
<1>7. Created(paid)'
  BY DEF Starts, Typed, Created
<1> QED BY <1>5, <1>6, <1>7 DEF Typed

\* A step that leaves the processor alone and gives a request a row or none.
LEMMA Moves ==
  ASSUME Typed, NEW r \in Request, NEW q \in {None} \cup Pending,
         req' = [req EXCEPT ![r] = q], subs' = subs, paid' = paid,
         q # None =>
           /\ q.op \notin Waiting => q.new \in Row /\ Created(q.new.sub)
           /\ q.op \in Checkout => paid # 0
  PROVE  /\ req' \in [Request -> {None} \cup Pending] /\ Created(paid)'
         /\ \A o \in Request : Ready(o)'
<1>1. req' \in [Request -> {None} \cup Pending]
  BY DEF Typed, TypeOK
<1>2. req'[r] = q /\ \A o \in Request : o # r => req'[o] = req[o]
  BY DEF Typed, TypeOK
<1>3. ASSUME NEW o \in Request PROVE Ready(o)'
  BY <1>2 DEF Typed, Ready, Created
<1> QED BY <1>1, <1>3 DEF Typed, Created

LEMMA TypedLater ==
  ASSUME Typed, NEW r \in Request,
         Save(r) \/ Note(r) \/ SetActive(r) \/ Provision(r) \/ Finalize(r)
  PROVE  Typed'
<1>0. req[r] \in Pending /\ Ready(r)
  BY DEF Typed, TypeOK, Save, Note, SetActive, Provision, Finalize
<1>1. CASE Save(r)
  <2>1. /\ req[r] # None /\ req[r].op \notin Waiting /\ row' = req[r].new
        /\ req' = [req EXCEPT ![r] = IF After(req[r].op) = "end" THEN None
                        ELSE [op |-> After(req[r].op), new |-> None]]
        /\ UNCHANGED <<subs, ended, paid>>
    BY <1>1 DEF Save, WholeRow, Waiting, processor, Typed, TypeOK
  <2>2. row' \in Row /\ Created(row'.sub)
    BY <1>0, <2>1 DEF Ready
  <2> DEFINE q == IF After(req[r].op) = "end" THEN None
                  ELSE [op |-> After(req[r].op), new |-> None]
  <2>3. req[r].op \in Op
    BY <1>0 DEF Pending
  <2>4. After(req[r].op) \in (Waiting \cap Op) \cup {"end"}
        /\ (After(req[r].op) \in Checkout => req[r].op \in Checkout)
    BY <2>3 DEF After, Op, Waiting, Checkout
  <2>5. q \in {None} \cup Pending
    BY <2>4 DEF Pending
  <2>6. q # None => q.op \in Waiting /\ (q.op \in Checkout => paid # 0)
    BY <1>0, <2>1, <2>4 DEF Ready
  <2>7. req' = [req EXCEPT ![r] = q]
    BY <2>1
  <2> HIDE DEF q
  <2>8. /\ req' \in [Request -> {None} \cup Pending] /\ Created(paid)'
        /\ \A o \in Request : Ready(o)'
    BY <2>1, <2>5, <2>6, <2>7, Moves
  <2>9. late' \in BOOLEAN /\ (late' => ~Live(row)')
    BY <1>1 DEF Save, Live
  <2>10. UNCHANGED <<memory, processor, hooks, invoices, revivedLate, forced,
                     missed, overlapped, restarts, requests>>
    BY <1>1 DEF Save
  <2>11. ended' \cup ({row'.sub} \ {0}) \subseteq {i \in Sub : subs'[i] # None}
    BY <2>1, <2>2 DEF Typed, TypeOK, Created
  <2> QED BY <2>2, <2>8, <2>9, <2>10, <2>11 DEF Typed, TypeOK, memory, processor
<1>2. CASE SetActive(r)
  <2> DEFINE a == [row EXCEPT !.status = "active"]
             q == [op |-> "status", new |-> a]
  <2>1. a \in Row /\ a.sub = row.sub /\ Created(row.sub)
    BY DEF Typed, TypeOK, Row, Status, Created
  <2>2. req' = [req EXCEPT ![r] = q] /\ paid # 0
    BY <1>0, <1>2 DEF SetActive, Ready, Checkout
  <2>3. q \in Pending /\ q.new = a
    BY <2>1 DEF Pending, Op
  <2> HIDE DEF a, q
  <2>4. UNCHANGED <<row, memory, processor, record, overlapped, restarts, requests>>
    BY <1>2 DEF SetActive
  <2>5. /\ req' \in [Request -> {None} \cup Pending] /\ Created(paid)'
        /\ \A o \in Request : Ready(o)'
    BY <2>1, <2>2, <2>3, <2>4, Moves DEF processor
  <2> QED BY <2>4, <2>5 DEF Typed, TypeOK, memory, processor, record, Live
<1>3. CASE Note(r) \/ Provision(r) \/ Finalize(r)
  <2>1. /\ req' = [req EXCEPT ![r] = None]
        /\ UNCHANGED <<row, processor, late, revivedLate, forced, missed, overlapped,
                       restarts, requests>>
    BY <1>3 DEF Note, Provision, Finalize, record
  <2>2. /\ req' \in [Request -> {None} \cup Pending] /\ Created(paid)'
        /\ \A o \in Request : Ready(o)'
    BY <2>1, Moves DEF processor
  <2>3. grace' \in {"none", "open", "lapsed"} /\ closed' \in BOOLEAN
    BY <1>3 DEF Note, Provision, Finalize, Typed, TypeOK
  <2>4. provisioned' \subseteq {paid} \ {0}
    <3>1. CASE Provision(r)
      BY <1>0, <3>1 DEF Provision, Remembered, Ready, Checkout, Typed, TypeOK
    <3> QED BY <1>3, <3>1 DEF Note, Finalize, Typed, TypeOK
  <2>5. hooks' \in 0..Most /\ invoices' \in 0..Most
    BY <1>3, BillingAssumption
    DEF Note, Provision, Finalize, Typed, TypeOK, Counted, Most, record
  <2> QED BY <2>1, <2>2, <2>3, <2>4, <2>5 DEF Typed, TypeOK, processor, Live
<1> QED BY <1>1, <1>2, <1>3

LEMMA TypedAlone ==
  ASSUME Typed, Pay \/ Lapse \/ Restart \/ UNCHANGED vars
  PROVE  Typed'
<1>1. CASE Pay
  <2>1. PICK i \in Sub : NextId(i) /\ subs' = [subs EXCEPT ![i] = row.tier] /\ paid' = i
    BY <1>1 DEF Pay
  <2>2. row.tier \in Tier /\ i # 0 /\ i \in 0..MaxSubs
    BY BillingAssumption DEF Typed, TypeOK, Row, Sub
  <2>3. /\ subs' \in [Sub -> Tier \cup {None}] /\ subs'[i] # None
        /\ \A j \in Sub : subs[j] # None => subs'[j] # None
    BY <2>1, <2>2, BillingAssumption DEF Typed, TypeOK
  <2>4. UNCHANGED <<row, req, memory, ended, record, overlapped, restarts, requests>>
    BY <1>1 DEF Pay
  <2>5. provisioned' \subseteq {paid'} \ {0}
    BY <1>1, <2>4 DEF Pay, Typed, TypeOK, memory
  <2>6. ended' \cup ({row'.sub} \ {0}) \subseteq {j \in Sub : subs'[j] # None}
    BY <2>3, <2>4 DEF Typed, TypeOK
  <2>7. TypeOK'
    BY <2>1, <2>2, <2>3, <2>4, <2>5, <2>6 DEF Typed, TypeOK, memory, record, Live
  <2>8. ASSUME NEW o \in Request PROVE Ready(o)'
    BY <2>1, <2>2, <2>3, <2>4 DEF Typed, Ready, Created
  <2> QED BY <2>1, <2>3, <2>7, <2>8 DEF Typed, Created
<1>2. CASE Lapse
  BY <1>2 DEF Lapse, Typed, TypeOK, Ready, Created, processor, Live
<1>3. CASE Restart
  <2>1. restarts' \in 0..MaxRestarts
    BY <1>3, BillingAssumption DEF Restart, Typed, TypeOK
  <2>2. \A o \in Request : Ready(o)'
    BY <1>3 DEF Restart, Ready
  <2> QED BY <1>3, <2>1, <2>2 DEF Restart, Typed, TypeOK, Created, processor, record, Live
<1>4. CASE UNCHANGED vars
  <2>1. \A o \in Request : Ready(o)'
    BY <1>4 DEF Typed, Ready, Created, vars, memory, processor, record
  <2> QED BY <1>4, <2>1 DEF Typed, TypeOK, Created, vars, memory, processor, record, Live
<1> QED BY <1>1, <1>2, <1>3, <1>4

LEMMA Steps ==
  ASSUME [Next]_vars
  PROVE  \/ \E r \in Request :
               \/ Begins(r) \/ Save(r) \/ Note(r) \/ SetActive(r) \/ Provision(r)
               \/ Finalize(r)
         \/ Pay \/ Lapse \/ Restart \/ UNCHANGED vars
BY DEF Next, Handle, Begins

LEMMA TypedPreserved == Typed /\ [Next]_vars => Typed'
BY Steps, Beginnings, TypedStarts, TypedLater, TypedAlone

\* The types hold, and with them two facts the types state of the processor: a
\* subscription it was told to end, and the one the row names, was created.
THEOREM TypeCorrect == Spec => []TypeOK
<1>1. Typed => TypeOK
  BY DEF Typed
<1> QED BY <1>1, TypedInitially, TypedPreserved, PTL DEF Spec

-----------------------------------------------------------------------------
(* Once per lifetime, and the window, while requests do not overlap        *)

Serial == \A r, o \in Request : req[r] # None /\ req[o] # None => r = o

\* While requests do not overlap, what was done more often than the service was
\* restarted is what it remembers, and what is under way is not yet done.
Orderly ==
  ~overlapped =>
    /\ Serial
    /\ hooks <= restarts + (IF paid \in provisioned THEN 1 ELSE 0)
    /\ invoices <= restarts + (IF closed THEN 1 ELSE 0)
    /\ \A r \in Request : req[r] # None =>
         /\ req[r].op \in Checkout => paid \notin provisioned
         /\ req[r].op = "close" => ~closed

\* While they do not, and until the first restart, an account that is down has a
\* window or is about to be given one, and a late account's has lapsed.
Watched(r) ==
  req[r] # None =>
    /\ req[r].op \in Kept => req[r].new.status = row.status
    /\ req[r].op \in Revived => req[r].new.status = "active"
    /\ req[r].op \in {"down", "up"} => ~late
    /\ req[r].op = "up" => Live(row)

Downed == \E r \in Request : req[r] # None /\ req[r].op = "down"

Windowed ==
  ~overlapped /\ restarts = 0 =>
    /\ ~revivedLate /\ (late => grace = "lapsed")
    /\ Live(row) \/ grace \in {"open", "lapsed"} \/ Downed
    /\ \A r \in Request : Watched(r)

\* Requests that do not overlap are made one at a time.
LEMMA AloneStarts ==
  ASSUME Typed, NEW r \in Request, NEW op \in Op, NEW a \in Row \cup {None},
         Starts(r, op, a), ~overlapped'
  PROVE  /\ ~overlapped /\ (\A o \in Request : req[o] = None)
         /\ req'[r] = [op |-> op, new |-> a]
         /\ \A o \in Request : o # r => req'[o] = None
BY DEF Starts, Begin, Typed, TypeOK

LEMMA AloneLater ==
  ASSUME Typed, Orderly, NEW r \in Request,
         Save(r) \/ Note(r) \/ SetActive(r) \/ Provision(r) \/ Finalize(r), ~overlapped'
  PROVE  /\ ~overlapped /\ req[r] # None
         /\ \A o \in Request : o # r => req[o] = None /\ req'[o] = None
<1>1. overlapped' = overlapped /\ req[r] # None
  BY DEF Save, Note, SetActive, Provision, Finalize
<1>2. \A o \in Request : o # r => req'[o] = req[o]
  BY DEF Save, Note, SetActive, Provision, Finalize, Typed, TypeOK
<1> QED BY <1>1, <1>2 DEF Orderly, Serial

\* What each later step makes of its request.
LEMMA Becomes ==
  ASSUME Typed, NEW r \in Request
  PROVE  /\ Save(r) /\ req'[r] # None =>
              req'[r].op = After(req[r].op) /\ After(req[r].op) # "end"
         /\ SetActive(r) => req'[r] = [op |-> "status", new |-> [row EXCEPT !.status = "active"]]
         /\ Note(r) \/ Provision(r) \/ Finalize(r) => req'[r] = None
BY DEF Typed, TypeOK, Save, SetActive, Note, Provision, Finalize

LEMMA OrderlyInitially == Init => Orderly
BY DEF Init, Orderly, Serial

LEMMA OrderlyStarts ==
  ASSUME Typed, Orderly, NEW r \in Request, NEW op \in Op, NEW a \in Row \cup {None},
         Starts(r, op, a)
  PROVE  Orderly'
<1> SUFFICES ASSUME ~overlapped' PROVE Orderly'
  BY DEF Orderly
<1>1. /\ ~overlapped /\ req'[r] = [op |-> op, new |-> a]
      /\ \A o \in Request : o # r => req'[o] = None
  BY AloneStarts
<1>2. UNCHANGED <<hooks, invoices, restarts, paid, provisioned, closed>>
  BY DEF Starts, memory
<1>3. (op \in Checkout => paid \notin provisioned) /\ (op = "close" => ~closed)
  BY DEF Starts, Legit, Checkout
<1> QED BY <1>1, <1>2, <1>3 DEF Orderly, Serial

LEMMA OrderlyLater ==
  ASSUME Typed, Orderly, NEW r \in Request,
         Save(r) \/ Note(r) \/ SetActive(r) \/ Provision(r) \/ Finalize(r)
  PROVE  Orderly'
<1> SUFFICES ASSUME ~overlapped' PROVE Orderly'
  BY DEF Orderly
<1>1. /\ ~overlapped /\ req[r] # None
      /\ \A o \in Request : o # r => req[o] = None /\ req'[o] = None
  BY AloneLater
<1>2. /\ hooks \in Nat /\ invoices \in Nat /\ restarts \in Nat
      /\ hooks <= restarts + (IF paid \in provisioned THEN 1 ELSE 0)
      /\ invoices <= restarts + (IF closed THEN 1 ELSE 0)
      /\ req[r].op \in Checkout => paid \notin provisioned
      /\ req[r].op = "close" => ~closed
      /\ req[r] \in Pending
  BY <1>1, BillingAssumption DEF Orderly, Typed, TypeOK, Most
<1>3. CASE Save(r)
  <2>1. UNCHANGED <<hooks, invoices, restarts, paid, provisioned, closed>>
    BY <1>3 DEF Save, memory, processor
  <2>2. req'[r] # None => /\ req'[r].op \in Checkout => req[r].op \in Checkout
                          /\ req'[r].op # "close"
    BY <1>2, <1>3, Becomes DEF After, Checkout, Pending, Op
  <2> QED BY <1>1, <1>2, <2>1, <2>2 DEF Orderly, Serial
<1>4. CASE SetActive(r)
  <2>1. UNCHANGED <<hooks, invoices, restarts, paid, provisioned, closed>>
    BY <1>4 DEF SetActive, memory, processor, record
  <2>2. req'[r].op = "status"
    BY <1>4, Becomes
  <2>3. req[r].op \in Checkout
    BY <1>4 DEF SetActive, Checkout
  <2> QED BY <1>1, <1>2, <2>1, <2>2, <2>3 DEF Orderly, Serial
<1>5. CASE Note(r) \/ Provision(r) \/ Finalize(r)
  <2>1. req'[r] = None /\ restarts' = restarts /\ paid' = paid
    BY <1>5, Becomes DEF Note, Provision, Finalize, processor
  <2>2. hooks' <= restarts + (IF paid \in provisioned' THEN 1 ELSE 0)
    BY <1>2, <1>5
    DEF Note, Provision, Finalize, Remembered, Counted, Checkout, record
  <2>3. invoices' <= restarts + (IF closed' THEN 1 ELSE 0)
    BY <1>2, <1>5 DEF Note, Provision, Finalize, Counted, record
  <2> QED BY <1>1, <2>1, <2>2, <2>3 DEF Orderly, Serial
<1> QED BY <1>3, <1>4, <1>5

LEMMA OrderlyAlone ==
  ASSUME Typed, Orderly, Pay \/ Lapse \/ Restart \/ UNCHANGED vars
  PROVE  Orderly'
<1>1. CASE Pay
  <2>1. provisioned = {} /\ paid' # 0 /\ (\A r \in Request : req[r] # None => req[r].op \notin Checkout \/ paid # 0)
    BY <1>1 DEF Pay, Typed, TypeOK, Sub, Ready, Waiting, Checkout
  <2> QED BY <1>1, <2>1 DEF Pay, Orderly, Serial, memory, record
<1>2. CASE Lapse
  BY <1>2 DEF Lapse, Orderly, Serial, processor
<1>3. CASE Restart
  <2>1. hooks \in Nat /\ invoices \in Nat /\ restarts \in Nat
    BY BillingAssumption DEF Typed, TypeOK, Most
  <2> QED BY <1>3, <2>1 DEF Restart, Orderly, Serial, processor, record
<1>4. CASE UNCHANGED vars
  BY <1>4 DEF Orderly, Serial, vars, memory, processor, record
<1> QED BY <1>1, <1>2, <1>3, <1>4

LEMMA OrderlyPreserved == Typed /\ Orderly /\ [Next]_vars => Orderly'
BY Steps, Beginnings, OrderlyStarts, OrderlyLater, OrderlyAlone

\* Between two restarts the provisioning hook of a completed checkout fires once
\* and the period's invoice is finalized once, however often the event arrives
\* and the close is run again, while requests do not overlap: what has been done
\* is what the process remembers, and it forgets only when it restarts.
THEOREM DoneOnce == Spec => []OncePerLifetime
<1>1. Typed /\ Orderly => OncePerLifetime
  BY BillingAssumption DEF Typed, TypeOK, Orderly, OncePerLifetime, Most
<1> QED
  BY <1>1, TypedInitially, TypedPreserved, OrderlyInitially, OrderlyPreserved, PTL DEF Spec

LEMMA WindowedStarts ==
  ASSUME Typed, Orderly, Windowed, NEW r \in Request, NEW op \in Op,
         NEW a \in Row \cup {None}, Starts(r, op, a)
  PROVE  Windowed'
<1> SUFFICES ASSUME ~overlapped', restarts' = 0 PROVE Windowed'
  BY DEF Windowed
<1>1. /\ ~overlapped /\ req'[r] = [op |-> op, new |-> a]
      /\ \A o \in Request : req[o] = None
      /\ \A o \in Request : o # r => req'[o] = None
  BY AloneStarts
<1>2. UNCHANGED <<row, late, grace, restarts>>
  BY DEF Starts, memory
<1>3. /\ ~revivedLate /\ (late => grace = "lapsed")
      /\ Live(row) \/ grace \in {"open", "lapsed"}
  BY <1>1, <1>2 DEF Windowed, Downed
<1>4. ~revivedLate'
  BY <1>3 DEF Starts, WindowOpen, Typed, TypeOK
<1>5. /\ op \in Kept => a.status = row.status
      /\ op \in Revived => a.status = "active"
      /\ op \notin {"down", "up"}
  BY DEF Starts, Legit
<1>6. \A o \in Request : Watched(o)'
  BY <1>1, <1>2, <1>5 DEF Watched
<1> QED BY <1>2, <1>3, <1>4, <1>6 DEF Windowed, Live

LEMMA WindowedLater ==
  ASSUME Typed, Orderly, Windowed, NEW r \in Request,
         Save(r) \/ Note(r) \/ SetActive(r) \/ Provision(r) \/ Finalize(r)
  PROVE  Windowed'
<1> SUFFICES ASSUME ~overlapped', restarts' = 0 PROVE Windowed'
  BY DEF Windowed
<1>1. /\ ~overlapped /\ req[r] # None
      /\ \A o \in Request : o # r => req[o] = None /\ req'[o] = None
  BY AloneLater
<1>2. restarts = 0 /\ revivedLate' = revivedLate
  BY DEF Save, Note, SetActive, Provision, Finalize, record
<1>3. /\ ~revivedLate /\ (late => grace = "lapsed")
      /\ Live(row) \/ grace \in {"open", "lapsed"} \/ req[r].op = "down"
      /\ Watched(r) /\ req[r] \in Pending /\ row \in Row /\ late \in BOOLEAN
  BY <1>1, <1>2 DEF Windowed, Downed, Typed, TypeOK
<1>4. CASE Save(r)
  <2>1. /\ row' = req[r].new /\ grace' = grace /\ req[r].op # "down"
        /\ req[r].op \in Op \ Waiting
        /\ late' = (late /\ ~Live(row) /\ ~Live(row') /\ req[r].op \notin {"cancel", "pause"})
    BY <1>3, <1>4 DEF Save, WholeRow, memory, Pending, Waiting
  <2>2. CASE req[r].op \in Kept
    <3>1. Live(row') = Live(row)
      BY <1>1, <1>3, <2>1, <2>2 DEF Watched, Live
    <3>2. req'[r] # None => req'[r].op = "then"
      BY <1>4, <2>2, Becomes DEF After, Kept
    <3>3. \A o \in Request : Watched(o)'
      BY <1>1, <3>2 DEF Watched, Kept, Revived
    <3> QED BY <1>2, <1>3, <2>1, <3>1, <3>3 DEF Windowed, Live
  <2>3. CASE req[r].op \in Revived
    <3>1. Live(row') /\ ~late'
      BY <1>1, <1>3, <2>1, <2>3 DEF Watched, Live
    <3>2. req'[r] # None => req'[r].op \in {"up", "done"}
      BY <1>4, <2>3, Becomes DEF After, Revived
    <3>3. \A o \in Request : Watched(o)'
      BY <1>1, <3>1, <3>2 DEF Watched, Kept, Revived, Live
    <3> QED BY <1>2, <1>3, <2>1, <3>1, <3>3 DEF Windowed, Live
  <2>4. CASE req[r].op \in {"cancel", "pause"}
    <3>1. ~late'
      BY <2>1, <2>4
    <3>2. req'[r] # None /\ req'[r].op = "down"
      <4>1. req'[r] = [op |-> "down", new |-> None]
        BY <1>4, <2>4 DEF After, Save, Typed, TypeOK
      <4>2. [op |-> "down", new |-> None] \in Pending
        BY DEF Pending, Op
      <4> QED BY <4>1, <4>2, Absent
    <3>3. \A o \in Request : Watched(o)'
      BY <1>1, <3>1, <3>2 DEF Watched, Kept, Revived
    <3> QED BY <1>2, <1>3, <3>1, <3>2, <3>3 DEF Windowed, Downed
  <2> QED BY <2>1, <2>2, <2>3, <2>4 DEF Kept, Revived, Waiting, Op
<1>5. CASE SetActive(r)
  <2>1. UNCHANGED <<row, grace, late>> /\ req[r].op = "then"
    BY <1>5 DEF SetActive, memory, record
  <2>2. req'[r].op = "status" /\ req'[r].new.status = "active"
    BY <1>3, <1>5, Becomes DEF Row
  <2>3. \A o \in Request : Watched(o)'
    BY <1>1, <2>2 DEF Watched, Kept, Revived
  <2> QED BY <1>2, <1>3, <2>1, <2>3 DEF Windowed, Live
<1>6. CASE Note(r)
  <2>1. /\ req'[r] = None /\ UNCHANGED <<row, late>> /\ req[r].op \in {"down", "up"}
        /\ grace' = IF req[r].op = "down" THEN "open" ELSE "none"
    BY <1>6, Becomes DEF Note, record
  <2>2. ~late /\ (req[r].op = "up" => Live(row))
    BY <1>1, <1>3, <2>1 DEF Watched
  <2>3. \A o \in Request : Watched(o)'
    BY <1>1, <2>1 DEF Watched
  <2> QED BY <1>2, <1>3, <2>1, <2>2, <2>3 DEF Windowed, Live
<1>7. CASE Provision(r) \/ Finalize(r)
  <2>1. req'[r] = None /\ UNCHANGED <<row, grace, late>> /\ req[r].op # "down"
    BY <1>7, Becomes DEF Provision, Finalize
  <2>2. \A o \in Request : Watched(o)'
    BY <1>1, <2>1 DEF Watched
  <2> QED BY <1>2, <1>3, <2>1, <2>2 DEF Windowed, Live
<1> QED BY <1>4, <1>5, <1>6, <1>7

LEMMA WindowedAlone ==
  ASSUME Typed, Orderly, Windowed, Pay \/ Lapse \/ Restart \/ UNCHANGED vars
  PROVE  Windowed'
<1>1. CASE Pay
  BY <1>1 DEF Pay, Windowed, Watched, Downed, memory, record, Live
<1>2. CASE Lapse
  BY <1>2 DEF Lapse, Windowed, Watched, Downed, Live
<1>3. CASE Restart
  <2>1. restarts' # 0
    BY <1>3, BillingAssumption DEF Restart, Typed, TypeOK
  <2> QED BY <2>1 DEF Windowed
<1>4. CASE UNCHANGED vars
  BY <1>4 DEF Windowed, Watched, Downed, vars, memory, record, Live
<1> QED BY <1>1, <1>2, <1>3, <1>4

LEMMA WindowedPreserved == Typed /\ Orderly /\ Windowed /\ [Next]_vars => Windowed'
BY Steps, Beginnings, WindowedStarts, WindowedLater, WindowedAlone

\* reactivate lets nobody back after the reactivation window, as long as the
\* process was not restarted and requests did not overlap: an account that is
\* down has a window, one that is late has seen it lapse, and only then refuses.
THEOREM WindowIsKept == Spec => []WindowHolds
<1>1. Init => Windowed
  BY DEF Init, Windowed, Watched, Live
<1>2. Typed /\ Windowed => WindowHolds
  <2>1. Typed => restarts \in Nat
    BY BillingAssumption DEF Typed, TypeOK
  <2> QED BY <2>1 DEF Windowed, WindowHolds
<1> QED
  BY <1>1, <1>2, TypedInitially, TypedPreserved, OrderlyInitially, OrderlyPreserved,
     WindowedPreserved, PTL DEF Spec
=============================================================================
