------------------------------ MODULE Billing ------------------------------
(***************************************************************************)
(* One billing account (billing/service.py, signup.py, accounts.py): its   *)
(* row in SqlAccountStore, the requests that read it, call the payment     *)
(* processor and save it whole, and what the service keeps in memory only: *)
(* the periods it closed, the subscriptions it provisioned and the start   *)
(* of the reactivation window.  A restart forgets those.                   *)
(*                                                                         *)
(* One billing period; amounts and usage are left out, and seats, which no *)
(* operation changes.  A request's read and its call to the processor are  *)
(* one step: the call depends on nothing but the row read.  The processor  *)
(* (provider.py over Stripe) numbers the subscriptions it creates.         *)
(***************************************************************************)
EXTENDS Naturals, FiniteSets

CONSTANTS Request,     \* requests served at one time
          Tenant,      \* businesses
          Tier,        \* plans
          Multi,       \* the plans with MULTI_TENANT
          Included,    \* Tier -> businesses in its base price
          Price,       \* Tier -> base price
          MaxSubs,     \* bound on subscriptions created
          MaxRestarts, \* bound on restarts
          MaxRequests, \* bound on requests made
          None

ASSUME BillingAssumption ==
  /\ Multi \subseteq Tier /\ Included \in [Tier -> Nat \ {0}]
  /\ Price \in [Tier -> Nat] /\ MaxSubs \in Nat /\ MaxRestarts \in Nat
  /\ MaxRequests \in Nat
  /\ None \notin Tier

\* A plan that costs as much as another holds as many businesses (plans.py):
\* change_plan checks the limit of a cheaper plan only.
ASSUME PlansGrow ==
  \A p, q \in Tier : Price[q] <= Price[p] =>
    p \in Multi \/ (q \notin Multi /\ Included[q] <= Included[p])

VARIABLES row,        \* the stored account
          req,        \* Request -> what it is about to save, or None
          grace,      \* memory: the reactivation window
          closed,     \* memory: the period's invoice was finalized
          provisioned, \* memory: the subscriptions complete_checkout has done
          subs,       \* the processor: subscription -> tier it charges, or None
          ended,      \* the processor: subscriptions canceled
          paid,       \* the subscription of the completed checkout, or 0
          late,       \* the account has been down for longer than the window
          hooks, invoices, \* hooks fired and invoices finalized before any overlap
          revivedLate, \* reactivate let an account back after its window
          forced,     \* an operator set a plan too small for the account
          missed,     \* a cancel, before any overlap, found no id though a
                      \* subscription was running
          overlapped, \* a request began while another was under way
          restarts, requests

memory    == <<grace, closed, provisioned>>
processor == <<subs, ended, paid>>
record    == <<late, hooks, invoices, revivedLate, forced, missed>>
vars == <<row, req, memory, processor, record, overlapped, restarts, requests>>

Sub    == 1..MaxSubs
Status == {"trialing", "active", "paused", "canceled"}
Row    == [tier : Tier, status : Status, tenants : SUBSET Tenant,
           sub : 0..MaxSubs]
Op     == {"attach", "detach", "plan", "set", "activate", "cancel", "pause",
           "revive", "refs", "then", "status", "down", "up", "done", "close"}
Pending == [op : Op, new : Row \cup {None}]
Most   == MaxRestarts + 2   \* counters of what is done once stop here

ASSUME Absent == None \notin Pending

\* create_account, by an operator or by start_checkout.
Init ==
  /\ \E p \in Tier : row = [tier |-> p, status |-> "trialing", tenants |-> {},
                            sub |-> 0]
  /\ req = [r \in Request |-> None]
  /\ grace = "none" /\ closed = FALSE /\ provisioned = {}
  /\ subs = [i \in Sub |-> None] /\ ended = {} /\ paid = 0
  /\ late = FALSE /\ hooks = 0 /\ invoices = 0 /\ revivedLate = FALSE
  /\ forced = FALSE /\ missed = FALSE /\ overlapped = FALSE
  /\ restarts = 0 /\ requests = 0

-----------------------------------------------------------------------------
(* The plan's limits                                                       *)

Live(a) == a.status \notin {"canceled", "paused"}
Holds(p, n) == p \in Multi \/ n <= Included[p]
CanAddTenant(a) == Holds(a.tier, Cardinality(a.tenants) + 1)

\* A downgrade must not strand businesses the new plan cannot hold.
Allowed(a, p) == Price[p] < Price[a.tier] => Holds(p, Cardinality(a.tenants))

-----------------------------------------------------------------------------
(* Requests: read the row and call the processor                           *)

Begin(r, op, new) ==
  /\ req[r] = None /\ requests < MaxRequests /\ requests' = requests + 1
  /\ req' = [req EXCEPT ![r] = [op |-> op, new |-> new]]
  /\ overlapped' = (overlapped \/ \E o \in Request : req[o] # None)

NextId(i) == subs[i] = None /\ \A j \in Sub : j < i => subs[j] # None

\* ensure_subscription: the id on the row, or a new subscription for the plan.
NotCreated(i, p) ==
  (IF row.sub # 0 THEN i = row.sub ELSE NextId(i)) /\ UNCHANGED subs

Ensure(i, p) ==
  IF row.sub # 0 THEN i = row.sub /\ UNCHANGED subs
  ELSE i \in Sub /\ NextId(i) /\ subs' = [subs EXCEPT ![i] = p]

Attach(r, t) ==
  /\ Live(row) /\ (t \in row.tenants \/ CanAddTenant(row))
  /\ Begin(r, "attach", [row EXCEPT !.tenants = @ \cup {t}])
  /\ UNCHANGED <<row, memory, processor, record, restarts>>

Detach(r, t) ==
  /\ Begin(r, "detach", [row EXCEPT !.tenants = @ \ {t}])
  /\ UNCHANGED <<row, memory, processor, record, restarts>>

\* change_plan: the processor's answer, the subscription's id, is dropped.
ChangePlan(r, p) ==
  /\ Live(row) /\ Allowed(row, p)
  /\ \E i \in Sub : Ensure(i, p)
  /\ Begin(r, "plan", [row EXCEPT !.tier = p])
  /\ UNCHANGED <<row, memory, ended, paid, record, restarts>>

\* An operator's change_tier, which checks nothing.
SetPlan(r, p) ==
  /\ \E i \in Sub : Ensure(i, p)
  /\ Begin(r, "set", [row EXCEPT !.tier = p])
  /\ forced' = (forced \/ ~Holds(p, Cardinality(row.tenants)))
  /\ UNCHANGED <<row, memory, ended, paid, late, hooks, invoices, revivedLate,
                 missed, restarts>>

Activate(r) ==
  /\ \E i \in Sub : /\ Ensure(i, row.tier)
                    /\ Begin(r, "activate", [row EXCEPT !.status = "active",
                                                        !.sub = i])
  /\ UNCHANGED <<row, memory, ended, paid, record, restarts>>

Running == {i \in Sub : subs[i] # None} \ ended

Cancel(r) ==
  /\ Begin(r, "cancel", [row EXCEPT !.status = "canceled"])
  /\ ended' = IF row.sub = 0 THEN ended ELSE ended \cup {row.sub}
  /\ missed' = \/ missed
                \/ (row.sub = 0 /\ Running \ {paid} # {} /\ ~overlapped')
  /\ UNCHANGED <<row, memory, subs, paid, late, hooks, invoices, revivedLate,
                 forced, restarts>>

Pause(r) ==
  /\ Begin(r, "pause", [row EXCEPT !.status = "paused"])
  /\ UNCHANGED <<row, memory, processor, record, restarts>>

Revive(r) ==
  /\ \E i \in Sub : Ensure(i, row.tier)
  /\ Begin(r, "revive", [row EXCEPT !.status = "active"])

Resume(r) ==
  /\ row.status = "paused" /\ Revive(r)
  /\ UNCHANGED <<row, memory, ended, paid, record, restarts>>

\* The window is checked when this process knows when the account went down.
WindowUnchecked == TRUE
WindowOpen == grace # "lapsed"

Reactivate(r) ==
  /\ ~Live(row) /\ WindowOpen /\ Revive(r)
  /\ revivedLate' = (revivedLate \/ late)
  /\ UNCHANGED <<row, memory, ended, paid, late, hooks, invoices, forced,
                 missed, restarts>>

-----------------------------------------------------------------------------
(* ... and save it, whole                                                  *)

\* What a save of the changed columns alone would leave.
OwnColumns(r) ==
  [row EXCEPT !.tier = IF req[r].op \in {"plan", "set"} THEN req[r].new.tier ELSE @,
              !.tenants = IF req[r].op \in {"attach", "detach"}
                          THEN req[r].new.tenants ELSE @]
WholeRow(r) == req[r].new

After(op) == CASE op \in {"cancel", "pause"} -> "down"
               [] op = "revive" -> "up"
               [] op = "refs"   -> "then"
               [] op = "status" -> "done"
               [] OTHER         -> "end"

Save(r) ==
  /\ req[r] # None
  /\ req[r].op \notin {"then", "down", "up", "done", "close"}
  /\ row' = WholeRow(r)
  /\ req' = [req EXCEPT ![r] = IF After(@.op) = "end" THEN None
                               ELSE [op |-> After(@.op), new |-> None]]
  /\ late' = (late /\ ~Live(row) /\ ~Live(row') /\ req[r].op \notin {"cancel", "pause"})
  /\ UNCHANGED <<memory, processor, hooks, invoices, revivedLate, forced,
                 missed, overlapped, restarts, requests>>

\* The window's start is noted, or forgotten, after the save.
Note(r) ==
  /\ req[r] # None /\ req[r].op \in {"down", "up"}
  /\ grace' = IF req[r].op = "down" THEN "open" ELSE "none"
  /\ req' = [req EXCEPT ![r] = None]
  /\ UNCHANGED <<row, closed, provisioned, processor, record, overlapped,
                 restarts, requests>>

-----------------------------------------------------------------------------
(* The completed checkout                                                  *)

\* The owner pays on the hosted page: the processor creates the subscription.
Pay ==
  /\ paid = 0
  /\ \E i \in Sub : NextId(i) /\ subs' = [subs EXCEPT ![i] = row.tier]
                    /\ paid' = i
  /\ UNCHANGED <<row, req, memory, ended, record, overlapped, restarts, requests>>

\* The event arrives, as often as the processor sends it: complete_checkout
\* stamps the ids, then reads the account again to set its status.
Completed(r) ==
  /\ paid # 0 /\ paid \notin provisioned
  /\ Begin(r, "refs", [row EXCEPT !.sub = paid])
  /\ UNCHANGED <<row, memory, processor, record, restarts>>

SetActive(r) ==
  /\ req[r] # None /\ req[r].op = "then"
  /\ req' = [req EXCEPT ![r] = [op |-> "status",
                                new |-> [row EXCEPT !.status = "active"]]]
  /\ UNCHANGED <<row, memory, processor, record, overlapped, restarts, requests>>

NotRemembered(r) == UNCHANGED provisioned
Remembered(r) == provisioned' = provisioned \cup {paid}

Counted(n) == IF n < Most /\ ~overlapped THEN n + 1 ELSE n

Provision(r) ==
  /\ req[r] # None /\ req[r].op = "done"
  /\ Remembered(r) /\ hooks' = Counted(hooks)
  /\ req' = [req EXCEPT ![r] = None]
  /\ UNCHANGED <<row, grace, closed, processor, late, invoices, revivedLate,
                 forced, missed, overlapped, restarts, requests>>

-----------------------------------------------------------------------------
(* Closing the period, time and restarts                                   *)

ClosePeriod(r) ==
  /\ ~closed /\ Begin(r, "close", None)
  /\ UNCHANGED <<row, memory, processor, record, restarts>>

Finalize(r) ==
  /\ req[r] # None /\ req[r].op = "close"
  /\ invoices' = Counted(invoices) /\ closed' = TRUE
  /\ req' = [req EXCEPT ![r] = None]
  /\ UNCHANGED <<row, grace, provisioned, processor, late, hooks, revivedLate,
                 forced, missed, overlapped, restarts, requests>>

\* The window passes; no request is under way for so long.
Lapse ==
  /\ ~Live(row) /\ \A r \in Request : req[r] = None
  /\ late' = TRUE /\ grace' = IF grace = "open" THEN "lapsed" ELSE grace
  /\ UNCHANGED <<row, req, closed, provisioned, processor, hooks, invoices,
                 revivedLate, forced, missed, overlapped, restarts, requests>>

Restart ==
  /\ restarts < MaxRestarts /\ restarts' = restarts + 1
  /\ req' = [r \in Request |-> None]
  /\ grace' = "none" /\ closed' = FALSE /\ provisioned' = {}
  /\ UNCHANGED <<row, processor, record, overlapped, requests>>

Handle(r) ==
  \/ \E t \in Tenant : Attach(r, t) \/ Detach(r, t)
  \/ \E p \in Tier : ChangePlan(r, p) \/ SetPlan(r, p)
  \/ Activate(r) \/ Cancel(r) \/ Pause(r) \/ Resume(r) \/ Reactivate(r)
  \/ Completed(r) \/ SetActive(r) \/ Provision(r)
  \/ ClosePeriod(r) \/ Finalize(r) \/ Save(r) \/ Note(r)

Next == (\E r \in Request : Handle(r)) \/ Pay \/ Lapse \/ Restart

Spec == Init /\ [][Next]_vars

-----------------------------------------------------------------------------
(* Properties                                                              *)

TypeOK ==
  /\ row \in Row
  /\ req \in [Request -> {None} \cup Pending]
  /\ grace \in {"none", "open", "lapsed"} /\ closed \in BOOLEAN
  /\ provisioned \subseteq {paid} \ {0}
  /\ subs \in [Sub -> Tier \cup {None}] /\ paid \in 0..MaxSubs
  /\ ended \cup ({row.sub} \ {0}) \subseteq {i \in Sub : subs[i] # None}
  /\ late \in BOOLEAN /\ (late => ~Live(row))
  /\ hooks \in 0..Most /\ invoices \in 0..Most
  /\ revivedLate \in BOOLEAN /\ forced \in BOOLEAN /\ missed \in BOOLEAN
  /\ overlapped \in BOOLEAN /\ restarts \in 0..MaxRestarts
  /\ requests \in 0..MaxRequests

\* The stored account never has more businesses than its plan can hold, also
\* when an attach races a downgrade, unless an operator set the plan: each saves
\* the whole row it checked, so the loser's change is lost and not mixed in.
PlanHoldsTenants == forced \/ Holds(row.tier, Cardinality(row.tenants))

\* Between two restarts the provisioning hook fires once and the invoice is
\* finalized once, however often the event arrives and the close is run again,
\* while requests do not overlap.
OncePerLifetime ==
  ~overlapped => hooks <= restarts + 1 /\ invoices <= restarts + 1

\* reactivate lets nobody back after the window, unless a restart or requests
\* that overlap have made the service forget when it began.
WindowHolds == revivedLate => overlapped \/ restarts > 0

\* "nothing provisioned at the processor yet -- nothing to cancel"
\* (provider.py): a cancel that finds no subscription id on the account has no
\* subscription of the account to cancel, but one whose event is on its way;
\* asked of requests that do not overlap.
NothingToCancel == ~missed
=============================================================================
