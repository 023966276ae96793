----------------------------- MODULE QboConnect -----------------------------
(***************************************************************************)
(* One tenant's QuickBooks connection (qbo/service.py, qbo/connection.py): *)
(* the stored row, the callers that read it and refresh it before and      *)
(* during a data call, the owner who connects and disconnects, and Intuit, *)
(* which rotates the refresh token on every use.                           *)
(*                                                                         *)
(* A token stands for the pair Intuit issues: `live' holds those whose     *)
(* refresh token Intuit would take, `aged' those whose access token is     *)
(* past its expiry and `lapsed' those whose refresh token is.  The lock of *)
(* a tenant is per process: the web workers and the recorder share only    *)
(* the row.  Intuit is external.                                           *)
(***************************************************************************)
EXTENDS Naturals, FiniteSets

CONSTANTS Proc,      \* processes with a QboConnectService of their own
          Caller,    \* threads that call api_client
          Home,      \* Caller -> Proc
          Grant,     \* consents the owner gives on Intuit's screen
          MaxTok,    \* bound on token pairs issued
          MaxAged,   \* bound on access tokens that expire
          MaxFaults, \* bound on crashes, lost answers and revocations
          None

ASSUME QboAssumption ==
  /\ Home \in [Caller -> Proc] /\ MaxTok \in Nat /\ MaxAged \in Nat /\ MaxFaults \in Nat
  /\ None \notin Caller \cup Grant \cup Proc

VARIABLES row,     \* the stored connection: [tok, status], or None
          lock,    \* Proc -> the caller that holds the tenant's lock, or None
          call,    \* Caller -> where its call is, and what it has read
          visit,   \* Grant -> how far the connect flow for it has come
          code,    \* Grant -> the token its code was exchanged for, or 0
          bye,     \* the disconnect under way
          grant,   \* token -> the consent it descends from, or None
          live, aged, lapsed,
          gone,    \* tokens lost other than by a rotation still in hand
          adrift,  \* tokens that were dropped: neither the row nor a caller who
                   \* is to save it has them
          rotator, \* token -> the process that rotated it away, or None
          want,    \* the consent the owner last saw stored; None: disconnected
          overlap, \* a refresh was in flight when the owner last wrote
          selfRefused, \* a process was refused a token it had rotated itself
          faults

caller == <<lock, call>>
owner  == <<visit, code, bye, want, overlap>>
intuit == <<grant, live, rotator>>
expiry == <<aged, lapsed>>
loss   == <<gone, adrift>>
vars   == <<row, caller, owner, intuit, expiry, loss, selfRefused, faults>>

Token  == 1..MaxTok
Status == {"connected", "expired", "needs_reconnect"}
Row    == [tok : Token, status : Status]
Place  == {"idle", "lock", "expire", "ask", "save", "mark", "swap", "latest",
           "use"}
Idle   == [at |-> "idle", seen |-> None, tok |-> 0, rejected |-> 0]

ASSUME Absent == None \notin Row

Init ==
  /\ row = None /\ lock = [p \in Proc |-> None] /\ call = [c \in Caller |-> Idle]
  /\ visit = [g \in Grant |-> "none"] /\ code = [g \in Grant |-> 0]
  /\ bye = [at |-> "idle", tok |-> 0]
  /\ grant = [t \in Token |-> None] /\ live = {} /\ aged = {} /\ lapsed = {}
  /\ gone = {} /\ adrift = {} /\ rotator = [t \in Token |-> None]
  /\ want = None /\ overlap = FALSE /\ selfRefused = FALSE /\ faults = 0

-----------------------------------------------------------------------------
(* A caller: ensure_fresh, the data call, and the refresh after a 401      *)

Usable(r) == r.status = "connected" /\ r.tok \notin aged
At(c, p)  == call[c].at = p
Go(c, at, seen, tok, rejected) ==
  call' = [call EXCEPT ![c] = [at |-> at, seen |-> seen, tok |-> tok,
                               rejected |-> rejected]]
Move(c, p) == Go(c, p, call[c].seen, call[c].tok, call[c].rejected)
Finish(c)  == Go(c, "idle", None, 0, 0)

\* What api_client makes of the connection it is returned.
UseRow(c, r) ==
  IF r # None /\ r.status = "connected"
  THEN Go(c, "use", None, r.tok, call[c].rejected) ELSE Finish(c)

Unlock(c)  == lock' = [lock EXCEPT ![Home[c]] = None]

\* ensure_fresh reads the row before it takes the lock.
Fetch(c) ==
  /\ At(c, "idle")
  /\ row # None /\ row.status # "needs_reconnect"
  /\ IF Usable(row) THEN UseRow(c, row)
     ELSE Move(c, "lock")
  /\ UNCHANGED <<row, lock, owner, intuit, expiry, loss, selfRefused, faults>>

\* Under the lock the row is read again: another caller may have refreshed it.
\* After a 401 the stored token is used when it is not the rejected one.
Enough(c, r) == IF call[c].rejected = 0 THEN Usable(r)
                ELSE r.tok # call[c].rejected

NoLock(c) == TRUE
Free(c)   == lock[Home[c]] = None

Enter(c) ==
  /\ At(c, "lock") /\ Free(c)
  /\ IF row = None \/ row.status = "needs_reconnect"
     THEN Finish(c) /\ UNCHANGED lock
     ELSE IF Enough(c, row)
     THEN Go(c, "use", None, row.tok, call[c].rejected) /\ UNCHANGED lock
     ELSE /\ lock' = [lock EXCEPT ![Home[c]] = c]
          /\ Go(c, IF row.tok \in lapsed THEN "expire" ELSE "ask", row,
                call[c].tok, call[c].rejected)
  /\ UNCHANGED <<row, owner, intuit, expiry, loss, selfRefused, faults>>

\* A save replaces whatever token the row has.
Replaced == IF row = None THEN {} ELSE {row.tok}
Store(t, status) == /\ row' = [tok |-> t, status |-> status]
                    /\ adrift' = (adrift \cup Replaced) \ {t}

\* The refresh token has lapsed by our own stamp: the row is saved whole.
SaveExpired(c) ==
  /\ At(c, "expire")
  /\ Store(call[c].seen.tok, "expired")
  /\ Finish(c) /\ Unlock(c)
  /\ UNCHANGED <<owner, intuit, expiry, gone, selfRefused, faults>>

Fresh(t) == grant[t] = None /\ \A u \in Token : u < t => grant[u] # None

\* Intuit takes the refresh token and issues its successor.
Rotated(c, t) ==
  /\ At(c, "ask") /\ call[c].seen.tok \in live
  /\ Fresh(t)
  /\ grant' = [grant EXCEPT ![t] = grant[call[c].seen.tok]]
  /\ live' = (live \ {call[c].seen.tok}) \cup {t}
  /\ rotator' = [rotator EXCEPT ![call[c].seen.tok] = Home[c]]

Refresh(c) ==
  /\ \E t \in Token :
       /\ Rotated(c, t)
       /\ Go(c, "save", call[c].seen, t, call[c].rejected)
  /\ UNCHANGED <<row, lock, owner, expiry, loss, selfRefused, faults>>

\* It does, and the answer never arrives: the call fails with a network error.
AnswerLost(c) ==
  /\ faults < MaxFaults /\ faults' = faults + 1
  /\ \E t \in Token : Rotated(c, t) /\ adrift' = adrift \cup {t}
  /\ gone' = gone \cup {call[c].seen.tok}
  /\ Finish(c) /\ Unlock(c)
  /\ UNCHANGED <<row, owner, expiry, selfRefused>>

\* The token endpoint fails in any other way: the call raises, nothing is saved.
AfterFailureMarks(c) == Move(c, "mark") /\ UNCHANGED lock
AfterFailure(c) == Finish(c) /\ Unlock(c)

AskFails(c) ==
  /\ At(c, "ask") /\ AfterFailure(c)
  /\ UNCHANGED <<row, owner, intuit, expiry, loss, selfRefused, faults>>

\* invalid_grant.
Refused(c) ==
  /\ At(c, "ask") /\ call[c].seen.tok \notin live
  /\ selfRefused' = \/ selfRefused
                    \/ /\ rotator[call[c].seen.tok] = Home[c]
                       /\ call[c].seen.tok \notin gone
  /\ Move(c, "mark")
  /\ UNCHANGED <<row, lock, owner, intuit, expiry, loss, faults>>

\* The token Intuit returned replaces the stored one, always.
OldTokenKept(c) == call[c].seen.tok
NewToken(c)     == call[c].tok

Save(c) ==
  /\ At(c, "save")
  /\ Store(NewToken(c), "connected")
  /\ UseRow(c, [tok |-> call[c].tok, status |-> "connected"]) /\ Unlock(c)
  /\ UNCHANGED <<owner, intuit, expiry, gone, selfRefused, faults>>

\* replace_if_refresh_token: read the row's text, then UPDATE where it is still
\* that text.
MarkRead(c) ==
  /\ At(c, "mark")
  /\ IF row # None /\ row.tok = call[c].seen.tok
     THEN Go(c, "swap", row, call[c].tok, call[c].rejected)
     ELSE Move(c, "latest")
  /\ UNCHANGED <<row, lock, owner, intuit, expiry, loss, selfRefused, faults>>

Unconditional(c) == TRUE
Unchanged(c)     == row = call[c].seen

Swap(c) ==
  /\ At(c, "swap")
  /\ IF Unchanged(c)
     THEN /\ row' = [tok |-> call[c].seen.tok, status |-> "needs_reconnect"]
          /\ Finish(c) /\ Unlock(c)
     ELSE Move(c, "latest") /\ UNCHANGED <<row, lock>>
  /\ UNCHANGED <<owner, intuit, expiry, loss, selfRefused, faults>>

\* It lost: another caller's connection is returned instead.
Latest(c) ==
  /\ At(c, "latest") /\ UseRow(c, row) /\ Unlock(c)
  /\ UNCHANGED <<row, owner, intuit, expiry, loss, selfRefused, faults>>

\* The data call returns, or fails for good.
Return(c) ==
  /\ At(c, "use") /\ Finish(c)
  /\ UNCHANGED <<row, lock, owner, intuit, expiry, loss, selfRefused, faults>>

\* A 401 refreshes the token once.
Unauthorized(c) ==
  /\ At(c, "use") /\ call[c].rejected = 0 /\ call[c].tok \in aged \cup gone
  /\ Go(c, "lock", None, 0, call[c].tok)
  /\ UNCHANGED <<row, lock, owner, intuit, expiry, loss, selfRefused, faults>>

-----------------------------------------------------------------------------
(* The owner: connect, callback, disconnect                                *)

InFlight == \E c \in Caller : call[c].at \in {"expire", "ask", "save"}

\* The callback's state is verified, which consumes its nonce, and its code is
\* exchanged.
Exchange(g) ==
  /\ visit[g] = "none" /\ visit' = [visit EXCEPT ![g] = "exchanged"]
  /\ \E t \in Token :
       /\ Fresh(t)
       /\ grant' = [grant EXCEPT ![t] = g] /\ live' = live \cup {t}
       /\ code' = [code EXCEPT ![g] = t]
  /\ UNCHANGED <<row, caller, bye, want, overlap, rotator, expiry, loss,
                 selfRefused, faults>>

\* The connection is saved over whatever is stored; no lock is taken.
Connect(g) ==
  /\ visit[g] = "exchanged" /\ visit' = [visit EXCEPT ![g] = "done"]
  /\ Store(code[g], "connected")
  /\ want' = g /\ overlap' = InFlight
  /\ UNCHANGED <<caller, code, bye, intuit, expiry, gone, selfRefused, faults>>

Disconnect ==
  /\ bye.at = "idle" /\ row # None
  /\ bye' = [at |-> "revoke", tok |-> row.tok]
  /\ UNCHANGED <<row, caller, visit, code, want, overlap, intuit, expiry, loss,
                 selfRefused, faults>>

\* Best effort: revoking a token ends its consent, and a failure is ignored.
Revoke(ok) ==
  /\ bye.at = "revoke" /\ bye' = [bye EXCEPT !.at = "delete"]
  /\ LET ended == IF ok /\ bye.tok \in live THEN {bye.tok} ELSE {}
     IN  live' = live \ ended /\ gone' = gone \cup ended
  /\ UNCHANGED <<row, caller, visit, code, want, overlap, grant, rotator,
                 expiry, adrift, selfRefused, faults>>

Delete ==
  /\ bye.at = "delete" /\ bye' = [at |-> "idle", tok |-> 0]
  /\ row' = None /\ adrift' = adrift \cup Replaced
  /\ want' = None /\ overlap' = InFlight
  /\ UNCHANGED <<caller, visit, code, intuit, expiry, gone, selfRefused, faults>>

-----------------------------------------------------------------------------
(* Time, Intuit, and the process                                           *)

Age(t) ==
  /\ grant[t] # None /\ t \notin aged /\ Cardinality(aged) < MaxAged
  /\ aged' = aged \cup {t}
  /\ UNCHANGED <<row, caller, owner, intuit, lapsed, loss, selfRefused, faults>>

\* Our stamp of a refresh token's end is later than Intuit's own.
Lapse(t) ==
  /\ t \in aged \ lapsed /\ faults < MaxFaults /\ faults' = faults + 1
  /\ lapsed' = lapsed \cup {t} /\ live' = live \ {t}
  /\ gone' = IF t \in live THEN gone \cup {t} ELSE gone
  /\ UNCHANGED <<row, caller, owner, grant, rotator, aged, adrift, selfRefused>>

\* The owner removes the app at Intuit, or Intuit withdraws the consent.
Withdraw(t) ==
  /\ t \in live /\ faults < MaxFaults /\ faults' = faults + 1
  /\ live' = live \ {t} /\ gone' = gone \cup {t}
  /\ UNCHANGED <<row, caller, owner, grant, rotator, expiry, adrift, selfRefused>>

\* A process dies with its lock and all its callers hold.
Crash(p) ==
  /\ faults < MaxFaults /\ faults' = faults + 1
  /\ \E c \in Caller : Home[c] = p /\ ~At(c, "idle")
  /\ LET mine == {c \in Caller : Home[c] = p /\ At(c, "save")}
     IN  /\ adrift' = adrift \cup {call[c].tok : c \in mine}
         /\ gone' = gone \cup {call[c].seen.tok : c \in mine}
  /\ call' = [c \in Caller |-> IF Home[c] = p THEN Idle ELSE call[c]]
  /\ lock' = [lock EXCEPT ![p] = None]
  /\ UNCHANGED <<row, owner, intuit, expiry, selfRefused>>

\* A callback fails after its nonce was consumed: the consent must be given anew.
CallbackFails(g) ==
  /\ visit[g] \in {"none", "exchanged"}
  /\ faults < MaxFaults /\ faults' = faults + 1
  /\ visit' = [visit EXCEPT ![g] = "done"]
  /\ adrift' = IF visit[g] = "exchanged" THEN adrift \cup {code[g]} ELSE adrift
  /\ UNCHANGED <<row, caller, code, bye, want, overlap, intuit, expiry, gone,
                 selfRefused>>

Step(c) == \/ Fetch(c) \/ Enter(c) \/ SaveExpired(c) \/ Refresh(c)
           \/ AnswerLost(c) \/ AskFails(c) \/ Refused(c) \/ Save(c)
           \/ MarkRead(c) \/ Swap(c) \/ Latest(c) \/ Return(c)
           \/ Unauthorized(c)

Next == \/ \E c \in Caller : Step(c)
        \/ \E g \in Grant : Exchange(g) \/ Connect(g) \/ CallbackFails(g)
        \/ Disconnect \/ (\E ok \in BOOLEAN : Revoke(ok)) \/ Delete
        \/ \E t \in Token : Age(t) \/ Lapse(t) \/ Withdraw(t)
        \/ \E p \in Proc : Crash(p)

Spec == Init /\ [][Next]_vars

-----------------------------------------------------------------------------
(* Properties                                                              *)

Seen   == Row \cup {None}
Locked == {"expire", "ask", "save", "mark", "swap", "latest"}

TypeOK ==
  /\ row \in Seen /\ lock \in [Proc -> Caller \cup {None}]
  /\ call \in [Caller -> [at : Place, seen : Seen, tok : 0..MaxTok,
                          rejected : 0..MaxTok]]
  /\ visit \in [Grant -> {"none", "exchanged", "done"}]
  /\ code \in [Grant -> 0..MaxTok]
  /\ bye \in [at : {"idle", "revoke", "delete"}, tok : 0..MaxTok]
  /\ grant \in [Token -> Grant \cup {None}]
  /\ live \subseteq Token /\ lapsed \subseteq aged /\ aged \subseteq Token
  /\ gone \subseteq Token /\ adrift \subseteq Token
  /\ rotator \in [Token -> Proc \cup {None}]
  /\ want \in Grant \cup {None} /\ overlap \in BOOLEAN
  /\ selfRefused \in BOOLEAN /\ faults \in 0..MaxFaults
  /\ \A c \in Caller : call[c].at \in Locked <=> lock[Home[c]] = c

\* A connection marked needs-reconnect really needs it: its consent has no good
\* token left, but one a caller is about to save or one that was lost on the way.
\* Two processes that refresh the same token at one time must not cost it.
NeedsReconnectIsTrue ==
  row # None /\ row.status = "needs_reconnect" =>
    \A t \in live : grant[t] = grant[row.tok] =>
      t \in adrift \/ \E c \in Caller : At(c, "save") /\ call[c].tok = t

\* A connection stored as connected holds the token Intuit will take next, or
\* its successor is on the way to the row, or Intuit has ended it.
ConnectedIsUsable ==
  row # None /\ row.status = "connected" =>
    \/ row.tok \in live \cup gone
    \/ \E c \in Caller : At(c, "save") /\ call[c].seen.tok = row.tok

\* What the owner last did stands, a reconnect or a disconnect, whatever the
\* callers do, unless a refresh was in flight when the owner's write landed.
OwnerDecisionStands ==
  ~overlap => IF want = None THEN row = None
              ELSE row # None /\ grant[row.tok] = want

\* The lock and the second read keep a process from presenting a token it has
\* itself rotated away, which Intuit would refuse.
NoSelfInflictedRefusal == ~selfRefused
=============================================================================
