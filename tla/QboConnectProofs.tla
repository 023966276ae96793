-------------------------- MODULE QboConnectProofs --------------------------
(***************************************************************************)
(* What holds of the stored connection whatever callers, owner and Intuit  *)
(* do, for any number of processes, callers and consents.  The argument    *)
(* follows the tokens: one that a caller is about to save, or that a       *)
(* callback was given for its code, is in one hand only and nobody else    *)
(* has read it; every other live token is the row's or was dropped.        *)
(***************************************************************************)
EXTENDS QboConnect, TLAPS

\* Who has a token in hand that the row has not had yet.
Saving(c)   == call[c].at = "save"
Visiting(g) == visit[g] = "exchanged"

\* Somebody has read the token from the row, or the row has it.
Known(t) == \/ row # None /\ row.tok = t
            \/ \E c \in Caller : call[c].seen # None /\ call[c].seen.tok = t
            \/ bye.at # "idle" /\ bye.tok = t

\* Somebody has the token in hand.
Held(t) == \/ \E c \in Caller : Saving(c) /\ call[c].tok = t
           \/ \E g \in Grant : Visiting(g) /\ code[g] = t

Issued(t) == grant[t] # None

Read == {"expire", "ask", "save", "mark", "swap"}

\* What each caller has in hand has its type, and was issued.
Shape ==
  /\ \A c \in Caller : /\ call[c].at \in Read => call[c].seen # None
                       /\ Saving(c) => call[c].tok \in Token
                       /\ call[c].at = "expire" => call[c].seen.tok \in lapsed
  /\ \A g \in Grant : Visiting(g) => code[g] \in Token
  /\ \A t \in Token : Known(t) \/ Held(t) => Issued(t)
  /\ bye.at # "idle" => bye.tok \in Token
  /\ live \cup gone \subseteq {t \in Token : Issued(t)}
  /\ \A t \in Token : rotator[t] # None => Issued(t) /\ t \notin live

\* A token in hand: nobody else has it or has read it, and Intuit takes it unless
\* it was lost.
InHand(t) == ~Known(t) /\ rotator[t] = None /\ t \in live \cup gone

Hands ==
  /\ \A t \in Token : Held(t) => InHand(t)
  /\ \A c, d \in Caller : Saving(c) /\ Saving(d) /\ call[c].tok = call[d].tok => c = d
  /\ \A g, h \in Grant : Visiting(g) /\ Visiting(h) /\ code[g] = code[h] => g = h
  /\ \A c \in Caller, g \in Grant : Saving(c) /\ Visiting(g) => call[c].tok # code[g]

\* No live token is lost sight of.
Accounted(t) ==
  t \in adrift \/ (row # None /\ row.tok = t) \/ Held(t)

\* A refusal is marked of a token Intuit does not take, and a consent whose
\* callback is under way has no other token.
Marked ==
  /\ \A t \in live : Accounted(t)
  /\ \A c \in Caller : call[c].at \in {"mark", "swap"} => call[c].seen.tok \notin live
  /\ row # None /\ row.status = "needs_reconnect" => row.tok \notin live
  /\ \A g \in Grant : visit[g] = "none" => \A t \in Token : grant[t] # g
  /\ \A g \in Grant : Visiting(g) => \A t \in Token : grant[t] = g => t = code[g]

\* A process that rotated the row's token away is still to save its successor,
\* and a caller about to present a token has not seen its process rotate it.
Spared ==
  /\ ~selfRefused
  /\ \A c \in Caller : call[c].at = "ask" /\ rotator[call[c].seen.tok] = Home[c] =>
       call[c].seen.tok \in gone
  /\ \A p \in Proc : row # None /\ rotator[row.tok] = p =>
       \/ row.tok \in gone \cup lapsed
       \/ \E c \in Caller : Home[c] = p /\ Saving(c) /\ call[c].seen.tok = row.tok

\* While no refresh was in flight when the owner wrote, one in flight now is of
\* the consent the owner wants.
Decided ==
  /\ \A c \in Caller : Saving(c) => grant[call[c].tok] = grant[call[c].seen.tok]
  /\ \A g \in Grant : Visiting(g) => grant[code[g]] = g
  /\ ~overlap =>
       \A c \in Caller : call[c].at \in {"expire", "ask", "save"} =>
         row # None /\ grant[call[c].seen.tok] = want

IInv == TypeOK /\ Shape /\ Hands /\ Marked /\ ConnectedIsUsable /\ Spared /\ Decided
        /\ OwnerDecisionStands

-----------------------------------------------------------------------------
(* What a step of a caller does                                            *)

InCall == [at : Place, seen : Seen, tok : 0..MaxTok, rejected : 0..MaxTok]

\* c alone moves, and is then at a place with what it has seen and its token.
Went(c, at, seen, tok) ==
  /\ call' \in [Caller -> InCall]
  /\ call'[c].at = at /\ call'[c].seen = seen /\ call'[c].tok = tok
  /\ \A d \in Caller : d # c => call'[d] = call[d]

LEMMA Goes ==
  ASSUME TypeOK, NEW c \in Caller, NEW at \in Place, NEW seen \in Seen,
         NEW tok \in 0..MaxTok, NEW rejected \in 0..MaxTok,
         Go(c, at, seen, tok, rejected)
  PROVE  Went(c, at, seen, tok)
<1>1. [at |-> at, seen |-> seen, tok |-> tok, rejected |-> rejected] \in InCall
  BY DEF InCall
<1>2. call \in [Caller -> InCall]
  BY DEF TypeOK, InCall
<1>3. call'[c] = [at |-> at, seen |-> seen, tok |-> tok, rejected |-> rejected]
  BY <1>2 DEF Go
<1>4. call' \in [Caller -> InCall] /\ \A d \in Caller : d # c => call'[d] = call[d]
  BY <1>1, <1>2 DEF Go
<1> QED BY <1>3, <1>4 DEF Went

LEMMA Moving ==
  ASSUME TypeOK, NEW c \in Caller
  PROVE  /\ Finish(c) => Went(c, "idle", None, 0)
         /\ \A p \in Place : Move(c, p) => Went(c, p, call[c].seen, call[c].tok)
         /\ \A r \in Seen : UseRow(c, r) =>
              \/ Went(c, "idle", None, 0)
              \/ r # None /\ r.status = "connected" /\ Went(c, "use", None, r.tok)
<1>0. /\ call[c].at \in Place /\ call[c].seen \in Seen /\ call[c].tok \in 0..MaxTok
      /\ call[c].rejected \in 0..MaxTok
      /\ None \in Seen /\ 0 \in 0..MaxTok /\ "idle" \in Place /\ "use" \in Place
      /\ \A r \in Seen : r # None => r.tok \in 0..MaxTok
  BY QboAssumption DEF TypeOK, Seen, Place, Row, Token
<1>1. Finish(c) => Went(c, "idle", None, 0)
  BY <1>0, Goes DEF Finish
<1>2. ASSUME NEW p \in Place, Move(c, p) PROVE Went(c, p, call[c].seen, call[c].tok)
  BY <1>0, <1>2, Goes DEF Move
<1>3. ASSUME NEW r \in Seen, UseRow(c, r)
      PROVE  \/ Went(c, "idle", None, 0)
             \/ r # None /\ r.status = "connected" /\ Went(c, "use", None, r.tok)
  BY <1>0, <1>1, <1>3, Goes DEF UseRow
<1> QED BY <1>1, <1>2, <1>3

\* The lock and the callers that are past it agree.
Keys == /\ lock \in [Proc -> Caller \cup {None}]
        /\ \A c \in Caller : call[c].at \in Locked <=> lock[Home[c]] = c

LEMMA KeysKept ==
  ASSUME TypeOK, NEW c \in Caller, NEW at, NEW seen, NEW tok, Went(c, at, seen, tok),
         \/ lock' = lock /\ (at \in Locked <=> call[c].at \in Locked)
         \/ Unlock(c) /\ call[c].at \in Locked /\ at \notin Locked
         \/ /\ lock' = [lock EXCEPT ![Home[c]] = c] /\ lock[Home[c]] = None
            /\ at \in Locked
  PROVE  Keys'
<1>1. Home \in [Caller -> Proc] /\ None \notin Caller
  BY QboAssumption
<1>2. Keys
  BY DEF TypeOK, Keys
<1>3. call'[c].at = at /\ \A d \in Caller : d # c => call'[d] = call[d]
  BY DEF Went
<1>4. CASE lock' = lock /\ (at \in Locked <=> call[c].at \in Locked)
  BY <1>2, <1>3, <1>4 DEF Keys
<1>5. CASE Unlock(c) /\ call[c].at \in Locked /\ at \notin Locked
  BY <1>1, <1>2, <1>3, <1>5 DEF Keys, Unlock
<1>6. CASE /\ lock' = [lock EXCEPT ![Home[c]] = c] /\ lock[Home[c]] = None
           /\ at \in Locked
  BY <1>1, <1>2, <1>3, <1>6 DEF Keys
<1> QED BY <1>4, <1>5, <1>6

-----------------------------------------------------------------------------
(* Steps that leave the row, the tokens and the owner alone                *)

Quiet(c) ==
  /\ UNCHANGED <<row, visit, code, bye, want, overlap, grant, live, rotator, aged,
                 lapsed, gone, adrift, selfRefused, faults>>
  /\ call' \in [Caller -> InCall] /\ Keys'
  /\ \A d \in Caller : d # c => call'[d] = call[d]
  /\ ~Saving(c) /\ call'[c].at # "save"
  /\ call'[c].seen \in {None, call[c].seen, row}
  /\ call'[c].at \in Read => call'[c].seen # None
  /\ call'[c].at = "expire" => row.tok \in lapsed
  /\ call'[c].at \in {"expire", "ask"} => call'[c].seen = row /\ row # None
  /\ call'[c].at = "ask" => row.tok \notin lapsed /\ lock[Home[c]] = None
  /\ call'[c].at \in {"mark", "swap"} => call'[c].seen.tok \notin live

Core == TypeOK /\ Shape /\ Marked /\ Spared

\* A quiet step, told by where it goes.
LEMMA QuietMove ==
  ASSUME Core, NEW c \in Caller, NEW at, NEW seen, NEW tok, Went(c, at, seen, tok),
         UNCHANGED <<row, visit, code, bye, want, overlap, grant, live, rotator, aged,
                     lapsed, gone, adrift, selfRefused, faults>>,
         call[c].at # "save", at \notin {"save", "expire", "ask"},
         seen \in {None, call[c].seen, row}, at \in Read => seen # None,
         at \in {"mark", "swap"} => seen.tok \notin live,
         \/ lock' = lock /\ (at \in Locked <=> call[c].at \in Locked)
         \/ Unlock(c) /\ call[c].at \in Locked /\ at \notin Locked
  PROVE  Quiet(c)
<1>1. Keys'
  BY KeysKept DEF Core
<1> QED BY <1>1 DEF Quiet, Went, Saving

LEMMA QuietSteps ==
  ASSUME Core, NEW c \in Caller,
         \/ Fetch(c) \/ Enter(c) \/ AskFails(c) \/ Refused(c) \/ MarkRead(c) \/ Latest(c)
         \/ Return(c) \/ Unauthorized(c) \/ (Swap(c) /\ ~Unchanged(c))
  PROVE  Quiet(c)
<1> DEFINE Rest == UNCHANGED <<row, visit, code, bye, want, overlap, grant, live, rotator,
                               aged, lapsed, gone, adrift, selfRefused, faults>>
<1>0. /\ TypeOK /\ Shape /\ Marked /\ row \in Seen /\ call[c] \in InCall
      /\ None \in Seen /\ 0 \in 0..MaxTok
  BY QboAssumption DEF Core, TypeOK, InCall, Seen
<1>1. CASE Fetch(c)
  <2>1. Rest /\ lock' = lock /\ call[c].at = "idle"
    BY <1>1 DEF Fetch, owner, intuit, expiry, loss, At
  <2>2. CASE Went(c, "idle", None, 0)
    BY <2>1, <2>2, QuietMove DEF Locked, Read
  <2>3. CASE Went(c, "use", None, row.tok)
    BY <2>1, <2>3, QuietMove DEF Locked, Read
  <2>4. CASE Went(c, "lock", call[c].seen, call[c].tok)
    BY <2>1, <2>4, QuietMove DEF Locked, Read
  <2> QED BY <1>0, <1>1, <2>2, <2>3, <2>4, Moving DEF Fetch, Place
<1>2. CASE Enter(c)
  <2>1. Rest /\ call[c].at = "lock"
    BY <1>2 DEF Enter, owner, intuit, expiry, loss, At
  <2>2. CASE row = None \/ row.status = "needs_reconnect"
    <3>1. Went(c, "idle", None, 0) /\ lock' = lock
      BY <1>0, <1>2, <2>2, Moving DEF Enter
    <3> QED BY <2>1, <3>1, QuietMove DEF Locked, Read
  <2>3. CASE ~(row = None \/ row.status = "needs_reconnect") /\ Enough(c, row)
    <3>1. Go(c, "use", None, row.tok, call[c].rejected) /\ lock' = lock
      BY <1>2, <2>3 DEF Enter
    <3>2. Went(c, "use", None, row.tok)
      BY <1>0, <2>3, <3>1, Goes DEF Place, Row, Token, Seen, InCall
    <3> QED BY <2>1, <3>1, <3>2, QuietMove DEF Locked, Read
  <2>4. CASE ~(row = None \/ row.status = "needs_reconnect") /\ ~Enough(c, row)
    <3> DEFINE at == IF row.tok \in lapsed THEN "expire" ELSE "ask"
    <3>1. /\ Go(c, at, row, call[c].tok, call[c].rejected) /\ row # None
          /\ lock' = [lock EXCEPT ![Home[c]] = c] /\ lock[Home[c]] = None
      BY <1>2, <2>4 DEF Enter, Free
    <3>2. at \in Place /\ at \in Locked
      BY DEF Place, Locked
    <3>3. at \in {"expire", "ask"} /\ (at = "expire" <=> row.tok \in lapsed)
      OBVIOUS
    <3> HIDE DEF at
    <3>4. Went(c, at, row, call[c].tok)
      BY <1>0, <3>1, <3>2, Goes DEF InCall
    <3>5. Keys'
      BY <1>0, <3>1, <3>2, <3>4, KeysKept
    <3> QED BY <2>1, <3>1, <3>3, <3>4, <3>5 DEF Quiet, Went, Saving
  <2> QED BY <2>2, <2>3, <2>4
<1>3. CASE AskFails(c)
  <2>1. Rest /\ Unlock(c) /\ call[c].at = "ask" /\ Went(c, "idle", None, 0)
    BY <1>0, <1>3, Moving DEF AskFails, AfterFailure, owner, intuit, expiry, loss, At
  <2> QED BY <2>1, QuietMove DEF Locked, Read
<1>4. CASE Refused(c)
  <2>1. /\ UNCHANGED <<row, visit, code, bye, want, overlap, grant, live, rotator, aged,
                       lapsed, gone, adrift, faults>>
        /\ lock' = lock /\ call[c].at = "ask" /\ call[c].seen.tok \notin live
    BY <1>4 DEF Refused, owner, intuit, expiry, loss, At
  <2>2. selfRefused' = selfRefused
    BY <1>4, <2>1 DEF Core, Spared, Refused, TypeOK
  <2>3. call[c].seen # None
    BY <1>0, <2>1 DEF Shape, Read
  <2>4. Went(c, "mark", call[c].seen, call[c].tok)
    BY <1>0, <1>4, Moving DEF Refused, Place
  <2> QED BY <2>1, <2>2, <2>3, <2>4, QuietMove DEF Locked
<1>5. CASE MarkRead(c)
  <2>1. Rest /\ lock' = lock /\ call[c].at = "mark"
    BY <1>5 DEF MarkRead, owner, intuit, expiry, loss, At
  <2>2. call[c].seen # None /\ call[c].seen.tok \notin live
    BY <1>0, <2>1 DEF Shape, Read, Marked
  <2>3. CASE row # None /\ row.tok = call[c].seen.tok
    <3>1. Went(c, "swap", row, call[c].tok)
      BY <1>0, <1>5, <2>3, Goes DEF MarkRead, Place, InCall
    <3> QED BY <2>1, <2>2, <2>3, <3>1, QuietMove DEF Locked
  <2>4. CASE ~(row # None /\ row.tok = call[c].seen.tok)
    <3>1. Went(c, "latest", call[c].seen, call[c].tok)
      BY <1>0, <1>5, <2>4, Moving DEF MarkRead, Place
    <3> QED BY <2>1, <3>1, QuietMove DEF Locked, Read
  <2> QED BY <2>3, <2>4
<1>6. CASE Latest(c)
  <2>1. Rest /\ Unlock(c) /\ call[c].at = "latest"
    BY <1>6 DEF Latest, owner, intuit, expiry, loss, At
  <2>2. CASE Went(c, "idle", None, 0)
    BY <2>1, <2>2, QuietMove DEF Locked, Read
  <2>3. CASE Went(c, "use", None, row.tok)
    BY <2>1, <2>3, QuietMove DEF Locked, Read
  <2> QED BY <1>0, <1>6, <2>2, <2>3, Moving DEF Latest
<1>7. CASE Return(c)
  <2>1. Rest /\ lock' = lock /\ call[c].at = "use" /\ Went(c, "idle", None, 0)
    BY <1>0, <1>7, Moving DEF Return, owner, intuit, expiry, loss, At
  <2> QED BY <2>1, QuietMove DEF Locked, Read
<1>8. CASE Unauthorized(c)
  <2>1. Rest /\ lock' = lock /\ call[c].at = "use"
    BY <1>8 DEF Unauthorized, owner, intuit, expiry, loss, At
  <2>2. Went(c, "lock", None, 0)
    BY <1>0, <1>8, Goes DEF Unauthorized, Place, InCall
  <2> QED BY <2>1, <2>2, QuietMove DEF Locked, Read
<1>9. CASE Swap(c) /\ ~Unchanged(c)
  <2>1. Rest /\ lock' = lock /\ call[c].at = "swap"
    BY <1>9 DEF Swap, owner, intuit, expiry, loss, At
  <2>2. Went(c, "latest", call[c].seen, call[c].tok)
    BY <1>0, <1>9, Moving DEF Swap, Place
  <2> QED BY <2>1, <2>2, QuietMove DEF Locked, Read
<1> QED BY <1>1, <1>2, <1>3, <1>4, <1>5, <1>6, <1>7, <1>8, <1>9

LEMMA QuietKeeps ==
  ASSUME IInv, NEW c \in Caller, Quiet(c)
  PROVE  IInv'
<1>1. TypeOK'
  BY DEF IInv, TypeOK, Quiet, Keys, InCall
<1>2. \A t \in Token : Known(t)' => Known(t)
  BY DEF Quiet, Known
<1>3. \A d \in Caller : Saving(d)' <=> Saving(d)
  BY DEF Quiet, Saving
<1>4. \A d \in Caller : Saving(d) => call'[d] = call[d]
  BY DEF Quiet, Saving
<1>5. \A g \in Grant : Visiting(g)' <=> Visiting(g)
  BY DEF Quiet, Visiting
<1>0. \A t \in Token : Held(t)' <=> Held(t)
  BY <1>3, <1>4, <1>5 DEF Held, Quiet
<1>6. Shape'
  BY <1>0, <1>2, <1>3, <1>4, <1>5 DEF IInv, Shape, Quiet, Issued
<1>7. Hands'
  BY <1>0, <1>2, <1>3, <1>4, <1>5 DEF IInv, Hands, InHand, Quiet
<1>8. Marked'
  <2>1. \A t \in live : Accounted(t)'
    BY <1>0 DEF IInv, TypeOK, Marked, Accounted, Quiet
  <2> QED BY <2>1, <1>5 DEF IInv, Marked, Quiet
<1>9. ConnectedIsUsable'
  BY <1>3, <1>4 DEF IInv, ConnectedIsUsable, Saving, At, Quiet
<1>10. Spared'
  BY <1>3, <1>4, QboAssumption DEF IInv, Spared, Quiet, TypeOK, Saving, Locked
<1>11. Decided' /\ OwnerDecisionStands'
  BY <1>3, <1>4, <1>5 DEF IInv, Decided, OwnerDecisionStands, Quiet
<1> QED BY <1>1, <1>6, <1>7, <1>8, <1>9, <1>10, <1>11 DEF IInv

-----------------------------------------------------------------------------
(* Steps of a caller that write the row                                    *)

\* c has written the row, given up its lock and gone on with nothing it has seen.
Wrote(c) ==
  /\ UNCHANGED <<visit, code, bye, want, overlap, grant, live, rotator, aged, lapsed,
                 gone, selfRefused, faults>>
  /\ call' \in [Caller -> InCall] /\ Keys'
  /\ \A d \in Caller : d # c => call'[d] = call[d]
  /\ call'[c].at \notin Locked /\ call'[c].seen = None

LEMMA WriteMoves ==
  ASSUME IInv, NEW c \in Caller, Unlock(c), call[c].at \in Locked,
         NEW at \in {"idle", "use"}, NEW tok, Went(c, at, None, tok),
         UNCHANGED <<visit, code, bye, want, overlap, grant, live, rotator, aged, lapsed,
                     gone, selfRefused, faults>>
  PROVE  Wrote(c)
<1>1. at \notin Locked
  BY DEF Locked
<1>2. Keys'
  BY <1>1, KeysKept DEF IInv
<1> QED BY <1>1, <1>2 DEF Wrote, Went

\* Nothing new is known but the token the row now has, and no caller but c loses
\* what it has in hand.
LEMMA WriteKnown ==
  ASSUME IInv, NEW c \in Caller, Wrote(c), NEW t \in Token, NEW s \in Status,
         Store(t, s)
  PROVE  /\ \A u \in Token : Known(u)' => Known(u) \/ u = t
         /\ \A d \in Caller : Saving(d)' => Saving(d) /\ d # c /\ call'[d] = call[d]
         /\ \A d \in Caller : Saving(d) /\ d # c => Saving(d)'
         /\ \A g \in Grant : Visiting(g)' <=> Visiting(g)
         /\ \A u \in Token : Held(u)' => Held(u)
         /\ row' # None /\ row'.tok = t /\ row'.status = s
<1>1. row' = [tok |-> t, status |-> s]
  BY DEF Store
<1>2. \A d \in Caller : Saving(d)' => Saving(d) /\ d # c /\ call'[d] = call[d]
  BY DEF Wrote, Saving, Locked
<1>3. \A d \in Caller : Saving(d) /\ d # c => Saving(d)'
  BY DEF Wrote, Saving
<1>4. \A g \in Grant : Visiting(g)' <=> Visiting(g)
  BY DEF Wrote, Visiting
<1>5. \A u \in Token : Known(u)' => Known(u) \/ u = t
  BY <1>1 DEF Wrote, Known
<1>6. row' # None
  BY <1>1, Absent DEF Row
<1>7. \A u \in Token : Held(u)' => Held(u)
  BY <1>2, <1>4 DEF Wrote, Held
<1> QED BY <1>1, <1>2, <1>3, <1>4, <1>5, <1>6, <1>7

\* A save of a token that was issued, that no other hand holds, that Intuit takes
\* if the row is to say connected and that the owner's consent has.
LEMMA StoreKeeps ==
  ASSUME IInv, NEW c \in Caller, Wrote(c), NEW t \in Token, NEW s \in Status, Store(t, s),
         Issued(t), s # "needs_reconnect", Saving(c) => call[c].tok = t,
         \A d \in Caller : d # c /\ Saving(d) => call[d].tok # t,
         \A g \in Grant : Visiting(g) => code[g] # t,
         s = "connected" => t \in live \cup gone,
         \A p \in Proc : rotator[t] = p => t \in gone \cup lapsed,
         ~overlap => row # None /\ grant[t] = want
  PROVE  IInv'
<1>1. /\ \A u \in Token : Known(u)' => Known(u) \/ u = t
      /\ \A d \in Caller : Saving(d)' => Saving(d) /\ d # c /\ call'[d] = call[d]
      /\ \A d \in Caller : Saving(d) /\ d # c => Saving(d)'
      /\ \A g \in Grant : Visiting(g)' <=> Visiting(g)
      /\ \A u \in Token : Held(u)' => Held(u)
      /\ row' # None /\ row'.tok = t /\ row'.status = s
  BY WriteKnown
<1>2. UNCHANGED <<visit, code, bye, want, overlap, grant, live, rotator, aged, lapsed,
                  gone, selfRefused, faults>>
  BY DEF Wrote
<1>3. TypeOK'
  <2>1. row' \in Seen /\ adrift' \subseteq Token
    BY DEF Store, Replaced, Seen, Row, IInv, TypeOK
  <2> QED BY <1>2, <2>1 DEF IInv, TypeOK, Wrote, Keys, InCall
<1>4. Shape'
  BY <1>1, <1>2 DEF IInv, Shape, Issued, Wrote, Locked, Read
<1>5. Hands'
  <2>1. ASSUME NEW u \in Token, Held(u)' PROVE u # t /\ Held(u)
    BY <1>1, <1>2, <2>1 DEF Held
  <2>2. \A u \in Token : Held(u)' => InHand(u)'
    BY <1>1, <1>2, <2>1 DEF IInv, Hands, InHand
  <2> QED BY <1>1, <1>2, <2>2 DEF IInv, Hands
<1>6. Marked'
  <2>1. ASSUME NEW u \in live PROVE Accounted(u)'
    <3>1. Accounted(u)
      BY DEF IInv, Marked
    <3>2. CASE u = t
      BY <1>1, <3>2 DEF Accounted
    <3>3. CASE u # t /\ (u \in adrift \/ (row # None /\ row.tok = u))
      BY <3>3 DEF Accounted, Store, Replaced
    <3>4. CASE u # t /\ Held(u)
      <4>1. Held(u)'
        BY <1>1, <1>2, <3>4 DEF Held
      <4> QED BY <4>1 DEF Accounted
    <3> QED BY <3>1, <3>2, <3>3, <3>4 DEF Accounted
  <2> QED BY <1>1, <1>2, <2>1 DEF IInv, Marked, Wrote, Locked
<1>7. ConnectedIsUsable'
  BY <1>1, <1>2 DEF ConnectedIsUsable
<1>8. Spared'
  <2>1. \A d \in Caller : call'[d].at = "ask" => call'[d] = call[d]
    BY DEF Wrote, Locked
  <2> QED BY <1>1, <1>2, <2>1 DEF IInv, Spared
<1>9. Decided'
  <2>1. \A d \in Caller : call'[d].at \in {"expire", "ask", "save"} => call'[d] = call[d]
    BY DEF Wrote, Locked
  <2> QED BY <1>1, <1>2, <2>1 DEF IInv, Decided
<1>10. OwnerDecisionStands'
  BY <1>1, <1>2 DEF IInv, OwnerDecisionStands
<1> QED BY <1>3, <1>4, <1>5, <1>6, <1>7, <1>8, <1>9, <1>10 DEF IInv

LEMMA SaveExpiredKeeps ==
  ASSUME IInv, NEW c \in Caller, SaveExpired(c)
  PROVE  IInv'
<1> DEFINE t == call[c].seen.tok
<1>1. /\ call[c].at = "expire" /\ Store(t, "expired") /\ Unlock(c) /\ Finish(c)
      /\ UNCHANGED <<visit, code, bye, want, overlap, grant, live, rotator, aged, lapsed,
                     gone, selfRefused, faults>>
  BY DEF SaveExpired, At, owner, intuit, expiry
<1>2. /\ call[c].seen # None /\ call[c].seen \in Row /\ t \in Token /\ Known(t)
      /\ Issued(t) /\ t \in lapsed
  BY <1>1 DEF IInv, Shape, Read, TypeOK, Seen, Row, Known
<1>3. Wrote(c)
  <2>1. Went(c, "idle", None, 0) /\ call[c].at \in Locked
    BY <1>1, Moving DEF IInv, Locked
  <2> QED BY <1>1, <2>1, WriteMoves
<1>4. /\ ~Saving(c) /\ (\A d \in Caller : Saving(d) => call[d].tok # t)
      /\ \A g \in Grant : Visiting(g) => code[g] # t
  <2>1. ~Saving(c) /\ ~Held(t)
    BY <1>1, <1>2 DEF IInv, Hands, InHand, Saving
  <2> QED BY <2>1 DEF Held
<1>5. ~overlap => row # None /\ grant[t] = want
  BY <1>1 DEF IInv, Decided
<1>6. "expired" \in Status
  BY DEF Status
<1> HIDE DEF t
<1> QED BY <1>1, <1>2, <1>3, <1>4, <1>5, <1>6, StoreKeeps

LEMMA SaveKeeps ==
  ASSUME IInv, NEW c \in Caller, Save(c)
  PROVE  IInv'
<1> DEFINE t == call[c].tok
           r == [tok |-> t, status |-> "connected"]
<1>1. /\ Saving(c) /\ Store(t, "connected") /\ Unlock(c) /\ UseRow(c, r)
      /\ UNCHANGED <<visit, code, bye, want, overlap, grant, live, rotator, aged, lapsed,
                     gone, selfRefused, faults>>
  BY DEF Save, Saving, At, NewToken, owner, intuit, expiry
<1>2. t \in Token /\ Issued(t) /\ InHand(t)
  BY <1>1 DEF IInv, Shape, Issued, Hands, Held
<1>3. Wrote(c)
  <2>1. r \in Seen /\ "connected" \in Status
    BY <1>2 DEF Seen, Row, Status
  <2>2. \/ Went(c, "idle", None, 0)
        \/ Went(c, "use", None, r.tok)
    BY <1>1, <2>1, Moving DEF IInv
  <2>3. call[c].at \in Locked
    BY <1>1 DEF Saving, Locked
  <2> HIDE DEF r
  <2> QED BY <1>1, <2>2, <2>3, WriteMoves
<1>4. /\ \A d \in Caller : d # c /\ Saving(d) => call[d].tok # t
      /\ \A g \in Grant : Visiting(g) => code[g] # t
  BY <1>1 DEF IInv, Hands
<1>5. ~overlap => row # None /\ grant[t] = want
  BY <1>1 DEF IInv, Decided, Saving
<1>6. t \in live \cup gone /\ \A p \in Proc : rotator[t] # p
  BY <1>2, QboAssumption DEF InHand
<1>7. "connected" \in Status /\ call[c].tok = t
  BY DEF Status
<1> HIDE DEF t
<1> QED BY <1>1, <1>2, <1>3, <1>4, <1>5, <1>6, <1>7, StoreKeeps

\* Marking changes the status of a row whose token was refused.
LEMMA SwapKeeps ==
  ASSUME IInv, NEW c \in Caller, Swap(c), Unchanged(c)
  PROVE  IInv'
<1>1. /\ call[c].at = "swap" /\ row = call[c].seen /\ Unlock(c) /\ Finish(c)
      /\ row' = [tok |-> call[c].seen.tok, status |-> "needs_reconnect"]
      /\ UNCHANGED <<visit, code, bye, want, overlap, grant, live, rotator, aged, lapsed,
                     gone, adrift, selfRefused, faults>>
  BY DEF Swap, Unchanged, At, owner, intuit, expiry, loss
<1>2. row \in Row /\ row # None /\ row.tok \notin live
  BY <1>1 DEF IInv, Shape, Marked, Read, TypeOK, Seen
<1>3. /\ row' \in Row /\ row' # None /\ row'.tok = row.tok
      /\ row'.status = "needs_reconnect"
  BY <1>1, <1>2, Absent DEF Row, Status
<1>4. Wrote(c)
  <2>1. Went(c, "idle", None, 0) /\ call[c].at \in Locked
    BY <1>1, Moving DEF IInv, Locked
  <2> QED BY <1>1, <2>1, WriteMoves
<1>5. /\ \A d \in Caller : Saving(d)' <=> Saving(d)
      /\ \A d \in Caller : Saving(d) => call'[d] = call[d]
      /\ \A g \in Grant : Visiting(g)' <=> Visiting(g)
      /\ \A d \in Caller : call'[d].at \in Locked => call'[d] = call[d]
  BY <1>1, <1>4 DEF Wrote, Saving, Visiting, Locked
<1>6. \A u \in Token : Known(u)' => Known(u)
  BY <1>1, <1>2, <1>3, <1>4 DEF Wrote, Known
<1>7. TypeOK'
  BY <1>1, <1>3, <1>4 DEF IInv, TypeOK, Wrote, Keys, InCall, Seen
<1>13. \A u \in Token : Held(u)' <=> Held(u)
  BY <1>1, <1>5 DEF Held
<1>8. Shape' /\ Hands'
  BY <1>1, <1>4, <1>5, <1>6, <1>13
  DEF IInv, Shape, Hands, InHand, Issued, Wrote, Locked, Read
<1>9. Marked'
  <2>1. \A u \in live : Accounted(u)'
    BY <1>1, <1>2, <1>3, <1>13 DEF IInv, TypeOK, Marked, Accounted
  <2> QED BY <1>1, <1>2, <1>3, <1>5, <2>1 DEF IInv, Marked, Locked
<1>10. ConnectedIsUsable'
  BY <1>3 DEF ConnectedIsUsable
<1>11. Spared'
  BY <1>1, <1>2, <1>3, <1>5 DEF IInv, Spared, Locked
<1>12. Decided' /\ OwnerDecisionStands'
  BY <1>1, <1>2, <1>3, <1>5 DEF IInv, Decided, OwnerDecisionStands, Locked
<1> QED BY <1>7, <1>8, <1>9, <1>10, <1>11, <1>12 DEF IInv

-----------------------------------------------------------------------------
(* Steps at Intuit: a token is rotated, or issued for a code               *)

\* A token that is new has been nowhere.
LEMMA FreshIsNew ==
  ASSUME IInv, NEW t \in Token, Fresh(t)
  PROVE  /\ ~Known(t) /\ ~Held(t) /\ t \notin live /\ t \notin gone /\ rotator[t] = None
         /\ ~Issued(t)
BY DEF IInv, Shape, Fresh, Issued

LEMMA Rotating ==
  ASSUME IInv, NEW c \in Caller, NEW t \in Token, Rotated(c, t)
  PROVE  LET s == call[c].seen.tok
         IN  /\ call[c].at = "ask" /\ call[c].seen # None /\ s \in Token
             /\ Known(s) /\ ~Held(s) /\ Issued(s) /\ s \in live /\ t # s
             /\ grant'[t] = grant[s] /\ \A u \in Token : u # t => grant'[u] = grant[u]
             /\ rotator'[s] = Home[c]
             /\ \A u \in Token : u # s => rotator'[u] = rotator[u]
             /\ live' = (live \ {s}) \cup {t}
             /\ grant' \in [Token -> Grant \cup {None}]
             /\ rotator' \in [Token -> Proc \cup {None}]
<1> DEFINE s == call[c].seen.tok
<1>1. call[c].at = "ask" /\ s \in live /\ Fresh(t)
  BY DEF Rotated, At
<1>2. call[c].seen # None /\ s \in Token /\ Known(s)
  BY <1>1 DEF IInv, Shape, Read, TypeOK, Seen, Row, Known
<1>3. Issued(s) /\ ~Held(s) /\ t # s
  BY <1>1, <1>2, FreshIsNew DEF IInv, Shape, Hands, InHand
<1>4. /\ grant' = [grant EXCEPT ![t] = grant[s]]
      /\ rotator' = [rotator EXCEPT ![s] = Home[c]]
      /\ live' = (live \ {s}) \cup {t}
  BY DEF Rotated
<1>5. /\ grant \in [Token -> Grant \cup {None}] /\ rotator \in [Token -> Proc \cup {None}]
      /\ Home[c] \in Proc
  BY QboAssumption DEF IInv, TypeOK
<1> HIDE DEF s
<1>6. /\ grant'[t] = grant[s] /\ \A u \in Token : u # t => grant'[u] = grant[u]
      /\ grant' \in [Token -> Grant \cup {None}]
  BY <1>2, <1>3, <1>4, <1>5
<1>7. /\ rotator'[s] = Home[c] /\ \A u \in Token : u # s => rotator'[u] = rotator[u]
      /\ rotator' \in [Token -> Proc \cup {None}]
  BY <1>2, <1>4, <1>5
<1> QED BY <1>1, <1>2, <1>3, <1>4, <1>6, <1>7 DEF s

LEMMA RefreshKeeps ==
  ASSUME IInv, NEW c \in Caller, Refresh(c)
  PROVE  IInv'
<1>1. PICK t \in Token :
        /\ Rotated(c, t) /\ Go(c, "save", call[c].seen, t, call[c].rejected)
        /\ UNCHANGED <<row, lock, visit, code, bye, want, overlap, aged, lapsed, gone,
                       adrift, selfRefused, faults>>
  BY DEF Refresh, owner, expiry, loss
<1> DEFINE s == call[c].seen.tok
<1>2. /\ call[c].at = "ask" /\ call[c].seen # None /\ s \in Token
      /\ Known(s) /\ ~Held(s) /\ Issued(s) /\ s \in live /\ t # s
      /\ grant'[t] = grant[s] /\ \A u \in Token : u # t => grant'[u] = grant[u]
      /\ rotator'[s] = Home[c] /\ \A u \in Token : u # s => rotator'[u] = rotator[u]
      /\ live' = (live \ {s}) \cup {t}
      /\ grant' \in [Token -> Grant \cup {None}]
      /\ rotator' \in [Token -> Proc \cup {None}]
  BY <1>1, Rotating
<1>3. /\ ~Known(t) /\ ~Held(t) /\ t \notin live /\ t \notin gone /\ rotator[t] = None
      /\ ~Issued(t)
  BY <1>1, FreshIsNew DEF Rotated
<1>4. Went(c, "save", call[c].seen, t)
  <2>1. "save" \in Place /\ call[c].seen \in Seen /\ call[c].rejected \in 0..MaxTok
        /\ t \in 0..MaxTok
    BY QboAssumption DEF IInv, TypeOK, Place, Token
  <2> QED BY <1>1, <2>1, Goes DEF IInv
<1>5. Keys'
  BY <1>1, <1>2, <1>4, KeysKept DEF IInv, Locked
<1>6. /\ call'[c].at = "save" /\ call'[c].tok = t /\ call'[c].seen = call[c].seen
      /\ \A d \in Caller : d # c => call'[d] = call[d]
      /\ ~Saving(c) /\ Saving(c)'
      /\ \A d \in Caller : d # c => (Saving(d)' <=> Saving(d))
      /\ \A g \in Grant : Visiting(g)' <=> Visiting(g)
  BY <1>1, <1>2, <1>4 DEF Went, Saving, Visiting
<1> HIDE DEF s
<1>7. \A u \in Token : Known(u)' <=> Known(u)
  BY <1>1, <1>6 DEF Known
<1>8. \A u \in Token : Held(u)' <=> Held(u) \/ u = t
  BY <1>1, <1>6 DEF Held
<1>9. TypeOK'
  BY <1>1, <1>2, <1>4, <1>5 DEF IInv, TypeOK, Keys, Went, InCall
<1>10. Shape'
  <2>1. \A u \in Token : Issued(u)' <=> Issued(u) \/ u = t
    BY <1>2 DEF Issued
  <2>2. \A u \in Token : Known(u)' \/ Held(u)' => Issued(u)'
    BY <1>7, <1>8, <2>1 DEF IInv, Shape
  <2>3. live' \cup gone' \subseteq {u \in Token : Issued(u)'}
    BY <1>1, <1>2, <2>1 DEF IInv, Shape
  <2>4. \A u \in Token : rotator'[u] # None => Issued(u)' /\ u \notin live'
    BY <1>2, <1>3, <2>1 DEF IInv, Shape
  <2>6. \A d \in Caller : /\ call'[d].at \in Read => call'[d].seen # None
                          /\ Saving(d)' => call'[d].tok \in Token
                          /\ call'[d].at = "expire" => call'[d].seen.tok \in lapsed'
    BY <1>1, <1>2, <1>6 DEF IInv, Shape
  <2> QED BY <1>1, <1>6, <2>2, <2>3, <2>4, <2>6 DEF IInv, Shape
<1>11. Hands'
  <2>1. \A u \in Token : Held(u)' => InHand(u)'
    BY <1>1, <1>2, <1>3, <1>7, <1>8 DEF IInv, Hands, InHand
  <2> QED BY <1>1, <1>3, <1>6, <2>1 DEF IInv, Hands, Held
<1>12. Marked'
  <2>1. \A u \in live' : Accounted(u)'
    BY <1>1, <1>2, <1>8 DEF IInv, TypeOK, Marked, Accounted
  <2>2. \A d \in Caller : call'[d].at \in {"mark", "swap"} => call'[d].seen.tok \notin live'
    <3>1. \A d \in Caller : call[d].at \in {"mark", "swap"} => call[d].seen.tok # t
      BY <1>3 DEF IInv, Shape, Known, Read
    <3> QED BY <1>2, <1>6, <3>1 DEF IInv, Marked
  <2>3. row' # None /\ row'.status = "needs_reconnect" => row'.tok \notin live'
    BY <1>1, <1>2, <1>3 DEF IInv, Marked, Known
  <2>4. \A g \in Grant : visit'[g] = "none" => \A u \in Token : grant'[u] # g
    BY <1>1, <1>2 DEF IInv, Marked
  <2>5. \A g \in Grant : Visiting(g)' => \A u \in Token : grant'[u] = g => u = code'[g]
    <3>1. \A g \in Grant : Visiting(g) => grant[s] # g
      BY <1>2 DEF IInv, Marked, Held
    <3> QED BY <1>1, <1>2, <1>6, <3>1 DEF IInv, Marked
  <2> QED BY <2>1, <2>2, <2>3, <2>4, <2>5 DEF Marked
<1>13. ConnectedIsUsable'
  <2>1. CASE row # None /\ row.tok = s
    BY <1>1, <1>6, <2>1 DEF ConnectedIsUsable, At, s
  <2>2. CASE ~(row # None /\ row.tok = s)
    BY <1>1, <1>2, <1>6, <2>2 DEF IInv, ConnectedIsUsable, At, Saving
  <2> QED BY <2>1, <2>2
<1>14. Spared'
  <2>1. \A d \in Caller : d # c /\ call[d].at = "ask" => Home[d] # Home[c]
    BY <1>2 DEF IInv, TypeOK, Locked
  <2>2. ASSUME NEW d \in Caller, call'[d].at = "ask", rotator'[call'[d].seen.tok] = Home[d]
        PROVE  call'[d].seen.tok \in gone'
    <3>1. d # c /\ call'[d] = call[d] /\ call[d].seen.tok \in Token
      BY <1>6, <2>2 DEF IInv, Shape, TypeOK, Seen, Row, Read
    <3> QED BY <1>1, <1>2, <2>1, <2>2, <3>1 DEF IInv, Spared
  <2>3. ASSUME NEW p \in Proc, row' # None, rotator'[row'.tok] = p
        PROVE  \/ row'.tok \in gone' \cup lapsed'
               \/ \E d \in Caller : /\ Home[d] = p /\ Saving(d)'
                                    /\ call'[d].seen.tok = row'.tok
    <3>1. CASE row.tok = s
      BY <1>1, <1>2, <1>6, <2>3, <3>1 DEF s
    <3>2. CASE row.tok # s
      <4>1. row.tok \in Token
        BY <1>1, <2>3 DEF IInv, TypeOK, Seen, Row
      <4> QED BY <1>1, <1>2, <1>6, <2>3, <3>2, <4>1 DEF IInv, Spared
    <3> QED BY <3>1, <3>2
  <2> QED BY <1>1, <2>2, <2>3 DEF IInv, Spared
<1>15. Decided'
  <2>1. \A d \in Caller : d # c /\ Saving(d) =>
          /\ call[d].seen # None /\ call[d].seen.tok \in Token /\ call[d].seen.tok # t
          /\ call[d].tok \in Token /\ call[d].tok # t
    BY <1>3 DEF IInv, Shape, Saving, Read, TypeOK, Seen, Row, Known, Held
  <2>2. \A d \in Caller : Saving(d)' => grant'[call'[d].tok] = grant'[call'[d].seen.tok]
    BY <1>2, <1>6, <2>1 DEF IInv, Decided, s
  <2>3. \A g \in Grant : Visiting(g)' => grant'[code'[g]] = g
    BY <1>1, <1>2, <1>3, <1>6 DEF IInv, Decided, Shape, Held
  <2>4. ~overlap' => \A d \in Caller : call'[d].at \in {"expire", "ask", "save"} =>
          row' # None /\ grant'[call'[d].seen.tok] = want'
    <3>1. \A d \in Caller : call[d].at \in {"expire", "ask", "save"} =>
            call[d].seen.tok \in Token /\ call[d].seen.tok # t
      BY <1>3 DEF IInv, Shape, Read, TypeOK, Seen, Row, Known
    <3> QED BY <1>1, <1>2, <1>6, <3>1 DEF IInv, Decided
  <2> QED BY <2>2, <2>3, <2>4 DEF Decided
<1>16. OwnerDecisionStands'
  <2>1. row # None => row.tok \in Token /\ row.tok # t
    BY <1>3 DEF IInv, TypeOK, Seen, Row, Known
  <2> QED BY <1>1, <1>2, <2>1 DEF IInv, OwnerDecisionStands
<1> QED BY <1>9, <1>10, <1>11, <1>12, <1>13, <1>14, <1>15, <1>16 DEF IInv

LEMMA AnswerLostKeeps ==
  ASSUME IInv, NEW c \in Caller, AnswerLost(c)
  PROVE  IInv'
<1> DEFINE s == call[c].seen.tok
<1>1. PICK t \in Token :
        /\ Rotated(c, t) /\ adrift' = adrift \cup {t} /\ gone' = gone \cup {s}
        /\ Finish(c) /\ Unlock(c) /\ faults' \in 0..MaxFaults
        /\ UNCHANGED <<row, visit, code, bye, want, overlap, aged, lapsed, selfRefused>>
  BY QboAssumption DEF AnswerLost, owner, expiry, IInv, TypeOK
<1>2. /\ call[c].at = "ask" /\ call[c].seen # None /\ s \in Token
      /\ Known(s) /\ ~Held(s) /\ Issued(s) /\ s \in live /\ t # s
      /\ grant'[t] = grant[s] /\ \A u \in Token : u # t => grant'[u] = grant[u]
      /\ rotator'[s] = Home[c] /\ \A u \in Token : u # s => rotator'[u] = rotator[u]
      /\ live' = (live \ {s}) \cup {t}
      /\ grant' \in [Token -> Grant \cup {None}]
      /\ rotator' \in [Token -> Proc \cup {None}]
  BY <1>1, Rotating
<1>3. /\ ~Known(t) /\ ~Held(t) /\ t \notin live /\ t \notin gone /\ rotator[t] = None
      /\ ~Issued(t)
  BY <1>1, FreshIsNew DEF Rotated
<1>4. Went(c, "idle", None, 0)
  BY <1>1, Moving DEF IInv
<1>5. Keys'
  BY <1>1, <1>2, <1>4, KeysKept DEF IInv, Locked
<1>6. /\ call'[c].at = "idle" /\ call'[c].seen = None
      /\ \A d \in Caller : d # c => call'[d] = call[d]
      /\ \A d \in Caller : Saving(d)' <=> Saving(d)
      /\ \A d \in Caller : call'[d].at # "idle" => call'[d] = call[d]
      /\ \A g \in Grant : Visiting(g)' <=> Visiting(g)
  BY <1>1, <1>2, <1>4 DEF Went, Saving, Visiting
<1> HIDE DEF s
<1>7. \A u \in Token : Known(u)' => Known(u)
  BY <1>1, <1>6 DEF Known
<1>8. \A u \in Token : Held(u)' <=> Held(u)
  BY <1>1, <1>6 DEF Held, Saving
<1>9. TypeOK'
  BY <1>1, <1>2, <1>4, <1>5 DEF IInv, TypeOK, Keys, Went, InCall
<1>10. Shape'
  <2>1. \A u \in Token : Issued(u)' <=> Issued(u) \/ u = t
    BY <1>2 DEF Issued
  <2>2. \A u \in Token : Known(u)' \/ Held(u)' => Issued(u)'
    BY <1>7, <1>8, <2>1 DEF IInv, Shape
  <2>3. live' \cup gone' \subseteq {u \in Token : Issued(u)'}
    BY <1>1, <1>2, <2>1 DEF IInv, Shape
  <2>4. \A u \in Token : rotator'[u] # None => Issued(u)' /\ u \notin live'
    BY <1>2, <1>3, <2>1 DEF IInv, Shape
  <2> QED BY <1>1, <1>6, <2>2, <2>3, <2>4 DEF IInv, Shape, Read, Saving
<1>11. Hands'
  <2>1. \A u \in Token : Held(u)' => InHand(u)'
    BY <1>1, <1>2, <1>3, <1>7, <1>8 DEF IInv, Hands, InHand
  <2> QED BY <1>1, <1>6, <2>1 DEF IInv, Hands, Saving
<1>12. Marked'
  <2>1. \A u \in live' : Accounted(u)'
    BY <1>1, <1>2, <1>8 DEF IInv, TypeOK, Marked, Accounted
  <2>2. \A d \in Caller : call'[d].at \in {"mark", "swap"} => call'[d].seen.tok \notin live'
    <3>1. \A d \in Caller : call[d].at \in {"mark", "swap"} => call[d].seen.tok # t
      BY <1>3 DEF IInv, Shape, Known, Read
    <3> QED BY <1>2, <1>6, <3>1 DEF IInv, Marked
  <2>3. row' # None /\ row'.status = "needs_reconnect" => row'.tok \notin live'
    BY <1>1, <1>2, <1>3 DEF IInv, Marked, Known
  <2>4. \A g \in Grant : visit'[g] = "none" => \A u \in Token : grant'[u] # g
    BY <1>1, <1>2 DEF IInv, Marked
  <2>5. \A g \in Grant : Visiting(g)' => \A u \in Token : grant'[u] = g => u = code'[g]
    <3>1. \A g \in Grant : Visiting(g) => grant[s] # g
      BY <1>2 DEF IInv, Marked, Held
    <3> QED BY <1>1, <1>2, <1>6, <3>1 DEF IInv, Marked
  <2> QED BY <2>1, <2>2, <2>3, <2>4, <2>5 DEF Marked
<1>13. ConnectedIsUsable'
  BY <1>1, <1>2, <1>6 DEF IInv, ConnectedIsUsable, At, Saving
<1>14. Spared'
  <2>1. \A d \in Caller : d # c /\ call[d].at = "ask" => Home[d] # Home[c]
    BY <1>2 DEF IInv, TypeOK, Locked
  <2>2. ASSUME NEW d \in Caller, call'[d].at = "ask", rotator'[call'[d].seen.tok] = Home[d]
        PROVE  call'[d].seen.tok \in gone'
    <3>1. d # c /\ call'[d] = call[d] /\ call[d].seen.tok \in Token
      BY <1>6, <2>2 DEF IInv, Shape, TypeOK, Seen, Row, Read
    <3> QED BY <1>1, <1>2, <2>1, <2>2, <3>1 DEF IInv, Spared
  <2>3. ASSUME NEW p \in Proc, row' # None, rotator'[row'.tok] = p
        PROVE  \/ row'.tok \in gone' \cup lapsed'
               \/ \E d \in Caller : /\ Home[d] = p /\ Saving(d)'
                                    /\ call'[d].seen.tok = row'.tok
    <3>1. row.tok \in Token
      BY <1>1, <2>3 DEF IInv, TypeOK, Seen, Row
    <3> QED BY <1>1, <1>2, <1>6, <2>3, <3>1 DEF IInv, Spared, Saving
  <2> QED BY <1>1, <2>2, <2>3 DEF IInv, Spared
<1>15. Decided'
  <2>1. \A d \in Caller : d # c /\ Saving(d) =>
          /\ call[d].seen # None /\ call[d].seen.tok \in Token /\ call[d].seen.tok # t
          /\ call[d].tok \in Token /\ call[d].tok # t
    BY <1>3 DEF IInv, Shape, Saving, Read, TypeOK, Seen, Row, Known, Held
  <2>2. \A d \in Caller : Saving(d)' => grant'[call'[d].tok] = grant'[call'[d].seen.tok]
    BY <1>2, <1>6, <2>1 DEF IInv, Decided, Saving
  <2>3. \A g \in Grant : Visiting(g)' => grant'[code'[g]] = g
    BY <1>1, <1>2, <1>3, <1>6 DEF IInv, Decided, Shape, Held
  <2>4. ~overlap' => \A d \in Caller : call'[d].at \in {"expire", "ask", "save"} =>
          row' # None /\ grant'[call'[d].seen.tok] = want'
    <3>1. \A d \in Caller : call[d].at \in {"expire", "ask", "save"} =>
            call[d].seen.tok \in Token /\ call[d].seen.tok # t
      BY <1>3 DEF IInv, Shape, Read, TypeOK, Seen, Row, Known
    <3> QED BY <1>1, <1>2, <1>6, <3>1 DEF IInv, Decided
  <2> QED BY <2>2, <2>3, <2>4 DEF Decided
<1>16. OwnerDecisionStands'
  <2>1. row # None => row.tok \in Token /\ row.tok # t
    BY <1>3 DEF IInv, TypeOK, Seen, Row, Known
  <2> QED BY <1>1, <1>2, <2>1 DEF IInv, OwnerDecisionStands
<1> QED BY <1>9, <1>10, <1>11, <1>12, <1>13, <1>14, <1>15, <1>16 DEF IInv

LEMMA ExchangeKeeps ==
  ASSUME IInv, NEW g \in Grant, Exchange(g)
  PROVE  IInv'
<1>1. PICK t \in Token :
        /\ visit[g] = "none" /\ visit' = [visit EXCEPT ![g] = "exchanged"]
        /\ Fresh(t) /\ grant' = [grant EXCEPT ![t] = g] /\ live' = live \cup {t}
        /\ code' = [code EXCEPT ![g] = t]
        /\ UNCHANGED <<row, lock, call, bye, want, overlap, rotator, aged, lapsed, gone,
                       adrift, selfRefused, faults>>
  BY DEF Exchange, caller, expiry, loss
<1>2. /\ ~Known(t) /\ ~Held(t) /\ t \notin live /\ t \notin gone /\ rotator[t] = None
      /\ ~Issued(t)
  BY <1>1, FreshIsNew
<1>3. /\ grant'[t] = g /\ \A u \in Token : u # t => grant'[u] = grant[u]
      /\ grant' \in [Token -> Grant \cup {None}]
  BY <1>1 DEF IInv, TypeOK
<1>4. /\ visit'[g] = "exchanged" /\ code'[g] = t
      /\ \A h \in Grant : h # g => visit'[h] = visit[h] /\ code'[h] = code[h]
      /\ visit' \in [Grant -> {"none", "exchanged", "done"}]
      /\ code' \in [Grant -> 0..MaxTok]
  <2>1. t \in 0..MaxTok
    BY QboAssumption DEF Token
  <2> QED BY <1>1, <2>1 DEF IInv, TypeOK
<1>5. /\ Visiting(g)' /\ ~Visiting(g) /\ \A h \in Grant : h # g => (Visiting(h)' <=> Visiting(h))
      /\ \A d \in Caller : Saving(d)' <=> Saving(d)
  BY <1>1, <1>4 DEF Visiting, Saving
<1>6. \A u \in Token : Known(u)' <=> Known(u)
  BY <1>1 DEF Known
<1>7. \A u \in Token : Held(u)' <=> Held(u) \/ u = t
  BY <1>1, <1>4, <1>5 DEF Held
<1>8. TypeOK'
  BY <1>1, <1>3, <1>4 DEF IInv, TypeOK
<1>9. Shape'
  <2>1. \A u \in Token : Issued(u)' <=> Issued(u) \/ u = t
    BY <1>3, QboAssumption DEF Issued
  <2>2. \A u \in Token : Known(u)' \/ Held(u)' => Issued(u)'
    BY <1>6, <1>7, <2>1 DEF IInv, Shape
  <2>3. live' \cup gone' \subseteq {u \in Token : Issued(u)'}
    BY <1>1, <2>1 DEF IInv, Shape
  <2>4. \A u \in Token : rotator'[u] # None => Issued(u)' /\ u \notin live'
    BY <1>1, <1>2, <2>1 DEF IInv, Shape
  <2> QED BY <1>1, <1>4, <1>5, <2>2, <2>3, <2>4 DEF IInv, Shape, Saving
<1>10. Hands'
  <2>1. \A u \in Token : Held(u)' => InHand(u)'
    BY <1>1, <1>2, <1>6, <1>7 DEF IInv, Hands, InHand
  <2> QED BY <1>1, <1>2, <1>4, <1>5, <2>1 DEF IInv, Hands, Held
<1>11. Marked'
  <2>1. \A u \in live' : Accounted(u)'
    BY <1>1, <1>7 DEF IInv, TypeOK, Marked, Accounted
  <2>2. \A d \in Caller : call'[d].at \in {"mark", "swap"} => call'[d].seen.tok \notin live'
    BY <1>1, <1>2 DEF IInv, Shape, Known, Read, Marked
  <2>3. row' # None /\ row'.status = "needs_reconnect" => row'.tok \notin live'
    BY <1>1, <1>2 DEF IInv, Marked, Known
  <2>4. \A h \in Grant : visit'[h] = "none" => \A u \in Token : grant'[u] # h
    BY <1>3, <1>4 DEF IInv, Marked
  <2>5. \A h \in Grant : Visiting(h)' => \A u \in Token : grant'[u] = h => u = code'[h]
    BY <1>1, <1>3, <1>4, <1>5 DEF IInv, Marked
  <2> QED BY <2>1, <2>2, <2>3, <2>4, <2>5 DEF Marked
<1>12. ConnectedIsUsable'
  BY <1>1 DEF IInv, ConnectedIsUsable, At
<1>13. Spared'
  BY <1>1, <1>5 DEF IInv, Spared
<1>14. Decided'
  <2>1. \A d \in Caller : Saving(d) => call[d].tok \in Token /\ call[d].tok # t
    BY <1>2 DEF IInv, Shape, Held
  <2>2. \A d \in Caller : call[d].at \in {"expire", "ask", "save"} =>
          call[d].seen.tok \in Token /\ call[d].seen.tok # t
    BY <1>2 DEF IInv, Shape, Read, TypeOK, Seen, Row, Known
  <2>3. \A d \in Caller : Saving(d)' => grant'[call'[d].tok] = grant'[call'[d].seen.tok]
    BY <1>1, <1>3, <1>5, <2>1, <2>2 DEF IInv, Decided, Saving
  <2>4. \A h \in Grant : Visiting(h)' => grant'[code'[h]] = h
    BY <1>2, <1>3, <1>4, <1>5 DEF IInv, Decided, Shape, Held
  <2>5. ~overlap' => \A d \in Caller : call'[d].at \in {"expire", "ask", "save"} =>
          row' # None /\ grant'[call'[d].seen.tok] = want'
    BY <1>1, <1>3, <2>2 DEF IInv, Decided
  <2> QED BY <2>3, <2>4, <2>5 DEF Decided
<1>15. OwnerDecisionStands'
  <2>1. row # None => row.tok \in Token /\ row.tok # t
    BY <1>2 DEF IInv, TypeOK, Seen, Row, Known
  <2> QED BY <1>1, <1>3, <2>1 DEF IInv, OwnerDecisionStands
<1> QED BY <1>8, <1>9, <1>10, <1>11, <1>12, <1>13, <1>14, <1>15 DEF IInv

-----------------------------------------------------------------------------
(* The owner, time and the process                                         *)

\* Tokens end, and no caller and no row is any different for it.
LEMMA EndingKeeps ==
  ASSUME IInv, TypeOK', UNCHANGED <<row, call, visit, code, want, overlap, grant, rotator,
                                    adrift, selfRefused>>,
         bye'.at # "idle" => bye'.tok \in Token /\ Known(bye'.tok),
         live' \subseteq live, live \cup gone = live' \cup gone', gone \subseteq gone',
         lapsed \subseteq lapsed'
  PROVE  IInv'
<1>1. /\ \A d \in Caller : Saving(d)' <=> Saving(d)
      /\ \A g \in Grant : Visiting(g)' <=> Visiting(g)
  BY DEF Saving, Visiting
<1>2. \A u \in Token : Held(u)' <=> Held(u)
  BY <1>1 DEF Held
<1>3. \A u \in Token : Known(u)' => Known(u)
  BY DEF Known
<1>4. Shape'
  <2>1. live' \cup gone' \subseteq {u \in Token : Issued(u)'}
    BY DEF IInv, Shape, Issued
  <2>2. \A u \in Token : rotator'[u] # None => Issued(u)' /\ u \notin live'
    BY DEF IInv, Shape, Issued
  <2>3. \A u \in Token : Known(u)' \/ Held(u)' => Issued(u)'
    BY <1>2, <1>3 DEF IInv, Shape, Issued
  <2> QED BY <1>1, <2>1, <2>2, <2>3 DEF IInv, Shape
<1>5. Hands'
  BY <1>1, <1>2, <1>3 DEF IInv, Hands, InHand
<1>6. Marked'
  <2>1. \A u \in live' : Accounted(u)'
    BY <1>2 DEF IInv, TypeOK, Marked, Accounted
  <2> QED BY <1>1, <2>1 DEF IInv, Marked
<1>7. ConnectedIsUsable'
  BY DEF IInv, ConnectedIsUsable, At
<1>8. Spared'
  BY <1>1 DEF IInv, Spared
<1>9. Decided' /\ OwnerDecisionStands'
  BY <1>1 DEF IInv, Decided, OwnerDecisionStands
<1> QED BY <1>4, <1>5, <1>6, <1>7, <1>8, <1>9 DEF IInv

LEMMA ConnectKeeps ==
  ASSUME IInv, NEW g \in Grant, Connect(g)
  PROVE  IInv'
<1> DEFINE t == code[g]
<1>1. /\ Visiting(g) /\ visit' = [visit EXCEPT ![g] = "done"]
      /\ Store(t, "connected") /\ want' = g /\ overlap' = InFlight
      /\ UNCHANGED <<lock, call, code, bye, grant, live, rotator, aged, lapsed, gone,
                     selfRefused, faults>>
  BY DEF Connect, Visiting, caller, intuit, expiry
<1>2. t \in Token /\ Held(t) /\ InHand(t) /\ Issued(t)
  BY <1>1 DEF IInv, Shape, Hands, Held
<1>3. row' \in Row /\ row' # None /\ row'.tok = t /\ row'.status = "connected"
  BY <1>1, <1>2, Absent DEF Store, Row, Status
<1>4. /\ \A h \in Grant : h # g => (Visiting(h)' <=> Visiting(h))
      /\ ~Visiting(g)' /\ (\A h \in Grant : visit'[h] = "none" => visit[h] = "none")
      /\ \A d \in Caller : Saving(d)' <=> Saving(d)
      /\ visit' \in [Grant -> {"none", "exchanged", "done"}]
  BY <1>1 DEF IInv, TypeOK, Visiting, Saving
<1>5. /\ \A d \in Caller : Saving(d) => call[d].tok # t
      /\ \A h \in Grant : h # g /\ Visiting(h) => code[h] # t
  BY <1>1 DEF IInv, Hands
<1>6. grant[t] = g
  BY <1>1 DEF IInv, Decided
<1> HIDE DEF t
<1>7. \A u \in Token : Known(u)' => Known(u) \/ u = t
  BY <1>1, <1>3 DEF Known
<1>8. \A u \in Token : Held(u)' <=> Held(u) /\ u # t
  BY <1>1, <1>4, <1>5 DEF Held, t
<1>9. TypeOK'
  <2>1. row' \in Seen /\ adrift' \subseteq Token
    BY <1>1, <1>3 DEF Store, Replaced, Seen, Row, IInv, TypeOK
  <2>2. overlap' \in BOOLEAN
    BY <1>1 DEF InFlight
  <2> QED BY <1>1, <1>4, <2>1, <2>2 DEF IInv, TypeOK
<1>10. Shape'
  <2>1. \A u \in Token : Known(u)' \/ Held(u)' => Issued(u)'
    BY <1>1, <1>2, <1>7, <1>8 DEF IInv, Shape, Issued
  <2> QED BY <1>1, <1>4, <2>1 DEF IInv, Shape, Issued
<1>11. Hands'
  <2>1. \A u \in Token : Held(u)' => InHand(u)'
    BY <1>1, <1>7, <1>8 DEF IInv, Hands, InHand
  <2> QED BY <1>1, <1>4, <2>1 DEF IInv, Hands
<1>12. Marked'
  <2>1. ASSUME NEW u \in live' PROVE Accounted(u)'
    <3>1. u \in Token /\ Accounted(u)
      BY <1>1 DEF IInv, TypeOK, Marked
    <3>2. CASE u = t
      BY <1>3, <3>2 DEF Accounted
    <3>3. CASE u # t /\ Held(u)
      BY <1>8, <3>1, <3>3 DEF Accounted
    <3>4. CASE u # t /\ (u \in adrift \/ (row # None /\ row.tok = u))
      BY <1>1, <3>4 DEF Accounted, Store, Replaced
    <3> QED BY <3>1, <3>2, <3>3, <3>4 DEF Accounted
  <2> QED BY <1>1, <1>3, <1>4, <2>1 DEF IInv, Marked
<1>13. ConnectedIsUsable'
  BY <1>1, <1>2, <1>3 DEF ConnectedIsUsable, InHand
<1>14. Spared'
  BY <1>1, <1>2, <1>3, QboAssumption DEF IInv, Spared, InHand
<1>15. Decided'
  BY <1>1, <1>4, <1>5 DEF IInv, Decided, InFlight, Saving
<1>16. OwnerDecisionStands'
  BY <1>1, <1>3, <1>6, QboAssumption DEF OwnerDecisionStands
<1> QED BY <1>9, <1>10, <1>11, <1>12, <1>13, <1>14, <1>15, <1>16 DEF IInv

LEMMA CallbackFailsKeeps ==
  ASSUME IInv, NEW g \in Grant, CallbackFails(g)
  PROVE  IInv'
<1>1. /\ visit[g] \in {"none", "exchanged"} /\ visit' = [visit EXCEPT ![g] = "done"]
      /\ adrift' = (IF Visiting(g) THEN adrift \cup {code[g]} ELSE adrift)
      /\ faults' \in 0..MaxFaults
      /\ UNCHANGED <<row, lock, call, code, bye, want, overlap, grant, live, rotator, aged,
                     lapsed, gone, selfRefused>>
  BY QboAssumption DEF CallbackFails, Visiting, caller, intuit, expiry, IInv, TypeOK
<1>2. /\ \A h \in Grant : h # g => (Visiting(h)' <=> Visiting(h))
      /\ ~Visiting(g)' /\ (\A h \in Grant : visit'[h] = "none" => visit[h] = "none")
      /\ \A d \in Caller : Saving(d)' <=> Saving(d)
      /\ visit' \in [Grant -> {"none", "exchanged", "done"}]
  BY <1>1 DEF IInv, TypeOK, Visiting, Saving
<1>3. \A u \in Token : Known(u)' => Known(u)
  BY <1>1 DEF Known
<1>4. /\ \A u \in Token : Held(u)' => Held(u)
      /\ \A u \in Token : Held(u) => Held(u)' \/ (Visiting(g) /\ u = code[g])
  BY <1>1, <1>2 DEF Held
<1>5. TypeOK'
  <2>1. adrift' \subseteq Token
    BY <1>1 DEF IInv, TypeOK, Shape
  <2> QED BY <1>1, <1>2, <2>1 DEF IInv, TypeOK
<1>6. Shape'
  BY <1>1, <1>2, <1>3, <1>4 DEF IInv, Shape, Issued
<1>7. Hands'
  BY <1>1, <1>2, <1>3, <1>4 DEF IInv, Hands, InHand
<1>8. Marked'
  <2>1. \A u \in live' : Accounted(u)'
    BY <1>1, <1>4 DEF IInv, TypeOK, Marked, Accounted
  <2> QED BY <1>1, <1>2, <2>1 DEF IInv, Marked
<1>9. ConnectedIsUsable'
  BY <1>1 DEF IInv, ConnectedIsUsable, At
<1>10. Spared'
  BY <1>1, <1>2 DEF IInv, Spared
<1>11. Decided' /\ OwnerDecisionStands'
  BY <1>1, <1>2 DEF IInv, Decided, OwnerDecisionStands
<1> QED BY <1>5, <1>6, <1>7, <1>8, <1>9, <1>10, <1>11 DEF IInv

LEMMA DeleteKeeps ==
  ASSUME IInv, Delete
  PROVE  IInv'
<1>1. /\ bye' = [at |-> "idle", tok |-> 0] /\ row' = None
      /\ adrift' = adrift \cup Replaced /\ want' = None /\ overlap' = InFlight
      /\ UNCHANGED <<lock, call, visit, code, grant, live, rotator, aged, lapsed, gone,
                     selfRefused, faults>>
  BY DEF Delete, caller, intuit, expiry
<1>2. /\ \A d \in Caller : Saving(d)' <=> Saving(d)
      /\ \A g \in Grant : Visiting(g)' <=> Visiting(g)
  BY <1>1 DEF Saving, Visiting
<1>3. \A u \in Token : Held(u)' <=> Held(u)
  BY <1>1, <1>2 DEF Held
<1>4. \A u \in Token : Known(u)' => Known(u)
  BY <1>1 DEF Known
<1>5. TypeOK'
  <2>1. adrift' \subseteq Token /\ bye' \in [at : {"idle", "revoke", "delete"}, tok : 0..MaxTok]
    BY <1>1, QboAssumption DEF Replaced, Seen, Row, IInv, TypeOK
  <2>2. row' \in Seen /\ overlap' \in BOOLEAN
    BY <1>1 DEF InFlight, Seen
  <2> QED BY <1>1, <2>1, <2>2 DEF IInv, TypeOK
<1>6. Shape'
  BY <1>1, <1>2, <1>3, <1>4 DEF IInv, Shape, Issued
<1>7. Hands'
  BY <1>1, <1>2, <1>3, <1>4 DEF IInv, Hands, InHand
<1>8. Marked'
  <2>1. \A u \in live' : Accounted(u)'
    BY <1>1, <1>3 DEF IInv, TypeOK, Marked, Accounted, Replaced
  <2> QED BY <1>1, <1>2, <2>1 DEF IInv, Marked
<1>9. ConnectedIsUsable' /\ Spared'
  BY <1>1 DEF IInv, ConnectedIsUsable, Spared
<1>10. Decided' /\ OwnerDecisionStands'
  BY <1>1, <1>2 DEF IInv, Decided, OwnerDecisionStands, InFlight
<1> QED BY <1>5, <1>6, <1>7, <1>8, <1>9, <1>10 DEF IInv

LEMMA CrashKeeps ==
  ASSUME IInv, NEW p \in Proc, Crash(p)
  PROVE  IInv'
<1> DEFINE mine == {c \in Caller : Home[c] = p /\ Saving(c)}
<1>1. /\ adrift' = adrift \cup {call[c].tok : c \in mine}
      /\ gone' = gone \cup {call[c].seen.tok : c \in mine}
      /\ call' = [c \in Caller |-> IF Home[c] = p THEN Idle ELSE call[c]]
      /\ lock' = [lock EXCEPT ![p] = None] /\ faults' \in 0..MaxFaults
      /\ UNCHANGED <<row, visit, code, bye, want, overlap, grant, live, rotator, aged, lapsed,
                     selfRefused>>
  BY QboAssumption DEF Crash, Saving, At, owner, intuit, expiry, IInv, TypeOK
<1>2. /\ \A d \in Caller : Home[d] = p => call'[d] = Idle
      /\ \A d \in Caller : Home[d] # p => call'[d] = call[d]
      /\ \A d \in Caller : call'[d].at # "idle" => call'[d] = call[d]
      /\ Idle.at = "idle" /\ Idle.seen = None
  BY <1>1 DEF Idle
<1>3. /\ \A d \in Caller : Saving(d)' <=> Saving(d) /\ Home[d] # p
      /\ \A g \in Grant : Visiting(g)' <=> Visiting(g)
  BY <1>1, <1>2 DEF Saving, Visiting
<1>4. \A c \in mine : /\ call[c].tok \in Token /\ call[c].seen.tok \in Token
                      /\ Known(call[c].seen.tok)
  BY DEF IInv, Shape, Saving, Read, TypeOK, Seen, Row, Known
<1>5. gone' \subseteq Token /\ adrift' \subseteq Token
      /\ \A u \in gone' : u \in gone \/ Known(u)
  BY <1>1, <1>4 DEF IInv, TypeOK
<1> HIDE DEF mine
<1>6. \A u \in Token : Known(u)' => Known(u)
  BY <1>1, <1>2 DEF Known
<1>7. /\ \A u \in Token : Held(u)' => Held(u)
      /\ \A u \in Token : Held(u) => Held(u)' \/ u \in adrift'
  <2>1. \A u \in Token : Held(u)' => Held(u)
    BY <1>1, <1>2, <1>3 DEF Held
  <2>2. \A u \in Token : Held(u) => Held(u)' \/ u \in adrift'
    BY <1>1, <1>2, <1>3 DEF Held, mine
  <2> QED BY <2>1, <2>2
<1>8. TypeOK'
  <2>1. call' \in [Caller -> InCall]
    <3>1. Idle \in InCall
      BY QboAssumption DEF Idle, InCall, Place, Seen
    <3> QED BY <1>1, <3>1 DEF IInv, TypeOK, InCall
  <2>2. lock' \in [Proc -> Caller \cup {None}]
    BY <1>1 DEF IInv, TypeOK
  <2>3. \A c \in Caller : call'[c].at \in Locked <=> lock'[Home[c]] = c
    BY <1>1, <1>2, QboAssumption DEF IInv, TypeOK, Locked
  <2> QED BY <1>1, <1>5, <2>1, <2>2, <2>3 DEF IInv, TypeOK, InCall
<1>9. Shape'
  <2>1. \A u \in Token : Known(u)' \/ Held(u)' => Issued(u)'
    BY <1>1, <1>6, <1>7 DEF IInv, Shape, Issued
  <2>2. live' \cup gone' \subseteq {u \in Token : Issued(u)'}
    BY <1>1, <1>5 DEF IInv, Shape, Issued
  <2>3. \A u \in Token : rotator'[u] # None => Issued(u)' /\ u \notin live'
    BY <1>1 DEF IInv, Shape, Issued
  <2>4. \A d \in Caller : /\ call'[d].at \in Read => call'[d].seen # None
                          /\ Saving(d)' => call'[d].tok \in Token
                          /\ call'[d].at = "expire" => call'[d].seen.tok \in lapsed'
    BY <1>1, <1>2, <1>3 DEF IInv, Shape, Read
  <2> QED BY <1>1, <1>3, <2>1, <2>2, <2>3, <2>4 DEF IInv, Shape
<1>10. Hands'
  <2>1. \A u \in Token : Held(u)' => InHand(u)'
    BY <1>1, <1>6, <1>7 DEF IInv, Hands, InHand
  <2> QED BY <1>1, <1>2, <1>3, <2>1 DEF IInv, Hands
<1>11. Marked'
  <2>1. \A u \in live' : Accounted(u)'
    BY <1>1, <1>7 DEF IInv, TypeOK, Marked, Accounted
  <2> QED BY <1>1, <1>2, <1>3, <2>1 DEF IInv, Marked
<1>12. ConnectedIsUsable'
  BY <1>1, <1>2 DEF IInv, ConnectedIsUsable, At, mine, Saving
<1>13. Spared'
  <2>1. \A c \in Caller : /\ call'[c].at = "ask" /\ rotator'[call'[c].seen.tok] = Home[c]
                          => call'[c].seen.tok \in gone'
    BY <1>1, <1>2 DEF IInv, Spared
  <2>2. ASSUME NEW q \in Proc, row' # None, rotator'[row'.tok] = q
        PROVE  \/ row'.tok \in gone' \cup lapsed'
               \/ \E c \in Caller : /\ Home[c] = q /\ Saving(c)'
                                    /\ call'[c].seen.tok = row'.tok
    <3>1. \/ row.tok \in gone \cup lapsed
          \/ \E c \in Caller : Home[c] = q /\ Saving(c) /\ call[c].seen.tok = row.tok
      BY <1>1, <2>2 DEF IInv, Spared
    <3>2. CASE q = p
      BY <1>1, <3>1, <3>2 DEF mine
    <3>3. CASE q # p
      BY <1>1, <1>2, <1>3, <3>1, <3>3
    <3> QED BY <3>2, <3>3
  <2> QED BY <1>1, <2>1, <2>2 DEF IInv, Spared
<1>14. Decided' /\ OwnerDecisionStands'
  BY <1>1, <1>2, <1>3 DEF IInv, Decided, OwnerDecisionStands
<1> QED BY <1>8, <1>9, <1>10, <1>11, <1>12, <1>13, <1>14 DEF IInv

LEMMA OtherSteps ==
  ASSUME IInv,
         \/ Disconnect \/ (\E ok \in BOOLEAN : Revoke(ok))
         \/ (\E t \in Token : Age(t) \/ Lapse(t) \/ Withdraw(t)) \/ UNCHANGED vars
  PROVE  IInv'
<1>1. CASE Disconnect
  <2>1. /\ row # None /\ bye' = [at |-> "revoke", tok |-> row.tok]
        /\ UNCHANGED <<row, lock, call, visit, code, want, overlap, grant, live, rotator,
                       aged, lapsed, gone, adrift, selfRefused, faults>>
    BY <1>1 DEF Disconnect, caller, intuit, expiry, loss
  <2>2. row.tok \in Token /\ Known(row.tok) /\ bye'.tok = row.tok
    BY <2>1 DEF IInv, TypeOK, Seen, Row, Known
  <2>3. TypeOK'
    <3>1. bye' \in [at : {"idle", "revoke", "delete"}, tok : 0..MaxTok]
      BY <2>1, <2>2, QboAssumption DEF Token
    <3> QED BY <2>1, <3>1 DEF IInv, TypeOK
  <2> QED BY <2>1, <2>2, <2>3, EndingKeeps
<1>2. ASSUME NEW ok \in BOOLEAN, Revoke(ok) PROVE IInv'
  <2> DEFINE E == IF ok /\ bye.tok \in live THEN {bye.tok} ELSE {}
  <2>1. /\ bye.at = "revoke" /\ bye' = [bye EXCEPT !.at = "delete"]
        /\ live' = live \ E /\ gone' = gone \cup E /\ E \subseteq live
        /\ UNCHANGED <<row, lock, call, visit, code, want, overlap, grant, rotator, aged,
                       lapsed, adrift, selfRefused, faults>>
    BY <1>2 DEF Revoke, caller, expiry
  <2> HIDE DEF E
  <2>2. /\ bye.tok \in Token /\ Known(bye.tok) /\ bye'.tok = bye.tok
        /\ bye' \in [at : {"idle", "revoke", "delete"}, tok : 0..MaxTok]
    BY <2>1 DEF IInv, Shape, TypeOK, Known
  <2>3. TypeOK'
    BY <2>1, <2>2 DEF IInv, TypeOK
  <2> QED BY <2>1, <2>2, <2>3, EndingKeeps
<1>3. bye.at # "idle" => bye.tok \in Token /\ Known(bye.tok)
  BY DEF IInv, Shape, Known
<1>4. ASSUME NEW t \in Token, Age(t) PROVE IInv'
  <2>1. /\ aged' = aged \cup {t}
        /\ UNCHANGED <<row, lock, call, visit, code, bye, want, overlap, grant, live, rotator,
                       lapsed, gone, adrift, selfRefused, faults>>
    BY <1>4 DEF Age, caller, owner, intuit, loss
  <2>2. TypeOK'
    BY <2>1 DEF IInv, TypeOK
  <2> QED BY <1>3, <2>1, <2>2, EndingKeeps
<1>5. ASSUME NEW t \in Token, Lapse(t) \/ Withdraw(t) PROVE IInv'
  <2>1. /\ live' = live \ {t} /\ gone' = gone \cup ({t} \cap live)
        /\ lapsed' \subseteq aged /\ lapsed \subseteq lapsed' /\ faults' \in 0..MaxFaults
        /\ UNCHANGED <<row, lock, call, visit, code, bye, want, overlap, grant, rotator, aged,
                       adrift, selfRefused>>
    BY <1>5, QboAssumption DEF Lapse, Withdraw, caller, owner, expiry, IInv, TypeOK
  <2>2. TypeOK'
    BY <2>1 DEF IInv, TypeOK
  <2> QED BY <1>3, <2>1, <2>2, EndingKeeps
<1>6. CASE UNCHANGED vars
  <2>1. UNCHANGED <<row, lock, call, visit, code, bye, want, overlap, grant, live, rotator,
                    aged, lapsed, gone, adrift, selfRefused, faults>>
    BY <1>6 DEF vars, caller, owner, intuit, expiry, loss
  <2>2. TypeOK'
    BY <2>1 DEF IInv, TypeOK
  <2> QED BY <1>3, <2>1, <2>2, EndingKeeps
<1> QED BY <1>1, <1>2, <1>4, <1>5, <1>6

-----------------------------------------------------------------------------
(* The invariant, and what follows from it                                 *)

LEMMA Initially == Init => IInv
<1> SUFFICES ASSUME Init PROVE IInv
  OBVIOUS
<1>1. /\ \A c \in Caller : call[c] = Idle
      /\ \A g \in Grant : visit[g] = "none" /\ code[g] = 0
      /\ row = None /\ bye.at = "idle" /\ live = {} /\ gone = {} /\ lapsed = {}
      /\ \A t \in Token : grant[t] = None /\ rotator[t] = None
  BY DEF Init
<1>2. Idle.at = "idle" /\ Idle.seen = None
  BY DEF Idle
<1>3. \A c \in Caller : ~Saving(c)
  BY <1>1, <1>2 DEF Saving
<1>4. \A g \in Grant : ~Visiting(g)
  BY <1>1 DEF Visiting
<1>5. \A t \in Token : ~Known(t) /\ ~Held(t)
  BY <1>1, <1>2, <1>3, <1>4 DEF Known, Held
<1>6. TypeOK
  <2>1. call \in [Caller -> InCall]
    <3>1. Idle \in InCall
      BY QboAssumption DEF Idle, InCall, Place, Seen
    <3> QED BY <3>1 DEF Init
  <2>2. \A c \in Caller : call[c].at \in Locked <=> lock[Home[c]] = c
    BY <1>1, <1>2, QboAssumption DEF Init, Locked
  <2>3. 0 \in 0..MaxTok /\ 0 \in 0..MaxFaults
    BY QboAssumption
  <2>4. bye \in [at : {"idle", "revoke", "delete"}, tok : 0..MaxTok]
    BY <2>3 DEF Init
  <2> QED BY <2>1, <2>2, <2>3, <2>4 DEF Init, TypeOK, InCall, Seen
<1>7. Shape /\ Hands
  BY <1>1, <1>2, <1>3, <1>4, <1>5 DEF Shape, Hands, Read
<1>8. Marked
  BY <1>1, <1>2, <1>4, QboAssumption DEF Marked
<1>9. ConnectedIsUsable /\ OwnerDecisionStands
  BY DEF Init, ConnectedIsUsable, OwnerDecisionStands
<1>10. Spared
  BY <1>1, <1>2 DEF Init, Spared
<1>11. Decided
  BY <1>1, <1>2, <1>3, <1>4 DEF Decided
<1> QED BY <1>6, <1>7, <1>8, <1>9, <1>10, <1>11 DEF IInv

LEMMA Preserved == IInv /\ [Next]_vars => IInv'
<1> SUFFICES ASSUME IInv, [Next]_vars PROVE IInv'
  OBVIOUS
<1>1. ASSUME NEW c \in Caller, Step(c) PROVE IInv'
  <2>1. CASE \/ Fetch(c) \/ Enter(c) \/ AskFails(c) \/ Refused(c) \/ MarkRead(c) \/ Latest(c)
             \/ Return(c) \/ Unauthorized(c) \/ (Swap(c) /\ ~Unchanged(c))
    BY <2>1, QuietSteps, QuietKeeps DEF IInv, Core
  <2>2. CASE SaveExpired(c) \/ Save(c) \/ (Swap(c) /\ Unchanged(c))
    BY <2>2, SaveExpiredKeeps, SaveKeeps, SwapKeeps
  <2>3. CASE Refresh(c) \/ AnswerLost(c)
    BY <2>3, RefreshKeeps, AnswerLostKeeps
  <2> QED BY <1>1, <2>1, <2>2, <2>3 DEF Step
<1>2. ASSUME NEW g \in Grant, Exchange(g) \/ Connect(g) \/ CallbackFails(g) PROVE IInv'
  BY <1>2, ExchangeKeeps, ConnectKeeps, CallbackFailsKeeps
<1>3. CASE Delete \/ \E p \in Proc : Crash(p)
  BY <1>3, DeleteKeeps, CrashKeeps
<1>4. CASE \/ Disconnect \/ (\E ok \in BOOLEAN : Revoke(ok))
           \/ (\E t \in Token : Age(t) \/ Lapse(t) \/ Withdraw(t)) \/ UNCHANGED vars
  BY <1>4, OtherSteps
<1> QED BY <1>1, <1>2, <1>3, <1>4 DEF Next

LEMMA Invariance == Spec => []IInv
BY Initially, Preserved, PTL DEF Spec

\* The row, the lock of every process, what callers have in hand and what Intuit
\* has issued have their types, and a lock is held by the caller that is past it.
THEOREM TypeCorrect == Spec => []TypeOK
<1>1. IInv => TypeOK
  BY DEF IInv
<1> QED BY Invariance, <1>1, PTL

\* A connection is marked needs_reconnect only when its consent has no good token
\* left, but one on its way to the row or one that was dropped: what two processes
\* that refresh one token at one time make of each other's answers.
THEOREM ReconnectIsNeeded == Spec => []NeedsReconnectIsTrue
<1>1. IInv => NeedsReconnectIsTrue
  <2> SUFFICES ASSUME IInv, row # None, row.status = "needs_reconnect", NEW t \in live,
                      grant[t] = grant[row.tok], t \notin adrift
               PROVE  \E c \in Caller : At(c, "save") /\ call[c].tok = t
    BY DEF NeedsReconnectIsTrue
  <2>1. t # row.tok /\ Held(t)
    BY DEF IInv, Marked, Accounted
  <2>2. ASSUME NEW g \in Grant, Visiting(g), code[g] = t PROVE FALSE
    <3>1. grant[row.tok] = g /\ row.tok \in Token
      BY <2>2 DEF IInv, Decided, TypeOK, Seen, Row
    <3> QED BY <2>1, <2>2, <3>1 DEF IInv, Marked
  <2> QED BY <2>1, <2>2 DEF Held, Saving, At
<1> QED BY Invariance, <1>1, PTL

\* A connection stored as connected holds the token Intuit takes next, unless its
\* successor is on its way to the row or Intuit ended it: no save puts back a token
\* that was rotated away.
THEOREM ConnectedWorks == Spec => []ConnectedIsUsable
<1>1. IInv => ConnectedIsUsable
  BY DEF IInv
<1> QED BY Invariance, <1>1, PTL

\* What the owner last did stands, unless a refresh was in flight when the owner's
\* write landed: a refresh that began later read the owner's row.
THEOREM OwnerPrevails == Spec => []OwnerDecisionStands
<1>1. IInv => OwnerDecisionStands
  BY DEF IInv
<1> QED BY Invariance, <1>1, PTL

\* A process never presents a token it has itself rotated away: the caller that
\* rotated it keeps the lock until its successor is in the row.
THEOREM NoSelfRefusal == Spec => []NoSelfInflictedRefusal
<1>1. IInv => NoSelfInflictedRefusal
  BY DEF IInv, Spared, NoSelfInflictedRefusal
<1> QED BY Invariance, <1>1, PTL
=============================================================================
