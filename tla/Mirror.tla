------------------------------- MODULE Mirror -------------------------------
(***************************************************************************)
(* The parallel run's refresh (web/qbo_mirror.py): while QuickBooks keeps  *)
(* the books, each refresh reads its trial balance and RGNR8's and posts   *)
(* one entry for the difference, under a key made of the date and the      *)
(* difference.  The ledger posts a key once: a second entry under it is    *)
(* refused for its later stamp, or answered with the first when the two    *)
(* race or share a stamp (see Ledger).                                     *)
(*                                                                         *)
(* A trial balance that balances, over two accounts, is one number.        *)
(***************************************************************************)
EXTENDS Integers

CONSTANTS Refresher, \* requests that refresh
          Balance,   \* what QuickBooks' trial balance may be, integers
          MaxDay,    \* bound on the days that pass
          MaxEdits   \* bound on changes in QuickBooks

VARIABLES qbo,     \* QuickBooks' trial balance
          books,   \* RGNR8's
          keys,    \* idempotency keys the ledger has posted under
          own,     \* the ledger holds an entry that is not from QuickBooks
          today, edits,
          run,     \* Refresher -> where its refresh is
          alone,   \* Refresher -> nothing else has happened since it began
          inexact  \* a refresh that ran alone left a difference

vars == <<qbo, books, keys, own, today, edits, run, alone, inexact>>
ledger == <<books, keys, own>>

Idle == [at |-> "idle", target |-> 0, delta |-> 0, asOf |-> 0]

Init ==
  /\ qbo = 0 /\ books = 0 /\ keys = {} /\ own = FALSE /\ today = 0 /\ edits = 0
  /\ run = [r \in Refresher |-> Idle] /\ alone = [r \in Refresher |-> FALSE]
  /\ inexact = FALSE

Disturb == alone' = [r \in Refresher |-> FALSE]

\* Refused when the journal holds an entry of RGNR8's own.
Foreign(r) ==
  /\ run[r] = Idle /\ ~own
  /\ run' = [run EXCEPT ![r].at = "qbo", ![r].asOf = today]
  /\ alone' = [o \in Refresher |-> o = r /\ \A p \in Refresher : run[p] = Idle]
  /\ UNCHANGED <<qbo, ledger, today, edits, inexact>>

ReadQuickBooks(r) ==
  /\ run[r].at = "qbo"
  /\ run' = [run EXCEPT ![r].at = "ledger", ![r].target = qbo]
  /\ UNCHANGED <<qbo, ledger, today, edits, alone, inexact>>

\* No difference, nothing to post.
ReadLedger(r) ==
  /\ run[r].at = "ledger"
  /\ LET delta == run[r].target - books
     IN  run' = [run EXCEPT ![r] = IF delta = 0 THEN Idle
                                   ELSE [@ EXCEPT !.at = "post", !.delta = delta]]
  /\ UNCHANGED <<qbo, ledger, today, edits, alone, inexact>>

Key(r) == <<run[r].asOf, run[r].delta>>

Inexact(r) == inexact' = (inexact \/ (alone[r] /\ books # run[r].target))

\* The entry is posted, or the key's entry is returned in its place ...
Post(r) ==
  /\ run[r].at = "post"
  /\ run' = [run EXCEPT ![r].at = "compare"]
  /\ books' = IF Key(r) \in keys THEN books ELSE books + run[r].delta
  /\ keys' = keys \cup {Key(r)}
  /\ UNCHANGED <<qbo, own, today, edits, alone, inexact>>

\* ... or the ledger refuses it, and the refresh fails.
Refuse(r) ==
  /\ run[r].at = "post" /\ Key(r) \in keys
  /\ run' = [run EXCEPT ![r] = Idle] /\ Inexact(r)
  /\ UNCHANGED <<qbo, ledger, today, edits, alone>>

\* The two trial balances are compared again; a difference is reported.
Compare(r) ==
  /\ run[r].at = "compare" /\ run' = [run EXCEPT ![r] = Idle] /\ Inexact(r)
  /\ UNCHANGED <<qbo, ledger, today, edits, alone>>

\* QuickBooks changes.
Edit(b) ==
  /\ edits < MaxEdits /\ edits' = edits + 1 /\ b # qbo /\ qbo' = b
  /\ Disturb /\ UNCHANGED <<ledger, today, run, inexact>>

\* Someone posts in RGNR8: the books are not guarded, or no longer.
PostOwn ==
  /\ ~own /\ own' = TRUE /\ books' = books + 1
  /\ Disturb /\ UNCHANGED <<qbo, keys, today, edits, run, inexact>>

NextDay ==
  /\ today < MaxDay /\ today' = today + 1
  /\ UNCHANGED <<qbo, ledger, edits, run, alone, inexact>>

Next == \/ \E r \in Refresher : \/ Foreign(r) \/ ReadQuickBooks(r)
                                \/ ReadLedger(r) \/ Post(r) \/ Refuse(r)
                                \/ Compare(r)
        \/ \E b \in Balance : Edit(b)
        \/ PostOwn \/ NextDay

Spec == Init /\ [][Next]_vars

-----------------------------------------------------------------------------
\* "Bring RGNR8's books to QuickBooks' trial balance as of `as_of`, exactly"
\* (refresh_mirror): a refresh during which nothing else happens leaves the
\* books equal to the trial balance it read.
RefreshIsExact == ~inexact
=============================================================================
