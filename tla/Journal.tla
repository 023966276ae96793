------------------------------ MODULE Journal ------------------------------
(***************************************************************************)
(* What the kernel's LedgerStore promises its callers, and nothing about   *)
(* how: an append-only journal of one tenant in which every idempotency    *)
(* key names at most one entry, sequence numbers are handed out without a  *)
(* gap, and the only entry a caller is ever told about is one the journal  *)
(* holds.  Ledger.tla is shown to implement this module.                   *)
(***************************************************************************)
EXTENDS Integers

CONSTANTS Caller,   \* the concurrent callers
          NoReply   \* a caller that has been told nothing

VARIABLES entries,  \* the posted entries
          count,    \* how many there are
          told      \* the entry each caller's latest call returned

vars == <<entries, count, told>>

Keys == {e.key : e \in entries}

Init == /\ entries = {}
        /\ count = 0
        /\ told = [c \in Caller |-> NoReply]

\* LedgerStore.append of a fresh key: the next sequence, and the caller may or
\* may not live to hear of it.
Append(c) ==
  \E e \in entries' \ entries :
    /\ e.key \notin Keys
    /\ e.seq = count + 1
    /\ entries' = entries \cup {e}
    /\ count' = count + 1
    /\ told' \in {told, [told EXCEPT ![c] = e]}

\* A replayed key returns an entry already posted; a new or a refused call
\* returns nothing.
Tell(c) ==
  /\ \E r \in entries \cup {NoReply} : told' = [told EXCEPT ![c] = r]
  /\ UNCHANGED <<entries, count>>

Next == \E c \in Caller : Append(c) \/ Tell(c)

Spec == Init /\ [][Next]_vars
=============================================================================
