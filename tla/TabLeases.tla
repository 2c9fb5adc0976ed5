----------------------------- MODULE TabLeases ------------------------------
(***************************************************************************)
(* What the page pool of naukri_server/browser.py promises its callers: a  *)
(* bounded set of tabs, each of them lent to at most one client at a time. *)
(* How tabs are queued, checked, recovered and counted is PagePool's       *)
(* business.                                                               *)
(***************************************************************************)
EXTENDS Integers, FiniteSets

CONSTANTS Clients, Pages, MaxPages, NoPage

VARIABLES
  pool,     \* the tabs of the pool
  lease     \* the tab each client works with, or NoPage

leaseVars == <<pool, lease>>

Lent == {lease[c] : c \in Clients} \ {NoPage}

Init == /\ \E first \in Pages : pool = {first}
        /\ lease = [c \in Clients |-> NoPage]

\* A tab nobody works with is lent to a client without one.
Lend(c) ==
  /\ lease[c] = NoPage
  /\ \E p \in pool \ Lent : lease' = [lease EXCEPT ![c] = p]
  /\ UNCHANGED pool

\* A new tab joins the pool, within the limit.
Open ==
  /\ Cardinality(pool) < MaxPages
  /\ \E p \in Pages \ pool : pool' = pool \cup {p}
  /\ UNCHANGED lease

\* A tab is opened for a client, in place of one that stopped answering.
OpenFor(c) ==
  /\ Cardinality(pool) < MaxPages
  /\ lease[c] = NoPage
  /\ \E p \in Pages \ pool : /\ pool' = pool \cup {p}
                             /\ lease' = [lease EXCEPT ![c] = p]

\* A client is done with its tab.
GiveBack(c) ==
  /\ lease[c] # NoPage
  /\ lease' = [lease EXCEPT ![c] = NoPage]
  /\ UNCHANGED pool

\* Tabs nobody works with leave the pool.
Discard ==
  /\ \E gone \in SUBSET (pool \ Lent) : pool' = pool \ gone
  /\ UNCHANGED lease

Next ==
  \/ Open \/ Discard
  \/ \E c \in Clients : Lend(c) \/ OpenFor(c) \/ GiveBack(c)

Spec == Init /\ [][Next]_leaseVars
=============================================================================
