--------------------------- MODULE PagePoolProofs ---------------------------
(***************************************************************************)
(* Proofs about the page pool, for any finite number of clients, any set   *)
(* of tabs and any limits.                                                 *)
(*                                                                         *)
(* First the pool between initialize() and close_all(), with PoolInv, and  *)
(* that it implements TabLeases.  Then the pool across suspend and resume. *)
(* PoolInv does not survive those: a lease taken while the tabs are being  *)
(* closed outlives its context, and its tab comes back into the queue of   *)
(* the next one.  LeaseInv is what survives, and it still gives exact      *)
(* lease counts and an unreachable wait on the queue.                      *)
(***************************************************************************)
EXTENDS SuspendablePool, FiniteSetTheorems, TLAPS

(* Sets of clients and their sizes *)

\* The leases are finitely many, so outstanding_leases() can count them.
LEMMA LeasesFinite == /\ IsFiniteSet(Leases)
                      /\ Cardinality(Leases) \in Nat
  BY ClientsAssumption, FS_Subset, FS_CardinalityType DEF Leases

\* The tabs held are no more than the clients that hold one.
LEMMA HeldBounded == /\ IsFiniteSet(Held)
                     /\ Cardinality(Held) \in Nat
                     /\ Cardinality(Held) <= Cardinality(Leases)
<1>1. /\ IsFiniteSet(Holders)
      /\ Cardinality(Holders) <= Cardinality(Leases)
  <2>1. Holders \in SUBSET Leases
    BY DEF Holders, Leases, HolderStates, LeaseStates
  <2>2. QED
    BY <2>1, LeasesFinite, FS_Subset
<1>2. DEFINE f == [c \in Holders |-> page[c]]
<1>3. f \in Surjection(Holders, Held)
  BY DEF Surjection, Held
<1>4. /\ IsFiniteSet(Held)
      /\ Cardinality(Held) <= Cardinality(Holders)
  BY <1>1, <1>3, FS_Surjection
<1>5. QED
  BY <1>1, <1>4, LeasesFinite, FS_CardinalityType

\* Tabs of the pool never outnumber idle tabs and leases together.
LEMMA PagesBounded ==
  ASSUME PoolInv
  PROVE  /\ IsFiniteSet(all_pages)
         /\ Cardinality(all_pages) \in Nat
         /\ Cardinality(all_pages) <= Cardinality(available) + outstanding
         /\ Cardinality(all_pages) <= MaxPages
<1>1. /\ IsFiniteSet(available)
      /\ Cardinality(available) \in Nat
      /\ Cardinality(available) + outstanding <= MaxPages
  BY FS_CardinalityType DEF PoolInv, RoomForEveryLease
<1>2. /\ all_pages = available \cup Held
      /\ available \cap Held = {}
  BY DEF PoolInv, PoolAccountsForTabs
<1>3. outstanding = Cardinality(Leases)
  BY DEF PoolInv, LeasesAreCounted
<1>4. /\ IsFiniteSet(all_pages)
      /\ Cardinality(all_pages) = Cardinality(available) + Cardinality(Held)
  BY <1>1, <1>2, HeldBounded, FS_Union, FS_EmptySet
<1>5. QED
  BY <1>1, <1>3, <1>4, HeldBounded, LeasesFinite, LimitsAssumption

\* Taking a lease adds one client, giving it up removes one.
LEMMA LeaseTaken ==
  ASSUME NEW c \in Clients, NEW s \in LeaseStates, TypeOK,
         pc[c] \notin LeaseStates,
         pc' = [pc EXCEPT ![c] = s]
  PROVE  Cardinality(Leases') = Cardinality(Leases) + 1
<1>1. /\ Leases' = Leases \cup {c}
      /\ c \notin Leases
  BY DEF Leases, TypeOK
<1>2. QED
  BY <1>1, LeasesFinite, FS_AddElement

\* Leaving acquire() takes exactly one client out of the leases.
LEMMA LeaseEnded ==
  ASSUME NEW c \in Clients, TypeOK,
         pc[c] \in LeaseStates,
         pc' = [pc EXCEPT ![c] = "idle"]
  PROVE  Cardinality(Leases') = Cardinality(Leases) - 1
<1>1. /\ Leases' = Leases \ {c}
      /\ c \in Leases
  BY DEF Leases, TypeOK, LeaseStates
<1>2. QED
  BY <1>1, LeasesFinite, FS_RemoveElement

(* Steps of acquire() *)

\* Leases and the tabs they hold are untouched.
LEMMA ClientsUnmoved ==
  ASSUME PoolInv, TypeOK', UNCHANGED <<permits, outstanding, page>>,
         UNCHANGED <<available, all_pages, closing>>,
         Leases' = Leases, Holders' = Holders,
         \A c \in Clients : pc'[c] # "queueing"
  PROVE  PoolInv'
<1>1. Held' = Held
  BY DEF Held
<1>2. QED
  BY <1>1 DEF PoolInv, PoolAccountsForTabs, NeverWaitsOnQueue,
     LeasesAreCounted, DoomedTabsAreUnreachable, OnlyHoldersHavePages,
     RoomForEveryLease

\* The circuit check moves a client that holds nothing.
LEMMA AdmitStep ==
  ASSUME NEW c \in Clients, PoolInv, Admit(c)
  PROVE  PoolInv'
<1>1. TypeOK'
  BY DEF PoolInv, TypeOK, Admit, ClientStates, poolVars, chromeVars
<1>2. /\ Leases' = Leases
      /\ Holders' = Holders
      /\ \A d \in Clients : pc'[d] # "queueing"
  BY DEF PoolInv, TypeOK, Admit, Leases, Holders, LeaseStates, HolderStates,
     NeverWaitsOnQueue
<1>3. QED
  BY <1>1, <1>2, ClientsUnmoved DEF Admit, poolVars, chromeVars

\* A client that gives up on the semaphore held nothing.
LEMMA CheckoutTimesOutStep ==
  ASSUME NEW c \in Clients, PoolInv, CheckoutTimesOut(c)
  PROVE  PoolInv'
<1>1. TypeOK'
  BY DEF PoolInv, TypeOK, CheckoutTimesOut, ClientStates, poolVars,
     circuitVars, chromeVars
<1>2. /\ Leases' = Leases
      /\ Holders' = Holders
      /\ \A d \in Clients : pc'[d] # "queueing"
  BY DEF PoolInv, TypeOK, CheckoutTimesOut, Leases, Holders, LeaseStates,
     HolderStates, NeverWaitsOnQueue
<1>3. QED
  BY <1>1, <1>2, ClientsUnmoved DEF CheckoutTimesOut, poolVars, chromeVars

\* A live tab goes from being checked to being used by the same holder.
LEMMA TabAnswersStep ==
  ASSUME NEW c \in Clients, PoolInv, TabAnswers(c)
  PROVE  PoolInv'
<1>1. TypeOK'
  BY DEF PoolInv, TypeOK, TabAnswers, ClientStates, LeaseStates, poolVars,
     circuitVars, chromeVars
<1>2. /\ Leases' = Leases
      /\ Holders' = Holders
      /\ \A d \in Clients : pc'[d] # "queueing"
  BY DEF PoolInv, TypeOK, TabAnswers, Leases, Holders, LeaseStates,
     HolderStates, NeverWaitsOnQueue
<1>3. QED
  BY <1>1, <1>2, ClientsUnmoved DEF TabAnswers, poolVars, chromeVars

\* The tab taken from the queue moves from available to Held.
LEMMA CheckoutKeepsPool ==
  ASSUME NEW c \in Clients, PoolInv, Checkout(c)
  PROVE  PoolInv'
<1> USE DEF PoolInv
<1>1. PICK s \in LeaseStates : /\ pc' = [pc EXCEPT ![c] = s]
                               /\ available = {} <=> s # "checking"
                               /\ s \in {"checking", "creating", "queueing"}
                               /\ s = "queueing" => ~(Cardinality(all_pages) < MaxPages)
  BY DEF Checkout, LeaseStates
<1>2. s # "queueing"
  <2>1. outstanding < MaxPages
    BY LimitsAssumption DEF Checkout, LeasesAreCounted, TypeOK
  <2>2. available = {} => Cardinality(available) = 0
    BY FS_EmptySet
  <2>3. available = {} => Cardinality(all_pages) < MaxPages
    BY <2>1, <2>2, PagesBounded, LimitsAssumption DEF TypeOK
  <2>4. QED
    BY <1>1, <2>3
<1>3. Cardinality(Leases') = Cardinality(Leases) + 1
  BY <1>1, LeaseTaken DEF Checkout, LeaseStates
<1>4. TypeOK'
  BY <1>1, LimitsAssumption, LeasesFinite
     DEF Checkout, TypeOK, ClientStates, LeasesAreCounted, circuitVars, chromeVars
<1>5. NeverWaitsOnQueue'
  BY <1>1, <1>2 DEF NeverWaitsOnQueue, TypeOK
<1>6. LeasesAreCounted'
  BY <1>3, LeasesFinite, LimitsAssumption DEF Checkout, LeasesAreCounted, TypeOK
<1>7. CASE available = {}
  <2>1. s = "creating"
    BY <1>1, <1>2, <1>7
  <2>2. Holders' = Holders
    BY <1>1, <2>1 DEF Holders, HolderStates, TypeOK, Checkout
  <2>3. page' = page /\ available' = available /\ all_pages' = all_pages /\ closing' = closing
    BY <1>7 DEF Checkout, chromeVars
  <2>4. Held' = Held
    BY <2>2, <2>3 DEF Held
  <2>5. RoomForEveryLease'
    BY <1>7, <2>3, <1>6, FS_EmptySet, LimitsAssumption, <1>4
       DEF RoomForEveryLease, LeasesAreCounted, TypeOK
  <2>6. QED
    BY <1>4, <1>5, <1>6, <2>2, <2>3, <2>4, <2>5
       DEF PoolAccountsForTabs, DoomedTabsAreUnreachable, OnlyHoldersHavePages
<1>8. CASE available # {}
  <2>1. PICK p \in available : /\ available' = available \ {p}
                               /\ page' = [page EXCEPT ![c] = p]
    BY <1>8 DEF Checkout
  <2>2. s = "checking"
    BY <1>1, <1>8
  <2>3. /\ Holders' = Holders \cup {c}
        /\ c \notin Holders
    BY <1>1, <2>2 DEF Holders, HolderStates, TypeOK, Checkout
  <2>4. Held' = Held \cup {p}
    BY <2>1, <2>3 DEF Held, TypeOK, Holders
  <2>5. all_pages' = all_pages /\ closing' = closing
    BY DEF Checkout, chromeVars
  <2>6. PoolAccountsForTabs'
    BY <2>1, <2>3, <2>4, <2>5 DEF PoolAccountsForTabs, Held, Holders, TypeOK
  <2>7. DoomedTabsAreUnreachable'
    BY <2>1, <2>4, <2>5 DEF DoomedTabsAreUnreachable
  <2>8. OnlyHoldersHavePages'
    BY <2>1, <2>3, NoPageAssumption DEF OnlyHoldersHavePages, TypeOK
  <2>9. RoomForEveryLease'
    <3>1. /\ IsFiniteSet(available')
          /\ Cardinality(available') = Cardinality(available) - 1
      BY <2>1, FS_RemoveElement DEF RoomForEveryLease
    <3>2. Cardinality(available) \in Nat
      BY FS_CardinalityType DEF RoomForEveryLease
    <3>3. QED
      BY <3>1, <3>2, LimitsAssumption DEF RoomForEveryLease, Checkout, TypeOK
  <2>10. QED
    BY <1>4, <1>5, <1>6, <2>6, <2>7, <2>8, <2>9
<1>9. QED
  BY <1>7, <1>8

\* A tab opened is unknown to the pool, so its new holder is its only holder.
LEMMA OpenTabStep ==
  ASSUME NEW c \in Clients, PoolInv, OpenTab(c)
  PROVE  PoolInv'
<1> USE DEF PoolInv
<1>1. PICK p \in FreshPages : /\ tabs' = tabs \cup {p}
                              /\ alive' = alive \cup {p}
                              /\ all_pages' = all_pages \cup {p}
                              /\ page' = [page EXCEPT ![c] = p]
  BY DEF OpenTab
<1>2. PICK s \in HolderStates : pc' = [pc EXCEPT ![c] = s]
  BY DEF OpenTab, HolderStates
<1>3. /\ c \notin Holders
      /\ Holders' = Holders \cup {c}
  BY <1>2 DEF OpenTab, Holders, HolderStates, TypeOK
<1>4. Leases' = Leases
  BY <1>2 DEF OpenTab, Leases, LeaseStates, HolderStates, TypeOK
<1>5. Held' = Held \cup {p}
  BY <1>1, <1>3 DEF Held, TypeOK, Holders
<1>6. /\ p \in Pages
      /\ p \notin all_pages \cup available \cup closing \cup Held
  BY DEF FreshPages
<1>7. UNCHANGED <<permits, outstanding, available, closing>>
  BY DEF OpenTab
<1>8. TypeOK'
  BY <1>1, <1>2, <1>6, <1>7
     DEF OpenTab, TypeOK, ClientStates, LeaseStates, HolderStates, circuitVars
<1>9. PoolAccountsForTabs'
  BY <1>1, <1>3, <1>5, <1>6, <1>7
     DEF PoolAccountsForTabs, Held, Holders, TypeOK
<1>10. NeverWaitsOnQueue'
  BY <1>2 DEF NeverWaitsOnQueue, HolderStates, TypeOK
<1>11. LeasesAreCounted' /\ RoomForEveryLease'
  BY <1>4, <1>7 DEF LeasesAreCounted, RoomForEveryLease
<1>12. DoomedTabsAreUnreachable'
  BY <1>1, <1>5, <1>6, <1>7 DEF DoomedTabsAreUnreachable
<1>13. OnlyHoldersHavePages'
  BY <1>1, <1>3, <1>6, NoPageAssumption DEF OnlyHoldersHavePages, TypeOK
<1>14. QED
  BY <1>8, <1>9, <1>10, <1>11, <1>12, <1>13

\* The dead tab leaves the pool and its client stops holding it.
LEMMA TabDoesNotAnswerStep ==
  ASSUME NEW c \in Clients, PoolInv, TabDoesNotAnswer(c)
  PROVE  PoolInv'
<1> USE DEF PoolInv
<1>1. /\ c \in Holders
      /\ Holders' = Holders \ {c}
  BY DEF TabDoesNotAnswer, Holders, HolderStates, TypeOK
<1>2. Leases' = Leases
  BY DEF TabDoesNotAnswer, Leases, LeaseStates, TypeOK
<1>3. /\ all_pages' = all_pages \ {page[c]}
      /\ page' = [page EXCEPT ![c] = NoPage]
      /\ UNCHANGED <<permits, outstanding, available, closing>>
  BY DEF TabDoesNotAnswer, chromeVars
<1>4. Held' = Held \ {page[c]}
  <2>1. \A d \in Holders' : page'[d] = page[d] /\ page[d] # page[c]
    BY <1>1, <1>3 DEF PoolAccountsForTabs, TypeOK, Holders
  <2>2. QED
    BY <1>1, <2>1 DEF Held
<1>5. TypeOK'
  BY <1>3 DEF TabDoesNotAnswer, TypeOK, ClientStates, LeaseStates, circuitVars,
              chromeVars
<1>6. PoolAccountsForTabs'
  BY <1>1, <1>3, <1>4 DEF PoolAccountsForTabs, Held, Holders, TypeOK
<1>7. NeverWaitsOnQueue'
  BY DEF TabDoesNotAnswer, NeverWaitsOnQueue, TypeOK
<1>8. LeasesAreCounted' /\ RoomForEveryLease'
  BY <1>2, <1>3 DEF LeasesAreCounted, RoomForEveryLease
<1>9. DoomedTabsAreUnreachable'
  BY <1>3, <1>4 DEF DoomedTabsAreUnreachable
<1>10. OnlyHoldersHavePages'
  BY <1>1, <1>3 DEF OnlyHoldersHavePages, TypeOK
<1>11. QED
  BY <1>5, <1>6, <1>7, <1>8, <1>9, <1>10

\* The finally block, after whatever ended the checkout did to the circuit.
LEMMA FinishStep ==
  ASSUME NEW c \in Clients, PoolInv, Finish(c), pc[c] \in LeaseStates,
         closing' = closing,
         circuit_state' \in {"closed", "open", "half_open"},
         failure_count' \in 0..FailureThreshold,
         cooled' \in BOOLEAN,
         browser_available' \in BOOLEAN,
         tabs' \in SUBSET Pages,
         alive' \in SUBSET tabs',
         context' \in {"up", "wedged", "gone"}
  PROVE  PoolInv'
<1> USE DEF PoolInv
<1>1. /\ Holders' = Holders \ {c}
      /\ c \in Holders <=> page[c] # NoPage
  BY DEF Finish, Holders, HolderStates, TypeOK, OnlyHoldersHavePages
<1>2. Cardinality(Leases') = Cardinality(Leases) - 1
  BY LeaseEnded DEF Finish
<1>3. /\ Cardinality(Leases') \in Nat
      /\ Cardinality(Leases) \in Nat
  <2>1. Leases' \in SUBSET Clients
    BY DEF Leases
  <2>2. QED
    BY <2>1, LeasesFinite, ClientsAssumption, FS_Subset, FS_CardinalityType
<1>4. LeasesAreCounted'
  BY <1>2, <1>3, LimitsAssumption DEF LeasesAreCounted, Finish, TypeOK
<1>5. TypeOK'
  <2>1. permits' \in 0..MaxPages /\ outstanding' \in 0..MaxPages
    BY <1>2, <1>3, <1>4, LimitsAssumption
       DEF LeasesAreCounted, Finish, TypeOK
  <2>2. /\ available' \in SUBSET Pages
        /\ pc' \in [Clients -> ClientStates]
        /\ page' \in [Clients -> Pages \cup {NoPage}]
        /\ all_pages' \in SUBSET Pages
    BY DEF Finish, TypeOK, ClientStates
  <2>3. QED
    BY <2>1, <2>2 DEF TypeOK
<1>6. NeverWaitsOnQueue'
  BY DEF Finish, NeverWaitsOnQueue, TypeOK
<1>7. OnlyHoldersHavePages'
  BY <1>1 DEF OnlyHoldersHavePages, Finish, TypeOK
<1>8. CASE c \in Holders
  <2>1. page[c] \in Held
    BY <1>8 DEF Held
  <2>2. /\ available' = available \cup {page[c]}
        /\ all_pages' = all_pages
        /\ page' = [page EXCEPT ![c] = NoPage]
    BY <1>1, <1>8 DEF Finish
  <2>3. \A d \in Holders' : page'[d] = page[d] /\ page[d] # page[c]
    BY <1>1, <1>8, <2>2 DEF PoolAccountsForTabs, TypeOK, Holders
  <2>4. Held' = Held \ {page[c]}
    BY <1>1, <2>3 DEF Held
  <2>5. PoolAccountsForTabs'
    BY <1>1, <2>1, <2>2, <2>3, <2>4 DEF PoolAccountsForTabs
  <2>6. DoomedTabsAreUnreachable'
    BY <2>1, <2>2, <2>4 DEF DoomedTabsAreUnreachable
  <2>7. RoomForEveryLease'
    <3>1. /\ IsFiniteSet(available')
          /\ Cardinality(available') = Cardinality(available) + 1
      BY <2>1, <2>2, FS_AddElement DEF RoomForEveryLease, PoolAccountsForTabs
    <3>2. Cardinality(available) \in Nat
      BY FS_CardinalityType DEF RoomForEveryLease
    <3>3. QED
      BY <3>1, <3>2, LimitsAssumption DEF RoomForEveryLease, Finish, TypeOK
  <2>8. QED
    BY <1>4, <1>5, <1>6, <1>7, <2>5, <2>6, <2>7
<1>9. CASE c \notin Holders
  <2>1. /\ available' = available
        /\ all_pages' = all_pages
        /\ Holders' = Holders
        /\ \A d \in Holders : page'[d] = page[d]
    BY <1>1, <1>9 DEF Finish, TypeOK, Holders
  <2>2. Held' = Held
    BY <2>1 DEF Held
  <2>3. PoolAccountsForTabs' /\ DoomedTabsAreUnreachable'
    BY <2>1, <2>2 DEF PoolAccountsForTabs, DoomedTabsAreUnreachable
  <2>4. RoomForEveryLease'
    <3>1. Cardinality(available) \in Nat
      BY FS_CardinalityType DEF RoomForEveryLease
    <3>2. /\ outstanding' = outstanding - 1
          /\ outstanding \in Int
          /\ MaxPages \in Int
      BY LimitsAssumption DEF Finish, TypeOK
    <3>3. QED
      BY <2>1, <3>1, <3>2 DEF RoomForEveryLease
  <2>5. QED
    BY <1>4, <1>5, <1>6, <1>7, <2>3, <2>4
<1>10. QED
  BY <1>8, <1>9

(* The reaper *)

\* Reaped tabs leave the queue and the pool together, so they are nobody's.
LEMMA ReapStep ==
  ASSUME PoolInv, ReapIdlePages
  PROVE  PoolInv'
<1> USE DEF PoolInv
<1>1. PICK doomed \in SUBSET available :
             /\ available' = available \ doomed
             /\ all_pages' = all_pages \ doomed
             /\ closing' = closing \cup doomed
  BY DEF ReapIdlePages
<1>2. UNCHANGED <<permits, outstanding, pc, page>>
  BY DEF ReapIdlePages, clientVars
<1>3. /\ Leases' = Leases
      /\ Holders' = Holders
      /\ Held' = Held
  BY <1>2 DEF Leases, Holders, Held
<1>4. TypeOK'
  BY <1>1, <1>2 DEF ReapIdlePages, TypeOK, circuitVars
<1>5. PoolAccountsForTabs' /\ DoomedTabsAreUnreachable'
  BY <1>1, <1>2, <1>3 DEF PoolAccountsForTabs, DoomedTabsAreUnreachable
<1>6. NeverWaitsOnQueue' /\ LeasesAreCounted' /\ OnlyHoldersHavePages'
  BY <1>2, <1>3 DEF NeverWaitsOnQueue, LeasesAreCounted, OnlyHoldersHavePages
<1>7. RoomForEveryLease'
  <2>1. /\ IsFiniteSet(available')
        /\ Cardinality(available') <= Cardinality(available)
    BY <1>1, FS_Subset DEF RoomForEveryLease
  <2>2. Cardinality(available) \in Nat /\ Cardinality(available') \in Nat
    BY <2>1, FS_CardinalityType DEF RoomForEveryLease
  <2>3. outstanding' = outstanding /\ outstanding \in Int /\ MaxPages \in Int
    BY <1>2, LimitsAssumption DEF TypeOK
  <2>4. QED
    BY <2>1, <2>2, <2>3 DEF RoomForEveryLease
<1>8. QED
  BY <1>4, <1>5, <1>6, <1>7

\* Steps of Chrome and of the clock leave the pool alone.
LEMMA OutsideStep ==
  ASSUME PoolInv, TypeOK', UNCHANGED <<poolVars, clientVars>>,
         closing' \in SUBSET closing
  PROVE  PoolInv'
<1>1. /\ Leases' = Leases
      /\ Holders' = Holders
      /\ Held' = Held
  BY DEF Leases, Holders, Held, clientVars
<1>2. QED
  BY <1>1 DEF PoolInv, PoolAccountsForTabs, NeverWaitsOnQueue, LeasesAreCounted,
     DoomedTabsAreUnreachable, OnlyHoldersHavePages, RoomForEveryLease,
     poolVars, clientVars

-----------------------------------------------------------------------------
(* The invariant *)

\* A pool seeded with its first tab satisfies the invariant.
LEMMA InitPoolInv == Init => PoolInv
<1> SUFFICES ASSUME Init PROVE PoolInv
  OBVIOUS
<1>1. PICK first \in Pages : available = {first} /\ all_pages = {first}
                             /\ tabs = {first} /\ alive = {first}
  BY DEF Init
<1>2. /\ Leases = {}
      /\ Holders = {}
      /\ Held = {}
  BY DEF Init, Leases, Holders, Held, LeaseStates, HolderStates
<1>3. /\ IsFiniteSet(available)
      /\ Cardinality(available) = 1
      /\ Cardinality(Leases) = 0
  BY <1>1, <1>2, FS_Singleton, FS_EmptySet
<1>4. TypeOK
  <2>1. /\ permits \in 0..MaxPages
        /\ outstanding \in 0..MaxPages
        /\ failure_count \in 0..FailureThreshold
    BY LimitsAssumption DEF Init
  <2>2. /\ pc \in [Clients -> ClientStates]
        /\ page \in [Clients -> Pages \cup {NoPage}]
    BY DEF Init, ClientStates
  <2>3. QED
    BY <1>1, <2>1, <2>2 DEF Init, TypeOK
<1>5. /\ PoolAccountsForTabs
      /\ NeverWaitsOnQueue
      /\ DoomedTabsAreUnreachable
      /\ OnlyHoldersHavePages
  BY <1>1, <1>2 DEF Init, PoolAccountsForTabs, NeverWaitsOnQueue,
     DoomedTabsAreUnreachable, OnlyHoldersHavePages
<1>6. LeasesAreCounted /\ RoomForEveryLease
  BY <1>3, LimitsAssumption DEF Init, LeasesAreCounted, RoomForEveryLease
<1>7. QED
  BY <1>4, <1>5, <1>6 DEF PoolInv

\* The saturated failure count stays in its range.
LEMMA SaturateBounded ==
  ASSUME NEW n \in 0..FailureThreshold
  PROVE  Saturate(n + 1) \in 0..FailureThreshold
  BY LimitsAssumption DEF Saturate

\* Every step of a client inside acquire() preserves the invariant.
LEMMA ClientStepPoolInv ==
  ASSUME NEW c \in Clients, PoolInv, ClientStep(c)
  PROVE  PoolInv'
<1>1. TypeOK
  BY DEF PoolInv
<1>2. CASE OpenTabFails(c)
  <2>1. /\ closing' = closing /\ context' = context
        /\ tabs' \in SUBSET Pages /\ alive' \in SUBSET tabs'
    BY <1>1, <1>2 DEF OpenTabFails, TabMayOpenLate, FreshPages, TypeOK
  <2>2. /\ circuit_state' \in {"closed", "open", "half_open"}
        /\ failure_count' \in 0..FailureThreshold
        /\ cooled' \in BOOLEAN
        /\ browser_available' \in BOOLEAN
        /\ context' \in {"up", "wedged", "gone"}
    <3>1. FailureThreshold \in 0..FailureThreshold
      BY LimitsAssumption
    <3>2. QED
      BY <1>1, <1>2, <2>1, <3>1 DEF OpenTabFails, TypeOK
  <2>3. Finish(c) /\ pc[c] \in LeaseStates
    BY <1>2 DEF OpenTabFails, LeaseStates
  <2>4. QED
    BY <2>1, <2>2, <2>3, FinishStep
<1>3. CASE OpenTabCancelled(c)
  <2>1. /\ closing' = closing /\ context' = context
        /\ tabs' \in SUBSET Pages /\ alive' \in SUBSET tabs'
    BY <1>1, <1>3 DEF OpenTabCancelled, TabMayOpenLate, FreshPages, TypeOK
  <2>2. QED
    BY <1>1, <1>3, <2>1, FinishStep
       DEF OpenTabCancelled, TypeOK, LeaseStates, circuitVars
<1>4. CASE BodySucceeds(c)
  BY <1>1, <1>4, FinishStep, LimitsAssumption
     DEF BodySucceeds, TypeOK, LeaseStates, chromeVars
<1>5. CASE BodyRaises(c)
  <2>1. /\ circuit_state' \in {"closed", "open", "half_open"}
        /\ failure_count' \in 0..FailureThreshold
        /\ cooled' \in BOOLEAN
    <3>1. failure_count' \in 0..FailureThreshold
      BY <1>1, <1>5, SaturateBounded DEF BodyRaises, TypeOK
    <3>2. QED
      BY <1>1, <1>5, <3>1 DEF BodyRaises, TypeOK
  <2>2. /\ Finish(c)
        /\ pc[c] \in LeaseStates
        /\ UNCHANGED <<browser_available, closing, tabs, alive, context>>
    BY <1>5 DEF BodyRaises, LeaseStates, chromeVars
  <2>3. QED
    BY <1>1, <2>1, <2>2, FinishStep DEF TypeOK
<1>6. CASE BodyAborts(c)
  BY <1>1, <1>6, FinishStep
     DEF BodyAborts, TypeOK, LeaseStates, HolderStates, circuitVars, chromeVars
<1>7. QED
  BY <1>2, <1>3, <1>4, <1>5, <1>6, CheckoutTimesOutStep, CheckoutKeepsPool,
     OpenTabStep, TabAnswersStep, TabDoesNotAnswerStep
     DEF ClientStep, BoundedStep

\* The invariant is inductive.
LEMMA NextPoolInv == PoolInv /\ [Next]_vars => PoolInv'
<1> SUFFICES ASSUME PoolInv, [Next]_vars PROVE PoolInv'
  OBVIOUS
<1>1. TypeOK
  BY DEF PoolInv
<1>2. ASSUME NEW c \in Clients, Admit(c) PROVE PoolInv'
  BY <1>2, AdmitStep
<1>3. ASSUME NEW c \in Clients, ClientStep(c) PROVE PoolInv'
  BY <1>3, ClientStepPoolInv
<1>4. CASE ReapIdlePages
  BY <1>4, ReapStep
<1>5. CASE CloseDoomed
  BY <1>1, <1>5, OutsideStep
     DEF CloseDoomed, TypeOK, poolVars, circuitVars, clientVars
<1>6. CASE CooldownElapses
  BY <1>1, <1>6, OutsideStep
     DEF CooldownElapses, TypeOK, poolVars, clientVars, chromeVars
<1>7. CASE TabHangs
  BY <1>1, <1>7, OutsideStep
     DEF TabHangs, TypeOK, poolVars, circuitVars, clientVars
<1>8. CASE TabRecovers
  BY <1>1, <1>8, OutsideStep
     DEF TabRecovers, TypeOK, poolVars, circuitVars, clientVars
<1>9. CASE TabCloses
  BY <1>1, <1>9, OutsideStep
     DEF TabCloses, TypeOK, poolVars, circuitVars, clientVars
<1>10. CASE ContextWedges
  BY <1>1, <1>10, OutsideStep
     DEF ContextWedges, TypeOK, poolVars, circuitVars, clientVars
<1>11. CASE ContextDies
  BY <1>1, <1>11, OutsideStep
     DEF ContextDies, TypeOK, poolVars, circuitVars, clientVars
<1>12. CASE UNCHANGED vars
  BY <1>1, <1>12, OutsideStep
     DEF vars, TypeOK, poolVars, circuitVars, clientVars, chromeVars
<1>13. CASE ResetCircuit
  BY <1>1, <1>13, OutsideStep, LimitsAssumption
     DEF ResetCircuit, TypeOK, poolVars, clientVars, chromeVars
<1>14. QED
  BY <1>2, <1>3, <1>4, <1>5, <1>6, <1>7, <1>8, <1>9, <1>10, <1>11, <1>12, <1>13
     DEF Next, PoolStep, ChromeStep

\* The inductive invariant of the pool.
THEOREM PoolInvariant == Spec => []PoolInv
  BY InitPoolInv, NextPoolInv, PTL DEF Spec

\* Every variable of the pool keeps its type.
THEOREM TypeCorrect == Spec => []TypeOK
<1>1. PoolInv => TypeOK
  BY DEF PoolInv
<1>2. QED
  BY <1>1, PoolInvariant, PTL

\* Every tab of the pool is idle or held by exactly one client, in acquire(),
\* _recover_page() and reap_idle_pages() alike.
THEOREM TabsAccountedFor == Spec => []PoolAccountsForTabs
<1>1. PoolInv => PoolAccountsForTabs
  BY DEF PoolInv
<1>2. QED
  BY <1>1, PoolInvariant, PTL

\* The pool never exceeds _max_pages, however many clients pass the size test
\* of acquire() at once.
THEOREM TabLimitHolds == Spec => []TabLimit
<1>1. PoolInv => TabLimit
  BY PagesBounded DEF TabLimit
<1>2. QED
  BY <1>1, PoolInvariant, PTL

\* The wait on the queue in acquire() is unreachable.
THEOREM QueueWaitUnreachable == Spec => []NeverWaitsOnQueue
<1>1. PoolInv => NeverWaitsOnQueue
  BY DEF PoolInv
<1>2. QED
  BY <1>1, PoolInvariant, PTL

\* outstanding_leases() is exact and no permit is lost.
THEOREM LeaseCountExact == Spec => []LeasesAreCounted
<1>1. PoolInv => LeasesAreCounted
  BY DEF PoolInv
<1>2. QED
  BY <1>1, PoolInvariant, PTL

\* Nobody can be handed a tab that reap_idle_pages() is closing.
THEOREM DoomedUnreachable == Spec => []DoomedTabsAreUnreachable
<1>1. PoolInv => DoomedTabsAreUnreachable
  BY DEF PoolInv
<1>2. QED
  BY <1>1, PoolInvariant, PTL

-----------------------------------------------------------------------------
(* The circuit *)

\* A closed circuit has seen fewer failures than the threshold, however late the leases
\* of before end and whenever the watchdog resets it.
THEOREM ClosedCircuitHealthy == Spec => []ClosedCircuitIsBelowThreshold
<1>1. Init => ClosedCircuitIsBelowThreshold
  BY LimitsAssumption DEF Init, ClosedCircuitIsBelowThreshold
<1>2. TypeOK /\ ClosedCircuitIsBelowThreshold /\ [Next]_vars
        => ClosedCircuitIsBelowThreshold'
  <2> SUFFICES ASSUME TypeOK, ClosedCircuitIsBelowThreshold, [Next]_vars
               PROVE  ClosedCircuitIsBelowThreshold'
    OBVIOUS
  <2>1. CASE UNCHANGED <<circuit_state, failure_count>>
    BY <2>1 DEF ClosedCircuitIsBelowThreshold
  <2>2. ASSUME NEW c \in Clients, Admit(c)
        PROVE  ClosedCircuitIsBelowThreshold'
    BY <2>2 DEF Admit, ClosedCircuitIsBelowThreshold
  <2>3. ASSUME NEW c \in Clients, OpenTabFails(c)
        PROVE  ClosedCircuitIsBelowThreshold'
    BY <2>3 DEF OpenTabFails, ClosedCircuitIsBelowThreshold
  <2>4. ASSUME NEW c \in Clients, BodySucceeds(c)
        PROVE  ClosedCircuitIsBelowThreshold'
    BY <2>4, LimitsAssumption DEF BodySucceeds, ClosedCircuitIsBelowThreshold
  <2>5. ASSUME NEW c \in Clients, BodyRaises(c)
        PROVE  ClosedCircuitIsBelowThreshold'
    BY <2>5, LimitsAssumption
       DEF BodyRaises, Saturate, ClosedCircuitIsBelowThreshold, TypeOK
  <2>6. CASE ResetCircuit
    BY <2>6, LimitsAssumption DEF ResetCircuit, ClosedCircuitIsBelowThreshold
  <2>7. QED
    BY <2>1, <2>2, <2>3, <2>4, <2>5, <2>6
       DEF Next, PoolStep, ChromeStep, ClientStep, BoundedStep, Checkout,
       CheckoutTimesOut, OpenTab, OpenTabCancelled, TabAnswers,
       TabDoesNotAnswer, BodyAborts, ReapIdlePages, CloseDoomed,
       CooldownElapses, TabHangs, TabRecovers, TabCloses, ContextWedges,
       ContextDies, vars, circuitVars
<1>3. QED
  BY <1>1, <1>2, TypeCorrect, PTL DEF Spec

-----------------------------------------------------------------------------
(* The pool implements the abstract lease service *)

\* The limit on tabs follows from the invariant.
LEMMA PoolInvTabLimit == PoolInv => IsFiniteSet(all_pages) /\ TabLimit
  BY PagesBounded DEF TabLimit

\* A finally block gives the tab back, or is invisible when the body never ran.
LEMMA FinishRefines ==
  ASSUME NEW c \in Clients, PoolInv, Finish(c)
  PROVE  [Service!Next]_(Service!leaseVars)
<1>1. TypeOK /\ OnlyHoldersHavePages
  BY DEF PoolInv
<1>2. all_pages' = all_pages
  BY DEF Finish
<1>3. LeaseView' = [LeaseView EXCEPT ![c] = NoPage]
  BY <1>1 DEF LeaseView, Finish, TypeOK
<1>4. CASE pc[c] = "using"
  <2>1. LeaseView[c] # NoPage
    BY <1>1, <1>4 DEF LeaseView, OnlyHoldersHavePages, Holders, HolderStates
  <2>2. Service!GiveBack(c)
    BY <1>2, <1>3, <2>1 DEF Service!GiveBack
  <2>3. QED
    BY <2>2 DEF Service!Next
<1>5. CASE pc[c] # "using"
  <2>1. LeaseView' = LeaseView
    BY <1>3, <1>5 DEF LeaseView
  <2>2. QED
    BY <1>2, <2>1 DEF Service!leaseVars
<1>6. QED
  BY <1>4, <1>5

\* A tab opened joins the service's pool, and is lent at once on recovery.
LEMMA OpenTabRefines ==
  ASSUME NEW c \in Clients, PoolInv, PoolInv', OpenTab(c)
  PROVE  Service!Next
<1>1. TypeOK
  BY DEF PoolInv
<1>2. PICK p \in FreshPages : /\ all_pages' = all_pages \cup {p}
                              /\ page' = [page EXCEPT ![c] = p]
  BY DEF OpenTab
<1>3. p \in Pages \ all_pages
  BY DEF FreshPages
<1>4. Cardinality(all_pages) < MaxPages
  <2>1. IsFiniteSet(all_pages)
    BY PoolInvTabLimit
  <2>2. Cardinality(all_pages') <= MaxPages
    <3>1. PoolInv' => TabLimit'
      BY PoolInvTabLimit, PTL
    <3>2. QED
      BY <3>1 DEF TabLimit
  <2>3. /\ Cardinality(all_pages') = Cardinality(all_pages) + 1
        /\ Cardinality(all_pages) \in Nat
    BY <1>2, <1>3, <2>1, FS_AddElement, FS_CardinalityType
  <2>4. QED
    BY <2>2, <2>3, LimitsAssumption
<1>5. LeaseView[c] = NoPage
  BY DEF OpenTab, LeaseView
<1>6. Service!Cardinality(all_pages) = Cardinality(all_pages)
  BY DEF Service!Cardinality, Cardinality
<1>7. CASE pc[c] = "creating"
  <2>1. LeaseView' = LeaseView
    BY <1>1, <1>2, <1>7 DEF OpenTab, LeaseView, TypeOK
  <2>2. Service!Open
    BY <1>2, <1>3, <1>4, <1>6, <2>1 DEF Service!Open
  <2>3. QED
    BY <2>2 DEF Service!Next
<1>8. CASE pc[c] = "recovering"
  <2>1. LeaseView' = [LeaseView EXCEPT ![c] = p]
    BY <1>1, <1>2, <1>8 DEF OpenTab, LeaseView, TypeOK
  <2>2. Service!OpenFor(c)
    BY <1>2, <1>3, <1>4, <1>5, <1>6, <2>1 DEF Service!OpenFor
  <2>3. QED
    BY <2>2 DEF Service!Next
<1>9. QED
  BY <1>7, <1>8 DEF OpenTab

\* Passing the liveness check is the moment the service lends the tab.
LEMMA TabAnswersRefines ==
  ASSUME NEW c \in Clients, PoolInv, TabAnswers(c)
  PROVE  Service!Next
<1>1. TypeOK /\ PoolAccountsForTabs /\ OnlyHoldersHavePages
  BY DEF PoolInv
<1>2. c \in Holders /\ LeaseView[c] = NoPage
  BY DEF TabAnswers, Holders, HolderStates, LeaseView
<1>3. page[c] \in all_pages
  BY <1>1, <1>2 DEF PoolAccountsForTabs, Held
<1>4. page[c] \notin Service!Lent
  <2> SUFFICES ASSUME NEW d \in Clients, LeaseView[d] = page[c], page[c] # NoPage
               PROVE  FALSE
    BY DEF Service!Lent
  <2>1. d \in Holders /\ page[d] = page[c] /\ pc[d] = "using"
    BY DEF LeaseView, Holders, HolderStates
  <2>2. QED
    BY <1>1, <1>2, <2>1 DEF PoolAccountsForTabs, TabAnswers
<1>5. LeaseView' = [LeaseView EXCEPT ![c] = page[c]]
  BY <1>1 DEF TabAnswers, LeaseView, TypeOK
<1>6. all_pages' = all_pages
  BY DEF TabAnswers, poolVars
<1>7. Service!Lend(c)
  BY <1>2, <1>3, <1>4, <1>5, <1>6 DEF Service!Lend
<1>8. QED
  BY <1>7 DEF Service!Next

\* A dead tab is discarded by the service, which had not lent it.
LEMMA TabDoesNotAnswerRefines ==
  ASSUME NEW c \in Clients, PoolInv, TabDoesNotAnswer(c)
  PROVE  Service!Next
<1>1. TypeOK /\ PoolAccountsForTabs
  BY DEF PoolInv
<1>2. c \in Holders
  BY DEF TabDoesNotAnswer, Holders, HolderStates
<1>3. page[c] \in all_pages
  BY <1>1, <1>2 DEF PoolAccountsForTabs, Held
<1>4. page[c] \notin Service!Lent
  <2> SUFFICES ASSUME NEW d \in Clients, LeaseView[d] = page[c], page[c] # NoPage
               PROVE  FALSE
    BY DEF Service!Lent
  <2>1. d \in Holders /\ page[d] = page[c] /\ pc[d] = "using"
    BY DEF LeaseView, Holders, HolderStates
  <2>2. QED
    BY <1>1, <1>2, <2>1 DEF PoolAccountsForTabs, TabDoesNotAnswer
<1>5. LeaseView' = LeaseView
  BY <1>1 DEF TabDoesNotAnswer, LeaseView, TypeOK
<1>6. all_pages' = all_pages \ {page[c]}
  BY DEF TabDoesNotAnswer
<1>7. Service!Discard
  BY <1>3, <1>4, <1>5, <1>6 DEF Service!Discard
<1>8. QED
  BY <1>7 DEF Service!Next

\* Reaping discards tabs the service had not lent.
LEMMA ReapRefines ==
  ASSUME PoolInv, ReapIdlePages
  PROVE  Service!Next
<1>1. TypeOK /\ PoolAccountsForTabs
  BY DEF PoolInv
<1>2. PICK doomed \in SUBSET available : all_pages' = all_pages \ doomed
  BY DEF ReapIdlePages
<1>3. doomed \in SUBSET (all_pages \ Service!Lent)
  <2> SUFFICES ASSUME NEW p \in doomed, NEW d \in Clients,
                      LeaseView[d] = p, p # NoPage
               PROVE  FALSE
    BY <1>1 DEF Service!Lent, PoolAccountsForTabs
  <2>1. d \in Holders /\ page[d] = p
    BY DEF LeaseView, Holders, HolderStates
  <2>2. QED
    BY <1>1, <2>1 DEF PoolAccountsForTabs, Held
<1>4. LeaseView' = LeaseView
  BY DEF ReapIdlePages, LeaseView, clientVars
<1>5. Service!Discard
  BY <1>2, <1>3, <1>4 DEF Service!Discard
<1>6. QED
  BY <1>5 DEF Service!Next

\* The pool starts as the service does.
LEMMA InitRefines == Init => Service!Init
<1> SUFFICES ASSUME Init PROVE Service!Init
  OBVIOUS
<1>1. LeaseView = [c \in Clients |-> NoPage]
  BY DEF Init, LeaseView
<1>2. \E first \in Pages : all_pages = {first}
  BY DEF Init
<1>3. QED
  BY <1>1, <1>2 DEF Service!Init

\* Steps before the liveness check, and steps of Chrome and of the clock, are
\* invisible in the lease service.
LEMMA InvisibleStep ==
  ASSUME all_pages' = all_pages, LeaseView' = LeaseView
  PROVE  UNCHANGED Service!leaseVars
  BY DEF Service!leaseVars

\* Every step of the pool is a step of the service or invisible in it.
LEMMA NextRefines ==
  PoolInv /\ PoolInv' /\ [Next]_vars => [Service!Next]_(Service!leaseVars)
<1> SUFFICES ASSUME PoolInv, PoolInv', [Next]_vars
             PROVE  [Service!Next]_(Service!leaseVars)
  OBVIOUS
<1>1. TypeOK
  BY DEF PoolInv
<1>2. ASSUME NEW c \in Clients, Admit(c) \/ CheckoutTimesOut(c) \/ Checkout(c)
      PROVE  UNCHANGED Service!leaseVars
  <2>1. all_pages' = all_pages
    BY <1>2 DEF Admit, CheckoutTimesOut, Checkout, poolVars
  <2>2. /\ pc[c] # "using"
        /\ pc'[c] # "using"
        /\ \A d \in Clients \ {c} : pc'[d] = pc[d] /\ page'[d] = page[d]
    BY <1>1, <1>2 DEF Admit, CheckoutTimesOut, Checkout, TypeOK
  <2>3. LeaseView' = LeaseView
    BY <2>2 DEF LeaseView
  <2>4. QED
    BY <2>1, <2>3, InvisibleStep
<1>3. ASSUME NEW c \in Clients, ClientStep(c)
      PROVE  [Service!Next]_(Service!leaseVars)
  BY <1>2, <1>3, OpenTabRefines, TabAnswersRefines, TabDoesNotAnswerRefines,
     FinishRefines DEF ClientStep, BoundedStep, OpenTabFails, OpenTabCancelled,
     BodySucceeds, BodyRaises, BodyAborts
<1>4. CASE ReapIdlePages
  BY <1>4, ReapRefines
<1>5. CASE CloseDoomed \/ ResetCircuit \/ CooldownElapses \/ ChromeStep \/ UNCHANGED vars
  <2>1. UNCHANGED <<poolVars, clientVars>>
    BY <1>5 DEF CloseDoomed, ResetCircuit, CooldownElapses, ChromeStep, TabHangs, TabRecovers,
       TabCloses, ContextWedges, ContextDies, vars
  <2>2. all_pages' = all_pages /\ LeaseView' = LeaseView
    BY <2>1 DEF LeaseView, poolVars, clientVars
  <2>3. QED
    BY <2>2, InvisibleStep
<1>6. QED
  BY <1>2, <1>3, <1>4, <1>5 DEF Next, PoolStep

\* The page pool implements the lease service of TabLeases.
THEOREM PoolImplementsService == Spec => ImplementsTabLeases
  BY InitRefines, NextRefines, PoolInvariant, PTL
     DEF Spec, ImplementsTabLeases, Service!Spec

-----------------------------------------------------------------------------
(* The pool across idle periods: counting leases *)

\* The pool knows of no tab that is neither idle nor held.  Once it was parked and
\* resumed nothing else that accounts for tabs is left: a lease taken while the tabs
\* were being closed puts a tab of the old context back into the queue.
KnownTabsAreReachable == all_pages \subseteq available \cup Held

\* What is left of PoolInv when tabs and context are replaced under the leases.
LeaseInv ==
  /\ TypeOK
  /\ LeasesAreCounted
  /\ NeverWaitsOnQueue
  /\ KnownTabsAreReachable

\* A client that moves without taking or giving anything.
LEMMA CountUnmoved ==
  ASSUME LeaseInv, TypeOK', UNCHANGED <<permits, outstanding, page>>,
         UNCHANGED <<available, all_pages>>,
         Leases' = Leases, Holders' = Holders,
         \A c \in Clients : pc'[c] # "queueing"
  PROVE  LeaseInv'
<1>1. Held' = Held
  BY DEF Held
<1> QED
  BY <1>1 DEF LeaseInv, LeasesAreCounted, NeverWaitsOnQueue, KnownTabsAreReachable

LEMMA MoveKeepsCount ==
  ASSUME LeaseInv, NEW c \in Clients, Admit(c) \/ CheckoutTimesOut(c) \/ TabAnswers(c)
  PROVE  LeaseInv'
<1> USE DEF LeaseInv
<1>1. CASE Admit(c)
  <2>1. TypeOK'
    BY <1>1 DEF TypeOK, Admit, ClientStates, poolVars, chromeVars
  <2>2. Leases' = Leases /\ Holders' = Holders /\ \A d \in Clients : pc'[d] # "queueing"
    BY <1>1 DEF TypeOK, Admit, Leases, Holders, LeaseStates, HolderStates, NeverWaitsOnQueue
  <2> QED
    BY <1>1, <2>1, <2>2, CountUnmoved DEF Admit, poolVars
<1>2. CASE CheckoutTimesOut(c)
  <2>1. TypeOK'
    BY <1>2 DEF TypeOK, CheckoutTimesOut, ClientStates, poolVars, circuitVars, chromeVars
  <2>2. Leases' = Leases /\ Holders' = Holders /\ \A d \in Clients : pc'[d] # "queueing"
    BY <1>2 DEF TypeOK, CheckoutTimesOut, Leases, Holders, LeaseStates, HolderStates,
                NeverWaitsOnQueue
  <2> QED
    BY <1>2, <2>1, <2>2, CountUnmoved DEF CheckoutTimesOut, poolVars
<1>3. CASE TabAnswers(c)
  <2>1. TypeOK'
    BY <1>3 DEF TypeOK, TabAnswers, ClientStates, LeaseStates, poolVars, circuitVars,
                chromeVars
  <2>2. Leases' = Leases /\ Holders' = Holders /\ \A d \in Clients : pc'[d] # "queueing"
    BY <1>3 DEF TypeOK, TabAnswers, Leases, Holders, LeaseStates, HolderStates,
                NeverWaitsOnQueue
  <2> QED
    BY <1>3, <2>1, <2>2, CountUnmoved DEF TabAnswers, poolVars
<1> QED
  BY <1>1, <1>2, <1>3

\* With no idle tab, every tab the pool knows of is held, and one client at least
\* holds none: the one that has just got the permit.
LEMMA CheckoutKeepsCount ==
  ASSUME LeaseInv, NEW c \in Clients, Checkout(c)
  PROVE  LeaseInv'
<1> USE DEF LeaseInv
<1>1. PICK s \in LeaseStates : /\ pc' = [pc EXCEPT ![c] = s]
                               /\ available = {} <=> s # "checking"
                               /\ s \in {"checking", "creating", "queueing"}
                               /\ s = "queueing" => ~(Cardinality(all_pages) < MaxPages)
  BY DEF Checkout, LeaseStates
<1>2. s # "queueing"
  <2>1. outstanding < MaxPages
    BY LimitsAssumption DEF Checkout, LeasesAreCounted, TypeOK
  <2>2. ASSUME available = {}  PROVE Cardinality(all_pages) < MaxPages
    <3>1. all_pages \in SUBSET Held
      BY <2>2 DEF KnownTabsAreReachable
    <3>2. Cardinality(all_pages) \in Nat /\ Cardinality(all_pages) <= Cardinality(Held)
      BY <3>1, HeldBounded, FS_Subset, FS_CardinalityType
    <3> QED
      BY <2>1, <3>2, HeldBounded, LeasesFinite, LimitsAssumption DEF LeasesAreCounted
  <2> QED
    BY <1>1, <2>2
<1>3. Cardinality(Leases') = Cardinality(Leases) + 1
  BY <1>1, LeaseTaken DEF Checkout, LeaseStates
<1>4. TypeOK'
  BY <1>1, LimitsAssumption, LeasesFinite
     DEF Checkout, TypeOK, ClientStates, LeasesAreCounted, circuitVars, chromeVars
<1>5. NeverWaitsOnQueue'
  BY <1>1, <1>2 DEF NeverWaitsOnQueue, TypeOK
<1>6. LeasesAreCounted'
  BY <1>3, LeasesFinite, LimitsAssumption DEF Checkout, LeasesAreCounted, TypeOK
<1>7. KnownTabsAreReachable'
  <2>1. all_pages' = all_pages
    BY DEF Checkout
  <2>2. CASE available = {}
    <3>1. s = "creating" /\ page' = page
      BY <1>1, <1>2, <2>2 DEF Checkout
    <3>2. Holders' = Holders
      BY <1>1, <3>1 DEF Holders, HolderStates, TypeOK, Checkout
    <3>3. Held' = Held
      BY <3>1, <3>2 DEF Held
    <3> QED
      BY <2>1, <2>2, <3>3 DEF KnownTabsAreReachable, Checkout
  <2>3. CASE available # {}
    <3>1. PICK p \in available : /\ available' = available \ {p}
                                 /\ page' = [page EXCEPT ![c] = p]
      BY <2>3 DEF Checkout
    <3>2. Holders' = Holders \cup {c} /\ c \notin Holders
      BY <1>1, <2>3 DEF Holders, HolderStates, TypeOK, Checkout
    <3>3. Held' = Held \cup {p}
      BY <3>1, <3>2 DEF Held, TypeOK, Holders
    <3> QED
      BY <2>1, <3>1, <3>3 DEF KnownTabsAreReachable
  <2> QED
    BY <2>2, <2>3
<1> QED
  BY <1>4, <1>5, <1>6, <1>7

LEMMA OpenTabKeepsCount ==
  ASSUME LeaseInv, NEW c \in Clients, OpenTab(c)
  PROVE  LeaseInv'
<1> USE DEF LeaseInv
<1>1. PICK p \in FreshPages : /\ tabs' = tabs \cup {p}
                              /\ alive' = alive \cup {p}
                              /\ all_pages' = all_pages \cup {p}
                              /\ page' = [page EXCEPT ![c] = p]
  BY DEF OpenTab
<1>2. PICK s \in HolderStates : pc' = [pc EXCEPT ![c] = s]
  BY DEF OpenTab, HolderStates
<1>3. c \notin Holders /\ Holders' = Holders \cup {c}
  BY <1>2 DEF OpenTab, Holders, HolderStates, TypeOK
<1>4. Leases' = Leases
  BY <1>2 DEF OpenTab, Leases, LeaseStates, HolderStates, TypeOK
<1>5. Held' = Held \cup {p}
  BY <1>1, <1>3 DEF Held, TypeOK, Holders
<1>6. p \in Pages
  BY DEF FreshPages
<1>7. UNCHANGED <<permits, outstanding, available, closing>>
  BY DEF OpenTab
<1>8. TypeOK'
  BY <1>1, <1>2, <1>6, <1>7
     DEF OpenTab, TypeOK, ClientStates, LeaseStates, HolderStates, circuitVars
<1>9. NeverWaitsOnQueue'
  BY <1>2 DEF NeverWaitsOnQueue, HolderStates, TypeOK
<1>10. LeasesAreCounted' /\ KnownTabsAreReachable'
  BY <1>1, <1>4, <1>5, <1>7 DEF LeasesAreCounted, KnownTabsAreReachable
<1> QED
  BY <1>8, <1>9, <1>10

LEMMA TabDoesNotAnswerKeepsCount ==
  ASSUME LeaseInv, NEW c \in Clients, TabDoesNotAnswer(c)
  PROVE  LeaseInv'
<1> USE DEF LeaseInv
<1>1. c \in Holders /\ Holders' = Holders \ {c}
  BY DEF TabDoesNotAnswer, Holders, HolderStates, TypeOK
<1>2. Leases' = Leases
  BY DEF TabDoesNotAnswer, Leases, LeaseStates, TypeOK
<1>3. /\ all_pages' = all_pages \ {page[c]}
      /\ page' = [page EXCEPT ![c] = NoPage]
      /\ UNCHANGED <<permits, outstanding, available>>
  BY DEF TabDoesNotAnswer
<1>4. Held \ {page[c]} \subseteq Held'
  BY <1>1, <1>3 DEF Held, Holders, TypeOK
<1>5. TypeOK'
  BY <1>3 DEF TabDoesNotAnswer, TypeOK, ClientStates, LeaseStates, circuitVars,
              chromeVars
<1>6. NeverWaitsOnQueue'
  BY DEF TabDoesNotAnswer, NeverWaitsOnQueue, TypeOK
<1>7. LeasesAreCounted' /\ KnownTabsAreReachable'
  BY <1>2, <1>3, <1>4 DEF LeasesAreCounted, KnownTabsAreReachable
<1> QED
  BY <1>5, <1>6, <1>7

\* The finally block gives the permit back, and the tab, known or not.
LEMMA FinishKeepsCount ==
  ASSUME LeaseInv, NEW c \in Clients, Finish(c), pc[c] \in LeaseStates,
         closing' = closing,
         circuit_state' \in {"closed", "open", "half_open"},
         failure_count' \in 0..FailureThreshold,
         cooled' \in BOOLEAN, browser_available' \in BOOLEAN,
         tabs' \in SUBSET Pages, alive' \in SUBSET tabs',
         context' \in {"up", "wedged", "gone"}
  PROVE  LeaseInv'
<1> USE DEF LeaseInv
<1>1. Cardinality(Leases') = Cardinality(Leases) - 1
  BY LeaseEnded DEF Finish
<1>2. Cardinality(Leases') \in Nat /\ Cardinality(Leases) \in Nat
  <2>1. Leases' \in SUBSET Clients
    BY DEF Leases
  <2> QED
    BY <2>1, LeasesFinite, ClientsAssumption, FS_Subset, FS_CardinalityType
<1>3. LeasesAreCounted'
  BY <1>1, <1>2, LimitsAssumption DEF LeasesAreCounted, Finish, TypeOK
<1>4. TypeOK'
  <2>1. permits' \in 0..MaxPages /\ outstanding' \in 0..MaxPages
    BY <1>1, <1>2, <1>3, LimitsAssumption DEF LeasesAreCounted, Finish, TypeOK
  <2>2. /\ available' \in SUBSET Pages /\ all_pages' \in SUBSET Pages
        /\ pc' \in [Clients -> ClientStates]
        /\ page' \in [Clients -> Pages \cup {NoPage}]
    BY DEF Finish, TypeOK, ClientStates
  <2> QED
    BY <2>1, <2>2 DEF TypeOK
<1>5. NeverWaitsOnQueue'
  BY DEF Finish, NeverWaitsOnQueue, TypeOK
<1>6. KnownTabsAreReachable'
  <2>1. Holders' = Holders \ {c}
    BY DEF Finish, Holders, HolderStates, TypeOK
  <2>2. \A p \in Held : p \in Held' \/ p = page[c]
    BY <2>1 DEF Held, Holders, Finish, TypeOK
  <2>3. page[c] = NoPage \/ page[c] \in available'
    BY DEF Finish
  <2>4. available \subseteq available' /\ all_pages' = all_pages /\ NoPage \notin all_pages
    BY NoPageAssumption DEF Finish, TypeOK
  <2> QED
    BY <2>2, <2>3, <2>4 DEF KnownTabsAreReachable
<1> QED
  BY <1>3, <1>4, <1>5, <1>6

-----------------------------------------------------------------------------
(* The pool across idle periods: suspension and resumption *)

IdleTypes ==
  /\ lock \in Workers \cup {NoOne, Reaper}
  /\ suspended \in BOOLEAN /\ parked \in BOOLEAN
  /\ reaper \in {"loop", "sweeping", "closing"}
  /\ swept \in SUBSET Pages
  /\ resuming \in [Workers -> {"no", "lock", "launching"}]
  /\ severed \in SUBSET Clients

\* The suspend lock is held by the reaper while it closes the browser, by a worker
\* while it launches one, and by nobody else; a worker that resumes holds no lease.
LockFits ==
  /\ lock = Reaper <=> reaper # "loop"
  /\ \A w \in Workers : lock = w <=> resuming[w] = "launching"
  /\ \A w \in Workers : resuming[w] # "no" => pc[w] = "idle"
  /\ lock \in Workers => suspended

\* A suspended pool has given up its context, and Chrome is gone.
BrowserFits ==
  /\ suspended => parked /\ ~browser_available /\ context = "gone" /\ tabs = {}
  /\ reaper # "loop" => ~suspended /\ ~browser_available
  /\ reaper = "closing" => parked

\* The inductive invariant of the pool with suspension.
SuspendInv == LeaseInv /\ IdleTypes /\ LockFits /\ BrowserFits

LEMMA SuspendTypeParts == SuspendTypeOK <=> TypeOK /\ IdleTypes
  BY DEF SuspendTypeOK, IdleTypes

\* The steps of PagePool, as they are taken while a suspension or a resumption may be
\* under way.
PoolMoves ==
  /\ LeaseInv'
  /\ UNCHANGED <<lock, suspended, parked, reaper, swept, resuming, context>>
  /\ severed' \in SUBSET Clients
  /\ browser_available' => browser_available
  /\ context = "gone" => tabs' \subseteq tabs
  /\ \A w \in Workers : resuming[w] # "no" => pc'[w] = pc[w]

LEMMA PoolMovesKeeps ==
  ASSUME SuspendInv, PoolMoves
  PROVE  SuspendInv'
<1>1. IdleTypes'
  BY DEF SuspendInv, PoolMoves, IdleTypes
<1>2. LockFits'
  BY DEF SuspendInv, PoolMoves, LockFits
<1>3. BrowserFits'
  BY DEF SuspendInv, PoolMoves, BrowserFits
<1> QED
  BY <1>1, <1>2, <1>3 DEF SuspendInv, PoolMoves

\* A step of a checkout, whatever becomes of the client's call on the context.
LEMMA LeaseStepMoves ==
  ASSUME SuspendInv, NEW c \in Clients, LeaseStep(c)
  PROVE  PoolMoves
<1> LeaseInv /\ TypeOK /\ IdleTypes
  BY DEF SuspendInv, LeaseInv
<1>1. \A w \in Workers : resuming[w] # "no" => pc'[w] = pc[w]
  <2>1. \E s \in ClientStates : pc' = [pc EXCEPT ![c] = s]
    BY DEF LeaseStep, CheckoutStep, CheckoutOpens, OpeningEnds, CheckoutTimesOut, TabAnswers,
           BodySucceeds, BodyRaises, BodyAborts, Checkout, TabDoesNotAnswer, OpenTab,
           OpenTabFails, OpenTabCancelled, Finish, ClientStates, LeaseStates
  <2>2. pc[c] # "idle"
    BY DEF LeaseStep, CheckoutStep, CheckoutOpens, OpeningEnds, CheckoutTimesOut, TabAnswers,
           BodySucceeds, BodyRaises, BodyAborts, Checkout, TabDoesNotAnswer, OpenTab,
           OpenTabFails, OpenTabCancelled, HolderStates
  <2> QED
    BY <2>1, <2>2 DEF SuspendInv, LockFits, TypeOK
<1>2. CASE CheckoutStep(c)
  <2>1. UNCHANGED <<lock, suspended, parked, reaper, swept, resuming, severed>>
    BY <1>2 DEF CheckoutStep, idleVars
  <2>2. UNCHANGED <<browser_available, closing, tabs, alive, context>>
    BY <1>2 DEF CheckoutStep, CheckoutTimesOut, TabAnswers, BodySucceeds, BodyRaises,
                BodyAborts, circuitVars, chromeVars
  <2>3. LeaseInv'
    <3>1. CASE CheckoutTimesOut(c) \/ TabAnswers(c)
      BY <3>1, MoveKeepsCount
    <3>2. CASE BodySucceeds(c)
      BY <2>2, <3>2, FinishKeepsCount, LimitsAssumption
         DEF BodySucceeds, TypeOK, LeaseStates
    <3>3. CASE BodyRaises(c)
      <4>1. /\ failure_count' \in 0..FailureThreshold
            /\ circuit_state' \in {"closed", "open", "half_open"}
        BY <3>3, LimitsAssumption DEF BodyRaises, TypeOK, Saturate
      <4>2. cooled' \in BOOLEAN
        <5>1. cooled' = FALSE \/ cooled' = cooled
          BY <3>3, Zenon DEF BodyRaises
        <5> QED
          BY <5>1 DEF TypeOK
      <4> QED
        BY <2>2, <3>3, <4>1, <4>2, FinishKeepsCount DEF BodyRaises, TypeOK, LeaseStates
    <3>4. CASE BodyAborts(c)
      BY <2>2, <3>4, FinishKeepsCount
         DEF BodyAborts, TypeOK, LeaseStates, HolderStates, circuitVars
    <3> QED
      BY <1>2, <3>1, <3>2, <3>3, <3>4 DEF CheckoutStep
  <2> QED
    BY <1>1, <2>1, <2>2, <2>3 DEF PoolMoves, IdleTypes
<1>3. CASE CheckoutOpens(c)
  <2>1. UNCHANGED <<lock, suspended, parked, reaper, swept, resuming>>
        /\ severed' \in SUBSET Clients
    BY <1>3 DEF CheckoutOpens, IdleTypes
  <2>2. UNCHANGED <<browser_available, tabs, context>>
    BY <1>3 DEF CheckoutOpens, Checkout, TabDoesNotAnswer, circuitVars, chromeVars
  <2>3. LeaseInv'
    BY <1>3, CheckoutKeepsCount, TabDoesNotAnswerKeepsCount DEF CheckoutOpens
  <2> QED
    BY <1>1, <2>1, <2>2, <2>3 DEF PoolMoves
<1>4. CASE OpeningEnds(c)
  <2>1. UNCHANGED <<lock, suspended, parked, reaper, swept, resuming>>
        /\ severed' \in SUBSET Clients
    BY <1>4 DEF OpeningEnds, IdleTypes
  <2>2. CASE OpenTab(c)
    <3>1. LeaseInv'
      BY <2>2, OpenTabKeepsCount
    <3> QED
      BY <1>1, <2>1, <2>2, <3>1 DEF PoolMoves, OpenTab, circuitVars
  <2>3. CASE OpenTabFails(c) \/ OpenTabCancelled(c)
    <3>1. /\ tabs' \in SUBSET Pages /\ alive' \in SUBSET tabs'
          /\ UNCHANGED <<closing, context>> /\ (context = "gone" => tabs' \subseteq tabs)
      BY <2>3 DEF OpenTabFails, OpenTabCancelled, TabMayOpenLate, FreshPages, TypeOK
    <3>2. /\ cooled' \in BOOLEAN /\ browser_available' \in BOOLEAN
          /\ browser_available' => browser_available
      <4>1. CASE OpenTabFails(c)
        BY <4>1, Zenon DEF OpenTabFails
      <4>2. CASE OpenTabCancelled(c)
        BY <4>2 DEF OpenTabCancelled, circuitVars, TypeOK
      <4> QED
        BY <2>3, <4>1, <4>2
    <3>3. /\ circuit_state' \in {"closed", "open", "half_open"}
          /\ failure_count' \in 0..FailureThreshold
      BY <2>3, LimitsAssumption DEF OpenTabFails, OpenTabCancelled, circuitVars, TypeOK
    <3>4. context' \in {"up", "wedged", "gone"}
      BY <3>1 DEF TypeOK
    <3>5. Finish(c) /\ pc[c] \in LeaseStates
      BY <2>3 DEF OpenTabFails, OpenTabCancelled, LeaseStates
    <3>6. LeaseInv'
      BY <3>1, <3>2, <3>3, <3>4, <3>5, FinishKeepsCount
    <3> QED
      BY <1>1, <2>1, <3>1, <3>2, <3>6 DEF PoolMoves
  <2> QED
    BY <1>4, <2>2, <2>3 DEF OpeningEnds
<1> QED
  BY <1>2, <1>3, <1>4 DEF LeaseStep

\* Steps that leave leases, permits and the tabs they hold alone.
LEMMA TabsChange ==
  ASSUME LeaseInv, TypeOK', UNCHANGED <<permits, outstanding, page, pc>>,
         all_pages' \subseteq available' \cup Held
  PROVE  LeaseInv'
<1>1. Leases' = Leases /\ Holders' = Holders
  BY DEF Leases, Holders
<1>2. Held' = Held
  BY <1>1 DEF Held
<1> QED
  BY <1>1, <1>2 DEF LeaseInv, LeasesAreCounted, NeverWaitsOnQueue, KnownTabsAreReachable

LEMMA OtherPoolStepMoves ==
  ASSUME SuspendInv,
         \/ \E c \in Clients : AdmitBound(c)
         \/ Reap \/ ReapCloses \/ ((CooldownElapses \/ ResetCircuit) /\ UNCHANGED idleVars) \/ UNCHANGED allVars
  PROVE  PoolMoves
<1> LeaseInv /\ TypeOK /\ IdleTypes
  BY DEF SuspendInv, LeaseInv
<1>1. UNCHANGED <<lock, suspended, parked, reaper, swept, resuming, severed>>
  BY DEF AdmitBound, Reap, ReapCloses, idleVars, allVars
<1>2. severed' \in SUBSET Clients
  BY <1>1 DEF IdleTypes
<1>3. ASSUME NEW c \in Clients, AdmitBound(c)  PROVE PoolMoves
  <2>1. \A w \in Workers : resuming[w] # "no" => pc'[w] = pc[w]
    BY <1>3 DEF AdmitBound, Admit, TypeOK
  <2>2. LeaseInv'
    BY <1>3, MoveKeepsCount DEF AdmitBound
  <2> QED
    BY <1>1, <1>2, <1>3, <2>1, <2>2 DEF PoolMoves, AdmitBound, Admit, chromeVars
<1>4. CASE Reap
  <2>1. PICK doomed \in SUBSET available \ {{}} :
           /\ available' = available \ doomed
           /\ all_pages' = all_pages \ doomed
           /\ closing' = closing \cup doomed
    BY <1>4 DEF Reap, ReapIdlePages
  <2>2. UNCHANGED <<permits, outstanding, circuitVars, clientVars, tabs, alive, context>>
    BY <1>4 DEF Reap, ReapIdlePages
  <2>3. TypeOK'
    BY <2>1, <2>2 DEF TypeOK, circuitVars, clientVars
  <2>4. LeaseInv'
    BY <2>1, <2>2, <2>3, TabsChange DEF clientVars, LeaseInv, KnownTabsAreReachable
  <2> QED
    BY <1>1, <1>2, <2>2, <2>4 DEF PoolMoves, circuitVars, clientVars
<1>5. CASE ReapCloses
  <2>1. TypeOK' /\ tabs' \subseteq tabs
    BY <1>5 DEF ReapCloses, CloseDoomed, TypeOK, poolVars, circuitVars, clientVars
  <2>2. UNCHANGED <<poolVars, circuitVars, clientVars, context>>
    BY <1>5 DEF ReapCloses, CloseDoomed
  <2>3. LeaseInv'
    BY <2>1, <2>2, TabsChange DEF poolVars, clientVars, LeaseInv, KnownTabsAreReachable
  <2> QED
    BY <1>1, <1>2, <2>1, <2>2, <2>3 DEF PoolMoves, circuitVars, clientVars
<1>6. CASE CooldownElapses \/ ResetCircuit \/ UNCHANGED vars
  <2>1. cooled' \in BOOLEAN
    <3>1. cooled' = TRUE \/ cooled' = cooled
      BY <1>6, Zenon DEF CooldownElapses, ResetCircuit, vars, circuitVars
    <3> QED
      BY <3>1 DEF TypeOK
  <2>2. UNCHANGED <<poolVars, browser_available, clientVars, chromeVars>>
    BY <1>6 DEF CooldownElapses, ResetCircuit, vars, circuitVars
  <2>3. /\ circuit_state' \in {"closed", "open", "half_open"}
        /\ failure_count' \in 0..FailureThreshold
    BY <1>6, LimitsAssumption DEF CooldownElapses, ResetCircuit, vars, circuitVars, TypeOK
  <2>4. TypeOK'
    BY <2>1, <2>2, <2>3 DEF TypeOK, poolVars, clientVars, chromeVars
  <2>5. LeaseInv'
    BY <2>2, <2>4, TabsChange DEF poolVars, clientVars, LeaseInv, KnownTabsAreReachable
  <2> QED
    BY <1>1, <1>2, <2>2, <2>5 DEF PoolMoves, clientVars, chromeVars
<1> QED
  BY <1>3, <1>4, <1>5, <1>6 DEF allVars

LEMMA SuspensionKeeps ==
  ASSUME SuspendInv, SuspendBegins \/ SuspendStep
  PROVE  SuspendInv'
<1> LeaseInv /\ TypeOK /\ IdleTypes /\ LockFits /\ BrowserFits
  BY DEF SuspendInv, LeaseInv
<1>1. CASE SuspendBegins
  <2>1. ~browser_available' /\ browser_available' \in BOOLEAN /\ lock' = Reaper
        /\ reaper' = "sweeping" /\ swept' = {} /\ lock = NoOne /\ ~suspended
    BY <1>1, Zenon DEF SuspendBegins
  <2>2. UNCHANGED <<permits, outstanding, available, all_pages, circuit_state, failure_count,
                    cooled, pc, page, closing, tabs, alive, context, suspended, parked,
                    resuming, severed>>
    BY <1>1 DEF SuspendBegins, poolVars, clientVars, chromeVars
  <2>3. TypeOK'
    BY <2>1, <2>2 DEF TypeOK
  <2>4. LeaseInv'
    BY <2>2, <2>3, TabsChange DEF LeaseInv, KnownTabsAreReachable
  <2>5. IdleTypes' /\ LockFits'
    BY <2>1, <2>2, MonitorsAssumption DEF IdleTypes, LockFits, Workers
  <2>6. BrowserFits'
    BY <2>1, <2>2 DEF BrowserFits
  <2> QED
    BY <2>4, <2>5, <2>6 DEF SuspendInv
<1>2. CASE SweepTab
  <2>1. PICK p \in all_pages \ swept : /\ swept' = swept \cup {p}
                                       /\ tabs' = tabs \ {p}
                                       /\ alive' = alive \ {p}
    BY <1>2 DEF SweepTab
  <2>2. UNCHANGED <<permits, outstanding, available, all_pages, circuit_state, failure_count,
                    cooled, browser_available, pc, page, closing, context, lock, suspended,
                    parked, reaper, resuming, severed>>
    BY <1>2 DEF SweepTab, poolVars, circuitVars, clientVars
  <2>3. TypeOK'
    BY <2>1, <2>2 DEF TypeOK
  <2>4. LeaseInv'
    BY <2>2, <2>3, TabsChange DEF LeaseInv, KnownTabsAreReachable
  <2>5. IdleTypes' /\ LockFits'
    BY <2>1, <2>2 DEF IdleTypes, LockFits, TypeOK
  <2>6. BrowserFits'
    BY <2>1, <2>2 DEF BrowserFits
  <2> QED
    BY <2>4, <2>5, <2>6 DEF SuspendInv
<1>3. CASE PoolParks
  <2>1. all_pages' = {} /\ available' = {} /\ reaper' = "closing" /\ reaper = "sweeping"
    BY <1>3 DEF PoolParks
  <2>2. parked' \in BOOLEAN /\ parked'
    BY <1>3, Zenon DEF PoolParks
  <2>3. UNCHANGED <<permits, outstanding, circuit_state, failure_count, cooled,
                    browser_available, pc, page, closing, tabs, alive, context, lock,
                    suspended, swept, resuming, severed>>
    BY <1>3 DEF PoolParks, circuitVars, clientVars, chromeVars
  <2>4. TypeOK'
    BY <2>1, <2>3 DEF TypeOK
  <2>5. LeaseInv'
    BY <2>1, <2>3, <2>4, TabsChange
  <2>6. IdleTypes' /\ LockFits'
    BY <2>1, <2>2, <2>3 DEF IdleTypes, LockFits
  <2>7. BrowserFits'
    BY <2>1, <2>2, <2>3 DEF BrowserFits
  <2> QED
    BY <2>5, <2>6, <2>7 DEF SuspendInv
<1>4. CASE SuspendEnds
  <2>1. /\ reaper = "closing" /\ context' = "gone" /\ tabs' = {} /\ alive' = {}
        /\ lock' = NoOne /\ reaper' = "loop" /\ swept' = {}
        /\ severed' \in SUBSET Clients
    BY <1>4 DEF SuspendEnds, IdleTypes
  <2>2. suspended' \in BOOLEAN
    BY <1>4, Zenon DEF SuspendEnds
  <2>3. UNCHANGED <<permits, outstanding, available, all_pages, circuit_state, failure_count,
                    cooled, browser_available, pc, page, closing, parked, resuming>>
    BY <1>4 DEF SuspendEnds, poolVars, circuitVars, clientVars
  <2>4. TypeOK'
    BY <2>1, <2>3 DEF TypeOK
  <2>5. LeaseInv'
    BY <2>3, <2>4, TabsChange DEF LeaseInv, KnownTabsAreReachable
  <2>6. lock = Reaper
    BY <2>1 DEF LockFits
  <2>7. IdleTypes' /\ LockFits'
    BY <2>1, <2>2, <2>3, <2>6, MonitorsAssumption DEF IdleTypes, LockFits, Workers
  <2>8. BrowserFits'
    BY <2>1, <2>3 DEF BrowserFits
  <2> QED
    BY <2>5, <2>7, <2>8 DEF SuspendInv
<1> QED
  BY <1>1, <1>2, <1>3, <1>4 DEF SuspendStep

\* A worker on its way through _on_resume().
LEMMA ResumptionKeeps ==
  ASSUME SuspendInv, NEW w \in Workers, AcquireParked(w) \/ ResumeStep(w)
  PROVE  SuspendInv'
<1> LeaseInv /\ TypeOK /\ IdleTypes /\ LockFits /\ BrowserFits /\ w \in Clients
  BY DEF SuspendInv, LeaseInv, Workers
<1>0. w # NoOne /\ w # Reaper /\ NoOne # Reaper /\ NoOne \notin Workers /\ Reaper \notin Workers
  BY MonitorsAssumption DEF Workers
<1>1. CASE AcquireParked(w) \/ ResumeBegins(w)
  <2>1. UNCHANGED <<permits, outstanding, available, all_pages, circuit_state, failure_count,
                    cooled, browser_available, pc, page, closing, tabs, alive, context,
                    suspended, parked, reaper, swept, severed>>
    BY <1>1 DEF AcquireParked, ResumeBegins, vars, poolVars, circuitVars, clientVars,
                chromeVars
  <2>2. TypeOK'
    BY <2>1 DEF TypeOK
  <2>3. LeaseInv'
    BY <2>1, <2>2, TabsChange DEF LeaseInv, KnownTabsAreReachable
  <2>4. IdleTypes'
    BY <1>1, <2>1 DEF AcquireParked, ResumeBegins, IdleTypes
  <2>5. LockFits'
    BY <1>0, <1>1, <2>1 DEF AcquireParked, ResumeBegins, IdleTypes, LockFits
  <2>6. BrowserFits'
    BY <2>1 DEF BrowserFits
  <2> QED
    BY <2>3, <2>4, <2>5, <2>6 DEF SuspendInv
<1>2. CASE ResumeFindsWorkDone(w)
  <2>1. /\ UNCHANGED <<lock, suspended, parked, reaper, swept, severed>>
        /\ resuming' = [resuming EXCEPT ![w] = "no"] /\ lock = NoOne /\ ~suspended
    BY <1>2 DEF ResumeFindsWorkDone
  <2>2. LeaseInv' /\ browser_available' = browser_available
        /\ \A v \in Workers \ {w} : pc'[v] = pc[v]
    <3>1. CASE Admit(w)
      <4>1. LeaseInv'
        BY <3>1, MoveKeepsCount
      <4>2. \A v \in Workers \ {w} : pc'[v] = pc[v]
        BY <3>1 DEF Admit, TypeOK, Workers
      <4> QED
        BY <3>1, <4>1, <4>2 DEF Admit
    <3>2. CASE UNCHANGED vars
      <4>1. UNCHANGED <<permits, outstanding, available, all_pages, circuit_state,
                        failure_count, cooled, browser_available, pc, page, closing, tabs,
                        alive, context>>
        BY <3>2 DEF vars, poolVars, circuitVars, clientVars, chromeVars
      <4>2. TypeOK'
        BY <4>1 DEF TypeOK
      <4> QED
        BY <4>1, <4>2, TabsChange DEF LeaseInv, KnownTabsAreReachable
    <3> QED
      BY <1>2, <3>1, <3>2 DEF ResumeFindsWorkDone
  <2>3. IdleTypes'
    BY <2>1 DEF IdleTypes
  <2>4. LockFits'
    BY <1>0, <2>1, <2>2 DEF LockFits, IdleTypes
  <2>5. BrowserFits'
    BY <2>1, <2>2 DEF BrowserFits
  <2> QED
    BY <2>2, <2>3, <2>4, <2>5 DEF SuspendInv
<1>3. CASE ResumeEnds(w)
  <2>1. PICK p \in FreshPages : /\ tabs' = {p} /\ alive' = {p}
                                /\ all_pages' = all_pages \cup {p}
                                /\ available' = available \cup {p}
    BY <1>3 DEF ResumeEnds
  <2>2. /\ context' = "up" /\ lock' = NoOne /\ resuming[w] = "launching"
        /\ resuming' = [resuming EXCEPT ![w] = "no"]
        /\ UNCHANGED <<permits, outstanding, failure_count, cooled, page, closing, reaper,
                       swept, severed>>
    BY <1>3 DEF ResumeEnds
  <2>3. /\ browser_available' \in BOOLEAN /\ suspended' \in BOOLEAN /\ parked' \in BOOLEAN
        /\ ~suspended'
    BY <1>3, Zenon DEF ResumeEnds
  <2>4. lock = w /\ pc[w] = "idle" /\ reaper = "loop"
    BY <1>0, <2>2 DEF LockFits
  <2>5. /\ circuit_state' \in {"closed", "open", "half_open"}
        /\ pc' = pc \/ pc' = [pc EXCEPT ![w] = "waiting"]
    BY <1>3 DEF ResumeEnds, TypeOK
  <2>6. /\ Leases' = Leases /\ Holders' = Holders
        /\ \A c \in Clients : pc'[c] # "queueing"
        /\ pc' \in [Clients -> ClientStates]
        /\ \A v \in Workers \ {w} : pc'[v] = pc[v]
    <3>1. /\ \A c \in Clients : pc'[c] = pc[c] \/ (c = w /\ pc'[c] = "waiting")
          /\ pc' \in [Clients -> ClientStates]
      BY <2>5 DEF TypeOK, ClientStates
    <3>2. Leases' = Leases /\ Holders' = Holders
      BY <2>4, <3>1 DEF Leases, Holders, LeaseStates, HolderStates
    <3>3. \A c \in Clients : pc'[c] # "queueing"
      BY <3>1 DEF LeaseInv, NeverWaitsOnQueue
    <3> QED
      BY <3>1, <3>2, <3>3 DEF Workers
  <2>7. TypeOK'
    BY <2>1, <2>2, <2>3, <2>5, <2>6 DEF TypeOK, FreshPages
  <2>8. LeaseInv'
    <3>1. Held' = Held
      BY <2>2, <2>6 DEF Held
    <3> QED
      BY <2>1, <2>2, <2>6, <2>7, <3>1
         DEF LeaseInv, LeasesAreCounted, NeverWaitsOnQueue, KnownTabsAreReachable
  <2>9. IdleTypes'
    BY <2>2, <2>3 DEF IdleTypes
  <2>10. LockFits'
    BY <1>0, <2>2, <2>4, <2>6 DEF LockFits, IdleTypes
  <2>11. BrowserFits'
    BY <2>2, <2>3, <2>4 DEF BrowserFits
  <2> QED
    BY <2>8, <2>9, <2>10, <2>11 DEF SuspendInv
<1>4. CASE ResumeFails(w)
  <2>1. /\ lock' = NoOne /\ resuming[w] = "launching"
        /\ resuming' = [resuming EXCEPT ![w] = "no"]
        /\ UNCHANGED <<permits, outstanding, available, all_pages, circuit_state,
                       failure_count, cooled, pc, page, closing, tabs, alive, context,
                       parked, reaper, swept, severed>>
    BY <1>4 DEF ResumeFails, poolVars, clientVars, chromeVars
  <2>2. browser_available' \in BOOLEAN /\ suspended' \in BOOLEAN /\ ~suspended'
    BY <1>4, Zenon DEF ResumeFails
  <2>3. lock = w /\ reaper = "loop"
    BY <1>0, <2>1 DEF LockFits
  <2>4. TypeOK'
    BY <2>1, <2>2 DEF TypeOK
  <2>5. LeaseInv'
    BY <2>1, <2>4, TabsChange DEF LeaseInv, KnownTabsAreReachable
  <2>6. IdleTypes'
    BY <2>1, <2>2 DEF IdleTypes
  <2>7. LockFits'
    BY <1>0, <2>1, <2>3 DEF LockFits, IdleTypes
  <2>8. BrowserFits'
    BY <2>1, <2>2, <2>3 DEF BrowserFits
  <2> QED
    BY <2>5, <2>6, <2>7, <2>8 DEF SuspendInv
<1> QED
  BY <1>1, <1>2, <1>3, <1>4 DEF ResumeStep

LEMMA InitSuspend == SuspendInit => SuspendInv
<1> SUFFICES ASSUME SuspendInit PROVE SuspendInv
  OBVIOUS
<1>1. PoolInv
  BY InitPoolInv DEF SuspendInit
<1>2. LeaseInv
  BY <1>1 DEF PoolInv, LeaseInv, PoolAccountsForTabs, KnownTabsAreReachable
<1>3. ~suspended /\ suspended \in BOOLEAN /\ parked \in BOOLEAN
  BY Zenon DEF SuspendInit
<1>4. IdleTypes /\ LockFits /\ BrowserFits
  BY <1>3, MonitorsAssumption DEF SuspendInit, IdleTypes, LockFits, BrowserFits, Workers
<1> QED
  BY <1>2, <1>4 DEF SuspendInv

\* Leases and permits stay counted while tabs and context are replaced under them, and
\* the suspend lock keeps closing and launching apart.
THEOREM SuspendInvariant == SuspendSpec => []SuspendInv
<1>1. SuspendInv /\ [SuspendNext]_allVars => SuspendInv'
  BY OtherPoolStepMoves, LeaseStepMoves, PoolMovesKeeps, SuspensionKeeps, ResumptionKeeps
     DEF SuspendNext
<1> QED
  BY InitSuspend, <1>1, PTL DEF SuspendSpec

\* The type invariant of the pool with suspension.
THEOREM SuspendTypesHold == SuspendSpec => []SuspendTypeOK
<1>1. SuspendInv => SuspendTypeOK
  BY SuspendTypeParts DEF SuspendInv, LeaseInv
<1> QED
  BY <1>1, SuspendInvariant, PTL

\* outstanding_leases(), on which the reaper decides to suspend, stays exact, and no
\* permit is lost, when a lease outlives the context it was taken on.
THEOREM SuspendedLeasesCounted == SuspendSpec => []LeasesAreCounted
<1>1. SuspendInv => LeasesAreCounted
  BY DEF SuspendInv, LeaseInv
<1> QED
  BY <1>1, SuspendInvariant, PTL

\* The wait on the queue stays unreachable, although tabs that the pool no longer knows
\* of come back to it.
THEOREM ResumedQueueUnreachable == SuspendSpec => []NeverWaitsOnQueue
<1>1. SuspendInv => NeverWaitsOnQueue
  BY DEF SuspendInv, LeaseInv
<1> QED
  BY <1>1, SuspendInvariant, PTL

\* _suspend() and _resume() never have two browsers on the profile, whichever workers
\* resume at once and whoever holds a lease meanwhile.
THEOREM LaunchesDoNotOverlap == SuspendSpec => []OneLaunchAtATime
<1>1. SuspendInv => OneLaunchAtATime
  BY MonitorsAssumption
     DEF SuspendInv, IdleTypes, LockFits, BrowserFits, OneLaunchAtATime, Workers
<1> QED
  BY <1>1, SuspendInvariant, PTL

=============================================================================
