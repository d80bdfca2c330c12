--------------------------- MODULE ClientListProofs ---------------------------
(***************************************************************************)
(* The promises of the client list hold for every number of addresses,     *)
(* hosts and clients, whatever calls the threads make.                     *)
(***************************************************************************)
EXTENDS ClientList, FiniteSetTheorems, WellFoundedInduction, TLAPS

(* The bytes of an entry on the list are those of some host. *)
EntriesHavePeer == \A n \in clients : PeerOf(n) \in Peer

(* What holds of the list in every life of the daemon, also after an         *)
(* unlocked flush.  The end of the list and its length need a finite list.   *)
ListCore ==
    /\ ListTypeOK
    /\ EntriesHavePeer
    /\ IsFiniteSet(clients)
    /\ UniquePeer

(* The inductive invariant of the list while no state file is imported. *)
ListInv == ListCore /\ UniqueId /\ CountMatches

(* Every non-empty set of natural numbers has a least element. *)
LEMMA LeastNat ==
    ASSUME NEW T \in SUBSET Nat, T # {}
    PROVE  \E x \in T : \A y \in T : x <= y
<1>1. \E x \in T : \A y \in T : ~(<<y, x>> \in OpToRel(<, Nat))
  BY NatLessThanWellFounded, WFMin
<1>2. PICK x \in T : \A y \in T : ~(<<y, x>> \in OpToRel(<, Nat))
  BY <1>1
<1>3. \A y \in T : ~(y < x)
  BY <1>2 DEF OpToRel
<1>4. QED
  BY <1>3

(* A sequence of natural numbers has a greatest one. *)
LEMMA GreatestOfSequence ==
    ASSUME NEW n \in Nat \ {0}, NEW h \in [1..n -> Nat]
    PROVE  \E i \in 1..n : \A j \in 1..n : h[j] <= h[i]
<1> DEFINE Top(k) == \E i \in 1..k : \A j \in 1..k : h[j] <= h[i]
           K == {k \in 1..n : ~Top(k)}
<1>1. ASSUME K # {} PROVE FALSE
  <2>1. K \in SUBSET Nat
    OBVIOUS
  <2>2. PICK k \in K : \A j \in K : k <= j
    <3> HIDE DEF K
    <3>1. QED
      BY <1>1, <2>1, LeastNat
  <2>3. k \in 1..n /\ k \in Nat /\ ~Top(k)
    BY <2>2
  <2>4. \A j \in 1..k : h[j] \in Nat
    BY <2>3
  <2>5. k # 1
    <3>1. ASSUME k = 1 PROVE Top(k)
      <4>1. 1 \in 1..k /\ \A j \in 1..k : j = 1
        BY <3>1
      <4>2. h[1] <= h[1]
        BY <2>4, <4>1
      <4>3. QED
        BY <4>1, <4>2
    <3>2. QED
      BY <2>3, <3>1
  <2>6. Top(k - 1)
    <3>1. k - 1 \in 1..n /\ ~(k <= k - 1)
      BY <2>3, <2>5
    <3>2. k - 1 \notin K
      BY <2>2, <3>1
    <3>3. QED
      BY <3>1, <3>2
  <2>7. PICK i \in 1..(k - 1) : \A j \in 1..(k - 1) : h[j] <= h[i]
    BY <2>6
  <2>8. /\ i \in 1..k /\ k \in 1..k
        /\ \A j \in 1..k : j \in 1..(k - 1) \/ j = k
    BY <2>3, <2>7
  <2>9. CASE h[k] <= h[i]
    <3>1. \A j \in 1..k : h[j] <= h[i]
      BY <2>7, <2>8, <2>9
    <3>2. QED
      BY <2>3, <2>8, <3>1
  <2>10. CASE ~(h[k] <= h[i])
    <3>1. h[k] \in Nat /\ h[i] \in Nat /\ h[i] <= h[k]
      BY <2>4, <2>8, <2>10
    <3>2. \A j \in 1..k : h[j] <= h[k]
      BY <2>4, <2>7, <2>8, <3>1
    <3>3. QED
      BY <2>3, <2>8, <3>2
  <2>11. QED
    BY <2>9, <2>10
<1>2. n \in 1..n
  OBVIOUS
<1>3. Top(n)
  BY <1>1, <1>2
<1>4. QED
  BY <1>3

(* A list that is not empty has a last entry. *)
LEMMA LastEntry ==
    ASSUME ListTypeOK, IsFiniteSet(clients), clients # {}
    PROVE  \E k \in clients : \A n \in clients : heap[n].ord <= heap[k].ord
<1>1. \A n \in clients : heap[n].ord \in Nat
  BY DEF ListTypeOK, t_client
<1>2. PICK m \in Nat : ExistsBijection(1..m, clients)
  BY FS_NatBijection
<1>3. PICK f \in Bijection(1..m, clients) : TRUE
  BY <1>2 DEF ExistsBijection
<1>4. f \in [1..m -> clients] /\ \A n \in clients : \E i \in 1..m : f[i] = n
  BY <1>3 DEF Bijection, Injection, Surjection
<1>5. m # 0
  <2>1. PICK n \in clients : TRUE
    OBVIOUS
  <2>2. PICK i \in 1..m : f[i] = n
    BY <1>4, <2>1
  <2>3. QED
    BY <1>2, <2>2
<1> DEFINE h == [i \in 1..m |-> heap[f[i]].ord]
<1>6. h \in [1..m -> Nat]
  BY <1>1, <1>4
<1>7. PICK i \in 1..m : \A j \in 1..m : h[j] <= h[i]
  <2> HIDE DEF h
  <2>1. QED
    BY <1>2, <1>5, <1>6, GreatestOfSequence
<1>8. \A j \in 1..m : heap[f[j]].ord <= heap[f[i]].ord
  BY <1>7
<1>9. f[i] \in clients
  BY <1>4, <1>7
<1>10. QED
  BY <1>4, <1>8, <1>9

(* The place behind the last entry is there. *)
LEMMA NextPlaceType ==
    ASSUME ListTypeOK, IsFiniteSet(clients)
    PROVE  NextPlace \in Nat /\ \A n \in clients : heap[n].ord < NextPlace
<1> DEFINE T == {heap[n].ord + 1 : n \in clients} \cup {1}
<1>1. \A n \in clients : heap[n].ord \in Nat
  BY DEF ListTypeOK, t_client
<1>2. T \subseteq Nat
  BY <1>1
<1>3. \E o \in T : \A n \in clients : heap[n].ord < o
  <2>1. CASE clients = {}
    BY <2>1
  <2>2. CASE clients # {}
    <3>1. PICK k \in clients : \A n \in clients : heap[n].ord <= heap[k].ord
      BY <2>2, LastEntry
    <3>2. \A n \in clients : heap[n].ord < heap[k].ord + 1
      BY <1>1, <3>1
    <3>3. heap[k].ord + 1 \in T
      BY <3>1
    <3>4. QED
      BY <3>2, <3>3
  <2>3. QED
    BY <2>1, <2>2
<1>4. NextPlace \in T /\ \A n \in clients : heap[n].ord < NextPlace
  BY <1>3 DEF NextPlace
<1>5. QED
  BY <1>2, <1>4

(* The walk of the list for a match finds one when there is one. *)
LEMMA FirstOfIsMember ==
    ASSUME ListTypeOK, NEW S \in SUBSET Node, S # {}
    PROVE  FirstOf(S) \in S
<1> DEFINE T == {heap[n].ord : n \in S}
<1>1. T \in SUBSET Nat /\ T # {}
  BY DEF ListTypeOK, t_client
<1>2. PICK x \in T : \A y \in T : x <= y
  BY <1>1, LeastNat
<1>3. \E n \in S : \A k \in S : heap[n].ord <= heap[k].ord
  BY <1>2
<1>4. QED
  BY <1>3 DEF FirstOf

(* A lookup returns NULL or an entry of the list that matches. *)
LEMMA FindById ==
    ASSUME ListTypeOK, NEW id
    PROVE  LET n == client_list_find_by_id(id) IN
           n # Null => n \in clients /\ heap[n].id = id
<1> DEFINE S == {n \in clients : heap[n].id = id}
<1>1. S \in SUBSET Node
  BY DEF ListTypeOK
<1>2. CASE S = {}
  BY <1>2 DEF client_list_find_by_id, FirstOf
<1>3. CASE S # {}
  <2>1. FirstOf(S) \in S
    BY <1>1, <1>3, FirstOfIsMember
  <2>2. QED
    BY <2>1 DEF client_list_find_by_id
<1>4. QED
  BY <1>2, <1>3

LEMMA FindNull ==
    ASSUME ListTypeOK, NEW peer, client_list_find(peer) = Null
    PROVE  \A n \in clients : PeerOf(n) # peer
<1> DEFINE S == {n \in clients : PeerOf(n) = peer}
<1>1. S \in SUBSET Node
  BY DEF ListTypeOK
<1>2. S = {}
  <2>1. ASSUME S # {} PROVE FALSE
    <3>1. FirstOf(S) \in S
      BY <1>1, <2>1, FirstOfIsMember
    <3>2. QED
      BY <1>1, <3>1, NullAssumption DEF client_list_find
  <2>2. QED
    BY <2>1
<1>3. QED
  BY <1>2

(* Placing a new entry at a free address: the peer is new. *)
LEMMA PlaceKeepsCore ==
    ASSUME ListCore, NEW n \in Node \ clients, NEW new \in t_client,
           new.peer \in Peer, client_list_find(new.peer) = Null,
           heap' = [heap EXCEPT ![n] = new], clients' = clients \cup {n},
           client_id' \in Nat \ {0}, client_count' \in Int
    PROVE  ListCore'
<1> USE DEF ListCore
<1>1. ListTypeOK'
  BY DEF ListTypeOK
<1>2. \A k \in Node : heap'[k] = IF k = n THEN new ELSE heap[k]
  BY DEF ListTypeOK
<1>3. UniquePeer'
  <2>1. \A k \in clients : PeerOf(k) # new.peer
    BY FindNull
  <2>2. QED
    BY <1>2, <2>1 DEF UniquePeer, PeerOf, ListTypeOK
<1>4. EntriesHavePeer'
  BY <1>2 DEF EntriesHavePeer, PeerOf, ListTypeOK
<1>5. IsFiniteSet(clients')
  BY FS_AddElement
<1>6. QED
  BY <1>1, <1>3, <1>4, <1>5

(* One more entry, counted, where there is room. *)
LEMMA PlaceKeepsCount ==
    ASSUME ListCore, CountMatches, NEW n \in Node \ clients, ~ListFull,
           clients' = clients \cup {n}, client_count' = client_count + 1
    PROVE  CountMatches'
<1>1. Cardinality(clients') = Cardinality(clients) + 1 /\ Cardinality(clients) \in Nat
  BY FS_AddElement, FS_CardinalityType DEF ListCore
<1>2. QED
  BY <1>1, MaxClientsAssumption DEF CountMatches, ListFull

LEMMA NewClientType ==
    ASSUME ListCore, NEW peer \in Peer, NEW id \in Nat, NEW state \in Mark, NEW time \in Nat
    PROVE  LET new == NewClient(peer, id, state, time) IN
           new \in t_client /\ new.peer = peer /\ new.id = id
BY NextPlaceType DEF NewClient, t_client, ListCore

LEMMA AppendKeepsCore ==
    ASSUME ListCore, NEW n \in Node \ clients, NEW peer \in Peer,
           NEW state \in Mark, NEW time \in Nat,
           client_list_find(peer) = Null,
           client_list_append(n, peer, state, time)
    PROVE  ListCore'
<1> DEFINE new == NewClient(peer, client_id, state, time)
<1>1. client_id \in Nat \ {0} /\ client_count \in Int
  BY DEF ListCore, ListTypeOK
<1>2. new \in t_client /\ new.peer = peer
  BY <1>1, NewClientType
<1>3. client_id' \in Nat \ {0} /\ client_count' \in Int
  BY <1>1 DEF client_list_append
<1>4. QED
  BY <1>2, <1>3, PlaceKeepsCore DEF client_list_append

(* An append keeps the promises: besides, the id is fresh. *)
LEMMA AppendKeepsListInv ==
    ASSUME ListInv, NEW n \in Node \ clients, NEW peer \in Peer,
           NEW state \in Mark, NEW time \in Nat,
           client_list_find(peer) = Null, ~ListFull,
           client_list_append(n, peer, state, time)
    PROVE  ListInv'
<1> DEFINE new == NewClient(peer, client_id, state, time)
<1>1. ListCore'
  BY AppendKeepsCore DEF ListInv
<1>2. heap' = [heap EXCEPT ![n] = new] /\ clients' = clients \cup {n}
      /\ client_id' = client_id + 1 /\ client_count' = client_count + 1
  BY DEF client_list_append
<1>3. \A k \in Node : heap'[k] = IF k = n THEN new ELSE heap[k]
  BY <1>2 DEF ListInv, ListCore, ListTypeOK
<1>4. UniqueId'
  <2>1. new.id = client_id
    BY DEF NewClient
  <2>2. \A k \in Node : heap[k].id \in Nat
    BY DEF ListInv, ListCore, ListTypeOK, t_client
  <2>3. QED
    BY <1>2, <1>3, <2>1, <2>2 DEF ListInv, ListCore, UniqueId, ListTypeOK
<1>5. CountMatches'
  BY <1>2, PlaceKeepsCount DEF ListInv
<1>6. QED
  BY <1>1, <1>4, <1>5 DEF ListInv

LEMMA DeleteKeepsCore ==
    ASSUME ListCore, NEW n \in clients, client_list_delete(n)
    PROVE  ListCore'
<1> USE DEF ListCore
<1>1. /\ heap' = heap /\ client_id' = client_id
      /\ clients' = clients \ {n} /\ client_count' = client_count - 1
  BY DEF client_list_delete
<1>2. IsFiniteSet(clients')
  BY <1>1, FS_RemoveElement
<1>3. ListTypeOK'
  BY <1>1 DEF ListTypeOK
<1>4. UniquePeer' /\ EntriesHavePeer'
  BY <1>1 DEF UniquePeer, EntriesHavePeer, PeerOf
<1>5. QED
  BY <1>2, <1>3, <1>4

LEMMA DeleteKeepsCount ==
    ASSUME ListCore, CountMatches, NEW n \in clients, client_list_delete(n)
    PROVE  CountMatches'
<1>1. clients' = clients \ {n} /\ client_count' = client_count - 1
  BY DEF client_list_delete
<1>2. Cardinality(clients') = Cardinality(clients) - 1 /\ Cardinality(clients) \in Nat
  BY <1>1, FS_RemoveElement, FS_CardinalityType DEF ListCore
<1>3. QED
  BY <1>1, <1>2, MaxClientsAssumption DEF CountMatches

LEMMA DeleteKeepsListInv ==
    ASSUME ListInv, NEW n \in clients, client_list_delete(n)
    PROVE  ListInv'
<1>1. ListCore' /\ CountMatches'
  BY DeleteKeepsCore, DeleteKeepsCount DEF ListInv
<1>2. UniqueId'
  BY DEF ListInv, UniqueId, client_list_delete
<1>3. QED
  BY <1>1, <1>2 DEF ListInv

LEMMA FieldWritesKeepCore ==
    ASSUME ListCore, FieldWrites
    PROVE  ListCore' /\ (CountMatches => CountMatches')
<1> USE DEF ListCore, FieldWrites
<1>1. \A n \in Node : heap'[n].peer = heap[n].peer
  BY DEF SameEntry
<1>2. ListTypeOK'
  BY DEF ListTypeOK
<1>3. UniquePeer' /\ EntriesHavePeer'
  BY <1>1 DEF UniquePeer, EntriesHavePeer, PeerOf, ListTypeOK
<1>4. (CountMatches => CountMatches') /\ IsFiniteSet(clients')
  BY DEF CountMatches
<1>5. QED
  BY <1>2, <1>3, <1>4

LEMMA FieldWritesKeepListInv ==
    ASSUME ListInv, FieldWrites
    PROVE  ListInv'
<1>1. \A n \in Node : heap'[n].id = heap[n].id
  BY DEF FieldWrites, SameEntry
<1>2. UniqueId'
  BY <1>1 DEF FieldWrites, UniqueId, ListInv, ListCore, ListTypeOK
<1>3. QED
  BY <1>2, FieldWritesKeepCore DEF ListInv

LEMMA ListInitOK == client_list_init => ListInv
<1> SUFFICES ASSUME client_list_init PROVE ListInv
  OBVIOUS
<1>1. ListTypeOK
  BY DEF client_list_init, FreshHeap, ListTypeOK, t_client, Mark, FW_MARK_PREAUTHENTICATED
<1>2. UniquePeer /\ UniqueId /\ EntriesHavePeer
  BY DEF client_list_init, FreshHeap, UniquePeer, UniqueId, EntriesHavePeer
<1>3. IsFiniteSet(clients) /\ CountMatches
  BY FS_EmptySet, MaxClientsAssumption DEF client_list_init, CountMatches
<1>4. QED
  BY <1>1, <1>2, <1>3 DEF ListInv, ListCore

(* Whatever the threads do, no two entries share a peer or an id, ids are    *)
(* never reused and client_count is the length of the list (client_list.c).  *)
THEOREM ListCorrect == ListSpec => []ListInv
<1>1. ListInv /\ [ListNext]_listVars => ListInv'
  <2> SUFFICES ASSUME ListInv, [ListNext]_listVars PROVE ListInv'
    OBVIOUS
  <2>1. CASE UNCHANGED listVars
    BY <2>1 DEF listVars, ListInv, ListCore, ListTypeOK, UniquePeer, UniqueId, CountMatches,
                EntriesHavePeer, PeerOf
  <2>2. ASSUME NEW n \in Node, NEW peer \in Peer, NEW state \in Mark,
               n \in clients => ListFull, heap'[n].last_updated \in Nat,
               client_list_add_client(n, peer, state, heap'[n].last_updated)
        PROVE  ListInv'
    <3>1. CASE UNCHANGED listVars
      BY <2>1, <3>1
    <3>2. CASE /\ client_list_find(peer) = Null /\ ~ListFull
               /\ client_list_append(n, peer, state, heap'[n].last_updated)
      BY <2>2, <3>2, AppendKeepsListInv
    <3>3. QED
      BY <2>2, <3>1, <3>2 DEF client_list_add_client
  <2>3. ASSUME NEW n \in clients, client_list_delete(n) PROVE ListInv'
    BY <2>3, DeleteKeepsListInv
  <2>4. CASE FieldWrites
    BY <2>4, FieldWritesKeepListInv
  <2>5. QED
    BY <2>1, <2>2, <2>3, <2>4 DEF ListNext
<1>2. QED
  BY <1>1, ListInitOK, PTL DEF ListSpec
===============================================================================
