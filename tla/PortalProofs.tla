----------------------------- MODULE PortalProofs -----------------------------
(***************************************************************************)
(* The three threads keep their types, call the client list only the way   *)
(* it allows, and act on the entries they mean to: for every number of     *)
(* hosts, addresses, clients and every configuration.                      *)
(***************************************************************************)
EXTENDS Portal, ClientListProofs

(* What the pointer and the peer of a request are in each of its steps. *)
HttpOK ==
    /\ http.pc # "idle" => http.peer \in Peer
    /\ http.pc \notin {"idle", "add"} => http.node \in Node
    /\ http.pc = "add" => http.node = Null

(* The ids read before waiting for the lock were handed out already, and     *)
(* name the entry of the host they were read for, or none.                   *)
HttpIdOK ==
    /\ http.id < client_id
    /\ http.pc \in {"auth", "deauth"} =>
         \A n \in clients : heap[n].id = http.id => PeerOf(n) = http.peer
NdsctlIdOK ==
    /\ ndsctl.id < client_id
    /\ ndsctl.pc = "deauth" =>
         \A n \in clients : heap[n].id = ndsctl.id => PeerOf(n) = ndsctl.peer

ThreadsTypeOK ==
    /\ now \in Nat
    /\ http \in HttpThread
    /\ ndsctl \in NdsctlThread
    /\ timer \in TimerThread

PortalInv ==
    /\ ListInv
    /\ MangleTypeOK /\ MacListsTypeOK /\ ThreadsTypeOK
    /\ HttpOK
    /\ PointerIsRequester
    /\ HttpIdOK /\ NdsctlIdOK

-------------------------------------------------------------------------------
(* The firewall and the MAC lists. *)

LEMMA BagType ==
    ASSUME NEW S, NEW b \in [S -> Nat], NEW D
    PROVE  Plus(b, D) \in [S -> Nat] /\ Minus(b, D) \in [S -> Nat]
<1>1. \A r \in S : b[r] > 0 => b[r] - 1 \in Nat
  OBVIOUS
<1>2. QED
  BY <1>1 DEF Plus, Minus

LEMMA FirewallType ==
    ASSUME MangleTypeOK, NEW peer,
           iptables_fw_authenticate(peer) \/ iptables_fw_deauthenticate(peer)
    PROVE  MangleTypeOK'
BY BagType DEF MangleTypeOK, iptables_fw_authenticate, iptables_fw_deauthenticate

LEMMA MacListsType ==
    ASSUME MacListsTypeOK, NEW l \in MacListName, NEW mac \in Mac,
           auth_client_list(l, mac) \/ auth_client_unlist(l, mac)
    PROVE  MacListsTypeOK'
<1>1. CASE UNCHANGED macVars
  BY <1>1 DEF macVars, MacListsTypeOK
<1>2. CASE add_to_mac_list(l, mac) /\ iptables_list_mac(l, mac)
  <2>1. macrules' \in [MacListName \X Mac -> Nat]
    BY <1>2, BagType DEF MacListsTypeOK, iptables_list_mac
  <2>2. QED
    BY <1>2, <2>1 DEF MacListsTypeOK, add_to_mac_list
<1>3. CASE remove_from_mac_list(l, mac) /\ iptables_unlist_mac(l, mac)
  <2>1. macrules' \in [MacListName \X Mac -> Nat]
    BY <1>3, BagType DEF MacListsTypeOK, iptables_unlist_mac
  <2>2. QED
    BY <1>3, <2>1 DEF MacListsTypeOK, remove_from_mac_list
<1>4. QED
  BY <1>1, <1>2, <1>3 DEF auth_client_list, auth_client_unlist

-------------------------------------------------------------------------------
(* What a thread other than a request for a new client does to the list. *)

(* Entries are written or one is deleted; no entry changes its identity, and *)
(* only entries of S change their state.                                     *)
EntriesKept(S) ==
    /\ FieldWrites \/ UNCHANGED listVars \/ \E k \in clients : client_list_delete(k)
    /\ \A k \in Node : SameEntry(heap[k], heap'[k])
    /\ clients' \subseteq clients
    /\ client_id' = client_id
    /\ \A k \in Node \ S : StateOf(k)' = StateOf(k)

LEMMA EntriesKeptIsListStep ==
    ASSUME ListInv, NEW S, EntriesKept(S)
    PROVE  [ListNext]_listVars /\ ListInv'
<1>1. CASE FieldWrites
  BY <1>1, FieldWritesKeepListInv DEF ListNext
<1>2. CASE UNCHANGED listVars
  BY <1>2 DEF listVars, ListInv, ListCore, ListTypeOK, UniquePeer, UniqueId, CountMatches,
              EntriesHavePeer, PeerOf
<1>3. CASE \E k \in clients : client_list_delete(k)
  BY <1>3, DeleteKeepsListInv DEF ListNext
<1>4. QED
  BY <1>1, <1>2, <1>3 DEF EntriesKept

(* Writing an entry that keeps its identity. *)
LEMMA SetEntryKeeps ==
    ASSUME ListTypeOK, NEW n \in Node, NEW c \in t_client,
           SameEntry(heap[n], c), SetEntry(n, c)
    PROVE  EntriesKept({n})
<1>1. heap' = [heap EXCEPT ![n] = c] /\ heap' \in [Node -> t_client]
  BY DEF SetEntry, ListTypeOK
<1>2. \A k \in Node : SameEntry(heap[k], heap'[k])
  BY <1>1 DEF SameEntry, ListTypeOK
<1>3. FieldWrites
  BY <1>1, <1>2 DEF FieldWrites, SetEntry
<1>4. \A k \in Node \ {n} : StateOf(k)' = StateOf(k)
  BY <1>1 DEF StateOf, ListTypeOK
<1>5. QED
  BY <1>2, <1>3, <1>4 DEF EntriesKept, SetEntry

LEMMA UnchangedKeeps ==
    ASSUME UNCHANGED listVars, NEW S
    PROVE  EntriesKept(S)
BY DEF EntriesKept, listVars, SameEntry, StateOf

LEMMA DeleteKeeps ==
    ASSUME NEW n \in clients, client_list_delete(n)
    PROVE  EntriesKept({n})
BY DEF EntriesKept, client_list_delete, SameEntry, StateOf

-------------------------------------------------------------------------------
(* auth.c *)

(* A change of state writes one entry or deletes it. *)
LEMMA ChangeKeeps ==
    ASSUME ListCore, NEW n \in clients, NEW new_state, NEW time \in Nat,
           auth_change_state(n, new_state, time)
    PROVE  EntriesKept({n})
<1>1. /\ ListTypeOK /\ n \in Node /\ heap[n] \in t_client
  BY DEF ListCore, ListTypeOK
<1>2. CASE UNCHANGED authVars
  BY <1>2, UnchangedKeeps DEF authVars
<1>3. CASE Authenticate(n)
  <2> DEFINE c == [heap[n] EXCEPT !.fw_connection_state = FW_MARK_AUTHENTICATED]
  <2>1. c \in t_client /\ SameEntry(heap[n], c)
    BY <1>1 DEF t_client, SameEntry, Mark
  <2>2. QED
    BY <1>1, <1>3, <2>1, SetEntryKeeps DEF Authenticate
<1>4. CASE Deauthenticate(n, time)
  <2> DEFINE c == [client_reset(heap[n], time) EXCEPT
                      !.fw_connection_state = FW_MARK_PREAUTHENTICATED]
  <2>1. c \in t_client /\ SameEntry(heap[n], c)
    BY <1>1 DEF t_client, SameEntry, Mark, client_reset
  <2>2. QED
    BY <1>1, <1>4, <2>1, SetEntryKeeps DEF Deauthenticate
<1>5. CASE DeauthenticateAndBlock(n)
  BY <1>5, DeleteKeeps DEF DeauthenticateAndBlock
<1>6. QED
  BY <1>2, <1>3, <1>4, <1>5 DEF auth_change_state

LEMMA ChangeState ==
    ASSUME ListInv, MangleTypeOK, MacListsTypeOK,
           NEW n \in clients, NEW new_state, NEW time \in Nat,
           auth_change_state(n, new_state, time)
    PROVE  EntriesKept({n}) /\ MangleTypeOK' /\ MacListsTypeOK'
<1>1. EntriesKept({n}) /\ MacOf(n) \in Mac
  BY ChangeKeeps DEF ListInv, ListCore, EntriesHavePeer, PeerOf, MacOf, Peer
<1>2. CASE UNCHANGED authVars
  BY <1>1, <1>2 DEF authVars, macVars, MangleTypeOK, MacListsTypeOK
<1>3. CASE Authenticate(n) \/ Deauthenticate(n, time)
  BY <1>1, <1>3, FirewallType DEF Authenticate, Deauthenticate, macVars, MacListsTypeOK
<1>4. CASE DeauthenticateAndBlock(n)
  BY <1>1, <1>4, FirewallType, MacListsType DEF DeauthenticateAndBlock, MacListName
<1>5. QED
  BY <1>1, <1>2, <1>3, <1>4 DEF auth_change_state

LEMMA ChangeById ==
    ASSUME ListInv, MangleTypeOK, MacListsTypeOK,
           NEW id, NEW new_state \in Mark, NEW time \in Nat,
           AuthById(id, new_state, time)
    PROVE  /\ EntriesKept({k \in clients : heap[k].id = id})
           /\ MangleTypeOK' /\ MacListsTypeOK'
<1> DEFINE n == client_list_find_by_id(id)
           S == {k \in clients : heap[k].id = id}
<1>1. CASE n # Null /\ auth_change_state(n, new_state, time)
  <2>1. n \in S
    BY <1>1, FindById DEF ListInv, ListCore
  <2>2. EntriesKept({n}) /\ MangleTypeOK' /\ MacListsTypeOK'
    BY <1>1, <2>1, ChangeState
  <2>3. QED
    BY <2>1, <2>2 DEF EntriesKept
<1>2. CASE UNCHANGED authVars
  <2>1. UNCHANGED <<listVars, rules, maclist, macrules>>
    BY <1>2 DEF authVars, macVars
  <2>2. QED
    BY <2>1, UnchangedKeeps DEF MangleTypeOK, MacListsTypeOK
<1>3. QED
  BY <1>1, <1>2 DEF AuthById

LEMMA CountersUpdate ==
    ASSUME ListTypeOK, NEW time \in Nat, NEW rc, iptables_fw_counters_update(time, rc)
    PROVE  EntriesKept({}) /\ UNCHANGED <<rules, macVars>>
<1>1. PICK U, V : Credit(U, V, time)
  BY DEF iptables_fw_counters_update
<1>2. ASSUME NEW n \in Node
      PROVE  /\ heap'[n] \in t_client
             /\ SameEntry(heap[n], heap'[n])
             /\ StateOf(n)' = StateOf(n)
  <2> DEFINE u == IF n \in U THEN time ELSE heap[n].last_updated
             v == heap[n].over_limit \/ n \in V
  <2>1. heap[n] \in t_client
    BY DEF ListTypeOK
  <2>2. u \in Nat /\ v \in BOOLEAN
    BY <2>1 DEF t_client
  <2>3. heap'[n] = [heap[n] EXCEPT !.last_updated = u, !.over_limit = v]
    BY <1>1 DEF Credit
  <2>4. QED
    BY <2>1, <2>2, <2>3 DEF t_client, SameEntry, StateOf
<1>3. FieldWrites
  <2>1. heap' \in [Node -> t_client]
    BY <1>1, <1>2 DEF Credit
  <2>2. QED
    BY <1>1, <1>2, <2>1 DEF FieldWrites, Credit
<1>4. QED
  BY <1>1, <1>2, <1>3 DEF Credit, EntriesKept

-------------------------------------------------------------------------------
(* What holds of a thread's registers after the step of another, or of the   *)
(* thread itself when it is done.                                            *)

LEMMA HttpSame ==
    ASSUME PortalInv, NEW S, EntriesKept(S), UNCHANGED http
    PROVE  HttpOK' /\ PointerIsRequester' /\ HttpIdOK'
<1>1. clients \subseteq Node /\ http \in HttpThread
  BY DEF PortalInv, ListInv, ListCore, ListTypeOK, ThreadsTypeOK
<1>2. \A k \in Node : heap'[k].peer = heap[k].peer /\ heap'[k].id = heap[k].id
  BY DEF EntriesKept, SameEntry
<1>3. HttpOK'
  BY DEF PortalInv, HttpOK
<1>4. PointerIsRequester'
  BY <1>1, <1>2 DEF PortalInv, PointerIsRequester, PeerOf, HttpThread
<1>5. HttpIdOK'
  BY <1>1, <1>2 DEF PortalInv, HttpIdOK, EntriesKept, PeerOf
<1>6. QED
  BY <1>3, <1>4, <1>5

LEMMA HttpDone ==
    ASSUME PortalInv, client_id' = client_id, http' = IdleHttp
    PROVE  HttpOK' /\ PointerIsRequester' /\ HttpIdOK' /\ http' \in HttpThread
<1>1. http.id \in Nat /\ http.id < client_id /\ client_id \in Nat
  BY DEF PortalInv, HttpIdOK, ListInv, ListCore, ListTypeOK, ThreadsTypeOK, HttpThread
<1>2. QED
  BY <1>1 DEF HttpOK, PointerIsRequester, HttpIdOK, IdleHttp, HttpThread, HttpPc

LEMMA NdsctlSame ==
    ASSUME PortalInv, NEW S, EntriesKept(S), UNCHANGED ndsctl
    PROVE  NdsctlIdOK'
<1>1. clients \subseteq Node
  BY DEF PortalInv, ListInv, ListCore, ListTypeOK
<1>2. \A k \in Node : heap'[k].peer = heap[k].peer /\ heap'[k].id = heap[k].id
  BY DEF EntriesKept, SameEntry
<1>3. QED
  BY <1>1, <1>2 DEF PortalInv, NdsctlIdOK, EntriesKept, PeerOf

-------------------------------------------------------------------------------
(* One step of the daemon. *)

StepOK == PortalInv' /\ [ListNext]_listVars /\ ActsOnRequesterStep

LEMMA KeptStep ==
    ASSUME PortalInv, NEW S, EntriesKept(S),
           MangleTypeOK', MacListsTypeOK', ThreadsTypeOK',
           HttpOK', PointerIsRequester', HttpIdOK', NdsctlIdOK',
           \A n \in S \cap clients :
              /\ http'.pc # http.pc => PeerOf(n) = http.peer
              /\ ndsctl'.pc # ndsctl.pc => PeerOf(n) = ndsctl.peer
    PROVE  StepOK
<1>1. ListInv' /\ [ListNext]_listVars
  BY EntriesKeptIsListStep DEF PortalInv
<1>2. ActsOnRequesterStep
  BY DEF ActsOnRequesterStep, EntriesKept, PortalInv, ListInv, ListCore, ListTypeOK
<1>3. QED
  BY <1>1, <1>2 DEF StepOK, PortalInv

(* A step that leaves the list, the firewall and the MAC lists alone. *)
LEMMA QuietStep ==
    ASSUME PortalInv, UNCHANGED authVars, ThreadsTypeOK',
           HttpOK', PointerIsRequester', HttpIdOK', NdsctlIdOK'
    PROVE  StepOK
<1>1. UNCHANGED <<listVars, rules, maclist, macrules>>
  BY DEF authVars, macVars
<1>2. EntriesKept({})
  BY <1>1, UnchangedKeeps
<1>3. MangleTypeOK' /\ MacListsTypeOK'
  BY <1>1 DEF PortalInv, MangleTypeOK, MacListsTypeOK
<1>4. QED
  BY <1>2, <1>3, KeptStep

(* A step of the ndsctl or the timeout thread. *)
LEMMA OtherThreadStep ==
    ASSUME PortalInv, NEW S, EntriesKept(S), UNCHANGED http,
           MangleTypeOK', MacListsTypeOK', ThreadsTypeOK', NdsctlIdOK',
           \A n \in S \cap clients : ndsctl'.pc # ndsctl.pc => PeerOf(n) = ndsctl.peer
    PROVE  StepOK
BY HttpSame, KeptStep

(* The walk over the list. *)
LEMMA WalkType ==
    ASSUME ListTypeOK, NEW n
    PROVE  /\ client_get_first_client \in Node \cup {Null}
           /\ NextClient(n) \in Node \cup {Null}
<1>1. ASSUME NEW S \in SUBSET Node
      PROVE  FirstOf(S) \in Node \cup {Null}
  BY FirstOfIsMember DEF FirstOf
<1>2. QED
  BY <1>1 DEF client_get_first_client, NextClient, ListTypeOK

LEMMA TimerType ==
    ASSUME ListTypeOK, now \in Nat, timer \in TimerThread, Timer
    PROVE  UNCHANGED <<now, http, ndsctl>> /\ timer' \in TimerThread
<1>1. UNCHANGED <<now, http, ndsctl>>
  BY DEF Timer, TimerWake, TimerCounters, TimerCountersFail, TimerLock, TimerStep,
         TimerUnlock
<1>2. /\ client_get_first_client \in Node \cup {Null}
      /\ NextClient(timer.node) \in Node \cup {Null}
  BY WalkType
<1>3. CASE TimerWake
  BY <1>1, <1>3 DEF TimerWake, TimerThread
<1>4. CASE TimerCounters
  BY <1>1, <1>4 DEF TimerCounters, TimerThread
<1>5. CASE TimerCountersFail \/ TimerUnlock
  BY <1>1, <1>5 DEF TimerCountersFail, TimerUnlock, IdleTimer, TimerThread
<1>6. CASE TimerLock
  BY <1>1, <1>2, <1>6 DEF TimerLock, TimerThread
<1>7. CASE TimerStep
  BY <1>1, <1>2, <1>7 DEF TimerStep, TimerThread
<1>8. QED
  BY <1>3, <1>4, <1>5, <1>6, <1>7 DEF Timer

LEMMA TimerStepOK ==
    ASSUME PortalInv, Timer
    PROVE  StepOK
<1>0. /\ ListInv /\ ListTypeOK /\ MangleTypeOK /\ MacListsTypeOK /\ now \in Nat
      /\ http \in HttpThread /\ ndsctl \in NdsctlThread /\ timer \in TimerThread
  BY DEF PortalInv, ThreadsTypeOK, ListInv, ListCore
<1>1. UNCHANGED <<now, http, ndsctl>> /\ timer' \in TimerThread
  BY <1>0, TimerType
<1>2. ThreadsTypeOK'
  BY <1>0, <1>1 DEF ThreadsTypeOK
<1>3. \E S : EntriesKept(S) /\ MangleTypeOK' /\ MacListsTypeOK'
  <2>1. CASE UNCHANGED authVars
    <3>1. UNCHANGED <<listVars, rules, maclist, macrules>>
      BY <2>1 DEF authVars, macVars
    <3>2. QED
      BY <1>0, <3>1, UnchangedKeeps DEF MangleTypeOK, MacListsTypeOK
  <2>2. CASE TimerCounters \/ TimerCountersFail
    BY <1>0, <2>2, CountersUpdate
       DEF TimerCounters, TimerCountersFail, macVars, MangleTypeOK, MacListsTypeOK
  <2>3. CASE TimerStep
    <3> DEFINE n == client_list_find_by_id(heap[timer.node].id)
    <3>1. CASE n # Null /\ CheckClient(n)
      <4>1. n \in clients
        BY <1>0, <3>1, FindById
      <4>2. CASE \E s \in Mark : auth_change_state(n, s, now)
        BY <1>0, <4>1, <4>2, ChangeState
      <4>3. CASE client_list_delete(n) /\ UNCHANGED <<rules, macVars>>
        BY <1>0, <4>1, <4>3, DeleteKeeps DEF macVars, MangleTypeOK, MacListsTypeOK
      <4>4. QED
        <5>1. {FW_MARK_BLOCKED, FW_MARK_PREAUTHENTICATED} \subseteq Mark
          BY DEF Mark
        <5>2. QED
          BY <2>1, <3>1, <4>2, <4>3, <5>1 DEF CheckClient
    <3>2. QED
      BY <2>1, <2>3, <3>1 DEF TimerStep
  <2>4. QED
    BY <2>1, <2>2, <2>3 DEF Timer, TimerWake, TimerLock, TimerUnlock
<1>4. QED
  BY <1>1, <1>2, <1>3, NdsctlSame, OtherThreadStep

(* The lookup of the argument of an ndsctl command. *)
LEMMA FindByAny ==
    ASSUME ListTypeOK, NEW arg, client_list_find_by_any(arg) # Null
    PROVE  client_list_find_by_any(arg) \in clients
<1>1. ASSUME NEW S \in SUBSET clients, FirstOf(S) # Null PROVE FirstOf(S) \in clients
  <2>1. S \in SUBSET Node
    BY DEF ListTypeOK
  <2>2. S # {}
    BY <1>1 DEF FirstOf
  <2>3. QED
    BY <2>1, <2>2, FirstOfIsMember
<1>2. QED
  BY <1>1 DEF client_list_find_by_any, client_list_find_by_ip, client_list_find_by_mac

LEMMA NdsctlStepOK ==
    ASSUME PortalInv, Ndsctl
    PROVE  StepOK
<1>0. /\ ListInv /\ ListTypeOK /\ MangleTypeOK /\ MacListsTypeOK /\ now \in Nat
      /\ http \in HttpThread /\ ndsctl \in NdsctlThread /\ timer \in TimerThread
      /\ NdsctlIdOK
  BY DEF PortalInv, ThreadsTypeOK, ListInv, ListCore
<1>1. UNCHANGED <<now, http, timer>>
  BY DEF Ndsctl, NdsctlAuth, NdsctlDeauthFind, NdsctlDeauth, NdsctlList,
         NdsctlUnlist, NdsctlStatus
<1>2. FW_MARK_AUTHENTICATED \in Mark /\ FW_MARK_PREAUTHENTICATED \in Mark
  BY DEF Mark
<1>3. ASSUME NEW S, EntriesKept(S), MangleTypeOK', MacListsTypeOK', UNCHANGED ndsctl
      PROVE  StepOK
  <2>1. ThreadsTypeOK'
    BY <1>0, <1>1, <1>3 DEF ThreadsTypeOK
  <2>2. QED
    BY <1>1, <1>3, <2>1, NdsctlSame, OtherThreadStep
<1>4. ASSUME NEW arg \in ClientArg, NdsctlAuth(arg) PROVE StepOK
  <2>1. PICK id : AuthById(id, FW_MARK_AUTHENTICATED, now)
    BY <1>4 DEF NdsctlAuth
  <2>2. QED
    BY <1>0, <1>2, <1>3, <1>4, <2>1, ChangeById DEF NdsctlAuth
<1>5. ASSUME NEW arg \in ClientArg, NdsctlDeauthFind(arg) PROVE StepOK
  <2> DEFINE n == client_list_find_by_any(arg)
  <2>1. n # Null /\ ndsctl' = [pc |-> "deauth", id |-> heap[n].id, peer |-> PeerOf(n)]
    BY <1>5 DEF NdsctlDeauthFind
  <2>2. n \in clients
    BY <1>0, <2>1, FindByAny
  <2>3. heap[n] \in t_client /\ UNCHANGED listVars /\ UNCHANGED authVars
    BY <1>0, <1>5, <2>2 DEF ListTypeOK, NdsctlDeauthFind, authVars
  <2>4. ndsctl' \in NdsctlThread
    BY <2>1, <2>3 DEF NdsctlThread, t_client, PeerOf
  <2>5. ThreadsTypeOK'
    BY <1>0, <1>1, <2>4 DEF ThreadsTypeOK
  <2>6. \A k \in clients : heap[k].id = heap[n].id => k = n
    BY <1>0, <2>2 DEF ListInv, ListCore, UniqueId, ListTypeOK
  <2>7. heap[n].id < client_id
    BY <1>0, <2>2 DEF ListInv, ListCore, UniqueId, ListTypeOK
  <2>8. NdsctlIdOK'
    BY <2>1, <2>3, <2>6, <2>7 DEF NdsctlIdOK, listVars, PeerOf
  <2>9. EntriesKept({})
    BY <2>3, UnchangedKeeps
  <2>10. QED
    BY <1>1, <2>3, <2>5, <2>8, <2>9, HttpSame, QuietStep
<1>6. CASE NdsctlDeauth
  <2> DEFINE S == {k \in clients : heap[k].id = ndsctl.id}
  <2>1. EntriesKept(S) /\ MangleTypeOK' /\ MacListsTypeOK'
    BY <1>0, <1>2, <1>6, ChangeById DEF NdsctlDeauth
  <2>2. \A n \in S \cap clients : PeerOf(n) = ndsctl.peer
    BY <1>0, <1>6 DEF NdsctlDeauth, NdsctlIdOK
  <2>3. ndsctl' \in NdsctlThread /\ ndsctl'.id = 0 /\ ndsctl'.pc = "idle"
    BY <1>6 DEF NdsctlDeauth, IdleNdsctl, NdsctlThread
  <2>4. NdsctlIdOK'
    BY <1>0, <2>1, <2>3 DEF NdsctlIdOK, EntriesKept, ListTypeOK, NdsctlThread
  <2>5. ThreadsTypeOK'
    BY <1>0, <1>1, <2>3 DEF ThreadsTypeOK
  <2>6. QED
    BY <1>1, <2>1, <2>2, <2>4, <2>5, OtherThreadStep
<1>7. ASSUME NEW l \in MacListName, NEW mac \in AdminMac,
             NdsctlList(l, mac) \/ NdsctlUnlist(l, mac)
      PROVE  StepOK
  <2>1. MacListsTypeOK'
    BY <1>0, <1>7, MacListsType, TimeAssumption DEF NdsctlList, NdsctlUnlist
  <2>2. UNCHANGED listVars /\ UNCHANGED rules /\ UNCHANGED ndsctl
    BY <1>7 DEF NdsctlList, NdsctlUnlist
  <2>3. EntriesKept({}) /\ MangleTypeOK'
    BY <1>0, <2>2, UnchangedKeeps DEF MangleTypeOK
  <2>4. QED
    BY <1>3, <2>1, <2>2, <2>3
<1>8. CASE NdsctlStatus
  BY <1>0, <1>3, <1>8, CountersUpdate DEF NdsctlStatus, macVars, MangleTypeOK, MacListsTypeOK
<1>9. QED
  BY <1>4, <1>5, <1>6, <1>7, <1>8 DEF Ndsctl

(* The lookup of a host. *)
LEMMA FindPeer ==
    ASSUME ListTypeOK, NEW peer, client_list_find(peer) # Null
    PROVE  client_list_find(peer) \in clients /\ PeerOf(client_list_find(peer)) = peer
<1> DEFINE S == {n \in clients : PeerOf(n) = peer}
<1>1. S \in SUBSET Node
  BY DEF ListTypeOK
<1>2. S # {}
  BY DEF client_list_find, FirstOf
<1>3. QED
  BY <1>1, <1>2, FirstOfIsMember DEF client_list_find

(* A request that found no entry: the only step that makes one. *)
LEMMA HttpAddOK ==
    ASSUME PortalInv, HttpAdd
    PROVE  StepOK
<1>0. /\ ListInv /\ ListTypeOK /\ now \in Nat /\ http \in HttpThread /\ HttpIdOK /\ NdsctlIdOK
      /\ ndsctl \in NdsctlThread /\ timer \in TimerThread
  BY DEF PortalInv, ThreadsTypeOK, ListInv, ListCore
<1>1. http.peer \in Peer /\ http.peer[1] \in Mac /\ http.pc = "add"
  BY DEF HttpAdd, PortalInv, HttpOK, Peer
<1>2. UNCHANGED <<rules, maclist, macrules, now, ndsctl, timer>>
  BY DEF HttpAdd, macVars
<1>3. MangleTypeOK' /\ MacListsTypeOK'
  BY <1>2 DEF PortalInv, MangleTypeOK, MacListsTypeOK
<1> DEFINE state == InitialMark(http.peer[1])
<1>4. state \in Mark
  BY DEF InitialMark, Mark
<1>5. PICK n \in Node :
        /\ n \in clients => ListFull
        /\ client_list_add_client(n, http.peer, state, now)
        /\ http' = IF AddedClient(n, http.peer) = Null THEN IdleHttp
                   ELSE [http EXCEPT !.pc = "dispatch", !.node = AddedClient(n, http.peer)]
  BY DEF HttpAdd
<1>6. CASE client_list_find(http.peer) # Null
  <2> DEFINE k == client_list_find(http.peer)
  <2>1. k \in clients /\ PeerOf(k) = http.peer /\ k \in Node
    BY <1>0, <1>6, FindPeer DEF ListTypeOK
  <2>2. UNCHANGED listVars /\ UNCHANGED authVars
    BY <1>2, <1>5, <1>6 DEF client_list_add_client, authVars, macVars
  <2>3. http' = [http EXCEPT !.pc = "dispatch", !.node = k]
    BY <1>5, <1>6 DEF AddedClient
  <2>4. http' \in HttpThread /\ HttpOK'
    BY <1>0, <1>1, <2>1, <2>3 DEF HttpThread, HttpPc, HttpOK
  <2>5. PointerIsRequester'
    BY <1>0, <2>1, <2>2, <2>3 DEF PointerIsRequester, PeerOf, listVars, HttpThread
  <2>6. HttpIdOK'
    BY <1>0, <2>2, <2>3 DEF HttpIdOK, listVars, HttpThread
  <2>7. NdsctlIdOK'
    BY <1>0, <1>2, <2>2 DEF NdsctlIdOK, listVars, PeerOf
  <2>8. ThreadsTypeOK'
    BY <1>0, <1>2, <2>4 DEF ThreadsTypeOK
  <2>9. QED
    BY <2>2, <2>4, <2>5, <2>6, <2>7, <2>8, QuietStep
<1>7. CASE client_list_find(http.peer) = Null /\ ListFull
  <2>1. UNCHANGED listVars /\ UNCHANGED authVars
    BY <1>2, <1>5, <1>7 DEF client_list_add_client, authVars, macVars
  <2>2. http' = IdleHttp
    BY <1>5, <1>7 DEF AddedClient
  <2>3. HttpOK' /\ PointerIsRequester' /\ HttpIdOK' /\ http' \in HttpThread
    BY <2>1, <2>2, HttpDone DEF listVars
  <2>4. NdsctlIdOK'
    BY <1>0, <1>2, <2>1 DEF NdsctlIdOK, listVars, PeerOf
  <2>5. ThreadsTypeOK'
    BY <1>0, <1>2, <2>3 DEF ThreadsTypeOK
  <2>6. QED
    BY <2>1, <2>3, <2>4, <2>5, QuietStep
<1>8. CASE client_list_find(http.peer) = Null /\ ~ListFull
  <2>1. client_list_append(n, http.peer, state, now)
    BY <1>5, <1>8 DEF client_list_add_client
  <2>2. n \notin clients
    BY <1>5, <1>8
  <2>3. ListInv'
    BY <1>0, <1>1, <1>4, <1>8, <2>1, <2>2, AppendKeepsListInv
  <2> DEFINE new == NewClient(http.peer, client_id, state, now)
  <2>4. /\ heap' = [heap EXCEPT ![n] = new]
        /\ clients' = clients \cup {n} /\ client_id' = client_id + 1
    BY <2>1 DEF client_list_append
  <2>5. new.peer = http.peer /\ new.id = client_id /\ new.last_updated = now
    BY DEF NewClient
  <2>6. heap'[n] = new /\ \A k \in Node \ {n} : heap'[k] = heap[k]
    BY <1>0, <2>4 DEF ListTypeOK
  <2>7. [ListNext]_listVars
    <3>1. client_list_add_client(n, http.peer, state, heap'[n].last_updated)
      BY <1>5, <2>5, <2>6
    <3>2. QED
      BY <1>0, <1>1, <1>4, <1>5, <2>5, <2>6, <3>1 DEF ListNext
  <2>8. http' = [http EXCEPT !.pc = "dispatch", !.node = n]
    BY <1>5, <1>8, NullAssumption DEF AddedClient
  <2>9. http' \in HttpThread /\ HttpOK'
    BY <1>0, <1>1, <2>8 DEF HttpThread, HttpPc, HttpOK
  <2>10. PointerIsRequester'
    BY <1>0, <2>5, <2>6, <2>8 DEF PointerIsRequester, PeerOf, HttpThread
  <2>11. HttpIdOK'
    BY <1>0, <2>4, <2>8 DEF HttpIdOK, HttpThread, ListTypeOK
  <2>12. NdsctlIdOK'
    BY <1>0, <1>2, <2>4, <2>5, <2>6 DEF NdsctlIdOK, NdsctlThread, ListTypeOK, PeerOf
  <2>13. ThreadsTypeOK'
    BY <1>0, <1>2, <2>9 DEF ThreadsTypeOK
  <2>14. ActsOnRequesterStep
    BY <1>0, <2>2, <2>6 DEF ActsOnRequesterStep, StateOf, ListTypeOK
  <2>15. QED
    BY <1>3, <2>3, <2>7, <2>9, <2>10, <2>11, <2>12, <2>13, <2>14 DEF StepOK, PortalInv
<1>9. QED
  BY <1>6, <1>7, <1>8

LEMMA HttpStepOK ==
    ASSUME PortalInv, Http
    PROVE  StepOK
<1>0. /\ ListInv /\ ListTypeOK /\ MangleTypeOK /\ MacListsTypeOK /\ now \in Nat
      /\ http \in HttpThread /\ ndsctl \in NdsctlThread /\ timer \in TimerThread
      /\ HttpOK /\ PointerIsRequester /\ HttpIdOK
  BY DEF PortalInv, ThreadsTypeOK, ListInv, ListCore
<1>1. UNCHANGED <<now, ndsctl, timer>>
  BY DEF Http, HttpRequest, HttpAdd, HttpServePage, HttpAuthdir, HttpBinauth,
         HttpAuth, HttpSession, HttpDenydir, HttpDeauth
<1>2. FW_MARK_AUTHENTICATED \in Mark /\ FW_MARK_PREAUTHENTICATED \in Mark
  BY DEF Mark
(* A step that only moves the request on. *)
<1>3. ASSUME UNCHANGED authVars, http' \in HttpThread, HttpOK', PointerIsRequester', HttpIdOK'
      PROVE  StepOK
  <2>1. NdsctlIdOK'
    <3>1. UNCHANGED listVars
      BY <1>3 DEF authVars
    <3>2. EntriesKept({})
      BY <3>1, UnchangedKeeps
    <3>3. QED
      BY <1>1, <3>2, NdsctlSame
  <2>2. ThreadsTypeOK'
    BY <1>0, <1>1, <1>3 DEF ThreadsTypeOK
  <2>3. QED
    BY <1>3, <2>1, <2>2, QuietStep
(* A step that changes entries of the host that sent the request. *)
<1>4. ASSUME NEW S, EntriesKept(S), MangleTypeOK', MacListsTypeOK',
             http' \in HttpThread, HttpOK', PointerIsRequester', HttpIdOK',
             \A k \in S \cap clients : PeerOf(k) = http.peer
      PROVE  StepOK
  <2>1. NdsctlIdOK' /\ ThreadsTypeOK'
    BY <1>0, <1>1, <1>4, NdsctlSame DEF ThreadsTypeOK
  <2>2. ndsctl'.pc = ndsctl.pc
    BY <1>1
  <2>3. QED
    BY <1>4, <2>1, <2>2, KeptStep
<1>5. ASSUME NEW peer \in Peer, HttpRequest(peer) PROVE StepOK
  <2>1. PICK n \in {client_list_find(peer), Null} :
          http' = [IdleHttp EXCEPT !.pc = IF n = Null THEN "add" ELSE "dispatch",
                                   !.peer = peer, !.node = n]
    BY <1>5 DEF HttpRequest
  <2>2. n # Null => n \in Node /\ PeerOf(n) = peer
    BY <1>0, <2>1, FindPeer DEF ListTypeOK
  <2>3. UNCHANGED authVars /\ UNCHANGED heap /\ UNCHANGED client_id
    BY <1>5 DEF HttpRequest, authVars, listVars
  <2>4. http' \in HttpThread /\ HttpOK'
    BY <2>1, <2>2 DEF IdleHttp, HttpThread, HttpPc, HttpOK
  <2>5. PointerIsRequester'
    BY <2>1, <2>2, <2>3 DEF IdleHttp, PointerIsRequester, PeerOf
  <2>6. HttpIdOK'
    <3>1. http.id \in Nat /\ client_id \in Nat /\ http.id < client_id
      BY <1>0 DEF HttpThread, ListTypeOK, HttpIdOK
    <3>2. http'.id = 0 /\ http'.pc \notin {"auth", "deauth"}
      BY <2>1 DEF IdleHttp
    <3>3. QED
      BY <2>3, <3>1, <3>2 DEF HttpIdOK
  <2>7. QED
    BY <1>3, <2>3, <2>4, <2>5, <2>6
<1>6. CASE http' = IdleHttp /\ UNCHANGED authVars
  <2>1. client_id' = client_id
    BY <1>6 DEF authVars, listVars
  <2>2. QED
    BY <1>3, <1>6, <2>1, HttpDone
(* The step to "auth" or "deauth" with the id read through the pointer. *)
<1>7. ASSUME http.pc \notin {"idle", "add"}, NEW id \in ReadId(http.node),
             http' \in HttpThread, http'.pc \notin {"idle", "add"}, http'.id = id,
             http'.node = http.node, http'.peer = http.peer, UNCHANGED authVars
      PROVE  StepOK
  <2>1. UNCHANGED listVars
    BY <1>7 DEF authVars
  <2>2. http.node \in Node /\ http.node # Null /\ PeerOf(http.node) = http.peer
    BY <1>0, <1>7, NullAssumption DEF HttpOK, PointerIsRequester
  <2>3. HttpOK' /\ PointerIsRequester'
    BY <1>0, <1>7, <2>1, <2>2 DEF HttpOK, PointerIsRequester, listVars, PeerOf
  <2>4. id < client_id
    BY <1>0, <1>7, <2>2 DEF ReadId, ListInv, ListCore, UniqueId, ListTypeOK, HttpIdOK, HttpThread, t_client
  <2>5. \A n \in clients : heap[n].id = id => PeerOf(n) = http.peer
    <3>1. CASE http.node \in clients
      BY <1>0, <1>7, <2>2, <3>1 DEF ReadId, ListInv, ListCore, UniqueId
    <3>2. CASE http.node \notin clients
      BY <1>0, <1>7, <2>2, <3>2 DEF ReadId, ListInv, ListCore, UniqueId, ListTypeOK, t_client
    <3>3. QED
      BY <3>1, <3>2
  <2>6. HttpIdOK'
    BY <1>7, <2>1, <2>4, <2>5 DEF HttpIdOK, listVars, PeerOf
  <2>7. QED
    BY <1>3, <1>7, <2>3, <2>6
<1>8. CASE HttpServePage
  BY <1>6, <1>8 DEF HttpServePage
<1>9. CASE HttpAuthdir
  <2>1. http.pc = "dispatch" /\ UNCHANGED authVars
    BY <1>9 DEF HttpAuthdir
  <2>2. CASE BinAuth
    <3>1. http' = [http EXCEPT !.pc = "binauth", !.start = now]
      BY <1>9, <2>2 DEF HttpAuthdir
    <3>2. http' \in HttpThread
      BY <1>0, <3>1 DEF HttpThread, HttpPc
    <3>3. UNCHANGED listVars
      BY <2>1 DEF authVars
    <3>4. HttpOK' /\ PointerIsRequester' /\ HttpIdOK'
      BY <1>0, <2>1, <3>1, <3>3 DEF HttpThread, HttpOK, PointerIsRequester, HttpIdOK,
                                    listVars, PeerOf
    <3>5. QED
      BY <1>3, <2>1, <3>2, <3>4
  <2>3. CASE ~BinAuth
    <3>1. PICK id \in ReadId(http.node) :
            http' = [http EXCEPT !.pc = "auth", !.start = now, !.id = id,
                                 !.seconds = SessionTimeout]
      BY <1>9, <2>3 DEF HttpAuthdir
    <3>2. id \in Nat
      BY <1>0, <2>1 DEF ReadId, HttpOK, ListTypeOK, t_client
    <3>3. http' \in HttpThread
      BY <1>0, <3>1, <3>2, TimeAssumption DEF HttpThread, HttpPc
    <3>4. QED
      BY <1>0, <1>7, <2>1, <3>1, <3>3 DEF HttpThread
  <2>4. QED
    BY <2>2, <2>3
<1>10. CASE HttpBinauth
  <2>1. http.pc = "binauth" /\ UNCHANGED authVars
    BY <1>10 DEF HttpBinauth
  <2>2. ASSUME NEW id \in ReadId(http.node), NEW s \in BinSeconds \cup {SessionTimeout},
               http' = [http EXCEPT !.pc = "auth", !.id = id,
                                    !.seconds = IF s > 0 THEN s ELSE 0]
        PROVE  StepOK
    <3>1. id \in Nat
      BY <1>0, <2>1 DEF ReadId, HttpOK, ListTypeOK, t_client
    <3>2. (IF s > 0 THEN s ELSE 0) \in Nat
      BY TimeAssumption
    <3>3. http' \in HttpThread
      BY <1>0, <2>2, <3>1, <3>2 DEF HttpThread, HttpPc
    <3>4. QED
      BY <1>0, <1>7, <2>1, <2>2, <3>3 DEF HttpThread
  <2>3. QED
    BY <1>6, <1>10, <2>1, <2>2 DEF HttpBinauth
<1>11. CASE HttpDenydir
  <2>1. http.pc = "dispatch" /\ UNCHANGED authVars
    BY <1>11 DEF HttpDenydir
  <2>2. PICK id \in ReadId(http.node) : http' = [http EXCEPT !.pc = "deauth", !.id = id]
    BY <1>11 DEF HttpDenydir
  <2>3. id \in Nat
    BY <1>0, <2>1 DEF ReadId, HttpOK, ListTypeOK, t_client
  <2>4. http' \in HttpThread
    BY <1>0, <2>2, <2>3 DEF HttpThread, HttpPc
  <2>5. QED
    BY <1>0, <1>7, <2>1, <2>2, <2>4 DEF HttpThread
<1>12. CASE HttpAuth \/ HttpDeauth
  <2> DEFINE S == {k \in clients : heap[k].id = http.id}
  <2>1. EntriesKept(S) /\ MangleTypeOK' /\ MacListsTypeOK'
    BY <1>0, <1>2, <1>12, ChangeById DEF HttpAuth, HttpDeauth
  <2>2. \A k \in S \cap clients : PeerOf(k) = http.peer
    BY <1>0, <1>12 DEF HttpAuth, HttpDeauth, HttpIdOK
  <2>3. CASE http' = IdleHttp
    <3>1. client_id' = client_id
      BY <2>1 DEF EntriesKept
    <3>2. QED
      BY <1>4, <2>1, <2>2, <2>3, <3>1, HttpDone
  <2>4. CASE http' = [http EXCEPT !.pc = "session"] /\ http.pc = "auth"
    <3>1. http' \in HttpThread
      BY <1>0, <2>4 DEF HttpThread, HttpPc
    <3>2. \A k \in Node : heap'[k].peer = heap[k].peer
      BY <2>1 DEF EntriesKept, SameEntry
    <3>3. HttpOK' /\ PointerIsRequester' /\ HttpIdOK'
      BY <1>0, <2>1, <2>4, <3>2 DEF HttpOK, PointerIsRequester, HttpIdOK, PeerOf,
                                    HttpThread, EntriesKept
    <3>4. QED
      BY <1>4, <2>1, <2>2, <3>1, <3>3
  <2>5. QED
    BY <1>12, <2>3, <2>4 DEF HttpAuth, HttpDeauth
<1>13. CASE HttpSession
  <2> DEFINE e == IF http.seconds > 0 THEN http.start + http.seconds ELSE 0
             c == [heap[http.node] EXCEPT !.session_end = e]
  <2>1. http.node \in Node /\ heap[http.node] \in t_client /\ http.node # Null
    BY <1>0, <1>13, NullAssumption DEF HttpSession, HttpOK, ListTypeOK
  <2>2. e \in Nat
    BY <1>0 DEF HttpThread
  <2>3. c \in t_client /\ SameEntry(heap[http.node], c)
    BY <2>1, <2>2 DEF t_client, SameEntry
  <2>4. EntriesKept({http.node})
    BY <1>0, <1>13, <2>1, <2>3, SetEntryKeeps DEF HttpSession
  <2>5. HttpOK' /\ PointerIsRequester' /\ HttpIdOK' /\ http' \in HttpThread
    BY <1>13, <2>4, HttpDone DEF HttpSession, EntriesKept
  <2>6. MangleTypeOK' /\ MacListsTypeOK'
    BY <1>0, <1>13 DEF HttpSession, macVars, MangleTypeOK, MacListsTypeOK
  <2>7. PeerOf(http.node) = http.peer
    BY <1>0, <2>1 DEF PointerIsRequester
  <2>8. QED
    BY <1>4, <2>4, <2>5, <2>6, <2>7
<1>14. QED
  BY <1>5, <1>8, <1>9, <1>10, <1>11, <1>12, <1>13, HttpAddOK DEF Http

-------------------------------------------------------------------------------
LEMMA InitOK == Init => PortalInv
<1> SUFFICES ASSUME Init PROVE PortalInv
  OBVIOUS
<1>1. ListInv
  BY ListInitOK DEF Init
<1>2. MangleTypeOK /\ MacListsTypeOK
  BY DEF Init, ClientChainsInit, MacListsInit, MangleTypeOK, MacListsTypeOK
<1>3. ThreadsTypeOK
  BY DEF Init, ThreadsTypeOK, IdleHttp, HttpThread, HttpPc, IdleNdsctl, NdsctlThread,
         IdleTimer, TimerThread
<1>4. HttpOK /\ PointerIsRequester /\ HttpIdOK /\ NdsctlIdOK
  BY DEF Init, client_list_init, FreshHeap, IdleHttp, IdleNdsctl, HttpOK, PointerIsRequester,
         HttpIdOK, NdsctlIdOK
<1>5. QED
  BY <1>1, <1>2, <1>3, <1>4 DEF PortalInv

LEMMA NextOK == PortalInv /\ [Next]_vars => StepOK
<1> SUFFICES ASSUME PortalInv, [Next]_vars PROVE StepOK
  OBVIOUS
<1>1. CASE Tick \/ UNCHANGED vars
  <2>1. UNCHANGED authVars /\ UNCHANGED listVars /\ UNCHANGED <<http, ndsctl, timer>>
    BY <1>1 DEF Tick, vars, authVars
  <2>2. now' \in Nat
    BY <1>1 DEF Tick, vars, PortalInv, ThreadsTypeOK
  <2>3. ThreadsTypeOK'
    BY <2>1, <2>2 DEF PortalInv, ThreadsTypeOK
  <2>4. EntriesKept({})
    BY <2>1, UnchangedKeeps
  <2>5. QED
    BY <2>1, <2>3, <2>4, HttpSame, NdsctlSame, QuietStep
<1>2. QED
  BY <1>1, HttpStepOK, NdsctlStepOK, TimerStepOK DEF Next

(* The inductive invariant of the daemon. *)
THEOREM PortalInvariant == Spec => []PortalInv
<1>1. PortalInv /\ [Next]_vars => PortalInv'
  BY NextOK DEF StepOK
<1>2. QED
  BY <1>1, InitOK, PTL DEF Spec

(* Type correctness, for every configuration. *)
THEOREM TypeCorrect == Spec => []TypeOK
<1>1. PortalInv => TypeOK
  BY DEF PortalInv, TypeOK, AuthTypeOK, ListInv, ListCore, ThreadsTypeOK
<1>2. QED
  BY <1>1, PortalInvariant, PTL

(* The threads use the client list as it allows: every step of the daemon is *)
(* a step of ListSpec or leaves the list alone (client_list.c).              *)
THEOREM ListImplemented == Spec => ImplementsClientList
<1>1. PortalInv /\ [Next]_vars => [ListNext]_listVars
  BY NextOK DEF StepOK
<1>2. Init => client_list_init
  BY DEF Init
<1>3. QED
  BY <1>1, <1>2, PortalInvariant, PTL DEF Spec, ImplementsClientList, ListSpec

(* No two entries describe one host, although libmicrohttpd_cb looks the     *)
(* host up without the lock.                                                 *)
THEOREM PeersUnique == Spec => []UniquePeer
<1>1. ListInv => UniquePeer
  BY DEF ListInv, ListCore
<1>2. QED
  BY <1>1, ListImplemented, ListCorrect, PTL DEF ImplementsClientList

(* An id names one entry for ever, freed entries included. *)
THEOREM IdsUnique == Spec => []UniqueId
<1>1. ListInv => UniqueId
  BY DEF ListInv, ListCore
<1>2. QED
  BY <1>1, ListImplemented, ListCorrect, PTL DEF ImplementsClientList

(* client_count is the length of the list and stays within maxclients. *)
THEOREM CountCorrect == Spec => []CountMatches
<1>1. ListInv => CountMatches
  BY DEF ListInv
<1>2. QED
  BY <1>1, ListImplemented, ListCorrect, PTL DEF ImplementsClientList

(* The t_client pointer of a request is to the entry of the host that sent   *)
(* it, even after the timeout thread freed that entry.                       *)
THEOREM PointerCorrect == Spec => []PointerIsRequester
<1>1. PortalInv => PointerIsRequester
  BY DEF PortalInv
<1>2. QED
  BY <1>1, PortalInvariant, PTL

(* A request changes the state of no entry but the requester's, and ndsctl   *)
(* deauth of none but the one it looked up, although both act on an id they  *)
(* read before they had the lock.                                            *)
THEOREM RequesterOnly == Spec => ActsOnRequester
<1>1. PortalInv /\ [Next]_vars => [ActsOnRequesterStep]_vars
  BY NextOK DEF StepOK
<1>2. QED
  BY <1>1, PortalInvariant, PTL DEF Spec, ActsOnRequester
===============================================================================
