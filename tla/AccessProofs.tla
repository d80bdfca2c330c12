----------------------------- MODULE AccessProofs -----------------------------
(***************************************************************************)
(* The client list, the firewall and the MAC lists stay in step, whatever  *)
(* the three threads do to them and for every number of hosts.             *)
(*                                                                         *)
(* Every step of the daemon has one of five shapes as far as access is     *)
(* concerned (AccessStep); the invariants and the refinement of Admission  *)
(* are read off the shapes, not off the twenty actions.                    *)
(***************************************************************************)
EXTENDS PortalProofs, Firewall

(* The entries that hold access. *)
Authed == {n \in clients : StateOf(n) = FW_MARK_AUTHENTICATED}

Idles  == UNCHANGED <<rules, clients>> /\ Authed' = Authed
Met(n) ==
    /\ n \in Node \ clients
    /\ clients' = clients \cup {n}
    /\ PeerOf(n)' \in Peer \ known
    /\ UNCHANGED rules
    /\ Authed' = Authed
Left(n) ==
    /\ n \in clients \ Authed
    /\ clients' = clients \ {n}
    /\ UNCHANGED rules
    /\ Authed' = Authed
Granted(n) ==
    /\ n \in clients \ Authed
    /\ UNCHANGED clients
    /\ iptables_fw_authenticate(PeerOf(n))
    /\ Authed' = Authed \cup {n}
Revoked(n) ==
    /\ n \in Authed
    /\ clients' \in {clients, clients \ {n}}
    /\ iptables_fw_deauthenticate(PeerOf(n))
    /\ Authed' = Authed \ {n}

(* No entry on the list is renamed, and one entry at most is concerned. *)
AccessStep ==
    /\ \A k \in clients : PeerOf(k)' = PeerOf(k)
    /\ Idles \/ \E n \in Node : Met(n) \/ Left(n) \/ Granted(n) \/ Revoked(n)

(* One MAC goes on one list or leaves it, or nothing happens to the lists. *)
MacStep ==
    \/ UNCHANGED macVars
    \/ \E l \in MacListName, mac \in Mac :
          auth_client_list(l, mac) \/ auth_client_unlist(l, mac)

-------------------------------------------------------------------------------
(* The shapes of the steps. *)

LEMMA UnchangedAccess ==
    ASSUME UNCHANGED authVars
    PROVE  AccessStep /\ MacStep
BY DEF authVars, listVars, AccessStep, Idles, Authed, StateOf, PeerOf, MacStep

(* An entry is written and keeps its peer and its state. *)
LEMMA WrittenAccess ==
    ASSUME ListTypeOK, UNCHANGED <<clients, rules, macVars>>,
           \A k \in Node : heap'[k].peer = heap[k].peer /\ StateOf(k)' = StateOf(k)
    PROVE  AccessStep /\ MacStep
<1>1. \A k \in clients : k \in Node
  BY DEF ListTypeOK
<1>2. Authed' = Authed
  BY <1>1 DEF Authed
<1>3. QED
  BY <1>1, <1>2 DEF AccessStep, Idles, PeerOf, MacStep

LEMMA CountersAccess ==
    ASSUME ListTypeOK, NEW time, NEW rc, iptables_fw_counters_update(time, rc)
    PROVE  AccessStep /\ MacStep
<1>1. PICK U, V : Credit(U, V, time)
  BY DEF iptables_fw_counters_update
<1>2. ASSUME NEW n \in Node
      PROVE  heap'[n].peer = heap[n].peer /\ StateOf(n)' = StateOf(n)
  <2> DEFINE u == IF n \in U THEN time ELSE heap[n].last_updated
             v == heap[n].over_limit \/ n \in V
  <2>1. heap[n] \in t_client
    BY DEF ListTypeOK
  <2>2. heap'[n] = [heap[n] EXCEPT !.last_updated = u, !.over_limit = v]
    BY <1>1 DEF Credit
  <2>3. QED
    BY <2>1, <2>2 DEF t_client, StateOf
<1>3. QED
  BY <1>1, <1>2, WrittenAccess DEF Credit

(* auth_change_state grants, revokes, or does nothing. *)
LEMMA ChangeAccess ==
    ASSUME ListCore, NEW n \in clients, NEW new_state, NEW time,
           auth_change_state(n, new_state, time)
    PROVE  AccessStep /\ MacStep
<1>1. /\ ListTypeOK /\ n \in Node /\ heap[n] \in t_client /\ clients \subseteq Node
      /\ PeerOf(n) \in Peer /\ MacOf(n) \in Mac
  BY DEF ListCore, ListTypeOK, EntriesHavePeer, PeerOf, MacOf, Peer
<1>2. CASE UNCHANGED authVars
  BY <1>2, UnchangedAccess
<1>3. CASE StateOf(n) = FW_MARK_PREAUTHENTICATED /\ Authenticate(n)
  <2>1. heap' = [heap EXCEPT ![n] = [heap[n] EXCEPT !.fw_connection_state =
                                                      FW_MARK_AUTHENTICATED]]
    BY <1>3 DEF Authenticate, SetEntry
  <2>2. /\ heap'[n].peer = heap[n].peer /\ StateOf(n)' = FW_MARK_AUTHENTICATED
        /\ \A k \in Node \ {n} : heap'[k] = heap[k]
    BY <1>1, <2>1 DEF ListTypeOK, t_client, StateOf
  <2>3. Granted(n)
    BY <1>1, <1>3, <2>2 DEF Granted, Authenticate, SetEntry, Authed, StateOf,
          FW_MARK_AUTHENTICATED, FW_MARK_PREAUTHENTICATED
  <2>4. QED
    BY <1>1, <1>3, <2>2, <2>3 DEF AccessStep, MacStep, Authenticate, PeerOf
<1>4. CASE StateOf(n) = FW_MARK_AUTHENTICATED /\ Deauthenticate(n, time)
  <2> DEFINE c == [client_reset(heap[n], time) EXCEPT
                      !.fw_connection_state = FW_MARK_PREAUTHENTICATED]
  <2>1. heap' = [heap EXCEPT ![n] = c]
    BY <1>4 DEF Deauthenticate, SetEntry
  <2>2. c.peer = heap[n].peer /\ c.fw_connection_state = FW_MARK_PREAUTHENTICATED
    BY <1>1 DEF t_client, client_reset
  <2>3. /\ heap'[n].peer = heap[n].peer /\ StateOf(n)' = FW_MARK_PREAUTHENTICATED
        /\ \A k \in Node \ {n} : heap'[k] = heap[k]
    BY <1>1, <2>1, <2>2 DEF ListTypeOK, StateOf
  <2>4. Revoked(n)
    BY <1>1, <1>4, <2>3 DEF Revoked, Deauthenticate, SetEntry, Authed, StateOf,
          FW_MARK_AUTHENTICATED, FW_MARK_PREAUTHENTICATED
  <2>5. QED
    BY <1>1, <1>4, <2>3, <2>4 DEF AccessStep, MacStep, Deauthenticate, PeerOf
<1>5. CASE StateOf(n) = FW_MARK_AUTHENTICATED /\ DeauthenticateAndBlock(n)
  <2>1. clients' = clients \ {n} /\ heap' = heap
    BY <1>5 DEF DeauthenticateAndBlock, client_list_delete
  <2>2. Revoked(n)
    BY <1>5, <2>1 DEF Revoked, DeauthenticateAndBlock, Authed, StateOf
  <2>3. MacStep
    BY <1>1, <1>5 DEF MacStep, DeauthenticateAndBlock, MacListName
  <2>4. QED
    BY <1>1, <2>1, <2>2, <2>3 DEF AccessStep, PeerOf
<1>6. QED
  BY <1>2, <1>3, <1>4, <1>5
     DEF auth_change_state, CanChange, FW_MARK_AUTHENTICATED,
         FW_MARK_PREAUTHENTICATED, FW_MARK_BLOCKED

LEMMA ByIdAccess ==
    ASSUME ListCore, NEW id, NEW new_state, NEW time, AuthById(id, new_state, time)
    PROVE  AccessStep /\ MacStep
<1> DEFINE n == client_list_find_by_id(id)
<1>1. CASE n # Null /\ auth_change_state(n, new_state, time)
  <2>1. n \in clients
    BY <1>1, FindById DEF ListCore
  <2>2. QED
    BY <1>1, <2>1, ChangeAccess
<1>2. QED
  BY <1>1, UnchangedAccess DEF AuthById

LEMMA HttpAddAccess ==
    ASSUME ListCore, HttpOK, HttpAdd
    PROVE  AccessStep /\ MacStep
<1>1. ListTypeOK /\ clients \subseteq Node /\ http.peer \in Peer
  BY DEF ListCore, ListTypeOK, HttpOK, HttpAdd
<1> DEFINE state == InitialMark(http.peer[1])
<1>2. PICK n \in Node : /\ n \in clients => ListFull
                        /\ client_list_add_client(n, http.peer, state, now)
  BY DEF HttpAdd
<1>3. CASE UNCHANGED listVars
  <2>1. UNCHANGED authVars
    BY <1>3 DEF HttpAdd, authVars, macVars
  <2>2. QED
    BY <2>1, UnchangedAccess
<1>4. CASE /\ client_list_find(http.peer) = Null /\ ~ListFull
           /\ client_list_append(n, http.peer, state, now)
  <2>1. n \in Node \ clients
    BY <1>2, <1>4
  <2>2. /\ heap' = [heap EXCEPT ![n] = NewClient(http.peer, client_id, state, now)]
        /\ clients' = clients \cup {n}
    BY <1>4 DEF client_list_append
  <2>3. /\ PeerOf(n)' = http.peer /\ StateOf(n)' = state
        /\ \A k \in clients : heap'[k] = heap[k]
    BY <1>1, <2>1, <2>2 DEF NewClient, PeerOf, StateOf, ListTypeOK
  <2>4. state # FW_MARK_AUTHENTICATED
    BY DEF InitialMark, FW_MARK_AUTHENTICATED, FW_MARK_BLOCKED, FW_MARK_TRUSTED,
           FW_MARK_PREAUTHENTICATED
  <2>5. Authed' = Authed
    BY <2>2, <2>3, <2>4 DEF Authed, StateOf
  <2>6. http.peer \notin known
    BY <1>1, <1>4, FindNull DEF known
  <2>7. Met(n)
    BY <1>1, <2>1, <2>2, <2>3, <2>5, <2>6 DEF Met, HttpAdd
  <2>8. QED
    BY <2>1, <2>3, <2>7 DEF AccessStep, MacStep, PeerOf, HttpAdd
<1>5. QED
  BY <1>2, <1>3, <1>4 DEF client_list_add_client

LEMMA HttpAccess ==
    ASSUME ListCore, HttpOK, Http
    PROVE  AccessStep /\ MacStep
<1>1. ListTypeOK
  BY DEF ListCore
<1>2. CASE UNCHANGED authVars
  BY <1>2, UnchangedAccess
<1>3. CASE HttpAuth \/ HttpDeauth
  BY <1>1, <1>3, ByIdAccess DEF HttpAuth, HttpDeauth
<1>4. CASE HttpSession
  <2> DEFINE e == IF http.seconds > 0 THEN http.start + http.seconds ELSE 0
             c == [heap[http.node] EXCEPT !.session_end = e]
  <2>1. http.node \in Node /\ heap[http.node] \in t_client
    BY <1>1, <1>4 DEF HttpSession, HttpOK, ListTypeOK
  <2>2. heap' = [heap EXCEPT ![http.node] = c]
    BY <1>4 DEF HttpSession, SetEntry
  <2>3. c.peer = heap[http.node].peer
        /\ c.fw_connection_state = heap[http.node].fw_connection_state
    BY <2>1 DEF t_client
  <2>4. \A k \in Node : heap'[k].peer = heap[k].peer /\ StateOf(k)' = StateOf(k)
    BY <1>1, <2>1, <2>2, <2>3 DEF ListTypeOK, StateOf
  <2>5. QED
    BY <1>1, <1>4, <2>4, WrittenAccess DEF HttpSession, SetEntry, macVars
<1>5. QED
  BY <1>2, <1>3, <1>4, HttpAddAccess
     DEF Http, HttpRequest, HttpServePage, HttpAuthdir, HttpBinauth, HttpDenydir

LEMMA NdsctlAccess ==
    ASSUME ListCore, Ndsctl
    PROVE  AccessStep /\ MacStep
<1>1. ListTypeOK
  BY DEF ListCore
<1>2. ASSUME NEW arg \in ClientArg, NdsctlAuth(arg)
      PROVE  AccessStep /\ MacStep
  BY <1>1, <1>2, ByIdAccess DEF NdsctlAuth
<1>3. ASSUME NEW arg \in ClientArg, NdsctlDeauthFind(arg)
      PROVE  AccessStep /\ MacStep
  BY <1>3, UnchangedAccess DEF NdsctlDeauthFind
<1>4. CASE NdsctlDeauth
  BY <1>1, <1>4, ByIdAccess DEF NdsctlDeauth
<1>5. ASSUME NEW l \in MacListName, NEW mac \in AdminMac,
             NdsctlList(l, mac) \/ NdsctlUnlist(l, mac)
      PROVE  AccessStep /\ MacStep
  <2>1. MacStep
    BY <1>5, TimeAssumption DEF NdsctlList, NdsctlUnlist, MacStep
  <2>2. UNCHANGED <<heap, clients, rules>>
    BY <1>5 DEF NdsctlList, NdsctlUnlist, listVars
  <2>3. AccessStep
    BY <2>2 DEF AccessStep, Idles, Authed, StateOf, PeerOf
  <2>4. QED
    BY <2>1, <2>3
<1>6. CASE NdsctlStatus
  BY <1>1, <1>6, CountersAccess DEF NdsctlStatus
<1>7. QED
  BY <1>2, <1>3, <1>4, <1>5, <1>6 DEF Ndsctl

LEMMA TimerAccess ==
    ASSUME ListCore, Timer
    PROVE  AccessStep /\ MacStep
<1>1. ListTypeOK
  BY DEF ListCore
<1>2. CASE UNCHANGED authVars
  BY <1>2, UnchangedAccess
<1>3. CASE TimerCounters \/ TimerCountersFail
  BY <1>1, <1>3, CountersAccess DEF TimerCounters, TimerCountersFail
<1>4. CASE TimerStep
  <2> DEFINE n == client_list_find_by_id(heap[timer.node].id)
  <2>1. CASE n # Null /\ CheckClient(n)
    <3>1. n \in clients /\ n \in Node
      BY <1>1, <2>1, FindById DEF ListTypeOK
    <3>2. CASE \E s : auth_change_state(n, s, now)
      BY <1>1, <3>1, <3>2, ChangeAccess
    <3>3. CASE /\ PreauthIdle(heap[n]) /\ client_list_delete(n)
               /\ UNCHANGED <<rules, macVars>>
      <4>1. n \notin Authed
        BY <3>3 DEF PreauthIdle, Authed, StateOf, FW_MARK_PREAUTHENTICATED,
                    FW_MARK_AUTHENTICATED
      <4>2. clients' = clients \ {n} /\ heap' = heap
        BY <3>3 DEF client_list_delete
      <4>3. Left(n)
        BY <3>1, <3>3, <4>1, <4>2 DEF Left, Authed, StateOf
      <4>4. QED
        BY <3>1, <3>3, <4>2, <4>3 DEF AccessStep, MacStep, PeerOf
    <3>4. QED
      BY <1>2, <2>1, <3>2, <3>3 DEF CheckClient
  <2>2. QED
    BY <1>2, <1>4, <2>1 DEF TimerStep
<1>5. QED
  BY <1>2, <1>3, <1>4 DEF Timer, TimerWake, TimerLock, TimerUnlock

(* Every step of the daemon, for every configuration and every fault. *)
LEMMA NextAccess == PortalInv /\ [Next]_vars => AccessStep /\ MacStep
<1> SUFFICES ASSUME PortalInv, [Next]_vars PROVE AccessStep /\ MacStep
  OBVIOUS
<1>1. CASE Tick \/ UNCHANGED vars
  BY <1>1, UnchangedAccess DEF Tick, vars
<1>2. QED
  BY <1>1, HttpAccess, NdsctlAccess, TimerAccess DEF Next, PortalInv, ListInv

-------------------------------------------------------------------------------
(* The MAC lists and their rules. *)

(* What a step does to a MAC, its place on a list and its rule. *)
LEMMA MacStepAt ==
    ASSUME maclist \in [MacListName -> SUBSET Mac], MacStep,
           NEW k \in MacListName, NEW m \in Mac, <<k, m>> \in DOMAIN macrules
    PROVE  LET x == macrules[<<k, m>>]
               y == macrules'[<<k, m>>]
           IN  \/ (m \in maclist'[k] <=> m \in maclist[k]) /\ y = x
               \/ /\ m \notin maclist[k] /\ m \in maclist'[k]
                  /\ y \in {x, x + 1} /\ ("append" \notin Faults => y = x + 1)
               \/ /\ m \in maclist[k] /\ m \notin maclist'[k]
                  /\ "delete" \notin Faults => y = IF x > 0 THEN x - 1 ELSE x
<1>1. CASE UNCHANGED macVars
  BY <1>1 DEF macVars
<1>2. ASSUME NEW l \in MacListName, NEW mac \in Mac,
             add_to_mac_list(l, mac) /\ iptables_list_mac(l, mac)
      PROVE  \/ (m \in maclist'[k] <=> m \in maclist[k])
                /\ macrules'[<<k, m>>] = macrules[<<k, m>>]
             \/ /\ m \notin maclist[k] /\ m \in maclist'[k]
                /\ macrules'[<<k, m>>] \in {macrules[<<k, m>>], macrules[<<k, m>>] + 1}
                /\ "append" \notin Faults => macrules'[<<k, m>>] = macrules[<<k, m>>] + 1
  <2>1. PICK B \in Appended({<<l, mac>>}) : macrules' = Plus(macrules, B)
    BY <1>2 DEF iptables_list_mac
  <2>2. B \subseteq {<<l, mac>>} /\ ("append" \notin Faults => B = {<<l, mac>>})
    BY <2>1 DEF Appended
  <2>3. macrules'[<<k, m>>] = IF <<k, m>> \in B THEN macrules[<<k, m>>] + 1
                              ELSE macrules[<<k, m>>]
    BY <2>1 DEF Plus
  <2>4. /\ mac \notin maclist[l]
        /\ maclist'[k] = IF k = l THEN maclist[l] \cup {mac} ELSE maclist[k]
    BY <1>2 DEF add_to_mac_list
  <2>5. QED
    BY <2>2, <2>3, <2>4
<1>3. ASSUME NEW l \in MacListName, NEW mac \in Mac,
             remove_from_mac_list(l, mac) /\ iptables_unlist_mac(l, mac)
      PROVE  \/ (m \in maclist'[k] <=> m \in maclist[k])
                /\ macrules'[<<k, m>>] = macrules[<<k, m>>]
             \/ /\ m \in maclist[k] /\ m \notin maclist'[k]
                /\ "delete" \notin Faults =>
                      macrules'[<<k, m>>] = IF macrules[<<k, m>>] > 0
                                            THEN macrules[<<k, m>>] - 1
                                            ELSE macrules[<<k, m>>]
  <2>1. PICK D \in Deleted({<<l, mac>>}, macrules) : macrules' = Minus(macrules, D)
    BY <1>3 DEF iptables_unlist_mac
  <2>2. D \subseteq {<<l, mac>>} /\ ("delete" \notin Faults => D = {<<l, mac>>})
    BY <2>1 DEF Deleted
  <2>3. macrules'[<<k, m>>] = IF <<k, m>> \in D /\ macrules[<<k, m>>] > 0
                              THEN macrules[<<k, m>>] - 1 ELSE macrules[<<k, m>>]
    BY <2>1 DEF Minus
  <2>4. /\ mac \in maclist[l]
        /\ maclist'[k] = IF k = l THEN maclist[l] \ {mac} ELSE maclist[k]
    BY <1>3 DEF remove_from_mac_list
  <2>5. QED
    BY <2>2, <2>3, <2>4
<1>4. QED
  BY <1>1, <1>2, <1>3 DEF MacStep, auth_client_list, auth_client_unlist

(* While no iptables command fails, a MAC has one rule for each list it is   *)
(* on and none for the others, although the timeout thread blocks MACs while *)
(* ndsctl blocks and unblocks them (auth_client_block, auth_client_unblock). *)
THEOREM MacRulesCorrect ==
    ASSUME Faults = {}
    PROVE  Spec => []MacRulesMatch
<1>1. Init => MacRulesMatch
  BY DEF Init, MacListsInit, MacRulesMatch
<1>2. PortalInv /\ MacRulesMatch /\ [Next]_vars => MacRulesMatch'
  <2> SUFFICES ASSUME PortalInv, MacRulesMatch, [Next]_vars,
                      NEW k \in MacListName, NEW m \in Mac
               PROVE  macrules'[<<k, m>>] = IF m \in maclist'[k] THEN 1 ELSE 0
    BY DEF MacRulesMatch
  <2>1. MacStep /\ maclist \in [MacListName -> SUBSET Mac] /\ <<k, m>> \in DOMAIN macrules
    BY NextAccess DEF PortalInv, MacListsTypeOK
  <2>2. macrules[<<k, m>>] = IF m \in maclist[k] THEN 1 ELSE 0
    BY DEF MacRulesMatch
  <2>3. QED
    BY <2>1, <2>2, MacStepAt
<1>3. QED
  BY <1>1, <1>2, PortalInvariant, PTL DEF Spec

(* The same one-sided, for runs in which -A may fail: a MAC without a place  *)
(* on a list has no rule of it.                                              *)
MacRulesOnlyListed ==
    \A l \in MacListName, m \in Mac :
       macrules[<<l, m>>] <= IF m \in maclist[l] THEN 1 ELSE 0

LEMMA NoStrayMacRules ==
    ASSUME "delete" \notin Faults
    PROVE  Spec => []MacRulesOnlyListed
<1>1. Init => MacRulesOnlyListed
  BY DEF Init, MacListsInit, MacRulesOnlyListed
<1>2. PortalInv /\ MacRulesOnlyListed /\ [Next]_vars => MacRulesOnlyListed'
  <2> SUFFICES ASSUME PortalInv, MacRulesOnlyListed, [Next]_vars,
                      NEW k \in MacListName, NEW m \in Mac
               PROVE  macrules'[<<k, m>>] <= IF m \in maclist'[k] THEN 1 ELSE 0
    BY DEF MacRulesOnlyListed
  <2>1. /\ MacStep /\ maclist \in [MacListName -> SUBSET Mac]
        /\ <<k, m>> \in DOMAIN macrules /\ macrules[<<k, m>>] \in Nat
    BY NextAccess DEF PortalInv, MacListsTypeOK
  <2>2. macrules[<<k, m>>] <= IF m \in maclist[k] THEN 1 ELSE 0
    BY DEF MacRulesOnlyListed
  <2>3. QED
    BY <2>1, <2>2, MacStepAt
<1>3. QED
  BY <1>1, <1>2, PortalInvariant, PTL DEF Spec

-------------------------------------------------------------------------------
(* The rules of the clients. *)

LEMMA OwnersFinite ==
    ASSUME ListCore, NEW r
    PROVE  /\ Owners(r) = {n \in Authed : r \in ClientRules(PeerOf(n))}
           /\ IsFiniteSet(Owners(r)) /\ Cardinality(Owners(r)) \in Nat
<1>1. Owners(r) = {n \in Authed : r \in ClientRules(PeerOf(n))}
  BY DEF ListCore, ListTypeOK, Owners, IsAuthenticated, Authed
<1>2. Owners(r) \in SUBSET clients
  BY DEF Owners, IsAuthenticated
<1>3. QED
  BY <1>1, <1>2, FS_Subset, FS_CardinalityType DEF ListCore

(* How a step changes the number of owners of a rule. *)
LEMMA OwnersStep ==
    ASSUME ListCore, ListCore', AccessStep, NEW r
    PROVE  /\ Authed' = Authed => Owners(r)' = Owners(r)
           /\ \A n \in Node : Granted(n) =>
                 Cardinality(Owners(r))' =
                    IF r \in ClientRules(PeerOf(n)) THEN Cardinality(Owners(r)) + 1
                    ELSE Cardinality(Owners(r))
           /\ \A n \in Node : Revoked(n) =>
                 /\ Cardinality(Owners(r))' =
                       IF r \in ClientRules(PeerOf(n)) THEN Cardinality(Owners(r)) - 1
                       ELSE Cardinality(Owners(r))
                 /\ r \in ClientRules(PeerOf(n)) => Cardinality(Owners(r)) > 0
<1> DEFINE O(S) == {n \in S : r \in ClientRules(PeerOf(n))}
<1>1. Owners(r) = O(Authed) /\ IsFiniteSet(Owners(r)) /\ Cardinality(Owners(r)) \in Nat
  BY OwnersFinite
<1>2. /\ Owners(r)' = {n \in Authed' : r \in ClientRules(PeerOf(n)')}
      /\ Cardinality(Owners(r)') \in Nat
  <2>1. /\ Owners(r)' = {n \in clients' : StateOf(n)' = FW_MARK_AUTHENTICATED /\ r \in ClientRules(PeerOf(n)')}
        /\ Owners(r)' \in SUBSET clients'
    BY DEF ListCore, ListTypeOK, Owners, IsAuthenticated, ClientRules, OutgoingMark,
           IncomingMark, IncomingAccept, MacOfPeer, IpOfPeer
  <2>2. Cardinality(Owners(r)') \in Nat
    BY <2>1, FS_Subset, FS_CardinalityType DEF ListCore
  <2>3. QED
    BY <2>1, <2>2 DEF Authed
<1>3. \A n \in clients : PeerOf(n)' = PeerOf(n)
  BY DEF AccessStep
<1>4. Authed' \subseteq clients => Owners(r)' = O(Authed')
  BY <1>2, <1>3
<1>5. Authed \subseteq clients
  BY DEF Authed
<1>6. ASSUME Authed' = Authed PROVE Owners(r)' = Owners(r)
  BY <1>1, <1>4, <1>5, <1>6
<1>7. ASSUME NEW n \in Node, Granted(n)
      PROVE  Cardinality(Owners(r))' =
                    IF r \in ClientRules(PeerOf(n)) THEN Cardinality(Owners(r)) + 1
                    ELSE Cardinality(Owners(r))
  <2>1. Owners(r)' = O(Authed \cup {n}) /\ n \notin O(Authed)
    BY <1>4, <1>5, <1>7 DEF Granted
  <2>2. CASE r \in ClientRules(PeerOf(n))
    <3>1. Owners(r)' = Owners(r) \cup {n}
      BY <1>1, <2>1, <2>2
    <3>2. QED
      BY <1>1, <2>1, <2>2, <3>1, FS_AddElement
  <2>3. CASE r \notin ClientRules(PeerOf(n))
    BY <1>1, <2>1, <2>3
  <2>4. QED
    BY <2>2, <2>3
<1>8. ASSUME NEW n \in Node, Revoked(n)
      PROVE  /\ Cardinality(Owners(r))' =
                       IF r \in ClientRules(PeerOf(n)) THEN Cardinality(Owners(r)) - 1
                       ELSE Cardinality(Owners(r))
             /\ r \in ClientRules(PeerOf(n)) => Cardinality(Owners(r)) > 0
  <2>1. Owners(r)' = O(Authed \ {n}) /\ n \in Authed
    BY <1>4, <1>5, <1>8 DEF Revoked
  <2>2. CASE r \in ClientRules(PeerOf(n))
    <3>1. Owners(r)' = Owners(r) \ {n} /\ n \in Owners(r)
      BY <1>1, <2>1, <2>2
    <3>2. Cardinality(Owners(r)') = Cardinality(Owners(r)) - 1
      BY <1>1, <3>1, FS_RemoveElement
    <3>3. QED
      BY <1>1, <1>2, <2>2, <3>2
  <2>3. CASE r \notin ClientRules(PeerOf(n))
    BY <1>1, <2>1, <2>3
  <2>4. QED
    BY <2>2, <2>3
<1>9. QED
  BY <1>6, <1>7, <1>8

(* What the firewall calls do to the copies of a rule, under which faults. *)
LEMMA RulesStep ==
    ASSUME NEW r \in DOMAIN rules, NEW peer
    PROVE  /\ iptables_fw_authenticate(peer) =>
                 \/ rules'[r] = rules[r]
                 \/ r \in ClientRules(peer) /\ rules'[r] = rules[r] + 1
           /\ iptables_fw_authenticate(peer) /\ "append" \notin Faults =>
                 rules'[r] = IF r \in ClientRules(peer) THEN rules[r] + 1 ELSE rules[r]
           /\ iptables_fw_deauthenticate(peer) /\ "delete" \notin Faults =>
                 rules'[r] = IF r \in ClientRules(peer) /\ rules[r] > 0
                             THEN rules[r] - 1 ELSE rules[r]
<1>1. ASSUME iptables_fw_authenticate(peer)
      PROVE  /\ \/ rules'[r] = rules[r]
                \/ r \in ClientRules(peer) /\ rules'[r] = rules[r] + 1
             /\ "append" \notin Faults =>
                 rules'[r] = IF r \in ClientRules(peer) THEN rules[r] + 1 ELSE rules[r]
  <2>1. PICK B \in Appended(ClientRules(peer)) : rules' = Plus(rules, B)
    BY <1>1 DEF iptables_fw_authenticate
  <2>2. B \subseteq ClientRules(peer)
    BY DEF Appended
  <2>3. "append" \notin Faults => B = ClientRules(peer)
    BY DEF Appended
  <2>4. rules'[r] = IF r \in B THEN rules[r] + 1 ELSE rules[r]
    BY <2>1 DEF Plus
  <2>5. QED
    BY <2>2, <2>3, <2>4
<1>2. ASSUME iptables_fw_deauthenticate(peer), "delete" \notin Faults
      PROVE  rules'[r] = IF r \in ClientRules(peer) /\ rules[r] > 0
                         THEN rules[r] - 1 ELSE rules[r]
  <2>1. rules' = Minus(rules, ClientRules(peer))
    BY <1>2 DEF iptables_fw_deauthenticate, Deleted
  <2>2. QED
    BY <2>1 DEF Minus
<1>3. QED
  BY <1>1, <1>2

LEMMA OwnersInit ==
    ASSUME Init, NEW r \in Rule
    PROVE  rules[r] = 0 /\ Cardinality(Owners(r)) = 0
<1>1. Owners(r) = {}
  BY DEF Init, client_list_init, Owners, IsAuthenticated
<1>2. QED
  BY <1>1, FS_EmptySet DEF Init, ClientChainsInit

(* No step gives a rule more copies than owners. *)
LEMMA StrayStep ==
    ASSUME "delete" \notin Faults, ListCore, ListCore', AccessStep,
           NEW r \in DOMAIN rules, rules[r] \in Nat, rules[r] <= Cardinality(Owners(r))
    PROVE  rules'[r] <= Cardinality(Owners(r))'
<1>1. Cardinality(Owners(r)) \in Nat
  BY OwnersFinite
<1>2. CASE UNCHANGED rules /\ Authed' = Authed
  <2>1. Owners(r)' = Owners(r)
    BY <1>2, OwnersStep
  <2>2. QED
    BY <1>1, <1>2, <2>1
<1>3. ASSUME NEW n \in Node, Granted(n)
      PROVE  rules'[r] <= Cardinality(Owners(r))'
  <2>1. \/ rules'[r] = rules[r]
        \/ r \in ClientRules(PeerOf(n)) /\ rules'[r] = rules[r] + 1
    BY <1>3, RulesStep DEF Granted
  <2>2. Cardinality(Owners(r))' =
           IF r \in ClientRules(PeerOf(n)) THEN Cardinality(Owners(r)) + 1
           ELSE Cardinality(Owners(r))
    BY <1>3, OwnersStep
  <2>3. QED
    BY <1>1, <2>1, <2>2
<1>4. ASSUME NEW n \in Node, Revoked(n)
      PROVE  rules'[r] <= Cardinality(Owners(r))'
  <2>1. rules'[r] = IF r \in ClientRules(PeerOf(n)) /\ rules[r] > 0
                    THEN rules[r] - 1 ELSE rules[r]
    BY <1>4, RulesStep DEF Revoked
  <2>2. /\ Cardinality(Owners(r))' =
              IF r \in ClientRules(PeerOf(n)) THEN Cardinality(Owners(r)) - 1
              ELSE Cardinality(Owners(r))
        /\ r \in ClientRules(PeerOf(n)) => Cardinality(Owners(r)) > 0
    BY <1>4, OwnersStep
  <2>3. QED
    BY <1>1, <2>1, <2>2
<1>5. QED
  BY <1>2, <1>3, <1>4 DEF AccessStep, Idles, Met, Left

(* Every rule of the OUTGOING and INCOMING chains belongs to an              *)
(* authenticated entry, as many copies as entries at most, even when         *)
(* iptables -A fails: iptables_fw_deauthenticate runs on every path on which *)
(* an authenticated entry is blocked, logged out or times out.               *)
THEOREM NoStrayRules ==
    ASSUME "delete" \notin Faults
    PROVE  Spec => []RulesOnlyForClients
<1>1. Init => RulesOnlyForClients
  BY OwnersInit DEF RulesOnlyForClients
<1>2. PortalInv /\ RulesOnlyForClients /\ [Next]_vars => RulesOnlyForClients'
  <2> SUFFICES ASSUME PortalInv, RulesOnlyForClients, [Next]_vars, NEW r \in Rule
               PROVE  rules'[r] <= Cardinality(Owners(r))'
    BY DEF RulesOnlyForClients
  <2>1. ListInv /\ ListInv' /\ AccessStep /\ MangleTypeOK
    BY NextOK, NextAccess DEF StepOK, PortalInv
  <2>2. r \in DOMAIN rules /\ rules[r] \in Nat /\ rules[r] <= Cardinality(Owners(r))
    BY <2>1 DEF RulesOnlyForClients, MangleTypeOK
  <2>3. QED
    BY <2>1, <2>2, StrayStep DEF ListInv
<1>3. QED
  BY <1>1, <1>2, PortalInvariant, PTL DEF Spec

(* The firewall and the client list agree exactly while no iptables command  *)
(* fails: a rule has one copy for every authenticated entry it belongs to,   *)
(* so no path authenticates twice or forgets a deauthentication.             *)
THEOREM RulesCorrect ==
    ASSUME Faults = {}
    PROVE  Spec => []RulesMatchClients
<1>1. Init => RulesMatchClients
  BY OwnersInit DEF RulesMatchClients
<1>2. PortalInv /\ RulesMatchClients /\ [Next]_vars => RulesMatchClients'
  <2> SUFFICES ASSUME PortalInv, RulesMatchClients, [Next]_vars, NEW r \in Rule
               PROVE  rules'[r] = Cardinality(Owners(r))'
    BY DEF RulesMatchClients
  <2>1. ListCore /\ ListCore' /\ AccessStep /\ r \in DOMAIN rules
    BY NextOK, NextAccess DEF StepOK, PortalInv, ListInv, MangleTypeOK
  <2>2. rules[r] = Cardinality(Owners(r)) /\ rules[r] \in Nat
    BY DEF RulesMatchClients, PortalInv, MangleTypeOK
  <2>3. CASE UNCHANGED rules /\ Authed' = Authed
    <3>1. Owners(r)' = Owners(r)
      BY <2>1, <2>3, OwnersStep
    <3>2. QED
      BY <2>2, <2>3, <3>1
  <2>4. ASSUME NEW n \in Node, Granted(n)
        PROVE  rules'[r] = Cardinality(Owners(r))'
    <3>1. rules'[r] = IF r \in ClientRules(PeerOf(n)) THEN rules[r] + 1 ELSE rules[r]
      BY <2>1, <2>4, RulesStep DEF Granted
    <3>2. QED
      BY <2>1, <2>2, <2>4, <3>1, OwnersStep
  <2>5. ASSUME NEW n \in Node, Revoked(n)
        PROVE  rules'[r] = Cardinality(Owners(r))'
    <3>1. rules'[r] = IF r \in ClientRules(PeerOf(n)) /\ rules[r] > 0
                      THEN rules[r] - 1 ELSE rules[r]
      BY <2>1, <2>5, RulesStep DEF Revoked
    <3>2. QED
      BY <2>1, <2>2, <2>5, <3>1, OwnersStep
  <2>6. QED
    BY <2>1, <2>3, <2>4, <2>5 DEF AccessStep, Idles, Met, Left
<1>3. QED
  BY <1>1, <1>2, PortalInvariant, PTL DEF Spec

-------------------------------------------------------------------------------
(* The abstract admission control. *)

(* The OUTGOING rule of a host is no other host's. *)
LEMMA OutgoingOfOne ==
    ASSUME NEW p \in Peer, NEW q \in Peer
    PROVE  /\ OutgoingMark(p[1], p[2]) \in ClientRules(q) <=> p = q
           /\ OutgoingMark(p[1], p[2]) \in Rule
<1>1. /\ p[1] \in Mac /\ p[2] \in Ip /\ p = <<p[1], p[2]>>
      /\ q[1] \in Mac /\ q[2] \in Ip /\ q = <<q[1], q[2]>>
  BY DEF Peer
<1>2. OutgoingMark(p[1], p[2]) \in Rule
  BY <1>1 DEF Rule
<1>3. /\ OutgoingMark(p[1], p[2]) # IncomingMark(q[2])
      /\ OutgoingMark(p[1], p[2]) # IncomingAccept(q[2])
  BY DEF OutgoingMark, IncomingMark, IncomingAccept
<1>4. OutgoingMark(p[1], p[2]) = OutgoingMark(q[1], q[2]) <=> p = q
  BY <1>1 DEF OutgoingMark
<1>5. QED
  BY <1>2, <1>3, <1>4 DEF ClientRules, MacOfPeer, IpOfPeer

(* Who passes has an authenticated entry, and one OUTGOING rule. *)
LEMMA AdmittedIsAuthed ==
    ASSUME PortalInv, RulesOnlyForClients, NEW p \in Peer
    PROVE  /\ p \in admitted => \E n \in Authed : PeerOf(n) = p
           /\ rules[OutgoingMark(p[1], p[2])] \in {0, 1}
<1> DEFINE r == OutgoingMark(p[1], p[2])
<1>1. ListCore /\ r \in Rule /\ rules[r] \in Nat /\ rules[r] <= Cardinality(Owners(r))
  BY OutgoingOfOne DEF PortalInv, ListInv, RulesOnlyForClients, MangleTypeOK
<1>2. Owners(r) = {n \in Authed : PeerOf(n) = p}
  <2>1. \A n \in Authed : PeerOf(n) \in Peer
    BY <1>1 DEF Authed, ListCore, EntriesHavePeer
  <2>2. QED
    BY <1>1, <2>1, OwnersFinite, OutgoingOfOne
<1>3. CASE Owners(r) = {}
  BY <1>1, <1>3, FS_EmptySet DEF admitted
<1>4. CASE Owners(r) # {}
  <2>1. PICK n \in Owners(r) : TRUE
    BY <1>4
  <2>2. Owners(r) = {n}
    BY <1>1, <1>2, <2>1 DEF Authed, ListCore, UniquePeer
  <2>3. Cardinality(Owners(r)) = 1
    BY <2>2, FS_Singleton
  <2>4. QED
    BY <1>1, <1>2, <2>1, <2>3
<1>5. QED
  BY <1>3, <1>4

(* known' when an entry leaves the list. *)
LEMMA KnownAfterLeaving ==
    ASSUME ListInv, NEW n \in clients, clients' = clients \ {n},
           \A k \in clients : PeerOf(k)' = PeerOf(k)
    PROVE  known' = known \ {PeerOf(n)}
<1>1. \A k \in clients : PeerOf(k) = PeerOf(n) => k = n
  BY DEF ListInv, ListCore, UniquePeer
<1>2. known' = {PeerOf(k)' : k \in clients'}
  BY DEF known, PeerOf
<1>3. QED
  BY <1>1, <1>2 DEF known

LEMMA StepAdmits ==
    ASSUME "delete" \notin Faults, PortalInv, RulesOnlyForClients, AccessStep
    PROVE  [A!Next]_<<known, admitted>>
<1>1. /\ ListInv /\ \A k \in clients : PeerOf(k)' = PeerOf(k)
      /\ DOMAIN rules = Rule
  BY DEF PortalInv, AccessStep, MangleTypeOK
<1>2. \A k \in clients : PeerOf(k) \in known /\ PeerOf(k) \in Peer
  BY <1>1 DEF known, ListInv, ListCore, EntriesHavePeer
<1>3. ASSUME clients' = clients PROVE known' = known
  BY <1>1, <1>3 DEF known, PeerOf
<1>4. ASSUME rules' = rules PROVE admitted' = admitted
  BY <1>4 DEF admitted
<1>5. ASSUME NEW n \in clients \ Authed PROVE PeerOf(n) \notin admitted
  BY <1>1, <1>2, AdmittedIsAuthed DEF Authed, ListInv, ListCore, UniquePeer
<1>6. ASSUME NEW n \in Node, Met(n)
      PROVE  A!Meet(PeerOf(n)') /\ PeerOf(n)' \in Peer
  <2>1. known' = known \cup {PeerOf(n)'}
    BY <1>1, <1>6 DEF Met, known, PeerOf
  <2>2. QED
    BY <1>4, <1>6, <2>1 DEF Met, A!Meet
<1>7. ASSUME NEW n \in Node, Left(n)
      PROVE  A!Forget(PeerOf(n)) /\ PeerOf(n) \in Peer
  <2>1. known' = known \ {PeerOf(n)}
    BY <1>1, <1>7, KnownAfterLeaving DEF Left
  <2>2. QED
    BY <1>2, <1>4, <1>5, <1>7, <2>1 DEF Left, A!Forget
<1>8. ASSUME NEW n \in Node, Granted(n)
      PROVE  PeerOf(n) \in Peer
             /\ (A!Admit(PeerOf(n)) \/ UNCHANGED <<known, admitted>>)
  <2> DEFINE h == PeerOf(n)
  <2>1. h \in Peer /\ h \in known /\ h \notin admitted /\ known' = known
    BY <1>2, <1>3, <1>5, <1>8 DEF Granted
  <2>2. ASSUME NEW p \in Peer, p # h PROVE p \in admitted' <=> p \in admitted
    BY <1>1, <1>8, <2>1, <2>2, OutgoingOfOne, RulesStep DEF Granted, admitted
  <2>3. admitted' = admitted \/ admitted' = admitted \cup {h}
    BY <2>1, <2>2 DEF admitted
  <2>4. QED
    BY <2>1, <2>3 DEF A!Admit
<1>9. ASSUME NEW n \in Node, Revoked(n)
      PROVE  PeerOf(n) \in Peer
             /\ (\/ A!Dismiss(PeerOf(n)) \/ A!Ban(PeerOf(n)) \/ A!Forget(PeerOf(n))
                 \/ UNCHANGED <<known, admitted>>)
  <2> DEFINE h == PeerOf(n)
             r == OutgoingMark(h[1], h[2])
  <2>1. n \in clients /\ h \in Peer /\ h \in known
    BY <1>2, <1>9 DEF Revoked, Authed
  <2>2. ASSUME NEW p \in Peer, p # h PROVE p \in admitted' <=> p \in admitted
    BY <1>1, <1>9, <2>1, <2>2, OutgoingOfOne, RulesStep DEF Revoked, admitted
  <2>3. rules'[r] = 0
    <3>1. r \in Rule /\ r \in ClientRules(h) /\ rules[r] \in {0, 1}
      BY <2>1, OutgoingOfOne, AdmittedIsAuthed
    <3>2. QED
      BY <1>1, <1>9, <3>1, RulesStep DEF Revoked
  <2>4. admitted' = admitted \ {h}
    BY <2>1, <2>2, <2>3 DEF admitted
  <2>5. CASE clients' = clients
    BY <1>3, <2>1, <2>4, <2>5 DEF A!Dismiss
  <2>6. CASE clients' = clients \ {n}
    <3>1. known' = known \ {h}
      BY <1>1, <2>1, <2>6, KnownAfterLeaving
    <3>2. QED
      BY <2>1, <2>4, <3>1 DEF A!Ban, A!Forget
  <2>7. QED
    BY <1>9, <2>1, <2>5, <2>6 DEF Revoked
<1>10. ASSUME Idles PROVE UNCHANGED <<known, admitted>>
  BY <1>3, <1>4, <1>10 DEF Idles
<1>11. QED
  BY <1>6, <1>7, <1>8, <1>9, <1>10 DEF AccessStep, A!Next

(* The daemon implements the admission control of module Admission: no host  *)
(* passes the firewall before it has an entry, each decision concerns one    *)
(* host, and no entry is deleted while its host still passes, whichever -A   *)
(* commands fail.                                                            *)
THEOREM AdmissionImplemented ==
    ASSUME "delete" \notin Faults
    PROVE  Spec => ImplementsAdmission
<1>1. Init => A!Init
  <2> SUFFICES ASSUME Init PROVE known = {} /\ admitted = {}
    BY DEF A!Init
  <2>1. known = {}
    BY DEF Init, client_list_init, known
  <2>2. \A p \in Peer : rules[OutgoingMark(p[1], p[2])] = 0
    BY OutgoingOfOne DEF Init, ClientChainsInit
  <2>3. QED
    BY <2>1, <2>2 DEF admitted
<1>2. PortalInv /\ RulesOnlyForClients /\ [Next]_vars => [A!Next]_<<known, admitted>>
  BY NextAccess, StepAdmits
<1>3. QED
  BY <1>1, <1>2, PortalInvariant, NoStrayRules, PTL DEF Spec, ImplementsAdmission, A!Spec

-------------------------------------------------------------------------------
(* The verdict on a packet. *)

(* The mark of a packet follows from the lists and the client's state. *)
LEMMA MarkOfStranger ==
    ASSUME "delete" \notin Faults, PortalInv, RulesOnlyForClients, MacRulesOnlyListed,
           NEW p \in Peer, ~is_trusted_mac(p[1]),
           ~\E n \in clients : PeerOf(n) = p /\ IsAuthenticated(n)
    PROVE  /\ PacketMark(p) \in {{}, MarkBlocked}
           /\ MacMechanism = "MAC_BLOCK" /\ ~is_blocked_mac(p[1]) => PacketMark(p) = {}
<1>1. p[1] \in Mac
  BY DEF Peer
<1>2. rules[OutgoingMark(p[1], p[2])] = 0
  <2>1. p \notin admitted
    BY AdmittedIsAuthed DEF Authed, IsAuthenticated
  <2>2. QED
    BY <2>1, AdmittedIsAuthed DEF admitted
<1>3. \A l \in MacListName : macrules[<<l, p[1]>>] \in Nat
  BY <1>1 DEF PortalInv, MacListsTypeOK
<1>4. ~(macrules[<<"trusted", p[1]>>] > 0)
  BY <1>1, <1>3 DEF MacRulesOnlyListed, is_trusted_mac, MacListName
<1>5. MacMechanism = "MAC_BLOCK" /\ ~is_blocked_mac(p[1]) =>
         ~(macrules[<<"blocked", p[1]>>] > 0)
  BY <1>1, <1>3 DEF MacRulesOnlyListed, is_blocked_mac, MacListName
<1>6. Outgoing({}, p) = {}
  BY <1>2 DEF Outgoing, MacOfPeer, IpOfPeer
<1>7. /\ Blocked({}, p[1]) \in {{}, MarkBlocked}
      /\ MacMechanism = "MAC_BLOCK" /\ ~is_blocked_mac(p[1]) => Blocked({}, p[1]) = {}
  BY <1>5 DEF Blocked, SetMark
<1>8. PacketMark(p) = Blocked({}, p[1])
  BY <1>4, <1>6 DEF PacketMark, Trusted, MacOfPeer
<1>9. QED
  BY <1>7, <1>8

(* An unmarked packet has none of the marks, a packet marked blocked no other. *)
LEMMA HasMarkOf ==
    /\ \A x \in {MarkBlocked, MarkTrusted, MarkAuthenticated} :
          ~HasMark({}, x) /\ HasMark(x, x)
    /\ ~HasMark(MarkBlocked, MarkTrusted) /\ ~HasMark(MarkBlocked, MarkAuthenticated)
<1>1. \A x \in {MarkBlocked, MarkTrusted, MarkAuthenticated} :
         x # {} /\ x \cap FW_MARK_MASK = x
  BY MarkAssumption DEF FW_MARK_MASK
<1>2. QED
  BY <1>1, MarkAssumption DEF HasMark

(* Nobody passes without a grant: the rulesets of trusted and authenticated  *)
(* users see packets of trusted MACs and authenticated entries only,         *)
(* whatever marks the configuration chooses, however the kernel combines     *)
(* them and whichever -A commands fail (iptables_fw_init).                   *)
THEOREM OnlyGrantedCorrect ==
    ASSUME "delete" \notin Faults
    PROVE  Spec => []OnlyGrantedPass
<1>1. PortalInv /\ RulesOnlyForClients /\ MacRulesOnlyListed => OnlyGrantedPass
  <2> SUFFICES ASSUME PortalInv, RulesOnlyForClients, MacRulesOnlyListed, NEW p \in Peer,
                      ~is_trusted_mac(p[1]),
                      ~\E n \in clients : PeerOf(n) = p /\ IsAuthenticated(n)
               PROVE  ToInternet(PacketMark(p)) \notin {"trusted-users", "authenticated-users"}
    BY DEF OnlyGrantedPass
  <2>1. PacketMark(p) \in {{}, MarkBlocked}
    BY MarkOfStranger
  <2>2. QED
    BY <2>1, HasMarkOf DEF ToInternet
<1>2. QED
  BY <1>1, PortalInvariant, NoStrayRules, NoStrayMacRules, PTL

(* Under MAC_BLOCK whoever is neither trusted, blocked nor authenticated is  *)
(* redirected to the splash page and gets through to it, whatever it was     *)
(* before: no rule of an ended session or of a lifted block is left over.    *)
THEOREM PortalReachable ==
    ASSUME "delete" \notin Faults, MacMechanism = "MAC_BLOCK"
    PROVE  Spec => []OthersReachPortal
<1>1. PortalInv /\ RulesOnlyForClients /\ MacRulesOnlyListed => OthersReachPortal
  <2> SUFFICES ASSUME PortalInv, RulesOnlyForClients, MacRulesOnlyListed, NEW p \in Peer,
                      ~is_trusted_mac(p[1]), ~is_blocked_mac(p[1]),
                      ~\E n \in clients : PeerOf(n) = p /\ IsAuthenticated(n)
               PROVE  RedirectedToPortal(PacketMark(p)) /\ ReachesPortal(PacketMark(p))
    BY DEF OthersReachPortal
  <2>1. PacketMark(p) = {}
    BY MarkOfStranger
  <2>2. QED
    BY <2>1, HasMarkOf DEF RedirectedToPortal, ReachesPortal
<1>2. QED
  BY <1>1, PortalInvariant, NoStrayRules, NoStrayMacRules, PTL

(* The or of the two marks that grant access is one of them, as for the      *)
(* defaults 0x30000 and 0x20000; --set-mark keeps one of them anyway.        *)
GrantsCombine ==
    MarkOp = "--or-mark" =>
       MarkAuthenticated \cup MarkTrusted \in {MarkAuthenticated, MarkTrusted}

(* Under MAC_BLOCK an authenticated entry whose MAC is not blocked has       *)
(* access, trusted besides or not, while no iptables command fails: for      *)
(* every choice of marks in which the or of authenticated and trusted is one *)
(* of the two.                                                               *)
THEOREM AuthenticatedCorrect ==
    ASSUME Faults = {}, MacMechanism = "MAC_BLOCK", GrantsCombine
    PROVE  Spec => []AuthenticatedPass
<1>1. PortalInv /\ RulesMatchClients /\ MacRulesMatch => AuthenticatedPass
  <2> SUFFICES ASSUME PortalInv, RulesMatchClients, MacRulesMatch, NEW n \in clients,
                      IsAuthenticated(n), ~is_blocked_mac(MacOf(n))
               PROVE  ToInternet(PacketMark(PeerOf(n)))
                         \in {"trusted-users", "authenticated-users"}
    BY DEF AuthenticatedPass
  <2> DEFINE p == PeerOf(n)
             r == OutgoingMark(p[1], p[2])
  <2>1. p \in Peer /\ p[1] \in Mac /\ MacOf(n) = p[1] /\ ListCore /\ n \in Node
    BY DEF PortalInv, ListInv, ListCore, ListTypeOK, EntriesHavePeer, Peer, PeerOf, MacOf
  <2>2. rules[r] > 0
    <3>1. n \in Owners(r) /\ r \in Rule
      BY <2>1, OutgoingOfOne DEF Owners
    <3>2. Cardinality(Owners(r)) # 0
      BY <2>1, <3>1, OwnersFinite, FS_EmptySet
    <3>3. QED
      BY <2>1, <3>1, <3>2, OwnersFinite DEF RulesMatchClients
  <2>3. ~(macrules[<<"blocked", p[1]>>] > 0)
    BY <2>1 DEF MacRulesMatch, is_blocked_mac, MacListName
  <2>4. Outgoing({}, p) = MarkAuthenticated
    BY <2>2 DEF Outgoing, SetMark, MacOfPeer, IpOfPeer
  <2>5. Blocked(MarkAuthenticated, p[1]) = MarkAuthenticated
    BY <2>3 DEF Blocked
  <2>6. PacketMark(p) \in {MarkAuthenticated, MarkTrusted}
    BY <2>4, <2>5, MarkAssumption DEF PacketMark, Trusted, SetMark, MacOfPeer, GrantsCombine
  <2>7. ~HasMark(PacketMark(p), MarkBlocked)
    <3>1. MarkTrusted \cap FW_MARK_MASK = MarkTrusted
          /\ MarkAuthenticated \cap FW_MARK_MASK = MarkAuthenticated
      BY DEF FW_MARK_MASK
    <3>2. QED
      BY <2>6, <3>1, MarkAssumption DEF HasMark
  <2>8. QED
    BY <2>6, <2>7, HasMarkOf DEF ToInternet
<1>2. QED
  BY <1>1, PortalInvariant, RulesCorrect, MacRulesCorrect, PTL
===============================================================================
