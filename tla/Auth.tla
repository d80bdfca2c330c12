--------------------------------- MODULE Auth ---------------------------------
(***************************************************************************)
(* Changes of the authentication state of a client (auth.c).  Everything   *)
(* here runs with the client list lock held, so an operator is part of one *)
(* step.  The notifications of binauth_action go to an external script and *)
(* change no state of the daemon.                                          *)
(***************************************************************************)
EXTENDS ClientList, MacLists

CONSTANT SessionLimitBlock   \* config->session_limit_block > 0

authVars == <<listVars, rules, macVars>>

(* The state _client_list_append gives a new entry. *)
InitialMark(mac) ==
    IF is_blocked_mac(mac) THEN FW_MARK_BLOCKED
    ELSE IF is_allowed_mac(mac) \/ is_trusted_mac(mac) THEN FW_MARK_TRUSTED
    ELSE FW_MARK_PREAUTHENTICATED

(* The changes for which auth_change_state returns 0. *)
CanChange(old, new) ==
    \/ old = FW_MARK_PREAUTHENTICATED /\ new = FW_MARK_AUTHENTICATED
    \/ old = FW_MARK_AUTHENTICATED /\ new = FW_MARK_PREAUTHENTICATED
    \/ old = FW_MARK_AUTHENTICATED /\ new = FW_MARK_BLOCKED

SetEntry(n, c) ==
    /\ heap' = [heap EXCEPT ![n] = c]
    /\ UNCHANGED <<clients, client_id, client_count>>

Authenticate(n) ==
    /\ iptables_fw_authenticate(PeerOf(n))
    /\ SetEntry(n, [heap[n] EXCEPT !.fw_connection_state = FW_MARK_AUTHENTICATED])
    /\ UNCHANGED macVars

Deauthenticate(n, time) ==
    /\ iptables_fw_deauthenticate(PeerOf(n))
    /\ SetEntry(n, [client_reset(heap[n], time) EXCEPT
                       !.fw_connection_state = FW_MARK_PREAUTHENTICATED])
    /\ UNCHANGED macVars

DeauthenticateAndBlock_KeepsRules(n) ==
    /\ auth_client_list("blocked", MacOf(n))
    /\ client_list_delete(n)
    /\ UNCHANGED rules

DeauthenticateAndBlock(n) ==
    /\ iptables_fw_deauthenticate(PeerOf(n))
    /\ auth_client_list("blocked", MacOf(n))
    /\ client_list_delete(n)

auth_change_state_NoSameStateTest(n, new_state, time) ==
    \/ new_state = FW_MARK_AUTHENTICATED /\ Authenticate(n)
    \/ /\ new_state = FW_MARK_PREAUTHENTICATED
       /\ StateOf(n) = FW_MARK_AUTHENTICATED
       /\ Deauthenticate(n, time)
    \/ /\ new_state = FW_MARK_BLOCKED
       /\ StateOf(n) = FW_MARK_AUTHENTICATED
       /\ DeauthenticateAndBlock(n)

(* auth_change_state: what it does for a pair of states it accepts, and      *)
(* nothing for any other (it returns -1).                                    *)
auth_change_state(n, new_state, time) ==
    \/ /\ CanChange(StateOf(n), new_state)
       /\ \/ new_state = FW_MARK_AUTHENTICATED /\ Authenticate(n)
          \/ new_state = FW_MARK_PREAUTHENTICATED /\ Deauthenticate(n, time)
          \/ new_state = FW_MARK_BLOCKED /\ DeauthenticateAndBlock(n)
    \/ ~CanChange(StateOf(n), new_state) /\ UNCHANGED authVars

(* auth_client_auth_nolock and auth_client_deauth: by id; an id that is not  *)
(* on the list changes nothing.                                              *)
AuthById(id, new_state, time) ==
    LET n == client_list_find_by_id(id) IN
    \/ n # Null /\ auth_change_state(n, new_state, time)
    \/ n = Null /\ UNCHANGED authVars

AuthSucceeds(id, new_state) ==
    LET n == client_list_find_by_id(id) IN
    n # Null /\ CanChange(StateOf(n), new_state)

(* iptables_fw_counters_update.  The byte counts of the rules are credited   *)
(* to the first entry with the rule's address, whatever the rule's MAC.      *)
CreditedBy(I) == {n \in clients : n = client_list_find_by_ip(IpOf(n)) /\ IpOf(n) \in I}

InChain(r) == r \in DOMAIN rules /\ rules[r] > 0
OutgoingIps == {ip \in Ip : \E m \in Mac : InChain(OutgoingMark(m, ip))}
IncomingIps == {ip \in Ip : InChain(IncomingAccept(ip))}

Credit(U, V, time) ==
    /\ heap' = [n \in Node |->
                  [heap[n] EXCEPT !.last_updated = IF n \in U THEN time ELSE @,
                                  !.over_limit = @ \/ n \in V]]
    /\ UNCHANGED <<clients, client_id, client_count, rules, macVars>>

(* U: the outgoing count grew; V: the incoming count passed the limit, not   *)
(* read when the second popen fails.                                         *)
iptables_fw_counters_update(time, rc) ==
    \E U \in SUBSET CreditedBy(OutgoingIps) :
    \E V \in IF SessionLimitBlock /\ rc = 0 THEN SUBSET CreditedBy(IncomingIps) ELSE {{}} :
       Credit(U, V, time)

AuthTypeOK == ListTypeOK /\ MangleTypeOK /\ MacListsTypeOK
===============================================================================
