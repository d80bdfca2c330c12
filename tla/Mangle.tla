-------------------------------- MODULE Mangle --------------------------------
(***************************************************************************)
(* The rules nodogsplash keeps for authenticated clients in its chains     *)
(* of the mangle table (fw_iptables.c), as a bag: iptables -A adds a copy  *)
(* of a rule even when there is one, -D removes a single copy.  The order  *)
(* inside a chain does not matter, a rule of a client only matches its     *)
(* own packets.                                                            *)
(*                                                                         *)
(* An iptables call may fail (return code 4 five times in a row, or any    *)
(* other error); the callers ignore that.  `Faults' says which calls may   *)
(* fail.  Traffic control is off, the default.                             *)
(***************************************************************************)
EXTENDS Naturals, Hosts

CONSTANTS
    Faults,      \* subset of {"append", "delete", "destroy"}
    MaxCopies    \* bound of the model: copies a failing -D may leave behind

ASSUME FaultsAssumption == Faults \subseteq {"append", "delete", "destroy"}
ASSUME MaxCopiesAssumption == MaxCopies \in Nat

VARIABLE rules   \* rule of the OUTGOING or INCOMING chain -> copies of it;
                 \* the empty function when the chains do not exist

OutgoingMark(mac, ip) == <<"OUTGOING", mac, ip>>      \* -s ip --mac-source mac
IncomingMark(ip)      == <<"INCOMING", "MARK", ip>>   \* -d ip
IncomingAccept(ip)    == <<"INCOMING", "ACCEPT", ip>>

Rule == {OutgoingMark(m, i) : m \in Mac, i \in Ip}
   \cup {IncomingMark(i) : i \in Ip}
   \cup {IncomingAccept(i) : i \in Ip}

(* The chains as iptables_fw_init creates them. *)
ClientChainsInit == rules = [r \in Rule |-> 0]

(* The outcomes of iptables_do_command for a set R of commands on the bag b: *)
(* those of R that take effect.  A -D without a matching rule fails too.     *)
Appended(R) == IF "append" \in Faults THEN SUBSET R ELSE {R}
Deleted(R, b) ==
    IF "delete" \in Faults
    THEN {D \in SUBSET R : \A r \in R \ D : b[r] <= MaxCopies}
    ELSE {R}

Plus(b, A) ==
    [r \in DOMAIN b |-> IF r \in A THEN b[r] + 1 ELSE b[r]]
Minus(b, D) ==
    [r \in DOMAIN b |-> IF r \in D /\ b[r] > 0 THEN b[r] - 1 ELSE b[r]]

(* The three rules of an authenticated client. *)
ClientRules(peer) ==
    {OutgoingMark(MacOfPeer(peer), IpOfPeer(peer)), IncomingMark(IpOfPeer(peer)), IncomingAccept(IpOfPeer(peer))}

iptables_fw_authenticate(peer) ==
    \E A \in Appended(ClientRules(peer)) : rules' = Plus(rules, A)

iptables_fw_deauthenticate_ForgetsIncoming(peer) ==
    \E D \in Deleted({OutgoingMark(MacOfPeer(peer), IpOfPeer(peer))}, rules) : rules' = Minus(rules, D)

iptables_fw_deauthenticate_ForgetsOutgoing(peer) ==
    \E D \in Deleted({IncomingMark(IpOfPeer(peer)), IncomingAccept(IpOfPeer(peer))}, rules) :
       rules' = Minus(rules, D)

iptables_fw_deauthenticate(peer) ==
    \E D \in Deleted(ClientRules(peer), rules) : rules' = Minus(rules, D)

MangleTypeOK == rules \in [Rule -> Nat]
===============================================================================
