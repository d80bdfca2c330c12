------------------------------- MODULE MacLists -------------------------------
(***************************************************************************)
(* The trusted, blocked and allowed MAC lists of the configuration         *)
(* (conf.c) and the operations of auth.c that keep them and the firewall   *)
(* in step.  Each operation runs under the config lock, so it is one step. *)
(***************************************************************************)
EXTENDS Mangle

CONSTANT MacMechanism    \* config->macmechanism

ASSUME MacMechanismAssumption == MacMechanism \in {"MAC_ALLOW", "MAC_BLOCK"}

VARIABLES
    maclist,     \* the three lists, without duplicates
    macrules     \* copies of the rule of a list for a MAC: MARK in the TRUSTED
                 \* chain, MARK or RETURN in the BLOCKED chain

macVars == <<maclist, macrules>>

MacListName == {"trusted", "blocked", "allowed"}

(* A configuration that lists no MAC, and the chains iptables_fw_init makes  *)
(* of it.                                                                    *)
MacListsInit ==
    /\ maclist = [l \in MacListName |-> {}]
    /\ macrules = [r \in MacListName \X Mac |-> 0]

is_blocked_mac(mac) == MacMechanism # "MAC_ALLOW" /\ mac \in maclist["blocked"]
is_allowed_mac(mac) == MacMechanism # "MAC_BLOCK" /\ mac \in maclist["allowed"]
is_trusted_mac(mac) == mac \in maclist["trusted"]

(* Lists other than the trusted one are refused under the other mechanism. *)
ListInUse(l) ==
    \/ l = "trusted"
    \/ l = "blocked" /\ MacMechanism = "MAC_BLOCK"
    \/ l = "allowed" /\ MacMechanism = "MAC_ALLOW"

add_to_mac_list_KeepsDuplicates(l, mac) ==
    /\ ListInUse(l)
    /\ maclist' = [maclist EXCEPT ![l] = @ \cup {mac}]

(* add_to_trusted_mac_list and its two siblings return 0. *)
add_to_mac_list(l, mac) ==
    /\ ListInUse(l)
    /\ mac \notin maclist[l]
    /\ maclist' = [maclist EXCEPT ![l] = @ \cup {mac}]

(* remove_from_trusted_mac_list and its two siblings return 0. *)
remove_from_mac_list(l, mac) ==
    /\ ListInUse(l)
    /\ mac \in maclist[l]
    /\ maclist' = [maclist EXCEPT ![l] = @ \ {mac}]

(* iptables_trust_mac, iptables_block_mac, iptables_allow_mac, and their     *)
(* opposites.                                                                *)
iptables_list_mac(l, mac) ==
    \E A \in Appended({<<l, mac>>}) : macrules' = Plus(macrules, A)
iptables_unlist_mac(l, mac) ==
    \E D \in Deleted({<<l, mac>>}, macrules) : macrules' = Minus(macrules, D)

(* auth_client_trust, auth_client_block, auth_client_allow: the iptables     *)
(* command runs when the list accepted the MAC; the entry stays when the     *)
(* command fails.                                                            *)
auth_client_list(l, mac) ==
    \/ add_to_mac_list(l, mac) /\ iptables_list_mac(l, mac)
    \/ (~ListInUse(l) \/ mac \in maclist[l]) /\ UNCHANGED macVars

(* auth_client_untrust, auth_client_unblock, auth_client_unallow. *)
auth_client_unlist(l, mac) ==
    \/ remove_from_mac_list(l, mac) /\ iptables_unlist_mac(l, mac)
    \/ (~ListInUse(l) \/ mac \notin maclist[l]) /\ UNCHANGED macVars

MacListsTypeOK ==
    /\ maclist \in [MacListName -> SUBSET Mac]
    /\ macrules \in [MacListName \X Mac -> Nat]
===============================================================================
