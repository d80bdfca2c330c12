------------------------------- MODULE Firewall -------------------------------
(***************************************************************************)
(* What happens to a packet from the client network: the chains that       *)
(* iptables_fw_init builds (fw_iptables.c), over the rules the running     *)
(* daemon (Portal) keeps in them.  A mark of the configuration is an       *)
(* unsigned int, here the set of the bits that are one in it: | is the     *)
(* union of two marks, & their intersection.                               *)
(*                                                                         *)
(* The verdict names the ruleset of the configuration that decides about   *)
(* the packet, or DROP: what a ruleset accepts is the administrator's.     *)
(***************************************************************************)
EXTENDS Portal

CONSTANTS
    MarkBlocked, MarkTrusted, MarkAuthenticated,   \* config->fw_mark_*
    MarkOp,      \* "--or-mark", or "--set-mark" on kernels without it
    MarkMask     \* the kernel supports a mask in -m mark

MarkBit == 0..31

ASSUME MarkAssumption ==
    /\ {MarkBlocked, MarkTrusted, MarkAuthenticated} \subseteq (SUBSET MarkBit) \ {{}}
    /\ MarkBlocked # MarkTrusted
    /\ MarkTrusted # MarkAuthenticated
    /\ MarkAuthenticated # MarkBlocked
    /\ MarkOp \in {"--or-mark", "--set-mark"}
    /\ MarkMask \in BOOLEAN

-------------------------------------------------------------------------------
(* mangle PREROUTING: the chains OUTGOING, BLOCKED and TRUSTED in this order. *)

SetMark(m, x) == IF MarkOp = "--or-mark" THEN m \cup x ELSE x

Outgoing(m, peer) ==
    IF rules[OutgoingMark(MacOfPeer(peer), IpOfPeer(peer))] > 0 THEN SetMark(m, MarkAuthenticated) ELSE m

Blocked_AllowMarksTrusted(m, mac) ==
    IF MacMechanism = "MAC_BLOCK"
    THEN IF macrules[<<"blocked", mac>>] > 0 THEN SetMark(m, MarkBlocked) ELSE m
    ELSE IF macrules[<<"allowed", mac>>] > 0 THEN SetMark(m, MarkTrusted)
         ELSE SetMark(m, MarkBlocked)

(* Under MAC_ALLOW a last rule marks all that no RETURN took out. *)
Blocked(m, mac) ==
    IF MacMechanism = "MAC_BLOCK"
    THEN IF macrules[<<"blocked", mac>>] > 0 THEN SetMark(m, MarkBlocked) ELSE m
    ELSE IF macrules[<<"allowed", mac>>] > 0 THEN m ELSE SetMark(m, MarkBlocked)

Trusted(m, mac) ==
    IF macrules[<<"trusted", mac>>] > 0 THEN SetMark(m, MarkTrusted) ELSE m

PacketMark(peer) == Trusted(Blocked(Outgoing({}, peer), MacOfPeer(peer)), MacOfPeer(peer))

-------------------------------------------------------------------------------
(* FW_MARK_MASK and the match "-m mark --mark x/mask". *)

FW_MARK_MASK == MarkBlocked \cup MarkTrusted \cup MarkAuthenticated
HasMark(m, x) == IF MarkMask THEN m \cap FW_MARK_MASK = x ELSE m = x

ToInternet_BlockedBitTest(m) ==
    IF m \cap MarkBlocked # {} THEN "DROP"
    ELSE IF HasMark(m, MarkTrusted) THEN "trusted-users"
    ELSE IF HasMark(m, MarkAuthenticated) THEN "authenticated-users"
    ELSE "preauthenticated-users"

(* filter FORWARD: the chain CHAIN_TO_INTERNET. *)
ToInternet(m) ==
    IF HasMark(m, MarkBlocked) THEN "DROP"
    ELSE IF HasMark(m, MarkTrusted) THEN "trusted-users"
    ELSE IF HasMark(m, MarkAuthenticated) THEN "authenticated-users"
    ELSE "preauthenticated-users"

(* nat PREROUTING: a packet to port 80 is sent to the webserver unless it is *)
(* marked trusted or authenticated.                                          *)
RedirectedToPortal(m) == ~HasMark(m, MarkTrusted) /\ ~HasMark(m, MarkAuthenticated)

(* filter INPUT, port of the webserver: the chain CHAIN_TO_ROUTER. *)
ReachesPortal(m) == ~HasMark(m, MarkBlocked)

-------------------------------------------------------------------------------
(* Properties. *)

(* Nobody passes without a grant: the rulesets of trusted and authenticated  *)
(* users see packets of trusted MACs and of authenticated entries only,      *)
(* whatever combination of marks a packet collected.                         *)
OnlyGrantedPass ==
    \A p \in Peer :
       ToInternet(PacketMark(p)) \in {"trusted-users", "authenticated-users"} =>
          \/ is_trusted_mac(p[1])
          \/ \E n \in clients : PeerOf(n) = p /\ IsAuthenticated(n)

(* Every authenticated entry whose MAC is not blocked has the access of an   *)
(* authenticated or trusted user: under MAC_BLOCK no mark its packets        *)
(* collect besides takes the access away.                                    *)
AuthenticatedPass ==
    \A n \in clients :
       IsAuthenticated(n) /\ ~is_blocked_mac(MacOf(n)) =>
          ToInternet(PacketMark(PeerOf(n))) \in {"trusted-users", "authenticated-users"}

(* Whoever has no access is asked to log in, unless its MAC is blocked: the  *)
(* packets of a host that is neither trusted nor authenticated are sent to   *)
(* the portal and get there, also after its session ended or was blocked and *)
(* unblocked.                                                                *)
OthersReachPortal ==
    \A p \in Peer :
       \/ is_trusted_mac(p[1]) \/ is_blocked_mac(p[1])
       \/ \E n \in clients : PeerOf(n) = p /\ IsAuthenticated(n)
       \/ RedirectedToPortal(PacketMark(p)) /\ ReachesPortal(PacketMark(p))

(* howitworks.rst: packets of MACs on the BlockedMACList are dropped. *)
BlockedDropped ==
    \A p \in Peer : is_blocked_mac(p[1]) /\ ~is_trusted_mac(p[1]) =>
       ToInternet(PacketMark(p)) = "DROP"
===============================================================================
