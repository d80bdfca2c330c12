-------- MODULE Hosts --------
(* Who talks to the portal.  A request is attributed to the source IP address *)
(* of its connection (get_client_ip) and to the MAC address the neighbour     *)
(* table has for it (get_client_mac); this pair is all the daemon knows of a  *)
(* host.  One host may have several addresses, and an address may move from   *)
(* one MAC to another.                                                        *)
CONSTANTS
    Mac,   \* link-layer addresses of the client network
    Ip     \* network addresses of the client network

Peer == Mac \X Ip

MacOfPeer(peer) == peer[1]
IpOfPeer(peer)  == peer[2]
==============================
