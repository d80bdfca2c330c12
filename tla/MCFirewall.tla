------------------------------ MODULE MCFirewall ------------------------------
(* The daemon and what its firewall does with packets on small instances. *)
EXTENDS MCPortal, Firewall
===============================================================================
