------------------------------ MODULE MCExecute -------------------------------
(* Execute on small instances: two threads, one of which may meet a busy     *)
(* iptables (exit code 4).                                                   *)
EXTENDS Execute
===============================================================================
