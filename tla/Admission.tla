------------------------------- MODULE Admission -------------------------------
(***************************************************************************)
(* What the captive portal promises about access, without threads, locks   *)
(* or rules: a host must be known before it is admitted, each decision     *)
(* concerns one host, and a host is never forgotten while it is admitted.  *)
(* Implemented by Portal, with `known' read off the client list and        *)
(* `admitted' off the firewall.                                            *)
(***************************************************************************)
CONSTANT Host

VARIABLES known, admitted

Init == known = {} /\ admitted = {}

Meet(h) ==
    /\ h \notin known
    /\ known' = known \cup {h}
    /\ UNCHANGED admitted

Admit(h) ==
    /\ h \in known \ admitted
    /\ admitted' = admitted \cup {h}
    /\ UNCHANGED known

Dismiss(h) ==
    /\ h \in admitted
    /\ admitted' = admitted \ {h}
    /\ UNCHANGED known

Forget(h) ==
    /\ h \in known \ admitted
    /\ known' = known \ {h}
    /\ UNCHANGED admitted

(* Dismissed and banned in one decision: no later request finds the entry. *)
Ban(h) ==
    /\ h \in admitted
    /\ known' = known \ {h}
    /\ admitted' = admitted \ {h}

Next == \E h \in Host : Meet(h) \/ Admit(h) \/ Dismiss(h) \/ Forget(h) \/ Ban(h)

Spec == Init /\ [][Next]_<<known, admitted>>
===============================================================================
