------------------------------- MODULE MCPortal -------------------------------
(* Portal on small instances. *)
EXTENDS Portal, TLC

(* The script prints minus one or one. *)
ScriptSeconds == {-1, 1}

Symmetry == Permutations(Node)
===============================================================================
