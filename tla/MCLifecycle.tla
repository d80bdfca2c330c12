----------------------------- MODULE MCLifecycle ------------------------------
(* Lifecycle on small instances. *)
EXTENDS Lifecycle, TLC

(* The hosts are alike where no MAC is listed. *)
HostSymmetry == Permutations(Node) \cup Permutations(Mac)

(* Bound of the instance with two hosts: a life whose state file was refused *)
(* is followed until its threads run.                                        *)
RefusedFileBound == main.retry => main.pc # "join"
===============================================================================
