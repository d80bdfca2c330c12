---- MODULE MCNdsctlServer ----
(* The control socket with a few runs of ndsctl at once.  No symmetry: *)
(* a temporal property is checked as well.                             *)
EXTENDS NdsctlServer
===============================
