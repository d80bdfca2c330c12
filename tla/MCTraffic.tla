---- MODULE MCTraffic ----
(* Two hosts behind one address; the binauth program prints two limits, or a *)
(* negative one.                                                             *)
EXTENDS Traffic, TLC

CONSTANTS m1, m2, i1

TwoGuests == {<<m1, i1>>, <<m2, i1>>}
Symmetry == Permutations(Mac)
PrintedLimits == {<<1, 1>>, <<-1, 1>>}
==========================
