------------------------------- MODULE NuveApiMC -------------------------------
(* Instances of NuveApi for TLC: c1 sends requests one after the other, c2 beside it. *)
EXTENDS NuveApi

CONSTANTS c1, c2, r1, r2, r3

MCClientOf == [r \in Request |-> IF r = r3 THEN c2 ELSE c1]
=============================================================================
