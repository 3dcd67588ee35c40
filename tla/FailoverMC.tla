------------------------------ MODULE FailoverMC ------------------------------
(* Instances of Failover for TLC: EA a2 has one router, a1 all others.       *)
EXTENDS Failover, TLC

CONSTANTS a1, a2, w3

MCHostOf == [w \in Router |-> IF w = w3 THEN a2 ELSE a1]

\* Users are interchangeable, and so are ECs and the routers of a1.
Symmetry == Permutations(User) \cup Permutations(Ec) \cup Permutations(Router \ {w3})
=============================================================================
