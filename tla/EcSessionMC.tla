----------------------------- MODULE EcSessionMC -----------------------------
(* Instances of EcSession for TLC: every EA runs one router of a room, so a  *)
(* worker is named by its EA.                                                *)
EXTENDS EcSession, TLC

MCAgentOf == [w \in Worker |-> w]

Symmetry == Permutations(Chan) \cup Permutations(Worker)
=============================================================================
