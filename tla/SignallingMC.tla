----------------------------- MODULE SignallingMC -----------------------------
(* Instances of Signalling for TLC: EA a1 can create two routers for the room *)
(* in the course of a behaviour, EA a2 one.                                  *)
EXTENDS Signalling, TLC

CONSTANTS a1, a2, w1, w2, w3

MCAgentOf == (w1 :> a1) @@ (w2 :> a1) @@ (w3 :> a2)

Symmetry == Permutations(Chan) \cup Permutations({w1, w2})
=============================================================================
