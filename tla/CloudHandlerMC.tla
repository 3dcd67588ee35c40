---------------------------- MODULE CloudHandlerMC ----------------------------
(* Instances of CloudHandler for TLC: the load of one EC changes.            *)
EXTENDS CloudHandler, TLC

CONSTANT e1

MCLoads == [e \in Ec |-> IF e = e1 THEN {1, 2} ELSE {2}]
=============================================================================
