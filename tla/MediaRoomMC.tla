----------------------------- MODULE MediaRoomMC -----------------------------
(* Instances of MediaRoom for TLC: a room in which one client has a producer *)
(* and a data producer, the other a producer.                                *)
EXTENDS MediaRoom, TLC

CONSTANTS a1, u1, u2, p1, p2, p3

MCHome == [u \in User |-> a1]
MCOwnerOf == (p1 :> u1) @@ (p2 :> u1) @@ (p3 :> u2)
=============================================================================
