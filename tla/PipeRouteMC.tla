------------------------------ MODULE PipeRouteMC ------------------------------
(* Instances of PipeRoute for TLC: b1 and its producer q1 are at home at "to", *)
(* the others at "from", where a1 has all producers.                           *)
EXTENDS PipeRoute

CONSTANTS a1, a2, b1, p1, p2, q1

MCHome == [u \in User |-> IF u = b1 THEN "to" ELSE "from"]
MCOwnerOf == [p \in Producer |-> IF p = q1 THEN b1 ELSE a1]
\* a1 makes p1 first.
MCBefore == [p \in Producer |-> IF p = p2 THEN {p1} ELSE {}]
=============================================================================
