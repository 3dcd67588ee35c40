----------------------------- MODULE RoomService -----------------------------
(***************************************************************************)
(* What the rooms of one ErizoController promise to their users: a user    *)
(* enters one room once, everyone present in a room stays visible under    *)
(* its id until he departs, and who departed does not come back (he needs  *)
(* a new token and is a new user).                                         *)
(***************************************************************************)
CONSTANTS RoomId, User

VARIABLES
  present,   \* the users found in the room of an id
  departed   \* the users who left

vars == <<present, departed>>

Init ==
  /\ present = [r \in RoomId |-> {}]
  /\ departed = {}

Enter(r, u) ==
  /\ u \notin departed
  /\ \A q \in RoomId : u \notin present[q]
  /\ present' = [present EXCEPT ![r] = @ \cup {u}]
  /\ UNCHANGED departed

\* Several users may depart at once: a room is deleted or an EA is lost.
Depart(S) ==
  /\ S # {}
  /\ \A u \in S : \E r \in RoomId : u \in present[r]
  /\ present' = [r \in RoomId |-> present[r] \ S]
  /\ departed' = departed \cup S

Next ==
  \/ \E r \in RoomId, u \in User : Enter(r, u)
  \/ \E S \in SUBSET User : Depart(S)

Spec == Init /\ [][Next]_vars
=============================================================================
