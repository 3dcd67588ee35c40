SPECIFICATION Spec
CONSTANTS
  Ec = {e1, e2}
  Agent = {a1, a2}
  RoomId = {r1}
  Router = {w1, w2, w3}
  HostOf <- MCHostOf
  User = {u1, u2}
  None = None
  a1 = a1
  a2 = a2
  w3 = w3
SYMMETRY Symmetry
CHECK_DEADLOCK FALSE
INVARIANTS
  TypeOK
  KeptUnlessStranger
  GivenUpRoomsClosed
