SPECIFICATION Spec
CONSTANTS
  Chan = {c1, c2, c3}
  RoomId = {r1}
  Worker = {a1, a2}
  Agent = {a1, a2}
  AgentOf <- MCAgentOf
  Policies = {"ROOM-BEST", "TTL-BEST"}
  NuveDeletes = TRUE
  None = None
  c1 = c1
  c2 = c2
  c3 = c3
  r1 = r1
  a1 = a1
  a2 = a2
SYMMETRY Symmetry
CHECK_DEADLOCK FALSE
INVARIANTS
  TypeOK
  RegisteredRoomInUse
  DeadSocketWillLeave
  CountedRouterHasClient
  LiveClientReachable
PROPERTIES
  NobodyLeavesWhileConnected
