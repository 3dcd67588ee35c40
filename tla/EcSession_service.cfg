SPECIFICATION FairSpec
CONSTANTS
  Chan = {c1, c2, c3}
  RoomId = {r1}
  Worker = {a1}
  Agent = {a1}
  AgentOf <- MCAgentOf
  Policies = {"ROOM-BEST"}
  NuveDeletes = FALSE
  None = None
  c1 = c1
  c2 = c2
  c3 = c3
  r1 = r1
  a1 = a1
CHECK_DEADLOCK FALSE
PROPERTIES
  ImplementsRoomService
  GoneClientLeaves
