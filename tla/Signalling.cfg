SPECIFICATION Spec
CONSTANTS
  Chan = {c1, c2}
  RoomId = {r1}
  Worker = {w1, w2, w3}
  Agent = {a1, a2}
  AgentOf <- MCAgentOf
  None = None
  ThisEc = ec
  MaxRetries = 1
  SocketsLost = TRUE
  Drainable = {a1}
  a1 = a1
  a2 = a2
  w1 = w1
  w2 = w2
  w3 = w3
  c1 = c1
  c2 = c2
  r1 = r1
  ec = ec
SYMMETRY Symmetry
CHECK_DEADLOCK FALSE
INVARIANTS
  TypeOK
  ServedClientKept
  LeftClientBeingDeleted
