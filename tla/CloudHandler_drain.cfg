SPECIFICATION Spec
CONSTANTS
  Ec = {e1, e2}
  Room = {r1}
  Request = {q1, q2}
  Silent = {}
  Loads <- MCLoads
  Drainable = {e1}
  RoomsEdited = FALSE
  ExitOnNuveCheckFail = FALSE
  MaxKA = 0
  MaxAttempts = 0
  None = None
  e1 = e1
  e2 = e2
  r1 = r1
  q1 = q1
  q2 = q2
CHECK_DEADLOCK FALSE
PROPERTY NoNewRoomWhenDraining
