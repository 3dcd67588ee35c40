SPECIFICATION FairSpec
CONSTANTS
  Ec = {e1, e2}
  Room = {r1}
  Request = {q1, q2}
  Silent = {e1}
  Loads <- MCLoads
  Drainable = {e2}
  RoomsEdited = TRUE
  ExitOnNuveCheckFail = FALSE
  MaxKA = 0
  MaxAttempts = 0
  None = None
  e1 = e1
  e2 = e2
  r1 = r1
  q1 = q1
  q2 = q2
CHECK_DEADLOCK FALSE
INVARIANTS
  TypeOK
  OneEcUnlessErased
PROPERTIES
  RequestEnds
  DeadEcForgotten
