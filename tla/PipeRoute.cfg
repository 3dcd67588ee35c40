SPECIFICATION Spec
CONSTANTS
  User = {a1, a2, b1}
  Home <- MCHome
  Producer = {p1, q1}
  OwnerOf <- MCOwnerOf
  Leaver = {a1, b1}
  Before <- MCBefore
  MaxEvents = 8
  None = None
  a1 = a1
  a2 = a2
  b1 = b1
  p1 = p1
  p2 = p2
  q1 = q1
CHECK_DEADLOCK FALSE
INVARIANTS
  TypeOK
  PipedHeard
