SPECIFICATION FairSpec
CONSTANTS
  User = {a1, b1}
  Home <- MCHome
  Producer = {p1, p2, q1}
  OwnerOf <- MCOwnerOf
  Leaver = {a1}
  Before <- MCBefore
  MaxEvents = 4
  None = None
  a1 = a1
  a2 = a2
  b1 = b1
  p1 = p1
  p2 = p2
  q1 = q1
CHECK_DEADLOCK FALSE
PROPERTIES
  ReachesOther
  PipedCloses
  LoopsEnd
