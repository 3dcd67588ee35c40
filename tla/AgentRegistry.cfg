SPECIFICATION FairSpec
CONSTANTS
  Agent = {a1, a2}
  Join = {j1}
  Slow = {a2}
  Drainable = {a2}
  MaxTimeout = 2
  MaxAttempts = 1
  None = None
  a1 = a1
  a2 = a2
  j1 = j1
CHECK_DEADLOCK FALSE
INVARIANTS
  TypeOK
  StuckOnlyIfShaken
PROPERTIES
  JoinEnds
  TableFollowsAgents
