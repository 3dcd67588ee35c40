SPECIFICATION FairSpec
CONSTANTS
  Agent = {a1}
  User = {u1, u2}
  Home <- MCHome
  Producer = {p1, p2, p3}
  OwnerOf <- MCOwnerOf
  Data = {p2}
  a1 = a1
  u1 = u1
  u2 = u2
  p1 = p1
  p2 = p2
  p3 = p3
CHECK_DEADLOCK FALSE
INVARIANTS
  TypeOK
  OneConsumerEach
  NothingLeftBehind
PROPERTIES
  ClosedProducerForgotten
  EverybodyHears
