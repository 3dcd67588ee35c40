SPECIFICATION RpcFairSpec
CONSTANTS
  Caller = {ec, nuve}
  Nuve = {nuve}
  Server = {s1, s2}
  MaxCalls = 3
  ec = ec
  nuve = nuve
  s1 = s1
  s2 = s2
CHECK_DEADLOCK FALSE
INVARIANTS
  RpcTypeOK
  AmqperTellsOnce
  NuveFailsOnOverlapOnly
PROPERTIES
  EveryCallEnds
