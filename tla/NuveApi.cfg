SPECIFICATION Spec
CONSTANTS
  Request = {r1, r2, r3}
  Client = {c1, c2}
  ClientOf <- MCClientOf
  Join = {j1, j2}
  Nonce = {0, 1}
  MaxNow = 1
  None = None
  c1 = c1
  c2 = c2
  r1 = r1
  r2 = r2
  r3 = r3
CHECK_DEADLOCK FALSE
INVARIANTS
  TypeOK
  OnlyOvertakenRefused
  StoresAgree
  TokenSpentOnce
