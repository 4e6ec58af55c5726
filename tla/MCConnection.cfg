CONSTANTS
  c1 = c1  c2 = c2  t1 = t1  t2 = t2  u1 = u1  u2 = u2  p1 = p1  p2 = p2
  Conn = {c1, c2}
  Token = {t1, t2}
  NoToken = NoToken
  User = {u1, u2}
  NoUser = NoUser
  Password = {p1, p2}
  NoPassword = NoPassword
  Scenarios <- MCScenarios

SPECIFICATION FairSpec

CHECK_DEADLOCK FALSE

INVARIANTS
  TypeOK
  OneOwner
  ServedAsOwner
  TokensExpire

PROPERTIES
  ImplementsStream
  Served
