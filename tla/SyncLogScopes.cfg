\* A client in two scopes.
SPECIFICATION Spec
CONSTANTS
  a = a  b = b  c1 = c1
  Row = {r1}
  Scope = {a, b}
  Client = {c1}
  ScopesOf <- BothScopes
  PageLimit = 5
  NoScope = NoScope
  AckRow = AckRow
  MaxTxid = 3
  MaxVer = 3
CHECK_DEADLOCK FALSE
INVARIANT CaughtUp
