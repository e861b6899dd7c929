\* Convergence of clients whose first page is the whole log, of both scopes;
\* a row of the third scope is no client's.
SPECIFICATION FairSpec
CONSTANTS
  a = a  b = b  c1 = c1
  Row = {r1}
  Scope = {a, b, d}
  Client = {c1}
  ScopesOf <- BothScopes
  PageLimit = 2
  NoScope = NoScope
  AckRow = AckRow
  MaxTxid = 3
  MaxVer = 2
CHECK_DEADLOCK FALSE
PROPERTIES CaughtUpWhileRowsStay ConvergesWhileRowsStay
