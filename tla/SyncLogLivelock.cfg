\* A resync of more than one page behind the horizon.
SPECIFICATION FairSpec
CONSTANTS
  a = a  b = b  c1 = c1
  Row = {r1, r2}
  Scope = {a}
  Client = {c1}
  ScopesOf <- OneClient
  PageLimit = 1
  NoScope = NoScope
  AckRow = AckRow
  MaxTxid = 2
  MaxVer = 2
CHECK_DEADLOCK FALSE
PROPERTY Converges
