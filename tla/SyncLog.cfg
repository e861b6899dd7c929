\* One client of scope a, rows that may also be in scope b.
SPECIFICATION Spec
CONSTANTS
  a = a  b = b  c1 = c1
  Row = {r1, r2}
  Scope = {a, b}
  Client = {c1}
  ScopesOf <- OneClient
  PageLimit = 1
  NoScope = NoScope
  AckRow = AckRow
  MaxTxid = 3
  MaxVer = 2
SYMMETRY RowSymmetry
CHECK_DEADLOCK FALSE
INVARIANTS TypeOK GateInv CaughtUp
PROPERTY NothingBehindCursor
