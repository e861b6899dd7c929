SPECIFICATION Spec
CONSTANTS
  k1 = k1  k2 = k2  k3 = k3  k4 = k4  p = p  q = q
  Caller = {c1, c2}
  Key = {k1, k2, k3, k4, p}
  Scope = {p, q}
  NoScope = NoScope
  ScopeOf <- MCScopeOf
  Burst <- MCBurst
  Period <- MCPeriod
  Slack = 1
  MaxTtl = 3
  Window = 1
  MaxDistinct = 1
  MaxBuckets = 3
  SweepInterval = 2
  Lag = 1
  MaxTime = 3
SYMMETRY MCSymmetry
INVARIANTS TypeOK Paced WithinBudget WithinCap
PROPERTIES RefusedLeavesNothing
