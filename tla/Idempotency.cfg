CONSTANTS
  c1 = c1
  c2 = c2
  c3 = c3
  Call <- MCCall
  NoCall = NoCall
  Hash = {h1, h2}
  Ttl = 1
  Skew = 1
  Backends <- MCBackends
  MaxClock = 3
SPECIFICATION Spec
INVARIANTS TypeOK ReplaysTheRun HolderInv
PROPERTIES NoRerunWhileLive KeepsContract
SYMMETRY MCSymmetry
CHECK_DEADLOCK FALSE
