\* The documented host: it pushes, then pulls.
SPECIFICATION FairSpec
CONSTANTS
  MutationTtl = 1
  ClientTtl = 2
  Skew = 1
  LockWait = 1
  ClockError <- FastClock
  BatchLimit = 2
  MaxPending = 3
  MaxClients = 2
  PushFirst = TRUE
  MaxMutation = 2
  MaxClientId = 3
  MaxClock = 4
  MaxFaults = 1
CHECK_DEADLOCK FALSE
INVARIANTS UnsentContiguous SeqsAligned
PROPERTY Drains
