\* A host that pulls whether or not it has pushed.
SPECIFICATION Spec
CONSTANTS
  MutationTtl = 1
  ClientTtl = 3
  Skew = 1
  LockWait = 1
  ClockError <- AnyClock
  BatchLimit = 2
  MaxPending = 3
  MaxClients = 2
  PushFirst = FALSE
  MaxMutation = 2
  MaxClientId = 2
  MaxClock = 4
  MaxFaults = 2
CHECK_DEADLOCK FALSE
INVARIANTS TypeOK AppliedOnce NothingForgotten
PROPERTY RejectedForGood
