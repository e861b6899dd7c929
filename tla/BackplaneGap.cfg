CONSTANTS
  Channel = {a, b}
  Sub = {s1, s2}
  Capacity = 1
  MaxEvent = 3
SPECIFICATION Spec
INVARIANTS NothingMissed
CHECK_DEADLOCK FALSE
