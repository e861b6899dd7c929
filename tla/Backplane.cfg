CONSTANTS
  Channel = {a, b}
  Sub = {s1, s2}
  Capacity = 1
  MaxEvent = 2
SPECIFICATION Spec
INVARIANTS TypeOK NoSilentGap
PROPERTIES InOrder Hears
CHECK_DEADLOCK FALSE
