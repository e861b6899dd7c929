\* Two rows, a queue of up to three mutations.
SPECIFICATION Spec
CONSTANTS
  x = x  y = y
  Row = {x, y}
  Value = {0, 1}
  Absent = Absent
  Increment <- Count
  Mutator <- Mutators
  MaxPending = 3
INVARIANTS TypeOK UndoLogExact UndoInv LocalIsRebased UnsyncedIsPending
