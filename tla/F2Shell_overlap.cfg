SPECIFICATION Spec
CONSTANTS
  Data = {d1, d2}
  Habits <- Overlapping
  None = None
INVARIANT WriteNotDroppedAlways
