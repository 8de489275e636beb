SPECIFICATION Spec
CONSTANTS
  Data = {d1, d2}
  Habits <- Splitting
  None = None
INVARIANT RequestFaithfulAlways
