SPECIFICATION FairSpec
CONSTANTS
  Data = {d1}
  Habits <- AllHabits
  None = None
INVARIANTS TypeOK DebugOnlyWhenIdle ResponseToOwner ServedOnce RequestFaithful WriteNotDropped
PROPERTIES TransactionEnds DmaServed
