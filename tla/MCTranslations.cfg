SPECIFICATION Spec
CONSTANTS
  Caller = {"a", "b"}
  Text = {"t", "e", "l"}
  Empty = {"e"}
  Long = {"l"}
  MaxBatch = 1
  MaxRestarts = 1
INVARIANT DescriptionSaysWhy
CHECK_DEADLOCK FALSE
