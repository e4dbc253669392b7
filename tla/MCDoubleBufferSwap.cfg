CONSTANTS
  Frame = {f1}
  Null = null
  Writer = writer
  Reader = reader
  Owner = owner
  Methods <- ReaderMethods
  Capacities = {1, 2}
  MaxSlots = 2
SPECIFICATION Spec
INVARIANT SwapFindsSndrEmpty
