CONSTANTS
  Frame = {f1, f2}
  Null = null
  Source = source
  Sink = sink
  Owner = owner
  Capacities = {0, 1, 2, 3}
  MaxSlots = 3
SPECIFICATION Spec
INVARIANT HasEofTellsEof
