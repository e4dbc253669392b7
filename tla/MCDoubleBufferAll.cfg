CONSTANTS
  Frame = {f1, f2}
  Null = null
  Writer = writer
  Reader = reader
  Owner = owner
  Methods <- AllMethods
  Capacities = {0, 1, 2}
  MaxSlots = 2
SPECIFICATION Spec
INVARIANTS TypeOK Exclusive
PROPERTIES FifoUntilOvertaken
CONSTRAINT UpToOvertaken
SYMMETRY FrameSymmetry
