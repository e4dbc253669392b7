CONSTANTS
  Room = 1
  Delay = 1
  MaxSeeks = 1
  MaxStarts = 2
SPECIFICATION Spec
INVARIANTS StoppedBeforeSeek
CHECK_DEADLOCK FALSE
