CONSTANTS
  Room = 1
  Delay = 1
  MaxSeeks = 1
  MaxStarts = 1
SPECIFICATION FairSpec
PROPERTIES ReadReturns
CHECK_DEADLOCK FALSE
