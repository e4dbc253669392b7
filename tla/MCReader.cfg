SPECIFICATION FairSpec
CONSTANTS
  Frame <- MCFrame
  Null = Null
  Stream <- MCStream
  Media <- MCMedia
  Delay <- MCDelay
  NoBuffer = NoBuffer
  In = In
  Sink = {a, b}
  Lag = 1
  Rooms = {0, 2}
  MaxCalls = 4
INVARIANTS TypeOK NothingLost EofHonest SeekExact
PROPERTIES CallsReturn
CHECK_DEADLOCK FALSE
