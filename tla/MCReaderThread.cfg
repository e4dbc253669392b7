CONSTANTS
  Room = 2
  Delay = 1
  MaxSeeks = 2
  MaxStarts = 2
SPECIFICATION FairSpec
INVARIANTS TypeOK WorkerAtRest NothingStale OnlyHeldBack NobodyForgotten
PROPERTIES SeekRestartsUnlessIdle PauseReturnsUnlessMissed StopJoins ReadsOn ReadReturnsIfPacketFits
CHECK_DEADLOCK FALSE
