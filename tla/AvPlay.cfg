CONSTANTS
  MaxEvents = 2
  MIN_FRAMES = 0
  MaxPackets = 3
  MaxSeeks = 1
SPECIFICATION FairSpec
INVARIANTS TypeOK SlotsApart TargetsOrdered NoWakeUpMissed
PROPERTIES ImplementsPictureQueue CloseRunsOut NobodyHangs
CHECK_DEADLOCK FALSE
