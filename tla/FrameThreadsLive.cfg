SPECIFICATION FairSpec
CONSTANTS
  ThreadCount = 2
  Setups = {{"update"}, {"delay"}}
  MaxPackets = 3
  MaxRequests = 1
  Outcomes = {"frame"}
INVARIANTS NobodyStranded
PROPERTIES CallsReturn DecodesFinish
CHECK_DEADLOCK FALSE
