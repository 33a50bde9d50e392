SPECIFICATION Spec
CONSTANTS
  ThreadCount = 3
  Setups = {{"update", "safe", "delay"}, {"safe", "default"}}
  MaxPackets = 4
  MaxRequests = 1
  Outcomes = {"frame", "none"}
INVARIANTS TypeOK DelayBound ContextsAreQuiet SafeNeverWaits
PROPERTIES ImplementsFrameQueue
CHECK_DEADLOCK FALSE
