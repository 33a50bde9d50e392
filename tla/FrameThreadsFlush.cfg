SPECIFICATION Spec
CONSTANTS
  ThreadCount = 2
  Setups = {{"update", "safe", "default"}}
  MaxPackets = 3
  MaxRequests = 0
  Outcomes = {"frame"}
PROPERTY NoFrameForgotten
CHECK_DEADLOCK FALSE
