CONSTANTS
  MaxEvents = 2
  MIN_FRAMES = 0
  MaxPackets = 2
  MaxSeeks = 1
SPECIFICATION Spec
INVARIANT AssertionHolds
CHECK_DEADLOCK FALSE
