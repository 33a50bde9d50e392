CONSTANTS
  RTP_SEQ_MOD = 16
  MaxDropout = 5
  MaxMisorder = 3
  QueueSize = 3
  First = 12
  MaxPackets = 8
  Window = 3
  MaxResets = 1
SPECIFICATION Spec
INVARIANTS TypeOK
PROPERTIES PayloadsInOrder TimelyPacketsKept RestReturned
CHECK_DEADLOCK FALSE
