CONSTANTS
  NbFiles = 2
  PacketSize = 2
  FifoPackets = 2
  Word = 5
  MaxPackets = 3
SPECIFICATION FairSpec
INVARIANTS TypeOK FifoHoldsTheRest EofAfterEverything QuietTeardown
PROPERTIES Ends
CHECK_DEADLOCK FALSE
