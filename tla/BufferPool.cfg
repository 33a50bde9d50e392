CONSTANTS
  Threads = {t1, t2, t3}
  Entries = {e1, e2}
  NoEntry = NoEntry
SPECIFICATION FairSpec
INVARIANTS TypeOK ExclusiveEntries PoolOutlivesBuffers WritersAlone
PROPERTIES PoolIsFreed
CHECK_DEADLOCK FALSE
