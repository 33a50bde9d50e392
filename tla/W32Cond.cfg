CONSTANTS
  Threads = {t1, t2, t3, t4}
  NoThread = NoThread
SPECIFICATION FairSpec
INVARIANTS TypeOK NothingLeftOver CallsGoOn
PROPERTIES ImplementsCondVar WakerReturns
CHECK_DEADLOCK FALSE
