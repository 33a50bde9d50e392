CONSTANTS
  ThreadCount = 2
  MaxJobs = 2
SPECIFICATION FailingSpec
PROPERTY FreeReturns
CHECK_DEADLOCK FALSE
