CONSTANTS
  ThreadCount = 2
  MaxJobs = 2
SPECIFICATION SpuriousSpec
INVARIANT AllTasksDone
CHECK_DEADLOCK FALSE
