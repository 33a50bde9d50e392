CONSTANTS
  ThreadCount = 3
  MaxJobs = 5
SPECIFICATION FairSpec
INVARIANTS TypeOK NobodyStranded AllTasksDone
PROPERTIES ImplementsTaskPool StepsRunOut CallsReturn
CHECK_DEADLOCK FALSE
