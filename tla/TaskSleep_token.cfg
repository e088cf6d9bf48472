\* Three sleeps in a row, cancelled at any point, under fairness of running threads and
\* of the executor.
SPECIFICATION FairSpec
CONSTANTS
  Sleep = {s1, s2, s3}
  Continuation = 8
INVARIANTS
  NoUseAfterFree
  ResumedOnce
  NoFatalError
  CancelEndsSleep
PROPERTIES
  SleepEnds
  TokenReclaimed
\* The task may end after its last sleep.
CHECK_DEADLOCK FALSE
