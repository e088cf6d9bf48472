\* Accumulating and discarding groups, three child tasks.  A transient count of
\* addTaskUnlessCancelled() can reach MaxPending.
SPECIFICATION FairSpec
CONSTANTS
  MaxChildren = 3
  MaxPending = 4
INVARIANTS
  StatusMatchesTasks
  DestroyFindsNothing
  CancelReachesChildren
  FirstErrorIsThrown
PROPERTIES
  ImplementsStructuredGroup
  ScopeEnds
\* The scope of the group is left and nothing more happens.
CHECK_DEADLOCK FALSE
