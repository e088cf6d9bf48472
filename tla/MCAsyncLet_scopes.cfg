\* Two nested bindings, one that may throw and one whose child task may wait for its
\* cancellation; and one binding beside a task that two tasks wait for.
SPECIFICATION FairSpec
CONSTANTS
  l1 = l1
  l2 = l2
  task = task
  Parent = Parent
  NoTask = NoTask
  Handle = Handle
  Future = {l1, l2, task}
  Binding = {l1, l2}
  Waiter = {Parent, other}
  Program <- MCProgram
  Throwing = {l1}
  UntilCancelled = {l2}
INVARIANTS
  WaitersAreServed
  OnlyFlagsAreReadLate
  BufferIsBalanced
PROPERTIES
  WaiterIsResumed
  FinishEnds
CHECK_DEADLOCK FALSE
