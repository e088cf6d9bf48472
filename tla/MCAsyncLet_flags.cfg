\* The warning in completeTaskImpl() against the code: a child task completes while its scope is
\* being left.
SPECIFICATION Spec
CONSTANTS
  l1 = l1
  l2 = l2
  task = task
  Parent = Parent
  NoTask = NoTask
  Handle = Handle
  Future = {l1, l2, task}
  Binding = {l1, l2}
  Waiter = {Parent, other}
  Program <- MCProgram
  Throwing = {l1}
  UntilCancelled = {l2}
INVARIANTS
  CompletedTaskIsNotAccessed
CHECK_DEADLOCK FALSE
