\* The comment on fetching the task executor, against the code.
SPECIFICATION FairSpec
CONSTANTS
  j1 = j1
  j2 = j2
  t1 = t1
  t2 = t2
  Job = {j1, j2}
  Thread = {t1, t2}
  NoThread = NoThread
  NoJob = NoJob
  Ext = Ext
  MaxPriority = 2
  BasePriority <- MCBasePriority
  PrefersTaskExecutor = {j1, j2}
  PriorityEscalation = TRUE
  MaxHops = 1
PROPERTIES
  EnqueueUsesTaskExecutor
\* Tasks come to the actor at most MaxHops times; then nothing is left to do.
CHECK_DEADLOCK FALSE
