\* Priority escalation compiled in: overrides, stealers and escalators, the order of the tasks,
\* and progress under the fairness of the pool and of running threads.
SPECIFICATION FairSpec
CONSTANTS
  j1 = j1
  j2 = j2
  t1 = t1
  t2 = t2
  Job = {j1, j2}
  Thread = {t1, t2}
  NoThread = NoThread
  NoJob = NoJob
  Ext = Ext
  MaxPriority = 2
  BasePriority <- MCBasePriority
  PrefersTaskExecutor = {}
  PriorityEscalation = TRUE
  MaxHops = 2
INVARIANTS
  MutualExclusion
  RetainBalance
  NoUseAfterFree
  NoLostJob
  NoPriorityInversion
PROPERTIES
  ImplementsSerialExecutor
  QueuedJobRuns
  UnreferencedActorIsFreed
\* Tasks come to the actor at most MaxHops times; then nothing is left to do.
CHECK_DEADLOCK FALSE
