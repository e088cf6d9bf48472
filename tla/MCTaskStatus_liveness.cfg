\* A handler and two suspensions; two threads that cancel and resume (at one priority, so that
\* nobody escalates).
SPECIFICATION FairSpec
CONSTANTS
  Owner = Owner
  Agent = {a1, a2}
  Record = {r1, r2}
  Child = {}
  Null = Null
  JobPriority = {9}
  BasePriority = 9
  MaxAdds = 3
PROPERTIES
  CallsReturn
  ResumedTaskRuns
CHECK_DEADLOCK FALSE
