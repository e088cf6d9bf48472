\* A canceller holds the lock while the task leaves its thread, and an escalator comes.
SPECIFICATION Spec
CONSTANTS
  Owner = Owner
  Agent = {a1, a2}
  Record = {r1, r2}
  Child = {}
  Null = Null
  JobPriority = {9, 33}
  BasePriority = 9
  MaxAdds = 2
PROPERTIES
  OldStatusIsLatest
CHECK_DEADLOCK FALSE
