\* Three records, another task and two agents: two scopes and a suspension, or a group with a
\* child and a handler, while two threads cancel, escalate and resume.
SPECIFICATION Spec
CONSTANTS
  Owner = Owner
  Agent = {a1, a2}
  Record = {r1, r2, r3}
  Child = {c1}
  Null = Null
  JobPriority = {9, 33}
  BasePriority = 9
  MaxAdds = 3
SYMMETRY Symmetry
INVARIANTS
  StatusIsConsistent
  ReadsLiveRecords
  HandlerRunsOnce
  CancelReachesAll
  EscalationReachesChildren
CHECK_DEADLOCK FALSE
