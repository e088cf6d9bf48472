\* Four jobs of UserInteractive, Default and Background priority or of none:
\* runs at both ends and in the middle, two priorities in one bucket, empty buckets.
SPECIFICATION Spec
CONSTANTS
  Node = {n1, n2, n3, n4}
  Null = Null
  JobPriority = {33, 21, 9, 0}
SYMMETRY JobSymmetry
INVARIANTS
  ListsAreWellFormed
PROPERTIES
  ImplementsJobQueue
