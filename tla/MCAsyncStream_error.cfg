\* One task iterates over a stream that finishes with an error.
SPECIFICATION Spec
CONSTANTS
  Producer = {p1}
  Consumer = {c1}
  Canceller = Canceller
  Policy <- MCPolicy
  MaxYields = 2
  MaxNexts = 3
  MaxHandlers = 2
INVARIANT ErrorThrownOnce
CHECK_DEADLOCK FALSE
