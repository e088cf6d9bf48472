\* Two tasks iterate over the values of two producers.
SPECIFICATION Spec
CONSTANTS
  Producer = {p1, p2}
  Consumer = {c1, c2}
  Canceller = Canceller
  Policy <- MCPolicy
  MaxYields = 2
  MaxNexts = 2
  MaxHandlers = 2
SYMMETRY Symmetry
INVARIANTS
  ContinuationsAccountedFor
  WaitersHaveNothing
  ValuesAccountedFor
  DeliveredInOrder
  HandlersCalledOnce
  CancelEndsStream
CHECK_DEADLOCK FALSE
