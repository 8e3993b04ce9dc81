\* A destroyed heap takes no more calls.
SPECIFICATION Spec
CHECK_DEADLOCK FALSE
CONSTANTS
  Values = {1, 2}
  MaxHeap = TRUE
  InitSize = 1
  MaxSize = 8
  MaxItems = 6
INVARIANTS WellFormed NodesKept
PROPERTY ImplementsQueue
