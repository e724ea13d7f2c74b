\* Four elements: every mix of results and errors in every arrival order.
SPECIFICATION Spec
CONSTANT N = 4
INVARIANTS
  IInv
  EverythingFoldedOnce
  NoGoroutineOutlivesCall
PROPERTIES
  Terminates
  ImplementsMapReduce
