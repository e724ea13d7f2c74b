\* A subscription and a query share a hash, another query has its own; plans expire.
SPECIFICATION Spec
CONSTANTS
  Caller = {"c1", "c2", "c3"}
  Operation <- MCOperation
  HashOf <- MCHashOf
  Subscription = {"c1"}
  NoPlan = NoPlan
  TTL = 1
  MaxTime = 3
INVARIANTS
  IInv
  NoStalePlan
  CachedUnderItsHash
  WholePlan
