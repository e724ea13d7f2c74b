\* A subscription without subqueries, stopped by its client.
SPECIFICATION Spec
CONSTANTS
  Entry = {"s1"}
  HasSubqueries = {}
  Kind = {"data", "end"}
  MaxMessages = 2
CHECK_DEADLOCK FALSE
INVARIANT StopIsSafe
