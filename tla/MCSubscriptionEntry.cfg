\* One subscription with subqueries and every kind of message.  It may stop:
\* services may fall silent, clients may stay, and a crash ends everything.
SPECIFICATION Spec
CONSTANTS
  Entry = {"s1"}
  HasSubqueries = {"s1"}
  Kind = {"data", "errors", "null", "empty", "end"}
  MaxMessages = 3
CHECK_DEADLOCK FALSE
INVARIANTS
  IInv
  CrashesOnlyBy
PROPERTIES
  DrainsBeforeEnd
  ReleasesEverything
