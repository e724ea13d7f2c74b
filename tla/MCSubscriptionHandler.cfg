\* Two subscriptions under two ids, which their services end at some time, or one
\* with two heartbeats.  It may stop: clients and services may fall silent.
SPECIFICATION MCSpec
CONSTANTS
  Entry = {"s1", "s2"}
  HasSubqueries = {}
  Kind = {"end"}
  MaxMessages = 1
  Id = {"i", "j"}
  NoEntry = "none"
  MaxHeartbeats = 2
CHECK_DEADLOCK FALSE
INVARIANTS
  HandlerIInv
  ClosesOnce
  LeaksOnlyBy
PROPERTIES
  HeartbeatsEnd
