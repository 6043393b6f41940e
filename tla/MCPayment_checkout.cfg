\* Checkout, cancel, expire and sync against notifications, with a crash or a lost answer.
SPECIFICATION Spec
CONSTANTS
  Orders = {o1}
  Callers = {c1, c2}
  Handlers = {h1}
  NoOrder = NoOrder
  Refunds = {r1}
  NoRefund = NoRefund
  Operations = {"create", "sync", "cancel", "expire", "session"}
  GatewayMoves <- Checkout
  Amount = 1
  RefundAmounts = {0}
  MaxFaults = 1
SYMMETRY Symmetry
INVARIANTS
  MoneyMatchesRow
  EventsAreTrue
PROPERTIES
  LifecycleHolds
CHECK_DEADLOCK FALSE
