\* Two refunds of one payment, with their notifications.
SPECIFICATION Spec
CONSTANTS
  Orders = {o1}
  Callers = {c1, c2}
  Handlers = {h1}
  NoOrder = NoOrder
  Refunds = {r1, r2}
  NoRefund = NoRefund
  Operations = {"create", "refund"}
  GatewayMoves <- Paid
  Amount = 2
  RefundAmounts = {0, 1}
  MaxFaults = 1
SYMMETRY Symmetry
INVARIANTS
  TypeOK
  RefundsHappened
  MoneyMatchesRow
CHECK_DEADLOCK FALSE
