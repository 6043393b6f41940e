\* Two refunds applied in the other order than answered.
SPECIFICATION Spec
CONSTANTS
  Orders = {o1}
  Callers = {c1, c2}
  Handlers = {h1}
  NoOrder = NoOrder
  Refunds = {r1, r2}
  NoRefund = NoRefund
  Operations = {"create", "refund"}
  GatewayMoves <- Paid
  Amount = 2
  RefundAmounts = {0, 1}
  MaxFaults = 0
SYMMETRY Symmetry
PROPERTIES
  NeverBackwards
CHECK_DEADLOCK FALSE
