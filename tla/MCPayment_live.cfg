\* Captured money settles its payment or stays flagged.
SPECIFICATION FairSpec
CONSTANTS
  Orders = {o1}
  Callers = {c1}
  Handlers = {h1}
  NoOrder = NoOrder
  Refunds = {r1}
  NoRefund = NoRefund
  Operations = {"create", "sync", "cancel"}
  GatewayMoves <- Screened
  Amount = 1
  RefundAmounts = {0}
  MaxFaults = 2
PROPERTIES
  CaptureIsNotForgotten
CHECK_DEADLOCK FALSE
