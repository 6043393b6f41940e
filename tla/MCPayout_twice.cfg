\* A worker that crashed after submitting comes back when the gateway has forgotten the key.
SPECIFICATION Spec
CONSTANTS
  Payouts = {p1}
  Workers = {w1}
  Callers = {c1}
  Admins = {a1, a2}
  NoPayout = NoPayout
  NoWorker = NoWorker
  NoAdmin = NoAdmin
  CreateAnswers = {"SUBMITTED"}
  SettledAnswers = {"COMPLETED", "FAILED", "REJECTED"}
  IdempotencyWindow = 2
  KeyTTL = 3
  MaxLatency = 1
  BatchSize = 1
  MaxTime = 4
  MaxFaults = 2
SYMMETRY Symmetry
INVARIANTS
  PaidAtMostOnce
CHECK_DEADLOCK FALSE
