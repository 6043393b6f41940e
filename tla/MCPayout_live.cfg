\* One payout, one worker with faults, a clock that outruns the retry window and the key.
SPECIFICATION FairSpec
CONSTANTS
  Payouts = {p1}
  Workers = {w1}
  Callers = {c1}
  Admins = {a1}
  NoPayout = NoPayout
  NoWorker = NoWorker
  NoAdmin = NoAdmin
  CreateAnswers = {"SUBMITTED", "FAILED"}
  SettledAnswers = {"COMPLETED", "FAILED"}
  IdempotencyWindow = 1
  KeyTTL = 2
  MaxLatency = 1
  BatchSize = 1
  MaxTime = 3
  MaxFaults = 2
INVARIANTS
  RetryIsAQuestion

  
CHECK_DEADLOCK FALSE
