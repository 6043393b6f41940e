\* One payout, two workers: every interleaving of their copies, answers and crashes.
SPECIFICATION Spec
CONSTANTS
  Payouts = {p1}
  Workers = {w1, w2}
  Callers = {c1, c2}
  Admins = {a1, a2}
  NoPayout = NoPayout
  NoWorker = NoWorker
  NoAdmin = NoAdmin
  CreateAnswers = {"SUBMITTED", "COMPLETED", "REJECTED", "UNMAPPED"}
  SettledAnswers = {"COMPLETED", "FAILED", "REJECTED"}
  IdempotencyWindow = 2
  KeyTTL = 3
  MaxLatency = 1
  BatchSize = 1
  MaxTime = 0
  MaxFaults = 2
SYMMETRY Symmetry
INVARIANTS
  TypeOK
  NothingSentBeforeRelease
  ReleasedByAnother
  HistoryMatchesRow
  
  EventsAreTrue
PROPERTIES
  LifecycleHolds
CHECK_DEADLOCK FALSE
