\* One delivery, two workers: every interleaving, and with fair workers an end.
SPECIFICATION LiveSpec
CONSTANTS
  Events = {e1}
  Destinations = {x1}
  Procs = {p1, p2}
  MaxAttempts = 3
  RetryDelays <- LongDelays
  StaleAfter = 1
  AttemptTime = 1
  MaxSlack = 0
  Concurrency = 1
  MaxRetries = 2
  MaxFaults = 3
INVARIANTS
  TypeOK
  
  AttemptsBounded
  
PROPERTIES
  
  NoDeliveryStuck
