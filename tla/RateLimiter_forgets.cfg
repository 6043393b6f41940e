SPECIFICATION LimiterSpec
CONSTANTS
  Callers = {c1, c2}
  Burst = 2
  BucketTTL = 3
  BucketCapacity = 2
  MaxOvershoot = 2
INVARIANT NoMoreThanTheLimit
