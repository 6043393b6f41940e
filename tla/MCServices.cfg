\* The services around the core, one at a time.
SPECIFICATION ServicesSpec
CONSTANTS
  Requests = {r1, r2, r3}
  Keys = {k1}
  Bodies = {body1, body2}
  OrderOf <- SameOrder
  NoRequest = NoRequest
  IdempotencyTTL = 2
  MaxRequestTime = 1
  MaxFaults = 2
  Instances = {api1, api2, worker1}
  Apis = {api1, api2}
  NewApi = api1
  Known <- TwoReleases
  NoInstance = NoInstance
  MaxKills = 2
  Admins = {admin1, admin2}
  FirstAdmin = admin1
  Browsers = {br1, br2}
  Tokens = {t1, t2}
  Nobody = Nobody
  SessionTTL = 1
  MaxChanges = 2
  Callers = {c1, c2, c3}
  Burst = 2
  BucketTTL = 3
  BucketCapacity = 3
  MaxOvershoot = 2
  Subs = {sub1}
  SubCallers = {sc1, sc2}
  Terms = {terms1, terms2}
  FirstTerms = terms1
  NoSub = NoSub
  MaxTroubles = 1
  Accounts = {acc1, acc2}
  Operators = {op1, op2}
  Payers = {p1}
  NoAccount = NoAccount
  MaxEdits = 3
  OldAccount = acc1
  FirstAccounts <- OneAccount
  Requesters = {q1, q2}
  References = {ref1, ref2, ref3}
  Amounts = {2}
  Ceilings = {0, 2, 4}
  NoCeiling = NoCeiling
  Keep = Keep
  LimitAdmins = {la1, la2}
  Patches <- SomePatches
  FirstLimits <- BothLimits
  MaxWrites = 2
  Beneficiaries = {ben1}
  Numbers = {n1, n2}
  FirstNumber = n1
  Verifiers = {v1, v2}
  PayoutRequests = {pr1}
  NoBeneficiary = NoBeneficiary
  MaxBookEdits = 4
  LastId = 5
  DefaultPageLimit = 1
  MaxPageLimit = 2
  MaxTableEdits = 3
INVARIANTS
  ServicesTypeOK
  WorkIsExclusive
  ReplayIsFaithful
  NoMigrationFails
  ServesItsSchema
  NoSessionOutlivesChange
  OnlyUnkeptBucketsOvershoot
  RowFollowsGateway
  CancellationIsReal
  OneDefaultPerEnvironment
  KeysKeepToTheirEnvironment
  OvershootIsBounded
  LimitsAreValid
  OnlyARaceMisleads
  WalkIsComplete
PROPERTIES
  KeyComesFree
  EveryoneServes
  LonePromotionIsNotRefused
CHECK_DEADLOCK FALSE
