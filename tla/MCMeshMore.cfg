SPECIFICATION MeshSpec
CONSTANTS
  Parts = {"settlement", "placement", "peers", "chat", "court"}
  Subs = {a, b}
  Kinds <- RankedKinds
  Witnesses = {w1, w2}
  Registry = TRUE
  MaxHour = 1
  MaxRestarts = 1
  MaxChecks = 1
  n1 = n1
  n2 = n2
  MeshNodes = {n1, n2}
  Players = {1, 2, 3}
  Home <- Twice
  SpentBuckets = 2
  CommitWait = 1
  MatchTtl = 2
  QueueTtl = 2
  MaxLost = 1
  LastPost = 1
  LastBucket = 5
  k1 = k1
  k2 = k2
  k3 = k3
  Keys = {k1, k2, k3}
  MaxKeys = 2
  MaxUnbonded = 1
  ForgetAfter = 1
  EvictedFor = 1
  LastEpoch = 2
  MaxHeard = 3
  MaxFlying = 2
  Hosts = {h1}
  Speakers = {s1, s2}
  Ring = 3
  UnbondedRing = 1
  Burst = 2
  RateWindow = 3
  PastWindow = 2
  LastTick = 3
  MaxOpening = 2
  Settlers = {1, 2, 3}
  Steady = {3}
  Settles = {1, 2}
  MatchOf <- MCMatchOf
  Fallbacks = 2
  PostRetries = 1
INVARIANTS MeshTypeOK SentIsSigned BurstBounded
PROPERTIES HeartbeatsAdvance StandingOutlastsAFailedRead
SYMMETRY KeySymmetry
CHECK_DEADLOCK FALSE
