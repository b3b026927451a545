SPECIFICATION NodeSpec
CONSTANTS
  Matches = {1, 2}
  Ports = {1, 2}
  Direct = {1, 2}
  MaxDirect = 1
  MaxRuns = 3
  Procs = {p1, p2, p3}
  MaxMoves = 1
  Releases = {1, 2}
  Items = {1, 2, 3, 4}
  Contracts = 2
  CodeItems = {1, 2}
  Ships <- MCShips
  Dated <- MCDated
  Signer <- MCSigner
  RotateTo <- MCRotate
  Retire <- MCRetire
  Pinned = "k1"
  Callers = {"timer", "operator"}
  MaxCuts = 1
  Others = {announcer, sponsor}
  LastNonce = 4
  MaxAsked = 3
  Users = {u1, u2}
  Tabs = {1, 2}
  Browsers = {b1}
  Titles = {title}
  NodeKey = thisNode
  Wallets = {w1, w2}
  Away = away
  MaxRequests = 3
  Endpoints = {1, 2}
  Readers = {"status"}
  Tries = 2
  Longest = 1
  ScanRange = 1
  Tip = 1
  Checks = {1, 2, 3, 4}
  BundleOf <- MCBundleOf
  Broken = {"broken"}
  Own = {}
  Budget = 2
  Deadline = 2
  LastDay = 1
  MaxRegistry = 1
  DiskMayFail = FALSE
INVARIANTS DirectCapped OneOverrun BrokenStaysBarred
PROPERTIES PausedIsLeftAlone RevokedStopsAtOnce RollbackRestores SetOnlyRises
CHECK_DEADLOCK FALSE
