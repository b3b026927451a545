SPECIFICATION ContractsSpec
CONSTANTS
    k1 = k1
    k2 = k2
    k3 = k3
    op1 = op1
    op2 = op2
    op3 = op3
    admin = admin
    treasury = treasury
    none = none
    good = good
    bad = bad
    zero = zero
    NoAddress = none
    NoRoot = zero
    Key <- MCKey
    Address <- MCAddress
    Epoch <- OneHour
    Root <- TwoRoots
    Hour = 2
    Quorums <- QuorumChoices
    AnchorGenesis <- HalfOf
    Signed <- Nothing
    Terms <- Nothing
    Genesis <- LeaveGenesis
    Amounts <- Nothing
    SlashRates <- Nothing
    Delegates <- Nothing
    Movers <- LeaveMovers
    Takers <- Nothing
    Judges <- Nothing
    BlockTimes <- Seconds
    MaxTerm = 2
    LastMove = 5
    MaxTime = 6
    ka = ka
    kb = kb
    kc = kc
    Finals = {"m1", "m2"}
    NodeKeys = {ka, kb, kc}
    Seated <- TwoMatches
    Share = 2
    ClaimShare = 1
    Callbacks = {ka, kb}
    Admins = {kb}
    Caps = {2, 3}
    Fund0 = 6
    MaxFund = 8
    LastDay = 1
    Titles = {t1, t2}
    Hashes = {x}
    People = {alice, bob}
    NoOne = noone
    ActivationDelay = 1
    LastBlock = 2
    Owners = {u1, u2}
    DeviceKeys = {d1, d2, d3}
    Characters = {ch}
    Users = {u1, u2}
    Nobody = nobody
    Progressors = {p1, p2}
    Gear = {g}
    MaxWins = 2
PROPERTIES AnchorHeldByQuorum
CHECK_DEADLOCK FALSE
