SPECIFICATION HourlySpec
CONSTANTS
    n1 = n1
    n2 = n2
    n3 = n3
    op1 = op1
    admin = admin
    none = none
    zero = zero
    m1 = m1
    m2 = m2
    NoAddress = none
    NoRoot = zero
    Key <- MCKey
    Address <- MCAddress
    Match <- OneMatch
    Root <- OneMatchRoots
    Epoch <- TwoHours
    AnchorGenesis <- All
    Flaky <- Nothing
    Restarts <- Nothing
    FailLimit = 1
    LastMove = 4
    MaxTime = 7
    Hour = 2
    Grace = 1
    Quorums <- Nothing
    Signed <- Nothing
    Terms <- Nothing
    Genesis <- Even
    Amounts <- Nothing
    SlashRates <- Nothing
    Delegates <- Nothing
    Movers <- Nothing
    Takers <- Nothing
    Judges <- Nothing
    BlockTimes <- Seconds
    MaxTerm = 2
PROPERTIES HoldersAgree EveryHourAnchors
