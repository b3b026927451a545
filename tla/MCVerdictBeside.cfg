SPECIFICATION BookSpec
CONSTANTS
    h1 = h1
    w1 = w1
    w2 = w2
    w3 = w3
    s1 = s1
    s2 = s2
    s3 = s3
    s4 = s4
    x1 = x1
    oh = oh
    o1 = o1
    o2 = o2
    o3 = o3
    p1 = p1
    p2 = p2
    p3 = p3
    admin = admin
    treasury = treasury
    book = book
    none = none
    good = good
    bad = bad
    odd = odd
    zero = zero
    m1 = m1
    NoAddress = none
    NoHash = zero
    Book = book
    Address <- MCAddress
    Hash <- MCHash
    Match <- OneMatch
    PanelSize = 3
    Seats = 3
    MaxPoolCap = 5
    SeedDepth = 2
    MaxTerm = 2
    LastMove = 4
    MaxTime = 13
    BlockTimes <- Seconds
    Key <- VerdictKey
    Genesis <- VerdictGenesis
    BookGenesis <- VerdictBook
    Offers <- VerdictOffers
    Signed <- Nothing
    Terms <- Nothing
    BookTerms <- Nothing
    PoolCaps <- Nothing
    Enrollers <- Nothing
    Amounts <- Nothing
    SlashRates <- Nothing
    Delegates <- Nothing
    Movers <- RotateMovers
    Takers <- RotateWallets
    Judges <- Nothing
INVARIANTS MajorityOfSnapshot
PROPERTIES SeatsAvoidTheHost
