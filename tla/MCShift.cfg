SPECIFICATION BookSpec
SYMMETRY ShiftSymmetry
CONSTANTS
    h1 = h1
    w1 = w1
    w2 = w2
    w3 = w3
    s1 = s1
    s2 = s2
    s3 = s3
    s4 = s4
    x1 = x1
    oh = oh
    o1 = o1
    o2 = o2
    o3 = o3
    p1 = p1
    p2 = p2
    p3 = p3
    admin = admin
    treasury = treasury
    book = book
    none = none
    good = good
    bad = bad
    odd = odd
    zero = zero
    m1 = m1
    NoAddress = none
    NoHash = zero
    Book = book
    Address <- MCAddress
    Hash <- ShiftHash
    Match <- OneMatch
    PanelSize = 3
    Seats = 3
    MaxPoolCap = 5
    SeedDepth = 2
    MaxTerm = 2
    LastMove = 5
    MaxTime = 8
    BlockTimes <- Seconds
    Key <- ShiftKey
    Genesis <- ShiftGenesis
    BookGenesis <- ShiftBook
    Offers <- PromptOffers
    Signed <- Nothing
    Terms <- Nothing
    BookTerms <- ShiftBookTerms
    PoolCaps <- Nothing
    Enrollers <- Nothing
    Amounts <- Seconds
    SlashRates <- Nothing
    Delegates <- Nothing
    Movers <- ShiftMovers
    Takers <- ShiftWallets
    Judges <- Nothing
PROPERTIES SlashOnlyOutvoted
