SPECIFICATION PromptSpec
CONSTANTS
    h1 = h1
    w1 = w1
    w2 = w2
    w3 = w3
    s1 = s1
    s2 = s2
    s3 = s3
    s4 = s4
    x1 = x1
    oh = oh
    o1 = o1
    o2 = o2
    o3 = o3
    p1 = p1
    p2 = p2
    p3 = p3
    admin = admin
    treasury = treasury
    book = book
    none = none
    good = good
    bad = bad
    odd = odd
    zero = zero
    m1 = m1
    NoAddress = none
    NoHash = zero
    Book = book
    Address <- MCAddress
    Hash <- MCHash
    Match <- OneMatch
    PanelSize = 3
    Seats = 1
    MaxPoolCap = 5
    SeedDepth = 2
    MaxTerm = 12
    LastMove = 14
    MaxTime = 26
    BlockTimes <- Seconds
    Key <- PromptKey
    Genesis <- PromptGenesis
    BookGenesis <- PromptBook
    Offers <- PromptOffers
    Signed <- Nothing
    Terms <- Nothing
    BookTerms <- Nothing
    PoolCaps <- PromptCeilings
    Enrollers <- PromptEnrollers
    Amounts <- Nothing
    SlashRates <- Nothing
    Delegates <- Nothing
    Movers <- PromptMovers
    Takers <- Nothing
    Judges <- Nothing
INVARIANTS DecidedInTime SlashHasABond
PROPERTIES EachMatchEnds
