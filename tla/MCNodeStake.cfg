SPECIFICATION Spec
CONSTANTS
    k1 = k1
    k2 = k2
    op1 = op1
    op2 = op2
    admin = admin
    treasury = treasury
    book = book
    none = none
    NoAddress = none
    Key <- MCKey
    Address <- MCAddress
    Signed <- MCSigned
    Terms <- MCTerms
    Genesis <- MCGenesis
    Amounts <- MCAmounts
    SlashRates <- MCSlashRates
    Delegates <- MCDelegates
    Movers <- MCKey
    Takers <- MCTakers
    Judges <- MCJudges
    BlockTimes <- MCBlockTimes
    MaxTerm = 2
    LastMove = 5
    MaxTime = 7
INVARIANTS TypeOK Solvent TotalActiveIsSum
PROPERTIES UnbondingEnds PaidOnlyAfterTerm
