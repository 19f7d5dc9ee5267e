SPECIFICATION Spec
CONSTANTS
    Wallets = {w1, w2}
    MaxBuys = 2
    MaxEnds = 1
    MaxCandidates = 3
    MaxTxAttempts = 2
    MaxRetries = 1
SYMMETRY WalletSymmetry
INVARIANTS
    TypeOK
    PlanPaidOnce
    OneTxAtATime
    CancelSignedByOwner
    ChainStaysManageable
PROPERTIES
    LadderNeverStacks
    KeepsPromise
