SPECIFICATION Spec
CONSTANTS
    s = s
    t = t
    Seeds = {s, t}
    Paths = {0, 1}
    MaxWallets = 3
    MaxLaunches = 3
INVARIANTS
    WalletsHaveSeeds
    OneEntryPerAddress
    SeedsStay
    RemovedIsGone
CHECK_DEADLOCK FALSE
