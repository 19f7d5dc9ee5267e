SPECIFICATION Spec
CONSTANTS
    wg = wg
    xray = xray
    NoHost = NoHost
    Hosts = {wg, xray}
    Outlives = {wg}
    SetsDns = {xray}
    MaxRequests = 2
    MaxExits = 1
    MaxWaiting = 2
INVARIANTS
    TypeOK
    MarkersAreHonest
    ResolverIsRecoverable
    ProtectedOrTold
    LanIsAsSet
PROPERTIES
    EndingOpensOrTells
CHECK_DEADLOCK FALSE
