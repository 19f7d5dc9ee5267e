SPECIFICATION FairSpec
CONSTANTS
    Nodes = {n1}
    Prices <- MCPrices
    Offered <- MCOffered
    MaxCalls = 2
    MaxMoves = 1
    Openings <- MCOpenings
    Nothing = Nothing
CHECK_DEADLOCK FALSE
INVARIANTS
    NeverPaysMoreThanChecked
PROPERTIES
    CollisionsAreLate
    CallsEnd
