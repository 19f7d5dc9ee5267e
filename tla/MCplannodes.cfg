SPECIFICATION Spec
CONSTANTS
    Plans = {p1, p2}
    Nodes = {n1}
    Slots = {s1}
    TTL = 1
    MaxClock = 1
    MaxCalls = 1
    Nothing = Nothing
SYMMETRY Symmetries
CHECK_DEADLOCK FALSE
INVARIANTS
    ServedIsRecent
    ReturnsDropOldLists
    CatalogListIsOfThePlan
