SPECIFICATION Spec
CONSTANTS
    a = a
    b = b
    NoRpc = NoRpc
    Rpcs = {a, b}
    Hosts = {a, b}
    Readings <- MCReadings
    Feed <- MCFeed
    MaxEvents = 2
INVARIANTS
    ManualIsUsers
    PillNamesThePath
    SelectionSettles
PROPERTIES
    PillConverges
CHECK_DEADLOCK FALSE
