SPECIFICATION Spec
CONSTANTS
    wg = wg
    xray = xray
    NoHost = NoHost
    Hosts = {wg, xray}
    Outlives = {wg}
    SetsDns = {xray}
    MaxRequests = 3
    MaxExits = 0
    MaxWaiting = 2
INVARIANT NeverSilentlyUnprotected
CHECK_DEADLOCK FALSE
