CONSTANTS
  Sessions = {s1, s2}
  s1 = s1
  s2 = s2
  NoSession = NoSession
  StashFirst = FALSE
  MaxAttempts = 1
  MaxRequests <- Requests44
  MaxWaiting = 2

SPECIFICATION Spec
INVARIANT TunnelIsTheTrackedSession
\* With nothing requested and nothing up the application is at rest.
CHECK_DEADLOCK FALSE
