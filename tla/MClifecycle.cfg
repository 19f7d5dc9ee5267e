CONSTANTS
  Sessions = {s1}
  s1 = s1
  NoSession = NoSession
  StashFirst = TRUE
  MaxAttempts = 1
  MaxRequests <- Requests43
  MaxWaiting = 2

SPECIFICATION Spec
INVARIANT TypeOK
INVARIANT EndingIsInCharge
INVARIANT NoResurrection
INVARIANT ProtectionIsHonest
INVARIANT TunnelIsSupervised
PROPERTY AttemptIsBacked
\* With nothing requested and nothing up the application is at rest.
CHECK_DEADLOCK FALSE
