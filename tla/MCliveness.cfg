CONSTANTS
  Sessions = {s1}
  s1 = s1
  NoSession = NoSession
  StashFirst = TRUE
  MaxAttempts = 1
  MaxRequests <- Requests31
  MaxWaiting = 2

SPECIFICATION FairSpec
PROPERTY EndingIsHonoured
PROPERTY DropIsNoticed
PROPERTY LadderSettles
\* With nothing requested and nothing up the application is at rest.
CHECK_DEADLOCK FALSE
