SPECIFICATION Spec
CONSTANTS
  Hosts = {"h1", "h2"}
  IPs = {"a1", "a2"}
  V6 = "v6"
  None = None
  Lists <- MCLists
  Offers <- MCOffers
  KeyForms = {"padded", "unpadded", "short"}
  MaxInbounds = 2
  MaxRecords = 1
  Resolver = "9.9.9.9"
  KillSwitch = TRUE
  SignedNodesOnly = TRUE
INVARIANTS
  WhitelistIsDialled
  ReconnectNeedsNoDns
  PaidConfigsStart
  DnsThroughTheNode
