CONSTANTS
  Clients = {c1}
  None = None
  NPeers = 2
  TotalSessions = 3
  DuplicatePeers = 2
  CookieTimeout = 1
  Times = 4
  MinSlots = 1
  Ratios = {10, 50}
  Cleanup = 0
  MaxConnects = 2
  MaxOpens = 2
  MaxCalls = 1
  MaxSends = 1
  MaxTicks = 2
  Draws = {11}
  Services = {TRUE, FALSE}
SPECIFICATION Spec
CHECK_DEADLOCK FALSE
INVARIANTS EventsPaired Agreed HostAccounts
PROPERTIES ShutdownEnds
