\* The join timer
SPECIFICATION FairSpec
CONSTANTS
  p1 = p1
  p2 = p2
  a1 = a1
  a2 = a2
  Peers = {p1, p2}
  NoPeer = NoPeer
  Addresses = {a1, a2}
  NoAddress = NoAddress
  MaxInfos = 2
  MaxReq = 1
  KeyPrivs = {2}
  MasterModes = {0, 2}
  MasterMask = {0, 2}
  AutoApprove = TRUE
  MaxClients = 1
  ServerPass = FALSE
  AdminPass = FALSE
  ServerAuth = TRUE
  PausePriv = 1
PROPERTIES
  JoinResolved
