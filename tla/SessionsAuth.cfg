\* Three sessions share two client numbers: requests, kicks, answers, privileges and the
\* pause race with leaving
SPECIFICATION Spec
CONSTANTS
  p1 = p1
  p2 = p2
  a1 = a1
  a2 = a2
  Peers = {p1, p2}
  NoPeer = NoPeer
  Addresses = {a1}
  NoAddress = NoAddress
  MaxInfos = 3
  MaxReq = 1
  KeyPrivs = {0, 2, 3}
  MasterModes = {0, 2}
  MasterMask = {0, 2}
  AutoApprove = TRUE
  MaxClients = 2
  ServerPass = FALSE
  AdminPass = TRUE
  ServerAuth = TRUE
  PausePriv = 1
SYMMETRY PeerSymmetry
INVARIANTS
  LinksMatch
  AuthKickNamesSession
  AnswersPending
  AuthorityKept
