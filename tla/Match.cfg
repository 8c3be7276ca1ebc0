SPECIFICATION Spec
CONSTANTS
  MapRotation <- Rotations
  ModeOrder <- Order
  Clients = {1, 2}
  Idents = {"i", "j"}
  Votes <- Wanted
  KnownMaps = {"a"}
  Admins = {"i"}
  Players <- Here
  GameTime = 2
  ExtraTime = 1
  IntermissionTime = 1
  MaxDemos = 1
  AutoRecord = TRUE
  ModifiedMapSpectator = 1
  PersistTeams = FALSE
  LockMapRotation = FALSE
  Veto = TRUE
  TeamKillLimit = 1
  MaxLimit = 3
  MaxTurns = 2
INVARIANTS ToldAgree OfThisMatch
PROPERTIES RecordsKept MatchGoesOn
CHECK_DEADLOCK FALSE
