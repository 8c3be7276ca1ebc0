SPECIFICATION Spec
CONSTANTS
  c1 = c1
  c2 = c2
  c3 = c3
  Clients = {c1, c2, c3}
  Places = {1, 2}
  MaxTime = 3
  FlagLimit = 2
  HoldSecs = 2
  HoldDeathPenalty = 1
  ResetFlagTime = 1
  InvisFlagTime = 2
  MaxDrops = 2
  EnemyLimit = 2
  NeutralLimit = 1
  ScoreSecs = 2
  AmmoSecs = 1
  MaxAmmo = 1
  AllBases = 100
  TokenLimit = 1
  UnownedTokenLimit = 1
  ScoreLimit = 2
  ExpireTokenTime = 2
  StealTokenTime = 1
  MaxTokens = 2
  GameModes = {"ctf", "protect", "hold", "capture", "collect"}
  FromFiles = {"ctf", "protect"}
  FromClients = {"ctf", "protect", "hold", "capture", "collect"}
  Outside = {1}
  Crowded = {"hold"}
  MaxTurns = 1
  MaxChanges = 3
SYMMETRY Symmetry
INVARIANTS ViewsAgree HoldersAlive PlacesCounted
PROPERTIES FlagsEarned
CHECK_DEADLOCK FALSE
