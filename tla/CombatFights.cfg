\* Two players: shots at those who die, respawn, leave and return, and an item both want
SPECIFICATION Spec
CONSTANTS
  p1 = p1
  p2 = p2
  Players = {p1, p2}
  Sends = {"shot", "pickup"}
  Guns = {"rifle"}
  SpawnAmmo = 1
  AttackDelay = 1
  Rays = 1
  MaxHits = 1
  Ids = {1}
  MaxProjs = 1
  MaxHealth = 2
  Damage = {1}
  DeathMillis = 1
  LifeMod = 2
  QueueLimit = 0
  GameLimit = 2
  ItemTimes = {1}
  HasItem = TRUE
  MaxTime = 2
  MaxEvents = 1
  MaxLives = 2
  MaxSessions = 2
  MaxMaps = 0
SYMMETRY PlayerSymmetry
INVARIANTS
  LivesEndOnce
  ItemReturns
PROPERTIES
  HitsAimedLife
