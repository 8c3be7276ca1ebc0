\* One player and its own clock: rockets, deaths, spectating and a new map
SPECIFICATION Spec
CONSTANTS
  p1 = p1
  p2 = p2
  Players = {p1}
  Sends = {"shot", "explode", "suicide", "pause", "spectate", "team"}
  Guns = {"rocket"}
  SpawnAmmo = 2
  AttackDelay = 2
  Rays = 1
  MaxHits = 1
  Ids = {1}
  MaxProjs = 2
  MaxHealth = 1
  Damage = {1}
  DeathMillis = 1
  LifeMod = 2
  QueueLimit = 0
  GameLimit = 2
  ItemTimes = {1}
  HasItem = FALSE
  MaxTime = 2
  MaxEvents = 2
  MaxLives = 2
  MaxSessions = 1
  MaxMaps = 1
INVARIANTS
  FireHeld
  ExplosionsWereShot
  LifeIsFresh
PROPERTIES
  ImplementsLives
