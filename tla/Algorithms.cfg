SPECIFICATION Spec
CONSTANTS
  MinSize = 2
  SortSmall = 3
  TableSize = 2
  ChunkSize = 2
  RingSize = 3
  B = 16
  MaxSymbols = 16
  OutLimit = 12
  DigitBits = 2
  NibbleBits = 1
  UnitDigits = 2
  CurveB = 42
  BaseX = 3
  BaseY = 478
  CurveOrder = 4099
  BufSize = 12
  Window = 3
  ConnectLimit = 2
  RetryAfter = 4
  UpdateEvery = 6
  MaxItems = 4
  MaxSteps = 7
  MaxBytes = 7
  MaxSlices = 5
  MaxValues = 3
  MaxTeams = 2
  AmmoKinds = 2
  MaxDemoSize = 8
  Slack = 6
  Held = 2
  MaxPingData = 4
  MaxOverflow = 4
  MaxPeers = 128
  DefaultPeers = 8
  Reserved = 3
INVARIANTS StoresKeep MessagesPass KeysOpen RulesKept
CHECK_DEADLOCK FALSE
