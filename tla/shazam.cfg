CONSTANTS
  NumPolicies = 4
  DELAY_STEPS_SWITCH = 2
  Mimic <- Dances
  WoGait <- Stand
  PrimeCfg = 4
  SkipPrime = TRUE
  HoldSteps = 2
  InitialCfg = 0
  FallbackCfg = 0
  WalkCfg = 0
  GestiPid = 4
  SafeWindows <- Nothing
  SongPolicies <- Dances
  IsSim = TRUE
  BootPhase = "run"
  Commands <- UserCommands
  MaxCommands = 1
  Chunks <- ThreeChunks
  Songs <- TwoSongs
  RuleFor <- WrongRules
  QueueMaxlen = 2
  InOrder = TRUE
  Segmented <- Dances
  DropStale = TRUE
  MaxIssued = 1
SPECIFICATION MCSpec
INVARIANTS
  AtMostOneAutoSwitch
PROPERTIES
  ChunksInOrder
