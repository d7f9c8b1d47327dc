CONSTANTS
  NumPolicies = 4
  DELAY_STEPS_SWITCH = 2
  Mimic <- Dances
  WoGait <- Stand
  PrimeCfg = 4
  SkipPrime = FALSE
  HoldSteps = 2
  InitialCfg = 0
  FallbackCfg = 0
  WalkCfg = 0
  GestiPid = 4
  SafeWindows <- Nothing
  SongPolicies <- Dances
  IsSim = FALSE
  BootPhase = "prepare"
  Commands <- DanceCommand
  MaxCommands = 1
  Chunks <- TwoChunks
  Songs <- TwoSongs
  RuleFor <- PlainRules
  QueueMaxlen = 2
  InOrder = TRUE
  Segmented <- Dances
  DropStale = TRUE
  MaxIssued = 1
SPECIFICATION MCFairSpec
PROPERTIES
  ImplementsPipeline
  QueueDrains
