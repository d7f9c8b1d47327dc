CONSTANTS
  NumPolicies = 4
  DELAY_STEPS_SWITCH = 3
  Mimic <- SimMimic
  WoGait <- SimWoGait
  PrimeCfg = 4
  SkipPrime = FALSE
  HoldSteps = 2
  InitialCfg = 0
  FallbackCfg = 0
  WalkCfg = 0
  GestiPid = 4
  SafeWindows = {}
  SongPolicies = {}
  IsSim = TRUE
  BootPhase = "selfcheck"
  Commands <- SimCommands
  MaxCommands = 2
  MaxIssued = 3
SPECIFICATION MCSpec
INVARIANTS
  WarmupIsScheduled
PROPERTIES
  DanceOnlyFromHeldStand
