CONSTANTS
  NumPolicies = 3
  DELAY_STEPS_SWITCH = 3
  Mimic <- RealMimic
  WoGait <- RealWoGait
  PrimeCfg = 3
  SkipPrime = FALSE
  HoldSteps = 4
  InitialCfg = 0
  FallbackCfg = 0
  WalkCfg = 0
  GestiPid = 1
  SafeWindows = {}
  SongPolicies = {2}
  IsSim = FALSE
  BootPhase = "prepare"
  Commands <- RealCommands
  MaxCommands = 2
  MaxIssued = 3
SPECIFICATION MCFairSpec
INVARIANTS
  LatchHasSwitch
  PrimingInv
PROPERTIES
  PrimeResolves
  FinishedMotionIsLeft
