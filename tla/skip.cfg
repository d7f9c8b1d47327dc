CONSTANTS
  NumPolicies = 4
  DELAY_STEPS_SWITCH = 3
  Mimic <- SimMimic
  WoGait <- SimWoGait
  PrimeCfg = 4
  SkipPrime = TRUE
  HoldSteps = 2
  InitialCfg = 0
  FallbackCfg = 0
  WalkCfg = 0
  GestiPid = 4
  SafeWindows = {2, 3}
  SongPolicies = {3}
  IsSim = TRUE
  BootPhase = "run"
  Commands <- SafeCommands
  MaxCommands = 1
  MaxIssued = 4
SPECIFICATION MCSpec
INVARIANTS
  NewestRequestWins
