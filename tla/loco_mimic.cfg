CONSTANTS
  NumMimic = 2
  Lead = 3
  Ramp = 3
  Trail = 3
  IsPrepared = TRUE
  MaxCommands = 2
  MaxIssued = 4
SPECIFICATION FairSpec
INVARIANTS
  InterpInv
PROPERTIES
  MimicFromItsPose
  InterpolationEnds
  FinishedMimicIsLeft
