CONSTANTS
  p1 = p1
  p2 = p2
  p3 = p3
  Policy <- ThreePolicies
  Initial = p1
  Blend = Blend
  Zeros = Zeros
  DampingGains = DampingGains
  NoCommand = NoCommand
SPECIFICATION FairSpec
INVARIANTS
  GainsMatchTarget
  ControllerInv
PROPERTIES
  ImplementsMotorLink
  StaysDamped
CHECK_DEADLOCK FALSE
