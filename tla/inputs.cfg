CONSTANTS
  Cfg <- Registry
  Piloted = "g1_switch"
  Button <- Buttons
  Modifier <- Modifiers
  Triggers <- PadButtons
  OnRelease = FALSE
  QueueSize = 3
  MaxEvents = 4
SPECIFICATION CockpitSpec
INVARIANTS
  LostOnlyBehindACommand
  HoldsWhatIsReported
  GainsOfTheRunningPolicy
  MotorsGetTheirJoint
  TakesOverFromItsPose
  OrdersKeepTheirPromise
PROPERTIES
  LegsStayWithThePolicy
