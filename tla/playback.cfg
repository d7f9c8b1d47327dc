SPECIFICATION Spec
CONSTANTS
  Motions <- MCMotions
  Windows <- MCWindows
  TicksPerFrame = 4
  MaxOrders = 3
  MaxClock = 36
  Library <- MCLibrary
  Offset <- MCOffset
  Ids <- MCIds
  FullSpeed = 2
  MaxTime = 2
  MaxLoads = 2
  MaxFades = 2
  MaxBusy = 2
  BufferSize = 2
  MaxValues = 3
INVARIANTS
  DoneOnlyAtTheEnd
PROPERTIES
  PlaysToItsEnd
  ServesTheLoadedMotion
  FadeOutStops
  EndsAtTheLastValue
  NeverBackwards
