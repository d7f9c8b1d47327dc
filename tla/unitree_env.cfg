CONSTANTS
  NumDofs = 2
  MaxSteps = 3
SPECIFICATION FairSpec
INVARIANTS
  TearsAreNeighbours
  FilledInv
PROPERTIES
  DampedAfterShutdown
  StaysDamped
