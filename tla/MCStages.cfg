SPECIFICATION FairSpec
CONSTANTS
  MaxHalvings = 3
  MaxIteration = 12
  Calls = {"set_stage", "costs", "enumerate", "adapt", "reset"}
INVARIANT TypeOK
PROPERTIES
  SolvesAsAsked
  ReachesExact
