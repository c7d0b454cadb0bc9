SPECIFICATION FairSpec
CONSTANTS
  Worker = {w1}
  Call <- OneSolve
  Kind <- MCKind
  Size <- MCSize
  Body <- MCBody
  MayThrow = {}
  ForMin = 2
  MaxPoolTasks = 128
PROPERTIES EveryCallReturns
CHECK_DEADLOCK FALSE
