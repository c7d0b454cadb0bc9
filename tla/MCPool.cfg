SPECIFICATION FairSpec
CONSTANTS
  Worker = {w1, w2}
  Call <- MCCall
  Kind <- MCKind
  Size <- MCSize
  Body <- MCBody
  MayThrow <- MCMayThrow
  ForMin = 2
  MaxPoolTasks = 128
INVARIANTS TypeOK TasksEndBeforeTheirCall ExceptionsAreDelivered
PROPERTIES ImplementsForkJoin EveryCallReturns
