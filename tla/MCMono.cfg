SPECIFICATION MCSpec
CONSTANTS
  Vertex <- MCVertex
  Source = 0
  Sink = 4
  Arc <- MCArc
  From <- MCFrom
  To <- MCTo
  BaseCost <- MCBase
  NMain = 1
  Use <- MCUse
  Lb <- MCLb
  Ub <- MCUb
  NonDisposable = {}
  Inf = 1000
  Step <- MCStep
  PackState <- NoState
  InitState <- NoInit
  AlongArc <- NoAlongArc
  ToVertex <- NoToVertex
  DomCost <- NoDomCost
  ConcatCost <- NoConcatCost
  MinDomCost = 0
  EmptyPack = TRUE
  MaxPaths = 6
  MaxEnumLabels = 16
  SccCap = 9
  Modes = {"mono"}
  Stages = {"Exact", "Enumerate"}
  Thetas <- MCThetas
  CostVectors <- MCCosts
  MaxWalk = 9
  PackAllows <- Allowed
INVARIANTS
  TypeOK
  EveryPathRepresented
  CBestIsLowerBound
  CompletionIsLowerBound
  FindsOptimum
  LabelsAreSound
  EnumerationIsComplete
  ResultsAreFeasiblePaths
PROPERTY FinishedComponentsAreClosed
