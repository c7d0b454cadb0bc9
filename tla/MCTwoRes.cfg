SPECIFICATION Spec
CONSTANTS
  Vertex <- MCVertex
  Source = 0
  Sink = 4
  Arc <- MCArc
  From <- MCFrom
  To <- MCTo
  BaseCost <- MCBase
  NMain = 2
  Use <- MCUse
  Lb <- MCLbAt
  Ub <- MCUbAt
  NonDisposable = {2}
  Inf = 1000
  Step <- MCStep
  PackState <- NgState
  InitState <- NgInit
  AlongArc <- NgAlongArc
  ToVertex <- NgToVertex
  DomCost <- NgDomCost
  ConcatCost <- NgConcatCost
  MinDomCost = 0
  EmptyPack = FALSE
  MaxPaths = 0
  MaxEnumLabels = 100
  SccCap = 100
  Modes = {"mono", "seq"}
  Stages = {"Exact"}
  Thetas <- MCThetas
  CostVectors <- MCCosts
  MaxWalk = 9
  PackAllows <- NgRoute
  Neighbors <- MCNeighbors
INVARIANTS
  EveryPathRepresented
  BidirFindsOptimum
  ResultsAreFeasiblePaths
PROPERTY FinishedComponentsAreClosed
