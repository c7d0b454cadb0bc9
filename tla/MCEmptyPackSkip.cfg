SPECIFICATION Spec
CONSTANTS
  Vertex <- MCVertex
  Source = 0
  Sink = 4
  Arc <- MCArc
  From <- MCFrom
  To <- MCTo
  BaseCost <- MCBase
  NMain = 1
  Use <- MCUse
  Lb <- MCLb
  Ub <- MCUb
  NonDisposable = {}
  Inf = 1000
  Step <- MCStep
  PackState <- NoState
  InitState <- NoInit
  AlongArc <- NoAlongArc
  ToVertex <- NoToVertex
  DomCost <- NoDomCost
  ConcatCost <- NoConcatCost
  MinDomCost = 0
  EmptyPack = TRUE
  MaxPaths = 0
  MaxEnumLabels = 100
  SccCap = 100
  Modes = {"seq"}
  Stages = {"Exact"}
  Thetas <- MCThetas
  CostVectors <- MCSkipCosts
  MaxWalk = 9
  Neighbors <- MCNeighbors
  PackAllows <- Allowed
INVARIANT BidirFindsOptimum
