SPECIFICATION FairSpec
CONSTANTS
  Vertex <- MCVertex
  Source = 0
  Sink = 4
  Arc <- MCArc
  From <- MCFrom
  To <- MCTo
  BaseCost <- MCBase
  NMain = 1
  Use <- MCUse
  Lb <- MCLb
  Ub <- MCUb
  NonDisposable = {}
  Inf = 1000
  Step <- MCStep
  PackState <- NgState
  InitState <- NgInit
  AlongArc <- NgAlongArc
  ToVertex <- NgToVertex
  DomCost <- NgDomCost
  ConcatCost <- NgConcatCost
  MinDomCost = 0
  EmptyPack = FALSE
  MaxPaths = 2
  MaxEnumLabels = 6
  SccCap = 4
  Modes = {"mono", "seq", "par"}
  Stages = {"Heuristic1", "Exact", "Enumerate"}
  Thetas = {0}
  CostVectors <- MCOneCost
  MaxWalk = 9
  PackAllows <- NgRoute
  Neighbors <- MCNeighbors
PROPERTY Terminates
