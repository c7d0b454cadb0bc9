SPECIFICATION SessionSpec
CONSTANTS
  Vertex <- MCVertex
  Source = 0
  Sink = 3
  Arc <- MCArc
  From <- MCFrom
  To <- MCTo
  BaseCost <- MCBase
  NMain = 1
  Use <- MCUse
  Lb <- MCLb
  Ub <- MCUb
  NonDisposable = {}
  Inf = 1000
  Step <- MCStep
  PackState <- NoState
  InitState <- NoInit
  AlongArc <- NoAlongArc
  ToVertex <- NoToVertex
  DomCost <- NoDomCost
  ConcatCost <- NoConcatCost
  MinDomCost = 0
  EmptyPack = TRUE
  MaxPaths = 0
  MaxEnumLabels = 100
  SccCap = 100
  Modes = {"mono", "seq"}
  Stages = {"Exact", "Enumerate"}
  Thetas <- MCThetas
  CostVectors <- MCCosts
  MaxWalk = 9
  PackAllows <- Allowed
  Calls = {"costs", "options", "build", "reset", "bounds", "labels",
           "fix", "warm"}
  Gaps <- MCGaps
  MaxSolves = 2
  Rules = {"fit", "pass", "keep", "whole", "reach"}
CONSTRAINT Asked
INVARIANTS
  KeptPathsStayOpen
  KeptPathsStayInReach
  FindsKept
PROPERTY ImplementsOracle
