CONSTANTS
  Vertex <- MCVertex
  Source = 0
  Sink = 4
  Arc <- MCArc
  From <- MCFrom
  To <- MCTo
  BaseCost <- MCBase
  NMain = 1
  Use <- MCUse
  Lb <- MCLb
  Ub <- MCUb
  NonDisposable = {}
  Inf = 1000
  Consumption <- MCConsumption
  SrLb <- MCSrLb
  SrUb <- MCSrUb
  Pickup <- MCPickup
  Delivery <- MCDelivery
  Q = 4
  TravelTime <- MCTime
  Weight <- MCWeight
  WMax = 13
  TMax = 10
  Cut = {"c", "d"}
  BaseSet <- MCBaseSet
  MemoryArcs <- MCMemory
  DualValue <- MCDual
  Neighbors <- MCNeighbors
  InitState <- MInit
  AlongArc <- MAlong
  ToVertex <- MTo
  DomCost <- MDom
  ConcatCost <- MConcat
  MinDomCost <- MMin
  Members <- CutsOnly
  Machines = {"twins"}
  Offer <- MCOffer
  Penalty <- MCPenalty
  MinPenalty <- MCMinPenalty
  BufferSize = 3
  MaxOffers = 4
  MaxArcs = 7
SPECIFICATION MCSpec
INVARIANTS DominanceIsSafe
CHECK_DEADLOCK FALSE
