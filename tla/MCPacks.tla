------------------------------ MODULE MCPacks ------------------------------
(***************************************************************************)
(* A graph for walks that meet again: 1, 2 and 3 lie between 0 and 4, 1 and  *)
(* 2 form a cycle.  Every resource has data under which it matters.          *)
(***************************************************************************)
EXTENDS ResourcePack, StandardRes, PickupDelivery, CumulativeCost, RankOneCuts, NgPath

MCVertex == 0..4
Ends == << <<0, 1>>, <<0, 2>>, <<1, 2>>, <<2, 1>>, <<1, 3>>, <<2, 3>>, <<3, 4>>, <<2, 4>>, <<3, 1>> >>
MCArc == 1..Len(Ends)
MCFrom == [a \in MCArc |-> Ends[a][1]]
MCTo == [a \in MCArc |-> Ends[a][2]]
MCBase == <<2, -2, -1, 3, 1, -2, -2, 0, 1>>
MCUse == [a \in MCArc |-> [r \in {1} |-> 1]]
MCLb == [v \in MCVertex |-> [r \in {1} |-> 0]]
MCUb == [v \in MCVertex |-> [r \in {1} |-> 6]]
MCNeighbors == [v \in MCVertex |-> <<{}, {1, 2}, {2, 3}, {1, 3}, {}>>[v + 1]]
MCConsumption == <<3, 1, 1, 1, 0, 1, 1, 1, 2>>
MCSrLb == [v \in MCVertex |-> <<0, 2, 2, 1, 0>>[v + 1]]
MCSrUb == [v \in MCVertex |-> <<9, 8, 6, 9, 7>>[v + 1]]
MCPickup == [v \in MCVertex |-> <<0, 0, 1, 1, 0>>[v + 1]]
MCDelivery == [v \in MCVertex |-> <<0, 0, 0, 2, 0>>[v + 1]]
MCTime == <<1, 2, 1, 1, 1, 1, 1, 1, 2>>
MCWeight == <<3, 0, 0, 2, 1, 0, 2, 1, 1>>
MCBaseSet == [c \in Cut |-> IF c = "c" THEN {1, 2, 3} ELSE {1, 2}]
MCMemory == [c \in Cut |-> IF c = "c" THEN {1, 3, 4, 5, 9} ELSE {2, 3, 6}]
MCDual == [c \in Cut |-> IF c = "c" THEN -2 ELSE -1]

\* The pack whose members are those of the sequence o.
PInit(o, d) == [i \in DOMAIN o |->
  CASE o[i] = "sr" -> SrInit(d) [] o[i] = "pd" -> PdInit(d)
    [] o[i] = "cc" -> CcInit(d) [] o[i] = "rc" -> RcInit(d)
    [] o[i] = "ng" -> NgInit(d)]
PAlong(o, d, s, a) == Together([i \in DOMAIN o |->
  CASE o[i] = "sr" -> SrAlongArc(d, s[i], a) [] o[i] = "pd" -> PdAlongArc(d, s[i], a)
    [] o[i] = "cc" -> CcAlongArc(d, s[i], a) [] o[i] = "rc" -> RcAlongArc(d, s[i], a)
    [] o[i] = "ng" -> NgAlongArc(d, s[i], a)])
PTo(o, d, s, v) == Together([i \in DOMAIN o |->
  CASE o[i] = "sr" -> SrToVertex(d, s[i], v) [] o[i] = "pd" -> PdToVertex(d, s[i], v)
    [] o[i] = "cc" -> CcToVertex(d, s[i], v) [] o[i] = "rc" -> RcToVertex(d, s[i], v)
    [] o[i] = "ng" -> NgToVertex(d, s[i], v)])
PDom(o, d, v, s, t) == Total([i \in DOMAIN o |->
  CASE o[i] = "sr" -> SrDomCost(d, v, s[i], t[i]) [] o[i] = "pd" -> PdDomCost(d, v, s[i], t[i])
    [] o[i] = "cc" -> CcDomCost(d, v, s[i], t[i]) [] o[i] = "rc" -> RcDomCost(d, v, s[i], t[i])
    [] o[i] = "ng" -> NgDomCost(d, v, s[i], t[i])])
PConcat(o, v, s, t) == TotalIfAllowed([i \in DOMAIN o |->
  CASE o[i] = "sr" -> SrConcatCost(v, s[i], t[i]) [] o[i] = "pd" -> PdConcatCost(v, s[i], t[i])
    [] o[i] = "cc" -> CcConcatCost(v, s[i], t[i]) [] o[i] = "rc" -> RcConcatCost(v, s[i], t[i])
    [] o[i] = "ng" -> NgConcatCost(v, s[i], t[i])])
PMin(o) == Total([i \in DOMAIN o |-> IF o[i] = "rc" THEN RcMinDomCost ELSE 0])
=============================================================================
