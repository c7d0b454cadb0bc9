---------------------------- MODULE RankOneCuts ----------------------------
(***************************************************************************)
(* R1CResource: limited-memory three-subset row cuts.  A label holds a      *)
(* credit of one half for a cut after an odd number of visits to the cut's  *)
(* base set; every second visit costs the dual value.  Credit is lost on    *)
(* arcs outside the cut's memory.  The code packs the credits into the bits *)
(* of one word and the cuts of an arc or vertex into masks; here they are   *)
(* sets of cuts.                                                           *)
(***************************************************************************)
EXTENDS Spprc
LOCAL INSTANCE FiniteSetsExt

CONSTANTS Cut, BaseSet, MemoryArcs, DualValue

ASSUME CutAssumption ==
  /\ IsFiniteSet(Cut) /\ Cardinality(Cut) <= 64
  /\ BaseSet \in [Cut -> SUBSET (Vertex \ {Source, Sink})]
  /\ MemoryArcs \in [Cut -> SUBSET Arc]
  /\ DualValue \in [Cut -> Int]

\* compute_overflow_cost
OverflowCost(cuts) == MapThenSumSet(LAMBDA c : DualValue[c], cuts)

KeepMask(a) == {c \in Cut : a \in MemoryArcs[c]}
ToggleMask(v) == {c \in Cut : v \in BaseSet[c]}

RcInit(d) == {}

RcAlongArc(d, s, a) == [st |-> s \cap KeepMask(a), cost |-> 0]

RcToVertex(d, s, v) ==
  LET toggle == ToggleMask(v)
  IN [st |-> (s \ toggle) \cup (toggle \ s), cost |-> OverflowCost(s \cap toggle)]

RcDomCost(d, v, s, t) == OverflowCost(t \ s)
RcMinDomCost == OverflowCost({c \in Cut : DualValue[c] < 0})

RcConcatCost(v, s, t) == OverflowCost(s \cap t)
=============================================================================
