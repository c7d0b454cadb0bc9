---------------------------- MODULE StandardRes ----------------------------
(***************************************************************************)
(* StandardResource in the pack: one more resource with windows, besides    *)
(* the main ones that the labeling handles itself.  Forward labels carry    *)
(* the consumption so far, backward labels what they may arrive with.       *)
(***************************************************************************)
EXTENDS Spprc

CONSTANTS
  Consumption,               \* arc -> consumption
  SrLb, SrUb                 \* vertex -> window

ASSUME StandardAssumption ==
  /\ Consumption \in [Arc -> Int]
  /\ SrLb \in [Vertex -> Int] /\ SrUb \in [Vertex -> Int]

SrInit(d) == IF d = "fw" THEN SrLb[Source] ELSE SrUb[Sink]

SrAlongArc(d, q, a) ==
  [st |-> IF d = "fw" THEN q + Consumption[a] ELSE q - Consumption[a], cost |-> 0]

SrToVertex(d, q, v) ==
  LET there == IF d = "fw" THEN Larger(q, SrLb[v]) ELSE Smaller(q, SrUb[v])
  IN [st |-> there, cost |-> IF there \in SrLb[v]..SrUb[v] THEN 0 ELSE Inf]

SrBackwards(d, v, p, q) == IF p > q THEN Inf ELSE 0    \* mutant: also for backward labels

SrDomCost(d, v, p, q) ==
  IF d = "fw" THEN IF p > q THEN Inf ELSE 0
  ELSE IF p < q THEN Inf ELSE 0

SrConcatCost(v, p, q) == IF p > q THEN Inf ELSE 0
=============================================================================
