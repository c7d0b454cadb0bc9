----------------------------- MODULE LabelSteps -----------------------------
(***************************************************************************)
(* What the labeling does with a label and its pack, without buckets:       *)
(* starting, extending along an arc, dominating, being joined across an     *)
(* arc.                                                                    *)
(***************************************************************************)
EXTENDS Spprc

CONSTANTS
  \* the pack, as in module Labeling
  InitState(_), AlongArc(_, _, _), ToVertex(_, _, _),
  DomCost(_, _, _, _), ConcatCost(_, _, _), MinDomCost

Start(d) ==
  LET at == ToVertex(d, InitState(d), Origin(d))
  IN [v |-> Origin(d), q |-> IF d = "fw" THEN Lb[Source] ELSE Ub[Sink],
      cost |-> at.cost, st |-> at.st]

CanTake(d, n, a) ==
  LET along == AlongArc(d, n.st, a)
  IN /\ Behind(d, a) = n.v
     /\ InWindow(d, Ahead(d, a), Advance(d, n.q, a))
     /\ along.cost < Inf /\ ToVertex(d, along.st, Ahead(d, a)).cost < Inf

Taken(d, n, a) ==
  LET along == AlongArc(d, n.st, a)
      at    == ToVertex(d, along.st, Ahead(d, a))
  IN [v |-> Ahead(d, a), q |-> Advance(d, n.q, a),
      cost |-> n.cost + BaseCost[a] + along.cost + at.cost, st |-> at.st]

\* dominates() in the exact stage.  An infinite cost makes a sum infinite.
Beats(d, x, y) ==
  /\ x.v = y.v /\ AtLeastAsGood(d, x.q, y.q)
  /\ \A r \in NonDisposable : x.q[r] = y.q[r]
  /\ x.cost + MinDomCost <= y.cost
  /\ DomCost(d, x.v, x.st, y.st) < Inf
  /\ x.cost + DomCost(d, x.v, x.st, y.st) <= y.cost

\* Concatenation across arc a of a forward and a backward label.
Joined(f, a, g) ==
  LET along == AlongArc("fw", f.st, a)
  IN f.cost + BaseCost[a] + g.cost + along.cost + ConcatCost(To[a], along.st, g.st)

CanJoin(f, a, g) ==
  LET along == AlongArc("fw", f.st, a)
  IN /\ AtLeastAsGood("fw", Advance("fw", f.q, a), g.q)
     /\ along.cost < Inf /\ ConcatCost(To[a], along.st, g.st) < Inf
=============================================================================
