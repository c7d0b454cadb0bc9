--------------------------- MODULE CumulativeCost ---------------------------
(***************************************************************************)
(* CumulativeCostResource: the weight of an arc is paid for every time unit *)
(* until its end.  A forward label knows the time T, a backward label the   *)
(* weight W of what follows; both add up the cost S, which the labels'      *)
(* cost holds as well.  The second component is TW.                         *)
(***************************************************************************)
EXTENDS Spprc

CONSTANTS TravelTime, Weight, WMax, TMax

ASSUME CumulativeAssumption ==
  /\ TravelTime \in [Arc -> Nat] /\ Weight \in [Arc -> Nat]
  /\ WMax \in Nat /\ TMax \in Nat

CcInit(d) == [S |-> 0, TW |-> 0]

\* Mutant: what an arc takes does not delay it itself.
CcAlongArcAtStart(d, s, a) ==
  LET delta == IF d = "fw" THEN Weight[a] * s.TW ELSE (s.TW + Weight[a]) * TravelTime[a]
  IN [st |-> [S |-> s.S + delta,
              TW |-> s.TW + IF d = "fw" THEN TravelTime[a] ELSE Weight[a]],
      cost |-> delta]

CcAlongArc(d, s, a) ==
  LET delta == IF d = "fw" THEN Weight[a] * (s.TW + TravelTime[a])
               ELSE (s.TW + Weight[a]) * TravelTime[a]
  IN [st |-> [S |-> s.S + delta,
              TW |-> s.TW + IF d = "fw" THEN TravelTime[a] ELSE Weight[a]],
      cost |-> delta]

CcToVertex(d, s, v) == [st |-> s, cost |-> 0]

CcDomCost(d, v, s, t) ==
  (s.S - t.S) + Larger(0, s.TW - t.TW) * (IF d = "fw" THEN WMax ELSE TMax)

CcConcatCost(v, s, t) == s.TW * t.TW
=============================================================================
