--------------------------- MODULE PickupDelivery ---------------------------
(***************************************************************************)
(* PickupDeliveryResource: a vehicle of capacity Q delivers goods loaded at *)
(* the start and picks up goods to bring to the end.  A forward label knows *)
(* what it has picked up (P) and how much the rest of the route may still   *)
(* deliver (D); a backward label how much may be picked up before (P) and   *)
(* what it delivers (D).                                                    *)
(***************************************************************************)
EXTENDS Spprc

CONSTANTS Pickup, Delivery, Q

ASSUME PickupAssumption ==
  /\ Pickup \in [Vertex -> Nat] /\ Delivery \in [Vertex -> Nat] /\ Q \in Nat

PdInit(d) == IF d = "fw" THEN [P |-> 0, D |-> Q] ELSE [P |-> Q, D |-> 0]

PdAlongArc(d, s, a) == [st |-> s, cost |-> 0]

PdToVertex(d, s, v) ==
  IF d = "fw"
  THEN LET p == s.P + Pickup[v]
       IN [st |-> [P |-> p, D |-> Smaller(s.D - Delivery[v], Q - p)],
           cost |-> IF p > Q \/ Delivery[v] > s.D THEN Inf ELSE 0]
  ELSE LET e == s.D + Delivery[v]
       IN [st |-> [P |-> Smaller(s.P - Pickup[v], Q - e), D |-> e],
           cost |-> IF e > Q \/ Pickup[v] > s.P THEN Inf ELSE 0]

\* Mutant: the second component is not compared.
PdDomByLoad(d, v, s, t) ==
  IF d = "fw" THEN IF s.P > t.P THEN Inf ELSE 0 ELSE IF s.D > t.D THEN Inf ELSE 0

PdDomCost(d, v, s, t) ==
  IF d = "fw" THEN IF s.P > t.P \/ s.D < t.D THEN Inf ELSE 0
  ELSE IF s.D > t.D \/ s.P < t.P THEN Inf ELSE 0

PdConcatCost(v, s, t) == IF s.P > t.P \/ t.D > s.D THEN Inf ELSE 0
=============================================================================
