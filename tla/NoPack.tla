------------------------------- MODULE NoPack -------------------------------
(***************************************************************************)
(* EmptyPack: no resources besides the main ones.  The code compiles every *)
(* use of the pack away; the functions below are what is left.              *)
(***************************************************************************)
EXTENDS Spprc

NoState == {"none"}
NoInit(d) == "none"
NoAlongArc(d, s, a) == [st |-> "none", cost |-> 0]
NoToVertex(d, s, v) == [st |-> "none", cost |-> 0]
NoDomCost(d, v, s, t) == 0
NoConcatCost(v, s, t) == 0

\* The reference: every route is allowed.
AnyRoute(vs) == TRUE
=============================================================================
