------------------------------- MODULE MCMono -------------------------------
(***************************************************************************)
(* Mono-directional solves without a resource pack.  Vertices 1, 2 and 3    *)
(* lie between the source 0 and the sink 4; 1 and 2 form a cycle whose      *)
(* buckets make up one component, because a bucket is wider than the arcs   *)
(* are long.  An exact solve never has more than eight labels in a          *)
(* component; the caps stop enumerations only.                             *)
(***************************************************************************)
EXTENDS LabelingProps, NoPack

MCVertex == 0..4
Ends == << <<0, 1>>, <<0, 2>>, <<1, 2>>, <<2, 1>>, <<1, 3>>,
           <<2, 3>>, <<3, 4>>, <<2, 4>> >>
MCArc == 1..Len(Ends)
MCFrom == [a \in MCArc |-> Ends[a][1]]
MCTo == [a \in MCArc |-> Ends[a][2]]
MCBase == <<2, 3, 1, 1, 2, 3, 1, 4>>
MCUse == [a \in MCArc |-> [r \in {1} |-> <<1, 2, 1, 1, 2, 1, 1, 2>>[a]]]
MCLb == [v \in MCVertex |-> [r \in {1} |-> <<0, 0, 1, 2, 0>>[v + 1]]]
MCUb == [v \in MCVertex |-> [r \in {1} |-> <<6, 5, 5, 6, 7>>[v + 1]]]
MCStep == [v \in MCVertex |-> [r \in {1} |-> <<3, 3, 2, 2, 4>>[v + 1]]]
MCCosts == [MCArc -> {-1, 2}]
MCThetas == {-2, 0, 1, 3}
MCEnumCosts == {c \in [MCArc -> {-1, 2}] : c[1] = c[6] /\ c[2] = c[7] /\ c[5] = c[8]}
Allowed(vs) == TRUE

\* Exact solves with all the costs, enumerations with fewer costs and all the
\* thresholds.
Chosen == IF opt.stage = "Exact" THEN opt.theta = 1
          ELSE opt.theta # 1 /\ red \in MCEnumCosts

MCInit == Init /\ Chosen
MCSpec == MCInit /\ [][Next]_vars

\* The pack is one of those that the proofs are about.
ASSUME PackIsNone ==
  PackIs(NoState, NoInit, NoAlongArc, NoToVertex, NoDomCost, NoConcatCost, AnyRoute)
ASSUME PackIsLawful == PackLawful /\ PackJoins

\* The code's rounds of relaxation are enough here, and Inf is large enough.
ASSUME RoundsAreEnough == BoundsReach
=============================================================================
