------------------------------ MODULE MCTwoRes ------------------------------
(***************************************************************************)
(* Two main resources: time, and a load that some arcs return, which may    *)
(* not be wasted (non-disposable).  Vertex 3 has a grid of four buckets.    *)
(* The ng-path resource is present, with few neighbours.                   *)
(***************************************************************************)
EXTENDS LabelingProps, NgPath

MCVertex == 0..4
Ends == << <<0, 1>>, <<0, 2>>, <<1, 2>>, <<2, 1>>, <<1, 3>>,
           <<2, 3>>, <<3, 4>>, <<3, 2>> >>
MCArc == 1..Len(Ends)
MCFrom == [a \in MCArc |-> Ends[a][1]]
MCTo == [a \in MCArc |-> Ends[a][2]]
MCBase == <<2, 3, 1, 1, 2, 3, 1, 4>>
MCUse == [a \in MCArc |-> << <<1, 1>>, <<2, 0>>, <<1, 1>>, <<1, 0>>,
                             <<2, 0>>, <<1, 1>>, <<2, 0>>, <<1, -1>> >>[a]]
MCLb == << <<0, 0>>, <<1, 0>>, <<1, 0>>, <<2, 0>>, <<0, 0>> >>
MCUb == << <<2, 2>>, <<4, 2>>, <<5, 2>>, <<6, 2>>, <<7, 2>> >>
MCStepAt == << <<2, 2>>, <<3, 2>>, <<2, 2>>, <<2, 1>>, <<7, 2>> >>
At(v, table) == table[v + 1]
MCLbAt == [v \in MCVertex |-> At(v, MCLb)]
MCUbAt == [v \in MCVertex |-> At(v, MCUb)]
MCStep == [v \in MCVertex |-> At(v, MCStepAt)]
MCNeighbors == [v \in MCVertex |-> IF v = 1 THEN {2} ELSE {}]
MCCosts == {c \in [MCArc -> {-2, 1}] : c[1] = c[4] /\ c[7] = 1 /\ c[2] # c[8]}
MCThetas == {0}

\* The pack is one of those that the proofs are about.
ASSUME PackIsNg ==
  PackIs(NgState, NgInit, NgAlongArc, NgToVertex, NgDomCost, NgConcatCost, NgRoute)
ASSUME PackIsLawful == PackLawful /\ PackJoins /\ PackReplaceable
ASSUME SolvedBothWays == NothingIsGivenBack /\ SourceBeforeMid /\ EndsAreEnds

\* The code's rounds of relaxation are enough here, and Inf is large enough.
ASSUME RoundsAreEnough == BoundsReach
=============================================================================
