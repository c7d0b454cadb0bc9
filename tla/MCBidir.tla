------------------------------ MODULE MCBidir ------------------------------
(***************************************************************************)
(* Bidirectional solves with the ng-path resource, on a graph whose middle  *)
(* vertices 1, 2 and 3 are joined by a cycle.  Vertex 2 does not have 1     *)
(* among its neighbours: 1, 2, 1 is an ng-route, 2, 1, 2 is not.  The       *)
(* midpoint of the only resource is 4.                                     *)
(***************************************************************************)
EXTENDS LabelingProps, NgPath, NoPack

MCVertex == 0..4
Ends == << <<0, 1>>, <<0, 2>>, <<1, 2>>, <<2, 1>>, <<2, 3>>, <<1, 3>>, <<3, 4>>, <<2, 4>>,
           <<0, 3>> >>
MCArc == 1..Len(Ends)
MCFrom == [a \in MCArc |-> Ends[a][1]]
MCTo == [a \in MCArc |-> Ends[a][2]]
MCBase == <<2, 3, 1, 1, 2, 3, 1, 4, 2>>
MCUse == [a \in MCArc |-> [r \in {1} |-> <<3, 2, 1, 1, 2, 3, 2, 3, 5>>[a]]]
MCLb == [v \in MCVertex |-> [r \in {1} |-> <<0, 1, 2, 3, 0>>[v + 1]]]
MCUb == [v \in MCVertex |-> [r \in {1} |-> <<3, 6, 6, 7, 8>>[v + 1]]]
MCStep == [v \in MCVertex |-> [r \in {1} |-> <<3, 3, 4, 2, 8>>[v + 1]]]
MCNeighbors == [v \in MCVertex |-> <<{}, {1, 2, 3}, {2, 3}, {1, 2, 3}, {}>>[v + 1]]
MCCosts == {c \in [MCArc -> {-2, 1}] : c[3] = c[4]}
MCFewCosts == {c \in MCCosts : c[9] = c[1] /\ c[2] = c[5] /\ c[6] = c[7] /\ c[6] = c[8]}
MCSkipCosts == {<<1, 2, 1, 1, 1, 1, -3, 1, 1>>}
MCOneCost == {<<1, 1, -2, -2, 1, 1, 1, 1, -2>>}
MCThetas == {0, -2}
Allowed(vs) == TRUE

\* Exact solves in backward-first mode with all the costs, parallel ones and
\* the heuristics with fewer and one threshold.
Chosen == \/ opt.mode = "seq" /\ opt.stage = "Exact"
          \/ opt.theta = 0 /\ red \in MCFewCosts /\ (opt.mode = "mono" => opt.stage # "Exact")

\* What the proofs about bidirectional solves suppose is true here.
ASSUME SolvedBothWays ==
  NothingIsGivenBack /\ SourceBeforeMid /\ EndsAreEnds /\ NothingPaidBack /\ MeetingCostsLeast

\* The code's rounds of relaxation are enough here, and Inf is large enough.
ASSUME RoundsAreEnough == BoundsReach

MCInit == Init /\ Chosen
MCSpec == MCInit /\ [][Next]_vars
=============================================================================
