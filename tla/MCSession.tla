----------------------------- MODULE MCSession -----------------------------
(***************************************************************************)
(* Sessions on a graph with two paths, 0-2-3 and 0-2-1-2-3: the second      *)
(* comes back to vertex 2 in a later bucket, where the first never is.      *)
(* With the first costs the long path is cheap and the short one is not;   *)
(* with the second it is the other way round, so that the label of the     *)
(* short path dominates the one that returns.  There is no resource pack.   *)
(***************************************************************************)
EXTENDS Session, NoPack

MCVertex == 0..3
Ends == << <<0, 2>>, <<1, 2>>, <<2, 1>>, <<2, 3>>, <<0, 1>> >>
MCArc == 1..Len(Ends)
MCFrom == [a \in MCArc |-> Ends[a][1]]
MCTo == [a \in MCArc |-> Ends[a][2]]
MCBase == <<2, -2, -2, 3, 1>>
MCUse == [a \in MCArc |-> [r \in {1} |-> <<1, 0, 2, 2, 4>>[a]]]
MCLb == [v \in MCVertex |-> [r \in {1} |-> <<0, 0, 1, 2>>[v + 1]]]
MCUb == [v \in MCVertex |-> [r \in {1} |-> <<5, 4, 4, 5>>[v + 1]]]
MCStep == [v \in MCVertex |-> [r \in {1} |-> 2]]
MCCosts == {<<-1, -2, -2, 3, 0>>, <<3, 2, 2, -1, 2>>, <<1, -1, -1, 1, -2>>}
MCThetas == {0, 20}
MCGaps == {-2, 1, 4}
Allowed(vs) == TRUE

\* What the theorems of SessionProofs suppose of pack and graph.
ASSUME PackIsLawful == PackLawful
ASSUME RoundsAreEnough == BoundsReach

\* Bidirectional enumeration is left aside (see FindsKept), and warm labels are
\* kept from one exact solve to the next.
Asked == opt.mode = "seq" \/ warm # {} => opt.stage = "Exact"
=============================================================================
