------------------------------ MODULE MCLabels ------------------------------
(***************************************************************************)
(* What is said of labels without a bucket graph: the machines of Twins,    *)
(* Splits and BatchInsert, each by itself.                                 *)
(*                                                                         *)
(* Twins run with a few members of the pack at a time, since the more there  *)
(* are the fewer labels beat each other, and Splits with all of them.  With  *)
(* the windows and loads of MCPacks a comparison that forgets a component    *)
(* or mistakes the direction lets a label win that cannot follow the other.  *)
(***************************************************************************)
EXTENDS Twins, BatchInsert, MCPacks

CONSTANTS
  Machines,                  \* those that run
  Members,                   \* the pack of Twins
  MaxArcs                    \* bound on the walks of Splits

VARIABLES machine, walk, fw, bw

WindowsAndLoads == <<"sr", "pd">>
CutsOnly == <<"rc">>
All == <<"sr", "pd", "cc", "rc", "ng">>

MInit(d) == PInit(Members, d)
MAlong(d, s, a) == PAlong(Members, d, s, a)
MTo(d, s, v) == PTo(Members, d, s, v)
MDom(d, v, s, t) == PDom(Members, d, v, s, t)
MConcat(v, s, t) == PConcat(Members, v, s, t)
MMin == PMin(Members)

AInit(d) == PInit(All, d)
AAlong(d, s, a) == PAlong(All, d, s, a)
ATo(d, s, v) == PTo(All, d, s, v)
ADom(d, v, s, t) == PDom(All, d, v, s, t)
AConcat(v, s, t) == PConcat(All, v, s, t)

Halves == INSTANCE Splits WITH
  InitState <- AInit, AlongArc <- AAlong, ToVertex <- ATo, DomCost <- ADom,
  ConcatCost <- AConcat, MinDomCost <- PMin(All)

\* Labels that may come to a bucket: a state of 1 is penalised against one of 0.
MCOffer == [cost : 0..2, q : {0, 1}, st : {0, 1}]
MCMinPenalty == -1           \* lower than any penalty, as the bound of a pack may be
MCPenalty == [p \in {0, 1} \X {0, 1} |-> IF p[1] > p[2] THEN 1 ELSE 0]

ASSUME PenaltiesAreFair == PenaltiesAddUp /\ PenaltiesCost

MCInit ==
  /\ machine \in Machines
  /\ Init /\ (machine # "twins" => dir = "fw")
  /\ Halves!SplitInit
  /\ BatchInit

MCNext ==
  \/ machine = "twins" /\ Next /\ UNCHANGED <<machine, walk, fw, bw, store>>
  \/ machine = "splits" /\ Halves!SplitNext /\ UNCHANGED <<machine, twins, store>>
  \/ machine = "batch" /\ BatchNext /\ UNCHANGED <<machine, twins, walk, fw, bw>>

MCSpec == MCInit /\ [][MCNext]_<<machine, twins, walk, fw, bw, store>>

\* Cut at any arc, a walk is as feasible and costs as much as its halves joined
\* (Splits), here with all members of the pack at once.
SplitsAgree == Halves!SplitsAgree
=============================================================================
