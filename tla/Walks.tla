-------------------------------- MODULE Walks --------------------------------
(***************************************************************************)
(* What a path is, told without buckets, labels or propagation: the         *)
(* reference that the labeling is compared with.                            *)
(*                                                                         *)
(* A walk is the sequence of its arcs, starting at Source.  It is feasible  *)
(* when every vertex can be served within its windows and the resource pack *)
(* allows it.                                                              *)
(***************************************************************************)
EXTENDS Spprc

CONSTANTS
  MaxWalk,                   \* bound: no feasible walk has so many arcs
  PackAllows(_)              \* what the pack promises of a sequence of vertices

Visited(w) == [i \in 1..Len(w) + 1 |-> IF i = 1 THEN Source ELSE To[w[i - 1]]]
EndOf(w) == Visited(w)[Len(w) + 1]

SumOver(f, w) ==
  LET sum[i \in 0..Len(w)] == IF i = 0 THEN 0 ELSE sum[i - 1] + f[w[i]]
  IN sum[Len(w)]

\* The consumption of r between the i-th and the j-th vertex of w.
Between(w, i, j, r) == SumOver([a \in Arc |-> Use[a][r]], SubSeq(w, i, j - 1))

\* The earliest value of r at the j-th vertex: the window of some vertex on
\* the way decides.
Earliest(w, j, r) ==
  LET v == Visited(w)
  IN -Least({-(Lb[v[i]][r] + Between(w, i, j, r)) : i \in 1..j})

Feasible(w) ==
  /\ \A j \in 1..Len(w) + 1, r \in Res : Earliest(w, j, r) <= Ub[Visited(w)[j]][r]
  /\ PackAllows(Visited(w))

\* All feasible walks, by length: a walk's beginnings are walks.
Onward(W) ==
  {Append(x[1], x[2]) : x \in {y \in W \X Arc : /\ From[y[2]] = EndOf(y[1])
                                              /\ Feasible(Append(y[1], y[2]))}}

WalksUpto[n \in Nat] ==
  IF n = 0 THEN {<<>>}
  ELSE LET shorter == WalksUpto[n - 1] IN shorter \cup Onward(shorter)

PartialWalks == WalksUpto[MaxWalk]

Paths == {w \in PartialWalks : EndOf(w) = Sink}

ASSUME MaxWalkAssumption ==
  MaxWalk \in Nat /\ \A w \in PartialWalks : Len(w) < MaxWalk
=============================================================================
