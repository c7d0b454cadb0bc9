------------------------------- MODULE Spprc -------------------------------
(***************************************************************************)
(* The shortest path problem with resource constraints that the library   *)
(* solves: ProblemView and Adjacency, the two labeling directions, and the *)
(* propagation of the one or two main resources along an arc.             *)
(*                                                                         *)
(* Costs and resources are integers (the code's are doubles), so that the  *)
(* code's comparisons up to EPS are exact ones and its default threshold   *)
(* -1e-6 is 0: "less than theta" means the same.  The code's INF is the    *)
(* integer Inf, larger than every cost an instance can add up to.          *)
(***************************************************************************)
EXTENDS Integers, Sequences, FiniteSets

CONSTANTS
  Vertex, Source, Sink,      \* vertices; paths lead from Source to Sink
  Arc, From, To,             \* arcs and their end points
  BaseCost,                  \* arc -> cost before any dual price
  NMain,                     \* number of main resources, 1 or 2
  Use,                       \* arc -> main resource -> consumption
  Lb, Ub,                    \* vertex -> main resource -> window
  NonDisposable,             \* main resources that may not be wasted
  Inf                        \* infinite cost

Res == 1..NMain
Dir == {"fw", "bw"}
NoArc == -1

ASSUME ProblemAssumption ==
  /\ IsFiniteSet(Vertex) /\ IsFiniteSet(Arc)
  /\ Vertex \subseteq Nat /\ Source \in Vertex /\ Sink \in Vertex
  /\ Arc \subseteq Nat
  /\ From \in [Arc -> Vertex] /\ To \in [Arc -> Vertex]
  /\ \A a \in Arc : From[a] # To[a]
  /\ BaseCost \in [Arc -> Int]
  /\ NMain \in {1, 2}
  /\ Use \in [Arc -> [Res -> Int]]
  /\ Lb \in [Vertex -> [Res -> Int]] /\ Ub \in [Vertex -> [Res -> Int]]
  /\ \A v \in Vertex, r \in Res : Lb[v][r] <= Ub[v][r]
  /\ NonDisposable \subseteq Res
  /\ Inf \in Nat

Larger(m, n)  == IF m >= n THEN m ELSE n
Smaller(m, n) == IF m <= n THEN m ELSE n

\* The least element of a set of costs, Inf when the set is empty.
Least(S) ==
  IF \E x \in S : \A y \in S : x <= y
  THEN CHOOSE x \in S : \A y \in S : x <= y ELSE Inf

\* The arc's end points as a label of direction d meets them, and the arcs
\* that a label at v may take (the adjacency lists of the two directions).
Behind(d, a) == IF d = "fw" THEN From[a] ELSE To[a]
Ahead(d, a)  == IF d = "fw" THEN To[a] ELSE From[a]
ArcsAt(d, v) == {a \in Arc : Behind(d, a) = v}

Origin(d)   == IF d = "fw" THEN Source ELSE Sink
Terminal(d) == IF d = "fw" THEN Sink ELSE Source

\* Forward labels carry the resources consumed so far and wait for the
\* window to open; backward labels carry the latest values from which the
\* sink can still be reached.
Advance(d, q, a) ==
  [r \in Res |-> IF d = "fw"
                 THEN Larger(q[r] + Use[a][r], Lb[To[a]][r])
                 ELSE Smaller(q[r] - Use[a][r], Ub[From[a]][r])]

InWindow(d, v, q) ==
  \A r \in Res : IF d = "fw" THEN q[r] <= Ub[v][r] ELSE q[r] >= Lb[v][r]

\* Mutant: looks at the first resource only.
AtLeastAsGoodInFirst(d, p, q) == IF d = "fw" THEN p[1] <= q[1] ELSE p[1] >= q[1]

\* "No worse": a label of direction d at p can do all that one at q can.
AtLeastAsGood(d, p, q) ==
  \A r \in Res : IF d = "fw" THEN p[r] <= q[r] ELSE p[r] >= q[r]
=============================================================================
