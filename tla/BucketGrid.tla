----------------------------- MODULE BucketGrid -----------------------------
(***************************************************************************)
(* The structure that BucketGraph::build() lays over the problem: each     *)
(* vertex's resource windows are cut into a grid of buckets, bucket arcs   *)
(* say which arcs a label of a bucket may take, and the strongly connected *)
(* components of the bucket graph are the units of labeling.               *)
(*                                                                         *)
(* A bucket is a pair <<v, k>>: its vertex and its grid position.  The     *)
(* code numbers it vertex_bucket_start_[v] + k[1] * n[2] + k[2], which is   *)
(* the order Before below.                                                 *)
(***************************************************************************)
EXTENDS Spprc

CONSTANT Step                \* vertex -> main resource -> bucket width

ASSUME StepAssumption ==
  Step \in [Vertex -> [Res -> Nat \ {0}]]

\* ceil(range / step), at least one bucket.
NBuckets(v, r) ==
  Larger(1, (Ub[v][r] - Lb[v][r] + Step[v][r] - 1) \div Step[v][r])

Grid(v) == {k \in [Res -> 0..Larger(NBuckets(v, 1), NBuckets(v, NMain)) - 1] :
              \A r \in Res : k[r] < NBuckets(v, r)}

BucketsAt(v) == {<<v, k>> : k \in Grid(v)}
Bucket == UNION {BucketsAt(v) : v \in Vertex}

BucketLb(b) == [r \in Res |-> Lb[b[1]][r] + b[2][r] * Step[b[1]][r]]
BucketUb(b) == [r \in Res |-> Smaller(BucketLb(b)[r] + Step[b[1]][r],
                                      Ub[b[1]][r])]

\* vertex_bucket_index: the last bucket also takes the upper window bound.
BucketOf(v, q) ==
  <<v, [r \in Res |->
          Larger(0, Smaller((q[r] - Lb[v][r]) \div Step[v][r],
                            NBuckets(v, r) - 1))]>>

\* b is at or before c in the grid of one vertex, seen in direction d: labels
\* of b have no less resource left than labels of c.
UpTo(d, b, c) ==
  /\ b[1] = c[1]
  /\ \A r \in Res : IF d = "fw" THEN b[2][r] <= c[2][r] ELSE b[2][r] >= c[2][r]

\* The numbering of the buckets.
Before(b, c) ==
  \/ b[1] < c[1]
  \/ b[1] = c[1] /\ b[2][1] < c[2][1]
  \/ b[1] = c[1] /\ b[2][1] = c[2][1] /\ b[2][NMain] < c[2][NMain]

-----------------------------------------------------------------------------
\* Bucket arcs: the arcs that are feasible from the best corner of a bucket,
\* and the bucket this corner leads to.
Corner(d, b) == IF d = "fw" THEN BucketLb(b) ELSE BucketUb(b)

BuiltArcs == [d \in Dir |-> [b \in Bucket |->
  {a \in ArcsAt(d, b[1]) : InWindow(d, Ahead(d, a), Advance(d, Corner(d, b), a))}]]

Target == [d \in Dir |-> [b \in Bucket |-> [a \in BuiltArcs[d][b] |->
  BucketOf(Ahead(d, a), Advance(d, Corner(d, b), a))]]]

\* The next bucket of the same vertex in one coordinate.
Adjacent(d, b, c) ==
  /\ UpTo(d, b, c)
  /\ \E r \in Res : /\ b[2][r] # c[2][r]
                    /\ c[2] = [b[2] EXCEPT ![r] = IF d = "fw" THEN @ + 1 ELSE @ - 1]

\* Mutant: leaves out the edges between buckets of one vertex.
SuccessorsByArcs == [d \in Dir |-> [b \in Bucket |->
  {Target[d][b][a] : a \in BuiltArcs[d][b]}]]

Successors == [d \in Dir |-> [b \in Bucket |->
  {Target[d][b][a] : a \in BuiltArcs[d][b]}
    \cup {c \in BucketsAt(b[1]) : Adjacent(d, b, c)}]]

\* n rounds of breadth-first search from every bucket reach all that is at most
\* n edges away.
Ball[n \in Nat] ==
  IF n = 0 THEN [d \in Dir |-> [b \in Bucket |-> {b}]]
  ELSE LET prev == Ball[n - 1]
       IN [d \in Dir |-> [b \in Bucket |->
             prev[d][b] \cup UNION {Successors[d][c] : c \in prev[d][b]}]]

Reachable == Ball[Cardinality(Bucket)]

\* Strongly connected components, and the partial order in which they have to
\* be processed.  The code takes the one topological order that Tarjan's
\* algorithm yields; the model allows every topological order.
Scc(d, b) == {c \in Bucket : c \in Reachable[d][b] /\ b \in Reachable[d][c]}
Sccs == [d \in Dir |-> {Scc(d, b) : b \in Bucket}]

Precedes(d, s, t) ==
  s # t /\ \E b \in s, c \in t : c \in Reachable[d][b]

\* Mutant: components in any order.
NoPredecessors == [d \in Dir |-> [s \in Sccs[d] |-> {}]]

Predecessors == [d \in Dir |-> [s \in Sccs[d] |->
  {t \in Sccs[d] : Precedes(d, t, s)}]]
=============================================================================
