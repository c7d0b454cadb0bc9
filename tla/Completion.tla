----------------------------- MODULE Completion -----------------------------
(***************************************************************************)
(* compute_completion_bounds: for every bucket a bound on the cost that a  *)
(* label in it still has to pay to reach the terminal of its direction.    *)
(*                                                                         *)
(* The code walks the components from the terminal backwards and relaxes   *)
(* the buckets of each in index order, once when the component is a single *)
(* bucket and at most (its size + 1) times otherwise.  Stopping earlier    *)
(* when a round changes nothing cannot be told from carrying on.           *)
(***************************************************************************)
EXTENDS BucketGrid

\* Relaxation steps <<level, round, bucket>>.  The number of buckets that a
\* bucket reaches grows strictly against the edges between components, so
\* ascending levels are a reverse topological order; components of one level
\* do not reach each other.
Rounds(s) == IF Cardinality(s) > 1 THEN Cardinality(s) + 1 ELSE 1

RelaxSteps(d) ==
  UNION {{<<Cardinality(Reachable[d][b]), i, b>> : i \in 1..Rounds(Scc(d, b))} :
           b \in Bucket}

\* Mutant: the components are walked from the origin.
EarlierFromOrigin(x, y) ==
  \/ x[1] > y[1]
  \/ x[1] = y[1] /\ x[2] < y[2]
  \/ x[1] = y[1] /\ x[2] = y[2] /\ Before(x[3], y[3])

Earlier(x, y) ==
  \/ x[1] < y[1]
  \/ x[1] = y[1] /\ x[2] < y[2]
  \/ x[1] = y[1] /\ x[2] = y[2] /\ Before(x[3], y[3])

RelaxOrder == [d \in Dir |->
  LET steps == RelaxSteps(d)
      place == [x \in steps |-> Cardinality({y \in steps : Earlier(y, x)}) + 1]
  IN [i \in 1..Cardinality(steps) |-> (CHOOSE x \in steps : place[x] = i)[3]]]

\* One bucket's relaxation over the bucket arcs it still has.
Relax(d, comp, b, arcs, cost) ==
  Smaller(comp[b], Least({cost[a] + comp[Target[d][b][a]] :
                            a \in {x \in arcs[d][b] : comp[Target[d][b][x]] < Inf}}))

\* A bucket with more slack is at least as good as one with less.
Propagate(d, comp) ==
  [b \in Bucket |-> Least({comp[c] : c \in {x \in BucketsAt(b[1]) : UpTo(d, b, x)}})]

\* All relaxations in order.  Binding the bounds so far in a set makes TLC
\* evaluate them once.
CompletionBounds(d, arcs, cost) ==
  LET zero == [b \in Bucket |-> IF b[1] = Terminal(d) THEN 0 ELSE Inf]
      order == RelaxOrder[d]
      after[i \in 0..Len(order)] ==
        IF i = 0 THEN zero
        ELSE CHOOSE next \in
               {[comp EXCEPT ![order[i]] = Relax(d, comp, order[i], arcs, cost)] :
                  comp \in {after[i - 1]}} : TRUE
  IN CHOOSE bounds \in {Propagate(d, comp) : comp \in {after[Len(order)]}} : TRUE

NoBounds == [b \in Bucket |-> Inf]
=============================================================================
