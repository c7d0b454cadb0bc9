------------------------------ MODULE Labeling ------------------------------
(***************************************************************************)
(* BucketGraph::solve(): labeling, post-pass, concatenation and selection. *)
(*                                                                         *)
(* A label is the chain of nodes that Label::parent threads together, from *)
(* the initial label to the label itself: a nonempty sequence whose last   *)
(* element carries the label's own fields.  A child is its parent's chain  *)
(* with one node appended, so the path a label stands for is in the label. *)
(*                                                                         *)
(* One step is the visit of one label (dropped, pruned or opened for       *)
(* extension), the extension of the open label along one arc including the *)
(* insertion of the child, or the closing of one component.  In the mode   *)
(* "par" the two directions are two threads whose steps interleave; in     *)
(* "seq" the backward labeling comes first; in "mono" there is none.       *)
(* Within a component labels are visited in any order: the code sweeps its *)
(* buckets until a sweep inserts nothing.                                  *)
(***************************************************************************)
EXTENDS Completion

CONSTANTS
  \* the resource pack (concept Resource): label state and its functions
  PackState, InitState(_), AlongArc(_, _, _), ToVertex(_, _, _),
  DomCost(_, _, _, _), ConcatCost(_, _, _), MinDomCost, EmptyPack,
  \* limits: 0 means none for MaxPaths; SccCap is the code's 500000 (2000000
  \* when enumerating), scaled down with the instance
  MaxPaths, MaxEnumLabels, SccCap,
  \* the options and the reduced costs a behaviour may start with
  Modes, Stages, Thetas, CostVectors

ASSUME PackAssumption ==
  /\ EmptyPack \in BOOLEAN /\ MinDomCost \in Int
  /\ \A d \in Dir :
       /\ InitState(d) \in PackState
       /\ \A s \in PackState :
            /\ \A a \in Arc : AlongArc(d, s, a) \in [st : PackState, cost : Int]
            /\ \A v \in Vertex : ToVertex(d, s, v) \in [st : PackState, cost : Int]
  /\ \A v \in Vertex, s, t \in PackState : ConcatCost(v, s, t) \in Int
  /\ \A d \in Dir : ToVertex(d, InitState(d), Origin(d)).cost < Inf

ASSUME OptionAssumption ==
  /\ Modes \subseteq {"mono", "seq", "par"}
  /\ Stages \subseteq {"Heuristic1", "Heuristic2", "Exact", "Enumerate"}
  /\ Thetas \subseteq Int
  /\ CostVectors \subseteq [Arc -> Int]
  /\ MaxPaths \in Nat /\ MaxEnumLabels \in Nat /\ SccCap \in Nat

VARIABLES
  phase,      \* "ready" -> "label" -> "post" -> "collect" -> "done"
  opt,        \* mode, stage and theta of the solve
  red,        \* reduced_costs_, as last set by update_arc_costs
  inl, jinl,  \* the costs inlined in the bucket arcs and in the jump arcs
  dirty,      \* arc_costs_dirty_
  arcs,       \* direction -> bucket -> arcs not eliminated
  jumps,      \* direction -> bucket -> pairs <<arc, jump bucket>>
  fixed,      \* the fixed buckets
  mid,        \* MidScale times midpoint_
  midSet,     \* midpoint_initialized_
  labels,     \* direction -> the labels stored in the buckets
  extended,   \* direction -> those whose flag extended is set
  dominated,  \* direction -> those whose flag dominated is set
  scc,        \* direction -> the component being processed, {} between two
  finished,   \* direction -> the components already processed
  cur,        \* direction -> the label being extended, <<>> if there is none
  todo,       \* direction -> the extensions cur still has to make
  sweep,      \* direction -> the set holding the bucket being swept, or {}
  count,      \* direction -> label counters
  cbest,      \* direction -> bucket -> c_best / bw_c_best
  completion, \* direction -> bucket -> fw_completion_ / bw_completion_
  complete,   \* enum_complete_
  result      \* the path candidates the solve returned

graph  == <<red, inl, jinl, dirty, arcs, jumps, fixed>>
search == <<labels, extended, dominated, scc, finished, cur, todo, sweep, count>>
vars   == <<phase, opt, graph, mid, midSet, search, cbest, completion,
            complete, result>>

-----------------------------------------------------------------------------
\* Labels.

This(l) == l[Len(l)]
Where(l) == BucketOf(This(l).v, This(l).q)
Node == [v : Vertex, q : [Res -> Int], cost : Int, real : Int,
         st : PackState, arc : Arc \cup {NoArc}]
Label == Seq(Node) \ {<<>>}

Live(d) == labels[d] \ dominated[d]
LiveIn(d, b) == {l \in Live(d) : Where(l) = b}

Heuristic == opt.stage \in {"Heuristic1", "Heuristic2"}
Enumerating == opt.stage = "Enumerate"

\* create_initial_label.  The code gives up when the pack forbids the origin,
\* which none of the library's resources does (PackAssumption).
InitialLabel(d) ==
  LET at == ToVertex(d, InitState(d), Origin(d))
  IN <<[v |-> Origin(d),
        q |-> [r \in Res |-> IF d = "fw" THEN Lb[Source][r] ELSE Ub[Sink][r]],
        cost |-> at.cost, real |-> 0, st |-> at.st, arc |-> NoArc]>>

\* The extensions of a label of bucket b: one per bucket arc, whose "at" is b
\* itself, and one per jump arc, which first raises the resources to those of
\* the jump bucket.
Extensions(d, b) ==
  {[arc |-> a, at |-> b] : a \in arcs[d][b]}
    \cup {[arc |-> j[1], at |-> j[2]] : j \in jumps[d][b]}

Boosted(d, q, b) ==
  [r \in Res |-> IF d = "fw" THEN Larger(q[r], BucketLb(b)[r])
                             ELSE Smaller(q[r], BucketUb(b)[r])]

\* extend_label: the node that extension e of a label with last node n makes.
ExtendQ(d, n, e) ==
  Advance(d, IF e.at = BucketOf(n.v, n.q) THEN n.q ELSE Boosted(d, n.q, e.at), e.arc)

\* Mutant: the windows are not looked at.
ExtendUnchecked(d, n, e) == AlongArc(d, n.st, e.arc).cost < Inf

ExtendFeasible(d, n, e) ==
  LET along == AlongArc(d, n.st, e.arc)
  IN /\ InWindow(d, Ahead(d, e.arc), ExtendQ(d, n, e))
     /\ along.cost < Inf
     /\ ToVertex(d, along.st, Ahead(d, e.arc)).cost < Inf

\* Mutant: priced with the costs that the arcs were built with.
ExtendAtBaseCost(d, n, e) ==
  LET at == ToVertex(d, AlongArc(d, n.st, e.arc).st, Ahead(d, e.arc))
  IN [v |-> Ahead(d, e.arc), q |-> ExtendQ(d, n, e), cost |-> n.cost + BaseCost[e.arc],
      real |-> n.real + BaseCost[e.arc], st |-> at.st, arc |-> e.arc]

Extend(d, n, e) ==
  LET along == AlongArc(d, n.st, e.arc)
      at    == ToVertex(d, along.st, Ahead(d, e.arc))
      price == IF e.at = BucketOf(n.v, n.q) THEN inl[e.arc] ELSE jinl[e.arc]
  IN [v |-> Ahead(d, e.arc), q |-> ExtendQ(d, n, e),
      cost |-> n.cost + price + along.cost + at.cost,
      real |-> n.real + BaseCost[e.arc],
      st |-> at.st, arc |-> e.arc]

-----------------------------------------------------------------------------
\* Dominance.

\* Mutants: more of a resource is never worse; the pack states are not compared.
DominatesAlways(d, x, y) ==
  /\ x.v = y.v /\ AtLeastAsGood(d, x.q, y.q)
  /\ x.cost + DomCost(d, x.v, x.st, y.st) <= y.cost
DominatesByCost(d, x, y) == x.v = y.v /\ x.cost <= y.cost

\* An infinite penalty makes a sum infinite.
Dominates(d, x, y) ==
  /\ x.v = y.v
  /\ AtLeastAsGood(d, x.q, y.q)
  /\ \A r \in NonDisposable : x.q[r] = y.q[r]
  /\ IF Heuristic THEN x.cost <= y.cost
     ELSE /\ x.cost + MinDomCost <= y.cost
          /\ DomCost(d, x.v, x.st, y.st) < Inf
          /\ x.cost + DomCost(d, x.v, x.st, y.st) <= y.cost

\* dominated_in_bucket
DominatedInBucket(d, n) ==
  \E x \in LiveIn(d, BucketOf(n.v, n.q)) : Dominates(d, This(x), n)

\* dominated_in_adjacent_buckets: only the buckets whose c_best is known and
\* low enough are looked at.
DominatedInAdjacent(d, l) ==
  \E x \in Live(d) :
     /\ Where(x) # Where(l) /\ UpTo(d, Where(x), Where(l))
     /\ cbest[d][Where(x)] + MinDomCost <= This(l).cost
     /\ Dominates(d, This(x), This(l))

-----------------------------------------------------------------------------
\* Bounds on the rest of the path.

VertexMin(d, v) == Least({cbest[d][b] : b \in BucketsAt(v)})

Hopeless(d, n) ==
  LET bound == completion[d][BucketOf(n.v, n.q)]
  IN bound < Inf /\ n.cost + bound >= opt.theta

\* In parallel mode the completion bounds stand in for the other direction's
\* labels, which are not there yet.
UseCompletion == Enumerating \/ opt.mode = "par"

\* has_compatible_opposite
CompatibleOpposite(n) ==
  \/ n.v \in {Source, Sink}
  \/ \E a \in ArcsAt("fw", n.v) :
        n.cost + red[a] + VertexMin("bw", To[a]) + MinDomCost < opt.theta

MidScale == 800

PastMidAlways(d, n) == MidScale * n.q[1] > mid    \* mutant: in every mode

\* A label beyond the midpoint is stored but not extended.
PastMid(d, n) ==
  /\ opt.mode # "mono"
  /\ IF d = "fw" THEN MidScale * n.q[1] > mid ELSE MidScale * n.q[1] < mid

\* pre_filter: which children are offered to their bucket at all.
Admitted(d, n) ==
  /\ (opt.mode = "seq" /\ ~Enumerating /\ d = "fw" /\ PastMid(d, n))
       => CompatibleOpposite(n)
  /\ (opt.mode = "par" /\ ~Enumerating) => ~Hopeless(d, n)

-----------------------------------------------------------------------------
\* try_insert_label: whether a child is stored, and which labels of its
\* bucket lose their place to it.

\* Mutant: dominance is tested when enumerating, too.
StoredIfUndominated(d, n) ==
  BucketOf(n.v, n.q) \notin fixed /\ ~DominatedInBucket(d, n)

Stored(d, n) ==
  LET b == BucketOf(n.v, n.q)
      there == {l \in labels[d] : Where(l) = b}
  IN /\ b \notin fixed
     /\ CASE Enumerating -> ~Hopeless(d, n)
          [] opt.stage = "Heuristic1" -> \A l \in there : n.cost < This(l).cost
          [] OTHER -> ~DominatedInBucket(d, n)

\* Labels that a stored child marks dominated ...
Victims(d, n) ==
  IF Enumerating \/ opt.stage = "Heuristic1" THEN {}
  ELSE {l \in LiveIn(d, BucketOf(n.v, n.q)) : Dominates(d, n, This(l))}

ReplacedNone(d, n) == {}                       \* mutant: nothing is overwritten

\* ... and labels it overwrites: Heuristic1 keeps one label per bucket.
Replaced(d, n) ==
  IF opt.stage = "Heuristic1"
  THEN {l \in labels[d] : Where(l) = BucketOf(n.v, n.q)} ELSE {}

Counted(d, n) ==
  LET c == count[d]
      new == IF Replaced(d, n) = {} THEN 1 ELSE 0
  IN [scc  |-> c.scc + new,
      all  |-> IF Enumerating THEN c.all ELSE c.all + new,
      enum |-> IF Enumerating THEN c.enum + 1 ELSE c.enum,
      sink |-> IF Enumerating /\ n.v = Sink THEN c.sink + 1 ELSE c.sink]

\* at_label_cap, looked at between buckets only.
AtCap(d) ==
  \/ count[d].scc >= SccCap
  \/ Enumerating /\ count[d].enum >= MaxEnumLabels
  \/ Enumerating /\ MaxPaths > 0 /\ count[d].sink >= MaxPaths

-----------------------------------------------------------------------------
\* Beginning of a solve.

Directions == IF opt.mode = "mono" THEN {"fw"} ELSE Dir

\* resource_min_lb_ and resource_max_ub_
MinLb == Least({Lb[v][1] : v \in Vertex})
MaxUb == -Least({-Ub[v][1] : v \in Vertex})

NoCount == [scc |-> 0, all |-> 0, enum |-> 0, sink |-> 0]

\* The initial label is counted when enumerating, but not in parallel mode;
\* the backward one also counts as a label at the sink.
SeedCount(d) ==
  IF ~Enumerating \/ opt.mode = "par" THEN NoCount
  ELSE [NoCount EXCEPT !.enum = 1, !.sink = IF d = "bw" THEN 1 ELSE 0]

BeginSolve ==
  /\ phase = "ready"
  /\ phase' = "label"
  \* refresh_arc_costs
  /\ inl'  = IF dirty THEN red ELSE inl
  /\ jinl' = IF dirty THEN red ELSE jinl
  /\ dirty' = FALSE
  /\ labels' = [d \in Dir |-> IF d \in Directions THEN {InitialLabel(d)} ELSE {}]
  /\ extended' = [d \in Dir |-> {}]
  /\ dominated' = [d \in Dir |-> {}]
  /\ scc' = [d \in Dir |-> {}]
  /\ finished' = [d \in Dir |-> {}]
  /\ cur' = [d \in Dir |-> <<>>]
  /\ todo' = [d \in Dir |-> {}]
  /\ sweep' = [d \in Dir |-> {}]
  /\ count' = [d \in Dir |-> SeedCount(d)]
  /\ cbest' = [d \in Dir |-> NoBounds]
  /\ completion' = [d \in Dir |-> IF UseCompletion /\ d \in Directions
                                  THEN CompletionBounds(d, arcs, inl')
                                  ELSE completion[d]]
  /\ complete' = TRUE
  /\ mid' = IF opt.mode # "mono" /\ ~midSet
            THEN (MidScale \div 2) * (MinLb + MaxUb) ELSE mid
  /\ midSet' = (midSet \/ opt.mode # "mono")
  /\ result' = {}
  /\ UNCHANGED <<opt, red, arcs, jumps, fixed>>

-----------------------------------------------------------------------------
\* process_scc.

Running(d) ==
  /\ phase = "label" /\ d \in Directions
  /\ (d = "fw" /\ opt.mode = "seq") => finished["bw"] = Sccs["bw"]

\* Mutant: a finished component is taken up again.
StartSccAgain(d, s) ==
  /\ Running(d) /\ scc[d] = {} /\ Predecessors[d][s] \subseteq finished[d]
  /\ scc' = [scc EXCEPT ![d] = s]
  /\ sweep' = [sweep EXCEPT ![d] = {}]
  /\ count' = [count EXCEPT ![d].scc = 0]
  /\ UNCHANGED <<phase, opt, graph, mid, midSet, labels, extended, dominated,
                 finished, cur, todo, cbest, completion, complete, result>>

StartScc(d, s) ==
  /\ Running(d) /\ scc[d] = {}
  /\ s \notin finished[d] /\ Predecessors[d][s] \subseteq finished[d]
  /\ scc' = [scc EXCEPT ![d] = s]
  /\ sweep' = [sweep EXCEPT ![d] = {}]
  /\ count' = [count EXCEPT ![d].scc = 0]
  /\ UNCHANGED <<phase, opt, graph, mid, midSet, labels, extended, dominated,
                 finished, cur, todo, cbest, completion, complete, result>>

Pending(d) ==
  {l \in Live(d) \ extended[d] :
     Where(l) \in scc[d] \ fixed /\ ~PastMid(d, This(l))}

\* The label that a thread looks at next; the caps are tested when the sweep
\* enters a bucket, not within it.  A bucket does not grow while it is swept: the
\* children of its labels belong to other vertices.
Visit(d, l) ==
  /\ Running(d) /\ scc[d] # {} /\ cur[d] = <<>>
  /\ l \in Pending(d)
  /\ Where(l) \in sweep[d] \/ ~AtCap(d)
  /\ sweep' = [sweep EXCEPT ![d] = {Where(l)}]

\* Mutant: the label is erased in the middle of the sweep.
EraseDominated(d, l) ==
  /\ Visit(d, l)
  /\ ~Enumerating /\ DominatedInAdjacent(d, l)
  /\ dominated' = [dominated EXCEPT ![d] = @ \cup {l}]
  /\ labels' = [labels EXCEPT ![d] = @ \ {l}]
  /\ UNCHANGED <<phase, opt, graph, mid, midSet, extended, scc, finished, cur,
                 todo, count, cbest, completion, complete, result>>

DropDominated(d, l) ==
  /\ Visit(d, l)
  /\ ~Enumerating /\ DominatedInAdjacent(d, l)
  /\ dominated' = [dominated EXCEPT ![d] = @ \cup {l}]
  /\ UNCHANGED <<phase, opt, graph, mid, midSet, labels, extended, scc,
                 finished, cur, todo, count, cbest, completion, complete, result>>

Undominated(d, l) == Enumerating \/ ~DominatedInAdjacent(d, l)

PruneHopeless(d, l) ==
  /\ Visit(d, l)
  /\ Undominated(d, l) /\ UseCompletion /\ Hopeless(d, This(l))
  /\ extended' = [extended EXCEPT ![d] = @ \cup {l}]
  /\ UNCHANGED <<phase, opt, graph, mid, midSet, labels, dominated, scc,
                 finished, cur, todo, count, cbest, completion, complete, result>>

\* A label without arcs is extended as soon as it is opened.
OpenLabel(d, l) ==
  /\ Visit(d, l)
  /\ Undominated(d, l) /\ ~(UseCompletion /\ Hopeless(d, This(l)))
  /\ LET more == Extensions(d, Where(l))
     IN /\ cur' = [cur EXCEPT ![d] = IF more = {} THEN <<>> ELSE l]
        /\ todo' = [todo EXCEPT ![d] = more]
        /\ extended' = [extended EXCEPT ![d] = IF more = {} THEN @ \cup {l} ELSE @]
  /\ UNCHANGED <<phase, opt, graph, mid, midSet, labels, dominated, scc,
                 finished, count, cbest, completion, complete, result>>

\* The open label is extended along e and the child, if it is feasible and
\* passes the filters, is offered to its bucket.  The label is done with its
\* last extension, even when a label inserted meanwhile has dominated it.
ExtendArc(d, e) ==
  /\ Running(d) /\ e \in todo[d]
  /\ todo' = [todo EXCEPT ![d] = @ \ {e}]
  /\ cur' = [cur EXCEPT ![d] = IF todo[d] = {e} THEN <<>> ELSE @]
  /\ LET n == Extend(d, This(cur[d]), e)
         gone == Replaced(d, n)
         done == IF todo[d] = {e} THEN {cur[d]} ELSE {}
     IN IF /\ ExtendFeasible(d, This(cur[d]), e)
           /\ Admitted(d, n) /\ Stored(d, n)
        THEN /\ labels' = [labels EXCEPT ![d] = (@ \ gone) \cup {Append(cur[d], n)}]
             /\ dominated' = [dominated EXCEPT ![d] = (@ \ gone) \cup Victims(d, n)]
             /\ extended' = [extended EXCEPT ![d] = (@ \ gone) \cup done]
             /\ count' = [count EXCEPT ![d] = Counted(d, n)]
        ELSE /\ extended' = [extended EXCEPT ![d] = @ \cup done]
             /\ UNCHANGED <<labels, dominated, count>>
  /\ UNCHANGED <<phase, opt, graph, mid, midSet, scc, finished, sweep, cbest,
                 completion, complete, result>>

\* Mutant: the buckets before at the same vertex are not looked at.
BestOfOwn(d, kept) ==
  [b \in Bucket |-> IF b \notin scc[d] THEN cbest[d][b]
                     ELSE Least({This(l).cost : l \in {x \in kept : Where(x) = b}})]

\* update_c_best: the cheapest label of each bucket of the component, and of
\* the buckets before it at the same vertex.
BestOf(d, kept) ==
  [b \in Bucket |->
     IF b \notin scc[d] THEN cbest[d][b]
     ELSE Least({This(l).cost : l \in {x \in kept : /\ UpTo(d, Where(x), b)
                                                    /\ Where(x) \in scc[d]}}
                \cup {cbest[d][c] : c \in {x \in BucketsAt(b[1]) \ scc[d] :
                                             UpTo(d, x, b)}})]

\* The sweeps end when there is nothing left to visit, or early at a cap, though
\* not within a bucket; the component is then compacted and its bounds updated.
FinishScc(d) ==
  /\ Running(d) /\ scc[d] # {} /\ cur[d] = <<>>
  /\ \A l \in Pending(d) : AtCap(d) /\ Where(l) \notin sweep[d]
  /\ LET gone == {l \in dominated[d] : Where(l) \in scc[d]}
     IN /\ labels' = [labels EXCEPT ![d] = @ \ gone]
        /\ dominated' = [dominated EXCEPT ![d] = @ \ gone]
        /\ extended' = [extended EXCEPT ![d] = @ \ gone]
        /\ cbest' = [cbest EXCEPT ![d] = BestOf(d, labels[d] \ gone)]
  /\ complete' = (complete /\ ~(Enumerating /\ AtCap(d)))
  /\ finished' = [finished EXCEPT ![d] = @ \cup {scc[d]}]
  /\ scc' = [scc EXCEPT ![d] = {}]
  /\ UNCHANGED <<phase, opt, graph, mid, midSet, cur, todo, sweep, count,
                 completion, result>>

\* Both threads have joined.
EndLabeling ==
  /\ phase = "label" /\ \A d \in Directions : finished[d] = Sccs[d]
  /\ phase' = "post"
  /\ UNCHANGED <<opt, graph, mid, midSet, search, cbest, completion, complete,
                 result>>

-----------------------------------------------------------------------------
\* After labeling.

\* Mutant: from the vertex itself instead of the arc's tail.
CheapestHere(v) == Least({VertexMin("fw", v) + red[a] : a \in ArcsAt("bw", v)})

\* prune_bw_incompatible: no forward label reaches the vertex of l cheaply
\* enough to make a path below theta with it.
CheapestArrival(v) == Least({VertexMin("fw", From[a]) + red[a] : a \in ArcsAt("bw", v)})

BwIncompatible(l) ==
  /\ This(l).v \notin {Source, Sink}
  /\ CheapestArrival(This(l).v) + This(l).cost + MinDomCost >= opt.theta

\* recompute_bw_c_best
BwBestOf(kept) ==
  [b \in Bucket |->
     Least({This(l).cost : l \in {x \in kept : UpTo("bw", Where(x), b)}})]

\* adjust_midpoint: one twentieth of the range on the side with more labels.
\* "1.2 times as many" is compared in fifths.
AdjustedMid ==
  LET f == count["fw"].all
      b == count["bw"].all
  IN IF 5 * f > 6 * b THEN mid - (mid - MidScale * MinLb) \div 20
     ELSE IF 5 * b > 6 * f THEN mid + (MidScale * MaxUb - mid) \div 20
     ELSE mid

PostPass ==
  /\ phase = "post"
  /\ phase' = "collect"
  /\ completion' = [d \in Dir |-> IF ~Enumerating /\ d \in Directions
                                  THEN CompletionBounds(d, arcs, inl)
                                  ELSE completion[d]]
  /\ IF opt.mode = "mono" \/ Enumerating
     THEN UNCHANGED <<labels, extended, dominated, cbest>>
     ELSE LET kept == {l \in Live("bw") : ~BwIncompatible(l)}
          IN /\ labels' = [labels EXCEPT !["bw"] = kept]
             /\ extended' = [extended EXCEPT !["bw"] = @ \cap kept]
             /\ dominated' = [dominated EXCEPT !["bw"] = {}]
             /\ cbest' = [cbest EXCEPT !["bw"] = BwBestOf(kept)]
  /\ mid' = IF opt.mode # "mono" /\ opt.stage = "Exact" THEN AdjustedMid ELSE mid
  /\ UNCHANGED <<opt, graph, midSet, scc, finished, cur, todo, sweep, count,
                 complete, result>>

-----------------------------------------------------------------------------
\* Candidates: [fw, bw, arc, cost, real]; a path that a forward label completes
\* on its own has bw = <<>> and arc = NoArc.

Candidate ==
  [fw : Label, bw : Label \cup {<<>>}, arc : Arc \cup {NoArc},
   cost : Int, real : Int]

SinkCandidates ==
  {[fw |-> l, bw |-> <<>>, arc |-> NoArc, cost |-> This(l).cost,
    real |-> This(l).real] :
     l \in {x \in Live("fw") : This(x).v = Sink /\ This(x).cost < opt.theta}}

Join(f, a, g) ==
  LET along == AlongArc("fw", This(f).st, a)
  IN [fw |-> f, bw |-> g, arc |-> a,
      cost |-> This(f).cost + red[a] + This(g).cost + along.cost
                 + ConcatCost(To[a], along.st, This(g).st),
      real |-> This(f).real + BaseCost[a] + This(g).real]

\* Mutant: the cheapest backward label at the arc's tail instead of its head.
FwWorthAtTail(f, a) ==
  This(f).cost + red[a] + VertexMin("bw", From[a]) + MinDomCost < opt.theta

\* The cost filters of the two loops over sorted buckets.
FwWorth(f, a) ==
  LET rest == red[a] + VertexMin("bw", To[a]) + MinDomCost
  IN /\ cbest["fw"][Where(f)] + rest < opt.theta
     /\ This(f).cost + rest < opt.theta

BwWorth(f, a, g) ==
  LET sofar == This(f).cost + red[a] + MinDomCost
  IN /\ sofar + cbest["bw"][Where(g)] < opt.theta
     /\ sofar + This(g).cost < opt.theta

Joinable(f, a, g) ==
  LET along == AlongArc("fw", This(f).st, a)
  IN /\ This(f).v = From[a] /\ This(g).v = To[a]
     /\ FwWorth(f, a)
     /\ EmptyPack => This(f).cost + red[a] < opt.theta
     /\ BwWorth(f, a, g)
     /\ AtLeastAsGood("fw", Advance("fw", This(f).q, a), This(g).q)
     /\ along.cost < Inf
     /\ ConcatCost(To[a], along.st, This(g).st) < Inf
     /\ Join(f, a, g).cost < opt.theta

\* Arcs at the source and the sink are left out.
InnerArcs == {a \in Arc : {From[a], To[a]} \cap {Source, Sink} = {}}

ConcatCandidates ==
  IF opt.mode = "mono" THEN {}
  ELSE UNION {UNION {{Join(f, a, g) : g \in {h \in Live("bw") : Joinable(f, a, h)}} :
                       f \in {h \in Live("fw") : This(h).v = From[a]}} :
                a \in InnerArcs}

\* The loops break at the first label that is not worth it.  In sorted buckets
\* the filter says it all; Enumerate appends, so that a break may hide every
\* candidate of a bucket that holds such a label.
Shielded(c) ==
  /\ \A f \in Live("fw") : Where(f) = Where(c.fw) => FwWorth(f, c.arc)
  /\ \A g \in Live("bw") : Where(g) = Where(c.bw) => BwWorth(c.fw, c.arc, g)

Collected ==
  IF Enumerating
  THEN {C \cup {c \in ConcatCandidates : Shielded(c)} :
          C \in SUBSET {c \in ConcatCandidates : ~Shielded(c)}}
  ELSE {ConcatCandidates}

\* select_and_realize: the MaxPaths cheapest.
Selections(C) ==
  IF MaxPaths = 0 \/ Cardinality(C) <= MaxPaths THEN {C}
  ELSE {R \in SUBSET C : /\ Cardinality(R) = MaxPaths
                         /\ \A x \in R, y \in C \ R : x.cost <= y.cost}

Collect ==
  /\ phase = "collect"
  /\ phase' = "done"
  /\ \E C \in Collected :
       LET all == C \cup SinkCandidates
       IN /\ result' \in Selections(all)
          /\ complete' = (complete /\ ~(Enumerating /\ MaxPaths > 0
                                          /\ Cardinality(all) > MaxPaths))
  /\ UNCHANGED <<opt, graph, mid, midSet, search, cbest, completion>>

Returned == phase = "done" /\ UNCHANGED vars

-----------------------------------------------------------------------------
\* After build() and update_arc_costs(): every feasible bucket arc, no jump
\* arcs, nothing fixed, base costs inlined.
Init ==
  /\ phase = "ready"
  /\ opt \in [mode : Modes, stage : Stages, theta : Thetas]
  /\ red \in CostVectors
  /\ inl = BaseCost /\ jinl = BaseCost /\ dirty = TRUE
  /\ arcs = BuiltArcs
  /\ jumps = [d \in Dir |-> [b \in Bucket |-> {}]]
  /\ fixed = {}
  /\ mid = 0 /\ midSet = FALSE
  /\ labels = [d \in Dir |-> {}] /\ extended = labels /\ dominated = labels
  /\ scc = labels /\ finished = labels /\ todo = labels /\ sweep = labels
  /\ cur = [d \in Dir |-> <<>>]
  /\ count = [d \in Dir |-> NoCount]
  /\ cbest = [d \in Dir |-> NoBounds] /\ completion = cbest
  /\ complete = TRUE
  /\ result = {}

\* What one labeling thread may do.
LabelStep(d) ==
  \/ \E s \in Sccs[d] : StartScc(d, s)
  \/ \E l \in labels[d] : DropDominated(d, l)
  \/ \E l \in labels[d] : PruneHopeless(d, l)
  \/ \E l \in labels[d] : OpenLabel(d, l)
  \/ \E e \in todo[d] : ExtendArc(d, e)
  \/ FinishScc(d)

MainStep == BeginSolve \/ EndLabeling \/ PostPass \/ Collect

Next == MainStep \/ (\E d \in Dir : LabelStep(d)) \/ Returned

Spec == Init /\ [][Next]_vars

\* The calling thread and the labeling threads keep running.
FairSpec ==
  /\ Spec
  /\ WF_vars(MainStep)
  /\ \A d \in Dir : WF_vars(LabelStep(d))
-----------------------------------------------------------------------------
SolveType ==
  /\ phase \in {"ready", "label", "post", "collect", "done"}
  /\ opt \in [mode : Modes, stage : Stages, theta : Thetas]
  /\ mid \in Int /\ midSet \in BOOLEAN /\ complete \in BOOLEAN

GraphType ==
  /\ red \in [Arc -> Int] /\ inl \in [Arc -> Int] /\ jinl \in [Arc -> Int]
  /\ dirty \in BOOLEAN
  /\ arcs \in [Dir -> [Bucket -> SUBSET Arc]]
  /\ jumps \in [Dir -> [Bucket -> SUBSET (Arc \X Bucket)]]
  /\ fixed \subseteq Bucket

LabelType ==
  /\ labels \in [Dir -> SUBSET Label]
  /\ extended \in [Dir -> SUBSET Label] /\ dominated \in [Dir -> SUBSET Label]
  /\ cur \in [Dir -> Label \cup {<<>>}]
  /\ \A d \in Dir : /\ extended[d] \subseteq labels[d]
                    /\ dominated[d] \subseteq labels[d]
                    /\ cur[d] # <<>> => cur[d] \in labels[d]

SearchType ==
  /\ todo \in [Dir -> SUBSET [arc : Arc, at : Bucket]]
  /\ scc \in [Dir -> SUBSET Bucket] /\ sweep \in [Dir -> SUBSET Bucket]
  /\ finished \in [Dir -> SUBSET SUBSET Bucket]
  /\ count \in [Dir -> [scc : Nat, all : Nat, enum : Nat, sink : Nat]]
  /\ cbest \in [Dir -> [Bucket -> Int]]
  /\ DOMAIN completion = Dir /\ \A d \in Dir : DOMAIN completion[d] = Bucket

\* The shape of the state; the flags belong to stored labels, and so does the
\* label being extended: nothing erases or overwrites it while it is in use.
TypeOK ==
  SolveType /\ GraphType /\ LabelType /\ SearchType /\ result \subseteq Candidate

\* n is what extending m along n.arc may make: it starts where m ends, is
\* within its window, has no more resource left than the arc leaves, and is
\* priced with the reduced costs of this solve.
SoundStep(d, m, n) ==
  LET along == AlongArc(d, m.st, n.arc)
      at    == ToVertex(d, along.st, n.v)
  IN /\ n.arc \in ArcsAt(d, m.v) /\ n.v = Ahead(d, n.arc)
     /\ AtLeastAsGood(d, Advance(d, m.q, n.arc), n.q) /\ InWindow(d, n.v, n.q)
     /\ along.cost < Inf /\ at.cost < Inf /\ n.st = at.st
     /\ n.cost = m.cost + red[n.arc] + along.cost + at.cost
     /\ n.real = m.real + BaseCost[n.arc]

SoundLabel(d, l) ==
  /\ <<l[1]>> = InitialLabel(d)
  /\ \A i \in 1..Len(l) - 1 : SoundStep(d, l[i], l[i + 1])

\* Every stored label is a path from the origin of its direction, every vertex
\* of which was reached within its window, priced with the reduced costs that
\* the solve was given: whatever was dominated, pruned or overwritten on the
\* way, and whichever costs the bucket arcs were built with.
LabelsAreSound == \A d \in Dir : \A l \in labels[d] : SoundLabel(d, l)

SoundCandidate(c) ==
  /\ SoundLabel("fw", c.fw) /\ c.cost < opt.theta
  /\ c.bw = <<>> => /\ This(c.fw).v = Sink /\ c.cost = This(c.fw).cost
                    /\ c.real = This(c.fw).real
  /\ c.bw # <<>> => /\ SoundLabel("bw", c.bw)
                    /\ c.arc \in ArcsAt("fw", This(c.fw).v) /\ This(c.bw).v = To[c.arc]
                    /\ AtLeastAsGood("fw", Advance("fw", This(c.fw).q, c.arc),
                                     This(c.bw).q)
                    /\ LET along == AlongArc("fw", This(c.fw).st, c.arc)
                       IN /\ along.cost < Inf
                          /\ ConcatCost(To[c.arc], along.st, This(c.bw).st) < Inf
                    /\ c = Join(c.fw, c.arc, c.bw)

\* Every returned path is put together from sound labels that fit: a forward
\* label at the sink, or a forward and a backward label that an arc joins
\* without exceeding what the backward label has left, and which the pack lets
\* meet; its cost is theirs and is below theta.
ResultsAreSound == \A c \in result : SoundCandidate(c)

\* Heuristic1 keeps at most one label per bucket, although the children of a label
\* that was overwritten live on and cycles lead back to its bucket.
OneLabelPerBucket ==
  opt.stage = "Heuristic1" =>
    \A d \in Dir : \A k, l \in labels[d] : Where(k) = Where(l) => k = l

-----------------------------------------------------------------------------
\* Why labels stay sound: bucket arcs and jump arcs leave from the bucket's own
\* vertex, and the solve has refreshed their costs before it extends anything.
GraphOK ==
  /\ \A d \in Dir, b \in Bucket :
       /\ arcs[d][b] \subseteq ArcsAt(d, b[1])
       /\ \A j \in jumps[d][b] : j[1] \in ArcsAt(d, b[1])
  /\ phase = "ready" => dirty
  /\ phase # "ready" => inl = red /\ jinl = red

\* A label is open only within an unfinished component of a direction that is
\* searched, and what is left to do for it are arcs that leave from its vertex;
\* such an arc leads to another vertex, so that no child overwrites its parent.
SearchOK ==
  \A d \in Dir :
    /\ scc[d] # {} => /\ phase = "label" /\ d \in Directions
                      /\ scc[d] \in Sccs[d] \ finished[d]
    /\ scc[d] = {} => cur[d] = <<>>
    /\ cur[d] = <<>> => todo[d] = {}
    /\ \A e \in todo[d] : e.arc \in ArcsAt(d, This(cur[d]).v)

\* The inductive invariant behind the soundness of labels and paths: stored labels
\* and returned paths stay sound because the graph and the search do.
Inductive == TypeOK /\ GraphOK /\ SearchOK /\ LabelsAreSound /\ ResultsAreSound
=============================================================================
