---------------------------- MODULE LabelingProps ----------------------------
(***************************************************************************)
(* What a solve promises, measured against the walks of module Walks.       *)
(***************************************************************************)
EXTENDS Labeling, Walks, PackLaws

ArcsOf(l) == [i \in 1..Len(l) - 1 |-> l[i + 1].arc]

Backwards(s) == [i \in 1..Len(s) |-> s[Len(s) + 1 - i]]

\* The path of a candidate, as realize_path puts it together.
PathOf(c) ==
  IF c.bw = <<>> THEN ArcsOf(c.fw)
  ELSE ArcsOf(c.fw) \o <<c.arc>> \o Backwards(ArcsOf(c.bw))

CostOf(w) == SumOver(red, w)
Worth(w) == CostOf(w) < opt.theta
Found(w) == \E c \in result : PathOf(c) = w
Done == phase = "done"

\* Where, with which resource values and in which pack state the forward
\* labeling would arrive at the end of w.
StateAfter(w) ==
  LET after[i \in 0..Len(w)] ==
        IF i = 0 THEN ToVertex("fw", InitState("fw"), Source).st
        ELSE ToVertex("fw", AlongArc("fw", after[i - 1], w[i]).st, To[w[i]]).st
  IN after[Len(w)]

Arrival ==
  [w \in PartialWalks |->
     [v |-> EndOf(w), q |-> [r \in Res |-> Earliest(w, Len(w) + 1, r)],
      st |-> StateAfter(w)]]

BucketAfter == [w \in PartialWalks |-> BucketOf(Arrival[w].v, Arrival[w].q)]

Settled(d, b) == \E s \in finished[d] : b \in s

\* The pack charges nothing and forbids exactly the walks that it should.
PackMeansAllowed ==
  /\ PackAllows(Visited(<<>>)) /\ ToVertex("fw", InitState("fw"), Source).cost = 0
  /\ \A w \in PartialWalks : \A a \in ArcsAt("fw", EndOf(w)) :
       LET along == AlongArc("fw", StateAfter(w), a)
           at == ToVertex("fw", along.st, To[a])
           may == along.cost < Inf /\ at.cost < Inf
       IN /\ PackAllows(Visited(Append(w, a))) <=> may
          /\ may => along.cost = 0 /\ at.cost = 0

\* The packs of which the properties of paths below speak.
PackLawful ==
  /\ Closed(PackState, InitState, AlongArc, ToVertex, DomCost)
  /\ Persists(PackState, AlongArc, ToVertex, DomCost)
  /\ Composes(PackState, DomCost)
  /\ PackMeansAllowed

PackJoins == Joins(PackState, InitState, AlongArc, ToVertex, ConcatCost)

PackReplaceable == Replaceable(PackState, AlongArc, DomCost, ConcatCost, MinDomCost)

\* What bidirectional labeling takes for granted of a problem: the resource in which
\* its midpoint lies is never given back, and a path starts before the midpoint ...
NothingIsGivenBack == \A a \in Arc : Use[a][1] >= 0
SourceBeforeMid == MidScale * Lb[Source][1] <= (MidScale \div 2) * (MinLb + MaxUb)

\* ... and no path comes back to its source or goes on behind its sink.
EndsAreEnds == \A a \in Arc : To[a] # Source /\ From[a] # Sink

\* Meeting never pays anything back.
NothingPaidBack == \A v \in Vertex : \A s, t \in PackState : ConcatCost(v, s, t) >= 0

\* Meeting costs no less than the filters of the concatenation reckon with.
MeetingCostsLeast ==
  \A a \in Arc : \A s, t \in PackState :
    LET along == AlongArc("fw", s, a)
        meet == ConcatCost(To[a], along.st, t)
    IN along.cost < Inf /\ meet < Inf => MinDomCost <= along.cost + meet

\* What a label of direction d that stands after the i-th arc of path w has still
\* before it, and these arcs as it takes them.
Rest(d, w, i) == IF d = "fw" THEN SubSeq(w, i + 1, Len(w)) ELSE SubSeq(w, 1, i)
AsTaken(d, w, i) == IF d = "fw" THEN Rest(d, w, i) ELSE Backwards(Rest(d, w, i))

\* The buckets to which the best corners lead from bucket b along the arcs of u.
CornerWalk(d, b, u) ==
  LET c[j \in 0..Len(u)] == IF j = 0 THEN b ELSE Target[d][c[j - 1]][u[j]]
  IN c

\* compute_completion_bounds relaxes a component often enough for every path: one
\* round carries a bound back as long as the buckets are numbered downwards.
RoundsSuffice(d) ==
  \A w \in Paths : \A i \in 0..Len(w) :
    LET u == AsTaken(d, w, i)
        c == CornerWalk(d, BucketAfter[SubSeq(w, 1, i)], u)
    IN \A j \in 0..Len(u) :
         Cardinality({k \in j + 1..Len(u) : /\ c[k] \in Scc(d, c[j])
                                          /\ ~Before(c[k], c[k - 1])})
           < Rounds(Scc(d, c[j]))

\* No end of a path, and none of its beginnings, costs as much as the code's INF.
CostsBelowInf(d) ==
  \A f \in CostVectors : \A w \in Paths : \A i \in 0..Len(w) :
    SumOver(f, Rest(d, w, i)) < Inf

\* This holds of the directions that are searched.
BoundsReach ==
  \A d \in IF Modes \subseteq {"mono"} THEN {"fw"} ELSE Dir :
    RoundsSuffice(d) /\ CostsBelowInf(d)

\* The pack has the states State and the operations I, A, T, D and C, and
\* allows the routes that Route does.
PackIs(State, I(_), A(_, _, _), T(_, _, _), D(_, _, _, _), C(_, _, _), Route(_)) ==
  /\ PackState = State
  /\ \A d \in Dir :
       /\ InitState(d) = I(d)
       /\ \A s \in State :
            /\ \A a \in Arc : AlongArc(d, s, a) = A(d, s, a)
            /\ \A v \in Vertex : /\ ToVertex(d, s, v) = T(d, s, v)
                                 /\ \A t \in State : DomCost(d, v, s, t) = D(d, v, s, t)
  /\ \A v \in Vertex : \A s, t \in State : ConcatCost(v, s, t) = C(v, s, t)
  /\ \A w \in PartialWalks :
       /\ PackAllows(Visited(w)) <=> Route(Visited(w))
       /\ \A a \in ArcsAt("fw", EndOf(w)) :
            PackAllows(Visited(Append(w, a))) <=> Route(Visited(Append(w, a)))

-----------------------------------------------------------------------------
\* Every path returned is a feasible path from source to sink, its reduced and
\* its original cost are the sums over its arcs, and it is below theta: the
\* two halves of a concatenation fit together, in resources as in the pack.
ResultsAreFeasiblePaths ==
  \A c \in result :
    LET w == PathOf(c)
    IN /\ w \in Paths
       /\ c.cost = CostOf(w) /\ c.cost < opt.theta
       /\ c.real = SumOver(BaseCost, w)

\* No cap stops an exact solve: no component has more labels than it may have.
Uncapped == opt.stage = "Exact" => \A d \in Directions : ~AtCap(d)

\* The promise of dominance: once a component is finished, every feasible
\* partial path that ends in one of its buckets is represented by a label that
\* is as good in cost, in resources and in its pack state.
EveryPathRepresented ==
  (opt.stage = "Exact" /\ opt.mode = "mono") =>
    \A w \in PartialWalks :
      Settled("fw", BucketAfter[w]) =>
        \E l \in Live("fw") :
          LET n == This(l)
          IN /\ n.v = EndOf(w) /\ AtLeastAsGood("fw", n.q, Arrival[w].q)
             /\ \A r \in NonDisposable : n.q[r] = Arrival[w].q[r]
             /\ DomCost("fw", n.v, n.st, Arrival[w].st) < Inf
             /\ n.cost + DomCost("fw", n.v, n.st, Arrival[w].st) <= CostOf(w)

\* c_best of a finished bucket is a lower bound on every feasible partial path
\* that ends in it, which is what dominance, concatenation and bucket fixing
\* use it for.
CBestIsLowerBound ==
  (opt.stage = "Exact" /\ opt.mode = "mono") =>
    \A w \in PartialWalks :
      Settled("fw", BucketAfter[w]) => cbest["fw"][BucketAfter[w]] <= CostOf(w)

\* The completion bound of a bucket is a lower bound on what any feasible path
\* through the bucket still pays to the sink, or, of a backward bucket, has paid
\* since the source.
CompletionIsLowerBound ==
  \A d \in Dir : completion[d] # NoBounds =>
    \A w \in Paths : \A i \in 0..Len(w) :
      completion[d][BucketAfter[SubSeq(w, 1, i)]] <= CostOf(Rest(d, w, i))

\* An exact solve returns a path of least reduced cost when there is one below
\* theta.
FindsOptimum ==
  (Done /\ opt.stage = "Exact") =>
    \A w \in Paths : Worth(w) => \E c \in result : c.cost <= CostOf(w)

\* A path with one inner vertex, which it reaches beyond the midpoint: the label there
\* is not extended, and arcs at source and sink are not joined.
LonelyBeyondMid(w) ==
  Len(w) = 2 /\ \E l \in labels["fw"] \ extended["fw"] : Len(l) = 2 /\ This(l).v = To[w[1]]

\* The same for bidirectional labeling, where a path has to survive the midpoint,
\* the backward post-pass and the filters of the concatenation (in parallel mode
\* the completion bounds as well); only lonely paths are missed.
BidirFindsOptimum ==
  (Done /\ opt.stage = "Exact") =>
    \A w \in Paths :
      Worth(w) => \/ \E c \in result : c.cost <= CostOf(w)
                  \/ LonelyBeyondMid(w)

\* An enumeration that reports itself complete returned every path below
\* theta.
EnumerationIsComplete ==
  (Done /\ Enumerating /\ complete) => \A w \in Paths : Worth(w) => Found(w)

\* Components are processed in topological order, so that a finished one never
\* receives another label, whatever bucket a child really falls in.
FinishedComponentsAreClosed ==
  [][phase = "label" /\ phase' = "label" =>
       \A d \in Dir : \A l \in labels[d]' \ labels[d] : ~Settled(d, Where(l))]_vars

\* Two halves that an arc joins to a path below theta.
MakePath(f, a, g) ==
  LET along == AlongArc("fw", This(f).st, a)
  IN /\ This(f).v = From[a] /\ This(g).v = To[a]
     /\ AtLeastAsGood("fw", Advance("fw", This(f).q, a), This(g).q)
     /\ along.cost < Inf /\ ConcatCost(To[a], along.st, This(g).st) < Inf
     /\ Join(f, a, g).cost < opt.theta

\* No pair of halves that the two labelings have found is lost after them, in any
\* stage: the post-pass does not prune its backward label by an arrival bound put
\* together from the forward minima, and none of the cost filters of the
\* concatenation, whose backward minima are computed anew from what the post-pass
\* has left, skips it.  With an empty pack the concatenation skips more.
PairsBecomeCandidates ==
  [][(PostPass /\ opt.mode # "mono" /\ ~Enumerating) =>
       \A a \in InnerArcs : \A f \in Live("fw"), g \in Live("bw") :
         MakePath(f, a, g) => Join(f, a, g) \in ConcatCandidates']_vars

\* A solve ends: every component runs out of labels to visit although cycles
\* keep inserting new ones, the caps let go of what they stopped, and forward
\* labeling gets its turn after backward labeling.
Terminates == <>Done
=============================================================================
