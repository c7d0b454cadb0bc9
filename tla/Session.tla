------------------------------ MODULE Session ------------------------------
(***************************************************************************)
(* What a caller does with one BucketGraph between solves: new costs, stage *)
(* and threshold, building anew, arc elimination, bucket fixing, undoing    *)
(* both, and saving warm labels for the next solve.                        *)
(*                                                                         *)
(* Every operation runs to completion while no solve does.  One that        *)
(* changes what a solve would return sets phase to "ready"; elimination and  *)
(* fixing leave it "done", since they go by the bounds of the last solve.   *)
(*                                                                         *)
(* The ghost variable kept holds the paths that the caller has not given up: *)
(* eliminating or fixing with a gap gives up those that cost more.          *)
(***************************************************************************)
EXTENDS LabelingProps

CONSTANTS
  Calls,       \* the operations that the caller uses
  Gaps,        \* the gaps it eliminates and fixes with
  MaxSolves,   \* bound on the number of solves
  Rules        \* the rules below that the caller keeps to

ASSUME SessionAssumption ==
  /\ Calls \subseteq {"costs", "options", "build", "reset", "bounds", "labels",
                      "fix", "warm"}
  /\ Gaps \subseteq Int /\ MaxSolves \in Nat
  /\ Rules \subseteq {"fit", "whole", "pass", "keep", "reach"}

VARIABLES
  solves,      \* solves begun, bounded by MaxSolves
  kept,        \* ghost: the paths not given up
  whole,       \* ghost: the last solve had all bucket arcs
  plain,       \* ghost: the last solve was a mono solve without warm labels
  warm,        \* warm_labels_, each cut to its last node
  waiting      \* those that the solve has still to inject

svars == <<vars, solves, kept, whole, plain, warm, waiting>>

Idle == phase \in {"ready", "done"}
Preparing == Idle /\ solves < MaxSolves      \* there is a solve to prepare

\* What eliminate_arcs and fix_buckets assert: bounds of an earlier solve.
HaveBounds == Idle /\ \A d \in Directions : completion[d] # NoBounds

\* The rules of a careful caller.  It eliminates and fixes right after an exact
\* solve that looked as far as the gap ("fit"); it enumerates only with all bucket
\* arcs in place, and eliminates and fixes only by the bounds of a solve that had
\* them all ("whole"); it passes the costs again after it built or reset ("pass"),
\* and keeps the costs while buckets are fixed or warm labels saved ("keep").
\* Label-based elimination it uses with mono labels only, which reach everywhere
\* ("reach").
BoundsFit(gap) ==
  /\ "fit" \in Rules => phase = "done" /\ opt.stage = "Exact" /\ gap <= opt.theta
  /\ "whole" \in Rules => whole
MayEnumerate == "whole" \in Rules /\ Enumerating => arcs = BuiltArcs
CostsPassed == "pass" \in Rules => dirty \/ inl = red
CostsMayChange == "keep" \in Rules => fixed = {} /\ warm = {}

-----------------------------------------------------------------------------
\* Costs and options.

UpdateArcCosts(c) ==
  /\ Preparing /\ "costs" \in Calls
  /\ CostsMayChange
  /\ red' = c /\ dirty' = TRUE /\ phase' = "ready"
  /\ UNCHANGED <<opt, inl, jinl, arcs, jumps, fixed, mid, midSet, search, cbest,
                 completion, complete, result, solves, kept, whole, plain, warm, waiting>>

\* set_stage and set_theta.
SetOptions(s, t) ==
  /\ Preparing /\ "options" \in Calls
  /\ opt' = [opt EXCEPT !.stage = s, !.theta = t] /\ phase' = "ready"
  /\ UNCHANGED <<graph, mid, midSet, search, cbest, completion, complete, result,
                 solves, kept, whole, plain, warm, waiting>>

\* build(), with the same bucket widths: new buckets without bounds, their arcs
\* with base costs inlined, nothing fixed.  The flag that has the costs
\* refreshed is left alone.
NoJumps == [d \in Dir |-> [b \in Bucket |-> {}]]

Build ==
  /\ Preparing /\ "build" \in Calls
  /\ arcs' = BuiltArcs /\ inl' = BaseCost /\ jumps' = NoJumps /\ fixed' = {}
  /\ midSet' = FALSE /\ cbest' = [d \in Dir |-> NoBounds]
  /\ kept' = Paths /\ phase' = "ready"
  /\ UNCHANGED <<opt, red, jinl, dirty, mid, search, completion, complete,
                 result, solves, whole, plain, warm, waiting>>

\* reset_elimination()
ResetElimination ==
  /\ Preparing /\ "reset" \in Calls
  /\ arcs' = BuiltArcs /\ inl' = BaseCost /\ jumps' = NoJumps /\ fixed' = {}
  /\ completion' = [d \in Dir |-> NoBounds]
  /\ kept' = Paths /\ phase' = "ready"
  /\ UNCHANGED <<opt, red, jinl, dirty, mid, midSet, search, cbest, complete,
                 result, solves, whole, plain, warm, waiting>>

-----------------------------------------------------------------------------
\* Elimination.  Jump arcs: a bucket that has lost an arc of its vertex may
\* still take it from the nearest buckets beyond it that have it.

NoJumpArcs(d, A) == [b \in Bucket |-> {}]      \* mutant: as with no_jump_arcs

JumpArcs(d, A) ==
  LET Beyond(b, a) == {c \in BucketsAt(b[1]) \ {b} : UpTo(d, b, c) /\ a \in A[c]}
      Nearest(S) == {c \in S : \A x \in S : UpTo(d, x, c) => x = c}
  IN [b \in Bucket |->
        IF b \in fixed THEN {}
        ELSE UNION {{a} \X Nearest(Beyond(b, a)) : a \in ArcsAt(d, b[1]) \ A[b]}]

\* The arcs on some path that, by the bounds, costs no more than the gap.
WithinGap(d, gap) ==
  [b \in Bucket |-> {a \in arcs[d][b] :
     cbest[d][b] + inl[a] + completion[d][Target[d][b][a]] <= gap}]

Cost(w) == SumOver(inl, w)
KeptWithin(gap) == {w \in kept : Cost(w) <= gap}

Eliminated(left) ==
  /\ arcs' = [d \in Dir |-> IF d \in Directions THEN left[d] ELSE arcs[d]]
  /\ jumps' = [d \in Dir |-> IF d \in Directions THEN JumpArcs(d, left[d]) ELSE jumps[d]]
  /\ jinl' = red
  /\ UNCHANGED <<phase, opt, red, inl, dirty, fixed, mid, midSet, search, cbest,
                 completion, complete, result, solves, whole, plain, warm, waiting>>

EliminateArcs(gap) ==
  /\ HaveBounds /\ "bounds" \in Calls /\ BoundsFit(gap)
  /\ Eliminated([d \in Directions |-> WithinGap(d, gap)])
  /\ kept' = KeptWithin(gap)

-----------------------------------------------------------------------------
\* eliminate_arcs_label_based: an arc stays when labels of both directions make a
\* path through it below the gap.  The buckets of the opposite direction in
\* which such a label was found are handed on to the later buckets of the vertex,
\* through those that are not fixed.

Opposite(d) == IF d = "fw" THEN "bw" ELSE "fw"

\* is_theta_compatible
Compatible(f, a, g, gap) ==
  LET along == AlongArc("fw", This(f).st, a)
  IN /\ This(f).cost + This(g).cost + red[a] + MinDomCost < gap
     /\ AtLeastAsGood("fw", Advance("fw", This(f).q, a), This(g).q)
     /\ along.cost < Inf /\ ConcatCost(To[a], along.st, This(g).st) < Inf
     /\ Join(f, a, g).cost < gap

CompatibleIn(d, l, a, c, gap) ==
  \E o \in LiveIn(Opposite(d), c) :
     IF d = "fw" THEN Compatible(l, a, o, gap) ELSE Compatible(o, a, l, gap)

\* The buckets where a label of b may arrive by a: from the corner of b, or from
\* that of the bucket it jumps to.
ArrivalBuckets(d, jump, b, a) ==
  {Target[d][c][a] : c \in {x \in BucketsAt(b[1]) :
                              \/ x = b /\ a \in arcs[d][b]
                              \/ <<a, x>> \in jump[b]}}

Marked(d, jump, a, gap) ==
  LET Own(b) ==
        {c \in BucketsAt(Ahead(d, a)) :
           /\ \E x \in ArrivalBuckets(d, jump, b, a) : UpTo(d, x, c)
           /\ \E l \in LiveIn(d, b) : CompatibleIn(d, l, a, c, gap)}
      marks[b \in BucketsAt(Behind(d, a))] ==
        IF b \in fixed THEN {}
        ELSE Own(b) \cup UNION {marks[c] : c \in
                                  {x \in BucketsAt(b[1]) \ {b} : Adjacent(d, x, b)}}
  IN marks

LabelBasedLeft(d, gap) ==
  LET jump == JumpArcs(d, arcs[d])
      marks == [a \in Arc |-> Marked(d, jump, a, gap)]
  IN [b \in Bucket |->
        IF b \in fixed THEN arcs[d][b]
        ELSE {a \in arcs[d][b] : \E c \in marks[a][b] : UpTo(d, Target[d][b][a], c)}]

\* Without backward labels it is eliminate_arcs.
EliminateArcsLabelBased(gap) ==
  /\ HaveBounds /\ "labels" \in Calls /\ BoundsFit(gap)
  /\ "reach" \in Rules => opt.mode = "mono"
  /\ Eliminated([d \in Directions |-> IF opt.mode = "mono" THEN WithinGap(d, gap)
                                      ELSE LabelBasedLeft(d, gap)])
  /\ kept' = {w \in KeptWithin(gap) : opt.mode # "mono" => Cost(w) < gap}

-----------------------------------------------------------------------------
\* fix_buckets: no path that the bounds know of leads through the bucket.

\* Mutant: a path that costs as much as the gap is lost.
HopelessAtGap(b, gap) ==
  /\ cbest["fw"][b] + completion["fw"][b] >= gap
  /\ opt.mode # "mono" => /\ cbest["bw"][b] + completion["bw"][b] >= gap
                          /\ cbest["fw"][b] + cbest["bw"][b] >= gap

\* Mutant: the bounds of backward labels and of joined ones are not asked.
HopelessForward(b, gap) == cbest["fw"][b] + completion["fw"][b] > gap

HopelessBucket(b, gap) ==
  /\ cbest["fw"][b] + completion["fw"][b] > gap
  /\ opt.mode # "mono" => /\ cbest["bw"][b] + completion["bw"][b] > gap
                          /\ cbest["fw"][b] + cbest["bw"][b] > gap

FixBuckets(gap) ==
  /\ HaveBounds /\ "fix" \in Calls /\ BoundsFit(gap)
  /\ fixed' = fixed \cup {b \in Bucket : HopelessBucket(b, gap)}
  /\ kept' = KeptWithin(gap)
  /\ UNCHANGED <<phase, opt, red, inl, jinl, dirty, arcs, jumps, mid, midSet,
                 search, cbest, completion, complete, result, solves, whole, plain, warm, waiting>>

-----------------------------------------------------------------------------
\* Warm labels: the cheapest forward labels of the last solve, as many as the
\* fraction asked for (any), and at least one.  They are put into the buckets
\* of every later solve, cheapest first, with the costs and the resources they
\* had and without the labels they came from.

SaveWarmLabels ==
  /\ phase = "done" /\ Preparing /\ "warm" \in Calls /\ Live("fw") # {}
  /\ \E W \in SUBSET Live("fw") \ {{}} :
       /\ \A l \in W, k \in Live("fw") \ W : This(l).cost <= This(k).cost
       /\ warm' = {<<This(l)>> : l \in W}
  /\ UNCHANGED <<vars, solves, kept, whole, plain, waiting>>

\* Mutant: a warm label is taken for extended, as it was when it was saved.
InjectAsExtended(l) ==
  /\ phase = "label" /\ l \in waiting
  /\ \A k \in waiting : This(l).cost <= This(k).cost
  /\ waiting' = waiting \ {l}
  /\ IF Stored("fw", This(l))
     THEN /\ labels' = [labels EXCEPT !["fw"] = @ \cup {l}]
          /\ dominated' = [dominated EXCEPT !["fw"] = @ \cup Victims("fw", This(l))]
          /\ extended' = [extended EXCEPT !["fw"] = @ \cup {l}]
          /\ count' = [count EXCEPT !["fw"] = Counted("fw", This(l))]
     ELSE UNCHANGED <<labels, dominated, extended, count>>
  /\ UNCHANGED <<phase, opt, graph, mid, midSet, scc, finished, cur, todo, sweep,
                 cbest, completion, complete, result, solves, kept, whole, plain, warm>>

InjectWarmLabel(l) ==
  /\ phase = "label" /\ l \in waiting
  /\ \A k \in waiting : This(l).cost <= This(k).cost
  /\ opt.mode = "seq" => finished["bw"] = Sccs["bw"]
  /\ waiting' = waiting \ {l}
  /\ LET n == This(l)
         gone == Replaced("fw", n)
     IN IF Stored("fw", n)
        THEN /\ labels' = [labels EXCEPT !["fw"] = (@ \ gone) \cup {l}]
             /\ dominated' = [dominated EXCEPT !["fw"] = (@ \ gone) \cup Victims("fw", n)]
             /\ extended' = [extended EXCEPT !["fw"] = @ \ gone]
             /\ count' = [count EXCEPT !["fw"] = Counted("fw", n)]
        ELSE UNCHANGED <<labels, dominated, extended, count>>
  /\ UNCHANGED <<phase, opt, graph, mid, midSet, scc, finished, cur, todo, sweep,
                 cbest, completion, complete, result, solves, kept, whole, plain, warm>>

-----------------------------------------------------------------------------
\* The solves themselves.

BeginNextSolve ==
  /\ solves < MaxSolves /\ CostsPassed /\ MayEnumerate
  /\ BeginSolve
  /\ solves' = solves + 1 /\ waiting' = warm /\ whole' = (arcs = BuiltArcs)
  /\ plain' = (opt.mode = "mono" /\ warm = {})
  /\ UNCHANGED <<kept, warm>>

\* Warm labels are there before the forward labeling starts.
SolveStep ==
  /\ \/ \E d \in Dir : LabelStep(d) /\ (d = "fw" \/ opt.mode = "par" => waiting = {})
     \/ EndLabeling \/ PostPass \/ Collect
  /\ UNCHANGED <<solves, kept, whole, plain, warm, waiting>>

SessionInit ==
  Init /\ solves = 0 /\ kept = Paths /\ whole = TRUE /\ plain = TRUE
       /\ warm = {} /\ waiting = {}

Call ==
  \/ \E c \in CostVectors : UpdateArcCosts(c)
  \/ \E s \in Stages, t \in Thetas : SetOptions(s, t)
  \/ Build \/ ResetElimination
  \/ \E gap \in Gaps : EliminateArcs(gap) \/ EliminateArcsLabelBased(gap) \/ FixBuckets(gap)
  \/ SaveWarmLabels
  \/ BeginNextSolve

\* The bound on solves is reached.
SessionOver == phase = "done" /\ solves = MaxSolves /\ UNCHANGED svars

SessionNext ==
  Call \/ (\E l \in waiting : InjectWarmLabel(l)) \/ SolveStep \/ SessionOver

SessionSpec == SessionInit /\ [][SessionNext]_svars

-----------------------------------------------------------------------------
\* The caller sees an oracle over the feasible paths: across eliminations,
\* fixings, cost changes and resets an exact mono solve still returns a path as
\* cheap as any that was not given up, and a complete enumeration returns them
\* all.  Bidirectional solves and warm labels promise less: FindsKept.  Paths and
\* SumOver of the oracle are those of Walks.
Oracle == INSTANCE Pricing WITH
  Prices <- CostVectors, Questions <- [stage : Stages, theta : Thetas],
  price <- red, question <- [stage |-> opt.stage, theta |-> opt.theta],
  answer <- IF phase = "done" /\ plain
            THEN [paths |-> {PathOf(c) : c \in result}, all |-> complete]
            ELSE [paths |-> {}, all |-> FALSE]

ImplementsOracle == Oracle!PricingSpec

\* An exact solve, with warm labels or without, finds a cost as low as that of any
\* path that was not given up, as far as bidirectional labeling finds it at all.
FindsKept ==
  (Done /\ opt.stage = "Exact") =>
    \A w \in kept : Worth(w) => \/ \E c \in result : c.cost <= CostOf(w)
                                \/ LonelyBeyondMid(w)

\* A complete enumeration finds every path that was not given up.
EnumeratesKept ==
  (Done /\ Enumerating /\ complete) => \A w \in kept : Worth(w) => Found(w)

\* With warm labels, too, an exact solve returns an optimal path.
FindsOptimalPath ==
  (Done /\ opt.stage = "Exact") =>
    \A w \in Paths :
      Worth(w) => \E c \in result : PathOf(c) \in Paths /\ CostOf(PathOf(c)) <= CostOf(w)

\* The arcs of a path that was not given up survive every elimination in the
\* buckets where the path passes, and none of these buckets is fixed.  Where
\* forward labels stop at the midpoint the arcs beyond it are of no use.
KeptPathsStayOpen ==
  opt.mode = "mono" => \A w \in kept : \A i \in 0..Len(w) :
    LET b == BucketAfter[SubSeq(w, 1, i)]
    IN b \notin fixed /\ (i < Len(w) => w[i + 1] \in arcs["fw"][b])

\* The costs inlined in the bucket arcs are those the caller passed last whenever
\* labels are extended along them.
CostsAreCurrent == phase = "label" => inl = red /\ jinl = red

\* A label that takes the place of one on a kept path, in the same bucket or in
\* one before it, can still follow the path: along the bucket arc or by a jump no
\* further than to the bucket of the path.
KeptPathsStayInReach ==
  opt.mode = "mono" => \A w \in kept : \A i \in 0..Len(w) - 1 :
    LET a == w[i + 1]
        there == BucketAfter[SubSeq(w, 1, i)]
    IN \A b \in BucketsAt(there[1]) \ fixed :
         UpTo("fw", b, there) =>
           \/ a \in arcs["fw"][b]
           \/ \E c \in Bucket : <<a, c>> \in jumps["fw"][b] /\ UpTo("fw", c, there)
=============================================================================
