--------------------------- MODULE SessionProofs ---------------------------
(***************************************************************************)
(* Proofs about sessions.  What the caller has not given up stays open:     *)
(* elimination goes by the bounds of a solve that had all bucket arcs, and   *)
(* by these no arc of a path within the gap is hopeless, however often arcs  *)
(* are eliminated, costs changed and buckets built anew.  A label that takes *)
(* the place of one on such a path in an earlier bucket of the vertex can    *)
(* still follow the path, by a jump arc if its own bucket lost the arc.  So   *)
(* an exact solve of what is left finds a path as cheap as any kept one, an   *)
(* enumeration of the whole graph finds all, and the session as a whole is    *)
(* the oracle Pricing to its caller.                                         *)
(***************************************************************************)
EXTENDS CompletenessProofs, Session

-----------------------------------------------------------------------------
\* The buckets of a vertex are ordered, if partially.
LEMMA UpToOrders ==
  ASSUME NEW d \in Dir, NEW x \in Bucket, NEW y \in Bucket, NEW z \in Bucket
  PROVE  /\ UpTo(d, x, x)
         /\ UpTo(d, x, y) /\ UpTo(d, y, z) => UpTo(d, x, z)
         /\ UpTo(d, x, y) /\ UpTo(d, y, x) => x = y
<1>1. /\ x[2] \in [Res -> Int] /\ y[2] \in [Res -> Int] /\ z[2] \in [Res -> Int]
      /\ x = <<x[1], x[2]>> /\ y = <<y[1], y[2]>>
  BY BucketType DEF Bucket, BucketsAt
<1>2. \A r \in Res : x[2][r] \in Int /\ y[2][r] \in Int /\ z[2][r] \in Int
  BY <1>1
<1>3. UpTo(d, x, x) /\ (UpTo(d, x, y) /\ UpTo(d, y, z) => UpTo(d, x, z))
  BY <1>2 DEF UpTo
<1>4. ASSUME UpTo(d, x, y), UpTo(d, y, x)
      PROVE  x = y
  <2>1. x[1] = y[1] /\ \A r \in Res : x[2][r] = y[2][r]
    BY <1>2, <1>4 DEF UpTo
  <2>2. x[2] = y[2]
    BY <1>1, <2>1
  <2> QED BY <1>1, <2>1, <2>2
<1> QED BY <1>3, <1>4

\* Among the buckets up to one that has an arc there is a nearest that has it.
LEMMA NearestExists ==
  ASSUME NEW d \in Dir, NEW S \in SUBSET Bucket, NEW there \in S
  PROVE  \E c \in S : UpTo(d, c, there) /\ \A x \in S : UpTo(d, x, c) => x = c
<1> DEFINE T == {c \in S : UpTo(d, c, there)}
           below(c) == {y \in Bucket : UpTo(d, y, c)}
           M == {Cardinality(below(c)) : c \in T}
<1>1. \A c : /\ IsFiniteSet(below(c)) /\ Cardinality(below(c)) \in Nat
  BY BucketsFinite, FS_Subset, FS_CardinalityType
<1>2. there \in T
  BY UpToOrders
<1>3. M \in SUBSET Nat /\ M # {}
  BY <1>1, <1>2
<1>4. PICK n \in M : \A m \in M : n <= m
  BY <1>3, LeastNatural
<1>5. PICK c \in T : n = Cardinality(below(c))
  BY <1>4
<1>6. ASSUME NEW x \in S, UpTo(d, x, c), x # c
      PROVE  FALSE
  <2>1. x \in T
    BY <1>6, UpToOrders
  <2>2. below(x) \in SUBSET (below(c))
    BY <1>6, UpToOrders
  <2>3. c \in below(c) /\ c \notin below(x)
    BY <1>6, UpToOrders
  <2>4. /\ Cardinality(below(x)) <= Cardinality(below(c))
        /\ Cardinality(below(x)) # Cardinality(below(c))
    BY <1>1, <2>2, <2>3, FS_Subset
  <2>5. Cardinality(below(c)) <= Cardinality(below(x))
    BY <1>4, <1>5, <2>1
  <2> QED BY <1>1, <2>4, <2>5
<1> QED BY <1>6

-----------------------------------------------------------------------------
\* What is left of the graph as it was built: jump arcs make up for the arcs that
\* buckets have lost.
GraphCut ==
  /\ fixed = {}
  /\ \A d \in Dir : /\ \A b \in Bucket : arcs[d][b] \subseteq BuiltArcs[d][b]
                    /\ jumps[d] = JumpArcs(d, arcs[d])

\* Where nothing is lost there is nothing to jump to.
LEMMA NothingBeyond ==
  ASSUME NEW d \in Dir, NEW b \in Bucket, NEW a \in ArcsAt(d, b[1]) \ BuiltArcs[d][b]
  PROVE  {c \in BucketsAt(b[1]) \ {b} : UpTo(d, b, c) /\ a \in BuiltArcs[d][c]} = {}
<1>1. ASSUME NEW c \in BucketsAt(b[1]), UpTo(d, b, c), a \in BuiltArcs[d][c]
      PROVE  FALSE
  <2>1. c \in Bucket
    BY <1>1, BucketType DEF Bucket
  <2> QED BY <1>1, <2>1, ArcsDescend
<1> QED BY <1>1

\* A jump arc leaves from the bucket's own vertex, to a bucket after it that has the arc.
LEMMA JumpArcsType ==
  ASSUME NEW d \in Dir, NEW A, \A b \in Bucket : A[b] \subseteq BuiltArcs[d][b]
  PROVE  /\ JumpArcs(d, A) \in [Bucket -> SUBSET (Arc \X Bucket)]
         /\ \A b \in Bucket : \A j \in JumpArcs(d, A)[b] :
              /\ j[1] \in ArcsAt(d, b[1]) /\ j[2] \in Bucket /\ UpTo(d, b, j[2])
              /\ j[1] \in A[j[2]] /\ j = <<j[1], j[2]>>
<1>1. ASSUME NEW b \in Bucket, NEW j \in JumpArcs(d, A)[b]
      PROVE  /\ j \in Arc \X Bucket /\ j[1] \in ArcsAt(d, b[1]) /\ UpTo(d, b, j[2])
             /\ j[1] \in A[j[2]] /\ j = <<j[1], j[2]>>
  <2> DEFINE Beyond(a) == {c \in BucketsAt(b[1]) \ {b} : UpTo(d, b, c) /\ a \in A[c]}
             Nearest(S) == {c \in S : \A x \in S : UpTo(d, x, c) => x = c}
  <2>1. JumpArcs(d, A)[b] \subseteq UNION {{a} \X Nearest(Beyond(a)) : a \in ArcsAt(d, b[1]) \ A[b]}
    BY DEF JumpArcs
  <2>2. PICK a \in ArcsAt(d, b[1]) \ A[b] : j \in {a} \X Nearest(Beyond(a))
    BY <2>1
  <2>3. j[1] = a /\ j[2] \in Beyond(a) /\ j = <<j[1], j[2]>>
    BY <2>2
  <2>4. j[2] \in Bucket /\ a \in Arc
    BY <2>3, BucketType DEF Bucket, ArcsAt
  <2> QED BY <2>2, <2>3, <2>4
<1>2. DOMAIN JumpArcs(d, A) = Bucket /\ JumpArcs(d, A) = [b \in Bucket |-> JumpArcs(d, A)[b]]
  BY DEF JumpArcs
<1> QED BY <1>1, <1>2

\* Whoever is in a bucket before one that has an arc can take it: along the bucket
\* arc, or by a jump no further than to that one.
LEMMA WithinReach ==
  ASSUME GraphCut, NEW d \in Dir, NEW there \in Bucket, NEW b \in Bucket, UpTo(d, b, there),
         NEW a \in arcs[d][there]
  PROVE  \/ a \in arcs[d][b]
         \/ \E c \in Bucket : <<a, c>> \in jumps[d][b] /\ UpTo(d, c, there)
<1> SUFFICES ASSUME a \notin arcs[d][b]
             PROVE  \E c \in Bucket : <<a, c>> \in jumps[d][b] /\ UpTo(d, c, there)
  OBVIOUS
<1> DEFINE Beyond == {c \in BucketsAt(b[1]) \ {b} : UpTo(d, b, c) /\ a \in arcs[d][c]}
<1>1. b[1] = there[1] /\ b[1] \in Vertex /\ there \in BucketsAt(b[1])
  BY BucketType DEF UpTo, Bucket, BucketsAt
<1>2. a \in ArcsAt(d, b[1]) \ arcs[d][b]
  BY <1>1, BuiltArcsType DEF GraphCut
<1>3. there \in Beyond
  BY <1>1
<1>4. Beyond \in SUBSET Bucket
  BY <1>1 DEF Bucket
<1>5. PICK c \in Beyond : UpTo(d, c, there) /\ \A x \in Beyond : UpTo(d, x, c) => x = c
  <2> HIDE DEF Beyond
  <2> QED BY <1>3, <1>4, NearestExists
<1>6. <<a, c>> \in JumpArcs(d, arcs[d])[b]
  BY <1>2, <1>5 DEF JumpArcs, GraphCut
<1> QED BY <1>4, <1>5, <1>6 DEF GraphCut

-----------------------------------------------------------------------------
\* The arcs of a path are among those of the buckets it passes.
Open(w) == \A i \in 1..Len(w) : w[i] \in arcs["fw"][Passed(w, i - 1)]

LEMMA OpenAsBuilt ==
  ASSUME NEW w \in Paths, NEW i \in 1..Len(w)
  PROVE  w[i] \in BuiltArcs["fw"][Passed(w, i - 1)]
<1>1. "fw" \in Dir /\ w \in PartialWalks /\ Len(w) \in Nat
  BY Beginnings DEF Dir, Paths
<1>2. i - 1 \in 0..Len(w)
  BY <1>1
<1>3. Passed(w, i - 1) \in Bucket
  BY <1>1, <1>2, PassedType
<1>4. UpTo("fw", Passed(w, i - 1), Passed(w, i - 1))
  BY <1>1, <1>3, UpToOrders
<1> QED BY <1>1, <1>3, <1>4, CornerFollows

\* So no path that was not given up is closed, and whoever stands in for it finds a way.
LEMMA OpenIsOpen ==
  ASSUME GraphCut, kept \subseteq Paths, \A w \in kept : Open(w)
  PROVE  KeptPathsStayOpen /\ KeptPathsStayInReach
<1>1. ASSUME NEW w \in kept, NEW i \in 0..Len(w), i < Len(w)
      PROVE  /\ w[i + 1] \in arcs["fw"][Passed(w, i)] /\ Passed(w, i) \in Bucket
             /\ \A b \in BucketsAt(Passed(w, i)[1]) :
                  UpTo("fw", b, Passed(w, i)) =>
                    \/ w[i + 1] \in arcs["fw"][b]
                    \/ \E c \in Bucket : /\ <<w[i + 1], c>> \in jumps["fw"][b]
                                        /\ UpTo("fw", c, Passed(w, i))
  <2>1. "fw" \in Dir /\ w \in PartialWalks /\ Len(w) \in Nat
    BY Beginnings DEF Dir, Paths
  <2>2. i + 1 \in 1..Len(w) /\ (i + 1) - 1 = i
    BY <1>1, <2>1
  <2>3. w[i + 1] \in arcs["fw"][Passed(w, i)]
    BY <2>2 DEF Open
  <2>4. Passed(w, i) \in Bucket
    BY <2>1, PassedType
  <2>5. BucketsAt(Passed(w, i)[1]) \subseteq Bucket
    BY <2>4, BucketType DEF Bucket
  <2> QED BY <2>1, <2>3, <2>4, <2>5, WithinReach
<1>2. KeptPathsStayOpen
  BY <1>1 DEF KeptPathsStayOpen, Passed, GraphCut
<1>3. KeptPathsStayInReach
  <2> SUFFICES ASSUME NEW w \in kept, NEW i \in 0..Len(w) - 1,
                      NEW b \in BucketsAt(Passed(w, i)[1]), UpTo("fw", b, Passed(w, i))
               PROVE  \/ w[i + 1] \in arcs["fw"][b]
                      \/ \E c \in Bucket : /\ <<w[i + 1], c>> \in jumps["fw"][b]
                                          /\ UpTo("fw", c, Passed(w, i))
    BY DEF KeptPathsStayInReach, Passed
  <2>1. Len(w) \in Nat
    BY Beginnings DEF Paths
  <2>2. i \in 0..Len(w) /\ i < Len(w)
    BY <2>1
  <2> QED BY <1>1, <2>2
<1> QED BY <1>2, <1>3

-----------------------------------------------------------------------------
\* An exact mono-directional solve that had all bucket arcs leaves bounds behind by
\* which no arc of a path within the gap is hopeless.
Bounded ==
  /\ completion["fw"] = CompletionBounds("fw", BuiltArcs, red)
  /\ \A w \in PartialWalks : cbest["fw"][BucketAfter[w]] <= CostOf(w)

LEMMA WithinGapKeeps ==
  ASSUME BoundsReach, TypeOK, red \in CostVectors, inl = red, Bounded,
         NEW gap \in Int, NEW w \in Paths, Open(w), CostOf(w) <= gap, NEW i \in 1..Len(w)
  PROVE  w[i] \in WithinGap("fw", gap)[Passed(w, i - 1)]
<1> DEFINE b == Passed(w, i - 1)
           c == Passed(w, i)
           t == Target["fw"][b][w[i]]
           comp == completion["fw"]
           before == CostOf(SubSeq(w, 1, i - 1))
           after == CostOf(SubSeq(w, i + 1, Len(w)))
<1>1. /\ "fw" \in Dir /\ w \in PartialWalks /\ w \in Seq(Arc) /\ Len(w) \in Nat
      /\ i \in Nat /\ i - 1 \in 0..Len(w) /\ i \in 0..Len(w) /\ (i - 1) + 1 = i
      /\ SubSeq(w, 1, i - 1) \in PartialWalks /\ w[i] \in Arc
      /\ red \in [Arc -> Int] /\ cbest \in [Dir -> [Bucket -> Int]]
  <2>1. /\ "fw" \in Dir /\ w \in PartialWalks /\ red \in [Arc -> Int]
        /\ cbest \in [Dir -> [Bucket -> Int]]
    BY DEF Dir, Paths, TypeOK, GraphType, SearchType
  <2>2. /\ w \in Seq(Arc) /\ Len(w) \in Nat /\ w[i] \in Arc
        /\ \A k \in 0..Len(w) : SubSeq(w, 1, k) \in PartialWalks
    BY <2>1, Beginnings
  <2>3. i \in Nat /\ i - 1 \in 0..Len(w) /\ i \in 0..Len(w) /\ (i - 1) + 1 = i
    BY <2>2
  <2> QED BY <2>1, <2>2, <2>3
<1>2. b \in Bucket /\ c \in Bucket /\ b = BucketAfter[SubSeq(w, 1, i - 1)]
  BY <1>1, PassedType DEF Passed
<1>3. t \in Bucket /\ UpTo("fw", t, c)
  BY <1>1, <1>2, UpToOrders, CornerFollows
<1>4. ArcsOfBuckets("fw", BuiltArcs)
  BY DEF ArcsOfBuckets
<1>5. comp[t] <= comp[c] /\ comp[t] \in Int /\ comp[c] \in Int
  BY <1>1, <1>2, <1>3, <1>4, BoundsAscend, CompletionBoundsType DEF Bounded
<1>6. comp[c] <= after
  <2>1. RoundsSuffice("fw") /\ CostsBelowInf("fw")
    BY DEF BoundsReach, Dir
  <2> QED BY <1>1, <2>1, BoundOfRest DEF Bounded, Rest, CostOf
<1>7. cbest["fw"][b] <= before /\ cbest["fw"][b] \in Int
  BY <1>1, <1>2 DEF Bounded
<1>8. before + (red[w[i]] + after) = CostOf(w)
  <2>1. before + SumOver(red, SubSeq(w, i, Len(w))) = CostOf(w)
    BY <1>1, SumOfRest DEF CostOf
  <2>2. SumOver(red, SubSeq(w, i, Len(w))) = red[w[i]] + after
    BY <1>1, SumOfRest DEF CostOf
  <2> QED BY <2>1, <2>2
<1>9. before \in Int /\ after \in Int /\ red[w[i]] \in Int
  <2>1. after \in Int
    BY <1>1, SumOfRest DEF CostOf
  <2>2. SubSeq(w, 1, i - 1) \in Seq(Arc)
    BY <1>1, Beginnings
  <2> QED BY <1>1, <2>1, <2>2, SumType DEF CostOf
<1>10. w[i] \in arcs["fw"][b]
  BY DEF Open
<1>11. CostOf(w) \in Int
  BY <1>1, SumType DEF CostOf
<1> HIDE DEF b, c, t, comp, before, after
<1>12. cbest["fw"][b] + red[w[i]] + comp[t] <= gap
  <2>1. ASSUME NEW m \in Int, NEW n \in Int, NEW p \in Int, NEW q \in Int, NEW r \in Int,
               NEW x \in Int, NEW y \in Int,
               m <= p, n <= q, q <= x, p + (r + x) = y, y <= gap
        PROVE  m + r + n <= gap
    BY <2>1
  <2> QED BY <1>5, <1>6, <1>7, <1>8, <1>9, <1>11, <2>1
<1>13. WithinGap("fw", gap)[b] = {a \in arcs["fw"][b] :
         cbest["fw"][b] + inl[a] + completion["fw"][Target["fw"][b][a]] <= gap}
  BY <1>2 DEF WithinGap
<1> QED BY <1>10, <1>12, <1>13 DEF b, t, comp

-----------------------------------------------------------------------------
\* The caller keeps to the rules on bounds and costs, and neither fixes buckets nor
\* saves warm labels.
Careful == {"fit", "whole", "pass"} \subseteq Rules /\ Calls \cap {"fix", "warm"} = {}

OptionType == opt \in [mode : Modes, stage : Stages, theta : Thetas]

\* The state between the operations of a session: a solve has what it needs once the
\* costs are passed.
Basics ==
  /\ SolveType /\ GraphType /\ SearchType /\ red \in CostVectors
  /\ warm = {} /\ waiting = {} /\ kept \subseteq Paths
  /\ ~dirty => jinl = red
  /\ phase # "ready" => Inductive

\* A solve that had all bucket arcs is one of the solves of the other modules ...
WholeSolve ==
  whole /\ phase \in {"label", "post", "collect"} =>
    /\ InOrder /\ Kept /\ Searched
    /\ phase = "collect" /\ LoneExact =>
         completion["fw"] = CompletionBounds("fw", BuiltArcs, red)

\* ... and its bounds outlive it, until something else is asked.
BoundsKnown == whole /\ phase = "done" /\ opt.stage = "Exact" => Bounded

NothingClosed == \A w \in kept : Open(w)

LoneSession ==
  opt.mode = "mono" => Basics /\ GraphCut /\ WholeSolve /\ BoundsKnown /\ NothingClosed

-----------------------------------------------------------------------------
\* What the caller does between solves.
\* Costs and options are set; everything else is as before.
LEMMA AskStep ==
  ASSUME OptionType, LoneSession, opt.mode = "mono",
         \/ \E c \in CostVectors : UpdateArcCosts(c)
         \/ \E s \in Stages, t \in Thetas : SetOptions(s, t)
  PROVE  LoneSession'
<1>1. Basics /\ GraphCut /\ NothingClosed /\ SolveType /\ GraphType /\ SearchType
  BY DEF LoneSession, Basics
<1>2. /\ phase' = "ready" /\ UNCHANGED <<inl, jinl, arcs, jumps, fixed, mid, midSet, cbest,
                                         completion, complete, kept, warm, waiting>>
      /\ UNCHANGED <<todo, scc, sweep, finished, count>>
      /\ opt' \in [mode : Modes, stage : Stages, theta : Thetas]
      /\ \/ red' = red /\ dirty' = dirty
         \/ red' \in CostVectors /\ dirty' = TRUE
  BY <1>1 DEF UpdateArcCosts, SetOptions, OptionType, search, graph
<1>3. SolveType' /\ SearchType'
  BY <1>1, <1>2 DEF SolveType, SearchType
<1>4. GraphType' /\ red' \in CostVectors
  BY <1>1, <1>2, OptionAssumption DEF GraphType, Basics
<1>5. Basics'
  BY <1>1, <1>2, <1>3, <1>4 DEF Basics
<1>6. GraphCut'
  BY <1>1, <1>2 DEF GraphCut, JumpArcs
<1>7. NothingClosed'
  BY <1>1, <1>2 DEF NothingClosed, Open
<1> QED BY <1>2, <1>5, <1>6, <1>7 DEF LoneSession, WholeSolve, BoundsKnown

\* The graph is built anew, or what was eliminated is put back.
LEMMA RestoreStep ==
  ASSUME LoneSession, opt.mode = "mono", Build \/ ResetElimination
  PROVE  LoneSession'
<1>1. Basics /\ SolveType /\ GraphType /\ SearchType
  BY DEF LoneSession, Basics
<1>2. /\ phase' = "ready" /\ arcs' = BuiltArcs /\ inl' = BaseCost /\ fixed' = {}
      /\ jumps' = [d \in Dir |-> [b \in Bucket |-> {}]] /\ kept' = Paths
      /\ UNCHANGED <<opt, red, jinl, dirty, mid, complete, warm, waiting>>
      /\ UNCHANGED <<todo, scc, sweep, finished, count>>
      /\ midSet' = FALSE \/ midSet' = midSet
      /\ cbest' = cbest \/ cbest' = [d \in Dir |-> NoBounds]
      /\ completion' = completion \/ completion' = [d \in Dir |-> NoBounds]
  BY DEF Build, ResetElimination, NoJumps, search
<1>3. SolveType'
  BY <1>1, <1>2 DEF SolveType
<1>4. SearchType'
  <2>1. NoBounds \in [Bucket -> Int]
    BY ProblemAssumption DEF NoBounds
  <2> QED BY <1>1, <1>2, <2>1 DEF SearchType
<1>5. GraphType'
  <2>1. BaseCost \in [Arc -> Int]
    BY ProblemAssumption
  <2>2. jumps' \in [Dir -> [Bucket -> SUBSET (Arc \X Bucket)]]
    BY <1>2
  <2> QED BY <1>1, <1>2, <2>1, <2>2, BuiltArcsType DEF GraphType
<1>6. Basics'
  BY <1>1, <1>2, <1>3, <1>4, <1>5 DEF Basics
<1>7. GraphCut'
  <2>1. \A d \in Dir : JumpArcs(d, BuiltArcs[d])' = [b \in Bucket |-> {}]
    BY NothingBeyond DEF JumpArcs
  <2>2. \A d \in Dir : jumps'[d] = [b \in Bucket |-> {}] /\ arcs'[d] = BuiltArcs[d]
    BY <1>2
  <2> QED BY <1>2, <2>1, <2>2 DEF GraphCut
<1>8. NothingClosed'
  BY <1>2, OpenAsBuilt DEF NothingClosed, Open
<1> QED BY <1>2, <1>6, <1>7, <1>8 DEF LoneSession, WholeSolve, BoundsKnown

\* Elimination takes arcs away that no path within the gap needs.
LEMMA EliminationStep ==
  ASSUME BoundsReach, LoneSession, opt.mode = "mono", phase = "done", whole, opt.stage = "Exact",
         NEW gap \in Int, Eliminated([d \in Directions |-> WithinGap(d, gap)]),
         kept' = KeptWithin(gap)
  PROVE  LoneSession'
<1>1. Basics /\ GraphCut /\ NothingClosed /\ Bounded /\ Inductive
  BY DEF LoneSession, Basics, BoundsKnown
<1>2. TypeOK /\ SolveType /\ GraphType /\ SearchType /\ LabelType /\ GraphOK /\ inl = red
  BY <1>1 DEF Inductive, TypeOK, GraphOK
<1>3. /\ UNCHANGED <<phase, opt, red, inl, dirty, fixed, mid, midSet, cbest, completion,
                     complete, result, whole, warm, waiting>>
      /\ UNCHANGED <<labels, extended, dominated, scc, finished, cur, todo, sweep, count>>
      /\ jinl' = red
  BY DEF Eliminated, search
<1>4. "fw" \in Dir /\ "bw" \in Dir /\ Directions = {"fw"}
  BY DEF Dir, Directions
<1>5. /\ arcs' = [d \in Dir |-> IF d = "fw" THEN WithinGap("fw", gap) ELSE arcs[d]]
      /\ jumps' = [d \in Dir |-> IF d = "fw" THEN JumpArcs("fw", WithinGap("fw", gap)) ELSE jumps[d]]
  BY <1>4 DEF Eliminated
<1> DEFINE left == WithinGap("fw", gap)
<1>6. /\ left \in [Bucket -> SUBSET Arc] /\ \A b \in Bucket : left[b] \subseteq arcs["fw"][b]
  <2>1. arcs["fw"] \in [Bucket -> SUBSET Arc]
    BY <1>2, <1>4 DEF GraphType
  <2> QED BY <2>1 DEF WithinGap
<1> HIDE DEF left
<1>7. \A d \in Dir : \A b \in Bucket : arcs'[d][b] \subseteq BuiltArcs[d][b]
  BY <1>1, <1>5, <1>6 DEF GraphCut, left
<1>8. JumpArcs("fw", left) \in [Bucket -> SUBSET (Arc \X Bucket)]
  BY <1>4, <1>5, <1>7, JumpArcsType DEF left
<1>9. GraphType'
  BY <1>2, <1>3, <1>5, <1>6, <1>8 DEF GraphType, left
<1>10. GraphCut'
  <2>1. \A d \in Dir : jumps'[d] = JumpArcs(d, arcs'[d])
    BY <1>1, <1>4, <1>5 DEF GraphCut
  <2>2. \A d \in Dir : JumpArcs(d, arcs[d])' = JumpArcs(d, arcs'[d])
    BY <1>3 DEF JumpArcs
  <2> QED BY <1>1, <1>3, <1>7, <2>1, <2>2 DEF GraphCut
<1>11. Inductive'
  <2>1. TypeOK'
    BY <1>2, <1>3, <1>9 DEF TypeOK, SolveType, LabelType, SearchType
  <2>2. GraphOK'
    <3>1. ASSUME NEW d \in Dir, NEW b \in Bucket
          PROVE  /\ arcs'[d][b] \subseteq ArcsAt(d, b[1])
                 /\ \A j \in jumps'[d][b] : j[1] \in ArcsAt(d, b[1])
      <4>1. BuiltArcs[d][b] \subseteq ArcsAt(d, b[1])
        BY BuiltArcsType
      <4>2. \A j \in jumps'[d][b] : j[1] \in ArcsAt(d, b[1])
        <5>1. jumps'[d] = JumpArcs(d, arcs'[d])
          BY <1>1, <1>4, <1>5 DEF GraphCut
        <5> QED BY <1>7, <5>1, JumpArcsType
      <4> QED BY <1>7, <4>1, <4>2
    <3> QED BY <1>2, <1>3, <3>1 DEF GraphOK
  <2>3. SearchOK'
    BY <1>1, <1>3 DEF Inductive, SearchOK, Directions
  <2>4. LabelsAreSound' /\ ResultsAreSound'
    BY <1>1, <1>3, SoundLabelStable, ResultsStaySound DEF Inductive, LabelsAreSound
  <2> QED BY <2>1, <2>2, <2>3, <2>4 DEF Inductive
<1>12. Bounded'
  BY <1>1, <1>3 DEF Bounded, CostOf
<1>13. kept' = {w \in kept : CostOf(w) <= gap}
  BY <1>2 DEF KeptWithin, Cost, CostOf
<1>14. NothingClosed'
  <2> SUFFICES ASSUME NEW w \in kept, CostOf(w) <= gap, NEW i \in 1..Len(w)
               PROVE  w[i] \in arcs'["fw"][Passed(w, i - 1)]
    BY <1>13 DEF NothingClosed, Open
  <2>1. w \in Paths /\ Open(w) /\ red \in CostVectors
    BY <1>1 DEF Basics, NothingClosed
  <2>2. w[i] \in left[Passed(w, i - 1)]
    BY <1>1, <1>2, <2>1, WithinGapKeeps DEF left
  <2> QED BY <1>4, <1>5, <2>2 DEF left
<1>15. Basics'
  BY <1>1, <1>3, <1>9, <1>11, <1>13 DEF Basics, Inductive, TypeOK
<1> QED BY <1>3, <1>10, <1>12, <1>14, <1>15 DEF LoneSession, WholeSolve, BoundsKnown

-----------------------------------------------------------------------------
\* What the solves do.  Each begins with the costs of the moment; one that finds all
\* bucket arcs begins like any other solve of the graph as it was built.
LEMMA BeginStep ==
  ASSUME PackLawful, "pass" \in Rules, LoneSession, opt.mode = "mono", BeginNextSolve
  PROVE  LoneSession'
<1>1. Basics /\ GraphCut /\ NothingClosed /\ SolveType /\ GraphType /\ SearchType
  BY DEF LoneSession, Basics
<1>2. /\ BeginSolve /\ phase' = "label" /\ whole' = (arcs = BuiltArcs) /\ waiting' = warm
      /\ UNCHANGED <<opt, red, arcs, jumps, fixed, kept, warm>>
      /\ dirty \/ inl = red
  BY DEF BeginNextSolve, BeginSolve, CostsPassed
<1>3. \A d \in Dir, b \in Bucket : /\ arcs[d][b] \subseteq ArcsAt(d, b[1])
                                 /\ \A j \in jumps[d][b] : j[1] \in ArcsAt(d, b[1])
  <2> SUFFICES ASSUME NEW d \in Dir, NEW b \in Bucket
               PROVE  /\ arcs[d][b] \subseteq ArcsAt(d, b[1])
                      /\ \A j \in jumps[d][b] : j[1] \in ArcsAt(d, b[1])
    OBVIOUS
  <2>1. \A j \in jumps[d][b] : j[1] \in ArcsAt(d, b[1])
    BY <1>1, JumpArcsType DEF GraphCut
  <2> QED BY <1>1, <2>1, BuiltArcsType DEF GraphCut
<1>4. Prepared
  BY <1>1, <1>2, <1>3 DEF Prepared, Basics
<1>5. Inductive' /\ SolveType' /\ GraphType' /\ SearchType' /\ GraphOK'
  BY <1>2, <1>4, BeginSolveStep DEF Inductive, TypeOK
<1>6. Basics'
  BY <1>1, <1>2, <1>5 DEF Basics, GraphOK
<1>7. GraphCut' /\ NothingClosed'
  BY <1>1, <1>2 DEF GraphCut, JumpArcs, NothingClosed, Open
<1>8. ASSUME arcs = BuiltArcs
      PROVE  InOrder' /\ Kept' /\ Searched'
  <2>1. \A d \in Dir : jumps[d] = [b \in Bucket |-> {}]
    <3>1. \A d \in Dir : JumpArcs(d, BuiltArcs[d]) = [b \in Bucket |-> {}]
      BY NothingBeyond DEF JumpArcs
    <3> QED BY <1>1, <1>8, <3>1 DEF GraphCut
  <2>2. jumps = [d \in Dir |-> [b \in Bucket |-> {}]]
    BY <1>1, <2>1 DEF GraphType
  <2>3. GraphAsBuilt'
    BY <1>1, <1>2, <1>8, <2>2 DEF GraphAsBuilt, GraphCut
  <2>4. \A d \in Dir : /\ finished'[d] = {} /\ scc'[d] = {} /\ cur'[d] = <<>> /\ todo'[d] = {}
                      /\ extended'[d] = {}
    BY <1>2 DEF BeginSolve
  <2>5. SearchInOrder'
    BY <2>4 DEF SearchInOrder
  <2>6. FwWaits'
    BY <2>4 DEF FwWaits, Dir
  <2>7. Kept'
    BY <1>2, <2>6, KeptBegin DEF Kept
  <2>8. Searched'
    BY <1>2 DEF Searched
  <2> QED BY <1>5, <2>3, <2>5, <2>7, <2>8 DEF InOrder
<1>9. WholeSolve' /\ BoundsKnown'
  BY <1>2, <1>8 DEF WholeSolve, BoundsKnown
<1> QED BY <1>6, <1>7, <1>9 DEF LoneSession

\* A solve leaves the graph and the caller's wishes alone.
LEMMA SolveLeaves ==
  ASSUME SolveStep
  PROVE  /\ UNCHANGED <<opt, red, inl, jinl, dirty, arcs, jumps, fixed>>
         /\ UNCHANGED <<solves, kept, whole, plain, warm, waiting>>
         /\ phase' \in {"label", "post", "collect", "done"} /\ phase \in {"label", "post", "collect"}
         /\ phase' = "collect" => PostPass
         /\ phase' = "done" => Collect
         /\ phase = "collect" => Collect
         /\ [Next]_vars
<1>1. CASE EndLabeling \/ PostPass \/ Collect
  BY <1>1 DEF SolveStep, EndLabeling, PostPass, Collect, graph, Next, MainStep
<1>2. ASSUME NEW d \in Dir, LabelStep(d)
      PROVE  /\ UNCHANGED <<opt, red, inl, jinl, dirty, arcs, jumps, fixed>>
             /\ phase = "label" /\ phase' = "label" /\ [Next]_vars
  BY <1>2 DEF LabelStep, StartScc, DropDominated, PruneHopeless, OpenLabel, ExtendArc, FinishScc,
              Visit, Running, graph, Next
<1> QED BY <1>1, <1>2 DEF SolveStep

\* An exact solve of the whole graph ends with the bounds that elimination goes by.
LEMMA SolveEndsBounded ==
  ASSUME PackLawful, InOrder, Kept, Searched, LoneExact, Collect,
         completion["fw"] = CompletionBounds("fw", BuiltArcs, red)
  PROVE  Bounded'
<1>1. UNCHANGED <<red, cbest, completion>> /\ phase = "collect"
  BY DEF Collect, graph
<1>2. /\ "fw" \in Directions /\ "fw" \in Dir /\ finished["fw"] = Sccs["fw"] /\ KeptOK("fw")
  BY <1>1 DEF LoneExact, Directions, Dir, Searched, Kept, ExactRun
<1>3. ASSUME NEW w \in PartialWalks
      PROVE  cbest["fw"][BucketAfter[w]] <= CostOf(w)
  <2>1. Len(w) \in 0..Len(w) /\ SubSeq(w, 1, Len(w)) = w
    BY Beginnings
  <2>2. BucketAfter[w] \in Bucket
    BY <2>1, PassedType DEF Passed
  <2>3. Settled("fw", BucketAfter[w])
    BY <1>2, <2>2, SccsPartition DEF Settled
  <2> QED BY <1>2, <2>3, BestBoundsWalks
<1> QED BY <1>1, <1>3 DEF Bounded, CostOf

\* The steps of a solve.
LEMMA SolveStays ==
  ASSUME PackLawful, Unstopped, LoneSession, opt.mode = "mono", SolveStep
  PROVE  LoneSession'
<1>1. Basics /\ GraphCut /\ NothingClosed /\ WholeSolve /\ Inductive
  BY SolveLeaves DEF LoneSession, Basics
<1>2. /\ UNCHANGED <<opt, red, inl, jinl, dirty, arcs, jumps, fixed, kept, whole, warm, waiting>>
      /\ phase' # "ready" /\ phase # "ready" /\ [Next]_vars
  BY SolveLeaves
<1>3. Inductive'
  BY <1>1, <1>2, NextIsInductive
<1>4. Basics'
  BY <1>1, <1>2, <1>3 DEF Basics, Inductive, TypeOK
<1>5. GraphCut' /\ NothingClosed'
  BY <1>1, <1>2 DEF GraphCut, JumpArcs, NothingClosed, Open
<1>6. ASSUME whole
      PROVE  InOrder /\ Kept /\ Searched /\ InOrder' /\ Kept' /\ Searched'
  <2>1. InOrder /\ Kept /\ Searched
    BY <1>1, <1>6, SolveLeaves DEF WholeSolve
  <2>2. Fresh
    BY <1>2 DEF Fresh
  <2> QED BY <1>1, <1>2, <2>1, <2>2, OrderStays, KeptStays, SearchedStays
<1>7. ASSUME whole, phase' = "collect", LoneExact
      PROVE  completion'["fw"] = CompletionBounds("fw", BuiltArcs, red)
  <2>1. PostPass /\ arcs = BuiltArcs /\ inl = red
    BY <1>1, <1>2, <1>6, <1>7, SolveLeaves DEF InOrder, GraphAsBuilt, Inductive, GraphOK
  <2>2. "fw" \in Dir /\ "fw" \in Directions /\ ~Enumerating
    BY <1>7 DEF Dir, Directions, LoneExact, Enumerating
  <2> QED BY <2>1, <2>2 DEF PostPass
<1>8. WholeSolve'
  BY <1>2, <1>6, <1>7 DEF WholeSolve, LoneExact
<1>9. BoundsKnown'
  <2> SUFFICES ASSUME whole, phase' = "done", opt.stage = "Exact" PROVE Bounded'
    BY <1>2 DEF BoundsKnown
  <2>1. Collect /\ LoneExact /\ phase = "collect"
    BY SolveLeaves DEF LoneExact, Collect
  <2>2. completion["fw"] = CompletionBounds("fw", BuiltArcs, red)
    BY <1>1, <2>1 DEF WholeSolve
  <2> QED BY <1>6, <2>1, <2>2, SolveEndsBounded
<1> QED BY <1>4, <1>5, <1>8, <1>9 DEF LoneSession

-----------------------------------------------------------------------------
\* An exact mono-directional solve of what eliminations have left of the graph.

\* A label as it makes an extension: a jump raises its resources first.
Raised(n, e) ==
  [v |-> n.v, cost |-> n.cost, st |-> n.st,
   q |-> IF e.at = BucketOf(n.v, n.q) THEN n.q ELSE Boosted("fw", n.q, e.at)]

\* It has no more left then, and is in no bucket before its own.
LEMMA RaisedType ==
  ASSUME NEW n, Mark(n), NEW e \in [arc : Arc, at : Bucket]
  PROVE  /\ Mark(Raised(n, e)) /\ AtLeastAsGood("fw", n.q, Raised(n, e).q)
         /\ BucketOf(n.v, Raised(n, e).q) \in Reachable["fw"][BucketOf(n.v, n.q)]
<1> DEFINE q == Raised(n, e).q
<1>1. "fw" \in Dir /\ n.v \in Vertex /\ n.q \in [Res -> Int] /\ e.at \in Bucket
  BY DEF Dir, Mark
<1>2. q \in [Res -> Int] /\ AtLeastAsGood("fw", n.q, q)
  <2>1. q = n.q \/ q = Boosted("fw", n.q, e.at)
    BY DEF Raised
  <2>2. AtLeastAsGood("fw", n.q, n.q)
    BY <1>1 DEF AtLeastAsGood
  <2>3. /\ Boosted("fw", n.q, e.at) \in [Res -> Int]
        /\ AtLeastAsGood("fw", n.q, Boosted("fw", n.q, e.at))
    BY <1>1, BoostedType
  <2> QED BY <1>1, <2>1, <2>2, <2>3
<1> HIDE DEF q
<1>3. BucketOf(n.v, q) \in Reachable["fw"][BucketOf(n.v, n.q)]
  <2>1. UpTo("fw", BucketOf(n.v, n.q), BucketOf(n.v, q))
    BY <1>1, <1>2, BucketOfMonotone
  <2>2. BucketOf(n.v, n.q) \in Bucket /\ BucketOf(n.v, q) \in Bucket
    BY <1>1, <1>2, BucketOfType
  <2> QED BY <1>1, <2>1, <2>2, UpToIsReachable
<1>4. Mark(Raised(n, e))
  BY <1>2 DEF Mark, Raised, q
<1> QED BY <1>2, <1>3, <1>4 DEF q

\* What an extension makes is what the raised label makes of the arc.
LEMMA ChildOfRaised ==
  ASSUME red \in [Arc -> Int], inl = red, jinl = red, NEW n \in Node,
         NEW e \in [arc : Arc, at : Bucket], e.arc \in ArcsAt("fw", n.v)
  PROVE  LET m == Extend("fw", n, e)
             t == Taken("fw", Raised(n, e), e.arc)
         IN /\ ExtendFeasible("fw", n, e) <=> CanTake("fw", Raised(n, e), e.arc)
            /\ m.v = t.v /\ m.q = t.q /\ m.cost = t.cost /\ m.st = t.st
            /\ m \in Node /\ Mark(m) /\ Mark(n) /\ Mark(t) /\ m.v = Ahead("fw", e.arc)
            /\ m.q = Advance("fw", Raised(n, e).q, e.arc)
<1>1. "fw" \in Dir /\ Mark(n) /\ e.arc \in Arc
  BY DEF Dir, Mark, Node
<1>2. ExtendQ("fw", n, e) = Advance("fw", Raised(n, e).q, e.arc)
  BY DEF ExtendQ, Raised
<1>3. Raised(n, e).v = n.v /\ Raised(n, e).cost = n.cost /\ Raised(n, e).st = n.st
  BY DEF Raised
<1>4. ExtendFeasible("fw", n, e) <=> CanTake("fw", Raised(n, e), e.arc)
  BY <1>2, <1>3 DEF ExtendFeasible, CanTake
<1>5. /\ Extend("fw", n, e).v = Ahead("fw", e.arc)
      /\ Extend("fw", n, e).q = Advance("fw", Raised(n, e).q, e.arc)
      /\ Extend("fw", n, e).cost = Taken("fw", Raised(n, e), e.arc).cost
      /\ Extend("fw", n, e).st = Taken("fw", Raised(n, e), e.arc).st
      /\ Taken("fw", Raised(n, e), e.arc).v = Ahead("fw", e.arc)
      /\ Taken("fw", Raised(n, e), e.arc).q = Advance("fw", Raised(n, e).q, e.arc)
  BY <1>2, <1>3 DEF Extend, Taken
<1>6. Extend("fw", n, e) \in Node
  BY <1>1, ExtendType
<1>7. Mark(Extend("fw", n, e))
  BY <1>6 DEF Mark, Node
<1>8. Mark(Taken("fw", Raised(n, e), e.arc))
  <2>1. Mark(Raised(n, e))
    BY <1>1, RaisedType
  <2> QED BY <1>1, <2>1, TakenType
<1> QED BY <1>1, <1>4, <1>5, <1>6, <1>7, <1>8

\* An extension's arc leaves from the bucket's own vertex.
LEMMA ExtensionType ==
  ASSUME GraphType, GraphOK, NEW b \in Bucket, NEW e \in Extensions("fw", b)
  PROVE  e \in [arc : Arc, at : Bucket] /\ e.arc \in ArcsAt("fw", b[1])
<1>1. "fw" \in Dir
  BY DEF Dir
<1>2. /\ arcs["fw"][b] \subseteq Arc /\ jumps["fw"][b] \subseteq Arc \X Bucket
      /\ arcs["fw"][b] \subseteq ArcsAt("fw", b[1])
      /\ \A j \in jumps["fw"][b] : j[1] \in ArcsAt("fw", b[1])
  BY <1>1 DEF GraphType, GraphOK
<1>3. CASE \E a \in arcs["fw"][b] : e = [arc |-> a, at |-> b]
  BY <1>2, <1>3
<1>4. CASE \E j \in jumps["fw"][b] : e = [arc |-> j[1], at |-> j[2]]
  BY <1>2, <1>4
<1> QED BY <1>3, <1>4 DEF Extensions

\* The components are processed in order, and what is left to do for the open label
\* are extensions of its bucket.
Orderly ==
  /\ \A s \in finished["fw"] : s \in Sccs["fw"] /\ Predecessors["fw"][s] \subseteq finished["fw"]
  /\ scc["fw"] # {} => Predecessors["fw"][scc["fw"]] \subseteq finished["fw"]
  /\ cur["fw"] # <<>> => Where(cur["fw"]) \in scc["fw"] /\ cur["fw"] \notin extended["fw"]
  /\ todo["fw"] \subseteq Extensions("fw", Where(cur["fw"]))

\* As in solves of the whole graph: what keeps every kept path represented.
TriedBy(l, e) ==
  \/ l \in extended["fw"]
  \/ l = cur["fw"] /\ e \notin todo["fw"]

Makes(l, e) == e \in Extensions("fw", Where(l)) /\ TriedBy(l, e) /\ ExtendFeasible("fw", This(l), e)

FollowersRepresented ==
  \A l \in labels["fw"] : \A e \in Extensions("fw", Where(l)) :
    Makes(l, e) => Represented("fw", Extend("fw", This(l), e))

\* Jumps may make a label twice; its parent has made it, or is gone with its component.
MadeBySome ==
  \A m \in labels["fw"] : Len(m) > 1 =>
    \/ Settled("fw", Where(Parent(m)))
    \/ \E e \in Extensions("fw", Where(Parent(m))) :
         Makes(Parent(m), e) /\ Extend("fw", This(Parent(m)), e) = This(m)

Upheld ==
  /\ OriginRepresented("fw") /\ FollowersRepresented
  /\ SettledAreExtended("fw") /\ MadeBySome

\* An exact solve of what is left of the graph, while labels are extended.
Underway == Inductive /\ GraphCut /\ LoneExact /\ phase = "label" /\ Orderly /\ Upheld

LEMMA UnderwayType ==
  ASSUME Underway
  PROVE  /\ "fw" \in Dir /\ red \in [Arc -> Int] /\ inl = red /\ jinl = red
         /\ labels \in [Dir -> SUBSET Label] /\ extended \in [Dir -> SUBSET Label]
         /\ dominated \in [Dir -> SUBSET Label] /\ cur \in [Dir -> Label \cup {<<>>}]
         /\ todo \in [Dir -> SUBSET [arc : Arc, at : Bucket]]
         /\ scc \in [Dir -> SUBSET Bucket] /\ finished \in [Dir -> SUBSET SUBSET Bucket]
         /\ dominated["fw"] \subseteq labels["fw"] /\ extended["fw"] \subseteq labels["fw"]
         /\ opt.mode = "mono" /\ opt.stage = "Exact" /\ fixed = {} /\ GraphType /\ GraphOK
         /\ cur["fw"] = <<>> => todo["fw"] = {}
         /\ \A l \in labels["fw"] : /\ l \in Label /\ l # <<>> /\ SoundLabel("fw", l)
                                    /\ This(l) \in Node /\ Mark(This(l))
                                    /\ Where(l) \in Bucket /\ Where(l)[1] = This(l).v
<1>1. /\ "fw" \in Dir /\ TypeOK /\ GraphOK /\ SearchOK /\ LabelsAreSound
      /\ GraphType /\ LabelType /\ SearchType
  BY DEF Underway, Inductive, TypeOK, Dir
<1>2. \A l \in labels["fw"] : /\ l \in Label /\ l # <<>> /\ SoundLabel("fw", l)
  BY <1>1 DEF LabelType, LabelsAreSound, Label
<1>3. \A l \in labels["fw"] : This(l) \in Node /\ Mark(This(l)) /\ Where(l) \in Bucket
                                /\ Where(l)[1] = This(l).v
  BY <1>1, <1>2, LabelNodes, LabelMarks, WhereType
<1>4. phase # "ready"
  BY DEF Underway
<1> QED BY <1>1, <1>2, <1>3, <1>4
        DEF Underway, LoneExact, GraphCut, GraphType, GraphOK, SearchOK, LabelType, SearchType

\* A bucket is finished when one behind it is.
LEMMA FinishedBefore ==
  ASSUME Orderly, NEW b \in Bucket, NEW c \in Reachable["fw"][b], Settled("fw", c)
  PROVE  Settled("fw", b)
<1>1. /\ "fw" \in Dir /\ finished["fw"] \in SUBSET Sccs["fw"]
      /\ \A t \in finished["fw"] : Predecessors["fw"][t] \subseteq finished["fw"]
  BY DEF Orderly, Dir
<1>2. PICK t \in finished["fw"] : c \in t
  BY DEF Settled
<1>3. Scc("fw", b) \in finished["fw"]
  BY <1>1, <1>2, ClosedUnderPredecessors
<1> QED BY <1>1, <1>3, SccsPartition DEF Settled

\* The open label and what it makes.
LEMMA OpenLabelFacts ==
  ASSUME Underway, NEW e \in todo["fw"]
  PROVE  LET c == cur["fw"]
             n == Extend("fw", This(c), e)
         IN /\ c \in labels["fw"] /\ c \notin extended["fw"] /\ c # <<>> /\ c \in Label
            /\ ~Settled("fw", Where(c)) /\ Len(c) \in Nat \ {0}
            /\ e \in [arc : Arc, at : Bucket] /\ e \in Extensions("fw", Where(c))
            /\ e.arc \in ArcsAt("fw", This(c).v)
            /\ n \in Node /\ Mark(n) /\ This(Append(c, n)) = n /\ Append(c, n) \in Label
            /\ Len(Append(c, n)) = Len(c) + 1
            /\ ExtendFeasible("fw", This(c), e) => ~Settled("fw", Where(Append(c, n)))
<1> DEFINE c == cur["fw"]
           m == This(c)
           n == Extend("fw", m, e)
<1>1. /\ c # <<>> /\ c \in labels["fw"] /\ c \in Label /\ e \in [arc : Arc, at : Bucket]
  <2>1. c # <<>>
    BY UnderwayType
  <2>2. c \in labels["fw"]
    BY <2>1, UnderwayType DEF Underway, Inductive, TypeOK, LabelType
  <2> QED BY <2>1, <2>2, UnderwayType
<1>2. c \notin extended["fw"] /\ Where(c) \in scc["fw"] /\ e \in Extensions("fw", Where(c))
  BY <1>1 DEF Underway, Orderly
<1>3. Where(c) \in Bucket /\ Where(c)[1] = m.v /\ m \in Node
  BY <1>1, UnderwayType
<1>4. ~Settled("fw", Where(c))
  <2>1. scc["fw"] \in Sccs["fw"] \ finished["fw"]
    <3>1. "fw" \in Dir /\ scc["fw"] # {}
      BY <1>2, UnderwayType
    <3> QED BY <3>1 DEF Underway, Inductive, SearchOK
  <2>2. scc["fw"] = Scc("fw", Where(c))
    BY <1>2, <1>3, <2>1, UnderwayType, SccsPartition
  <2>3. finished["fw"] \subseteq Sccs["fw"]
    BY DEF Underway, Orderly
  <2> QED BY <1>3, <2>1, <2>2, <2>3, UnderwayType, SccsPartition DEF Settled
<1>5. e.arc \in ArcsAt("fw", m.v)
  BY <1>2, <1>3, UnderwayType, ExtensionType
<1>6. /\ n \in Node /\ Mark(n) /\ n.v = Ahead("fw", e.arc) /\ Mark(m)
      /\ n.q = Advance("fw", Raised(m, e).q, e.arc)
      /\ ExtendFeasible("fw", m, e) <=> CanTake("fw", Raised(m, e), e.arc)
  BY <1>1, <1>3, <1>5, UnderwayType, ChildOfRaised
<1>7. c \in Seq(Node) /\ Len(c) \in Nat \ {0}
  BY <1>1, LabelNodes DEF Label
<1> HIDE DEF c, m, n
<1>8. This(Append(c, n)) = n /\ Append(c, n) \in Label /\ Len(Append(c, n)) = Len(c) + 1
  BY <1>6, <1>7 DEF This, Label
<1>9. ASSUME ExtendFeasible("fw", m, e), Settled("fw", Where(Append(c, n)))
      PROVE  FALSE
  <2> DEFINE p == Raised(m, e)
  <2>1. /\ "fw" \in Dir /\ Mark(p) /\ p.v = m.v /\ AtLeastAsGood("fw", m.q, p.q)
        /\ BucketOf(m.v, p.q) \in Reachable["fw"][BucketOf(m.v, m.q)]
    BY <1>1, <1>6, UnderwayType, RaisedType DEF Raised
  <2>2. \A r \in Res : m.q[r] >= Lb[m.v][r]
    BY <1>1, UnderwayType, LabelPlaced DEF m
  <2>3. CanTake("fw", p, e.arc) /\ e.arc \in Arc
    BY <1>1, <1>6, <1>9
  <2> HIDE DEF p
  <2>4. \A r \in Res : p.q[r] >= Lb[p.v][r]
    <3>1. \A r \in Res : m.q[r] \in Int /\ p.q[r] \in Int /\ Lb[m.v][r] \in Int
      BY <1>6, <2>1, TableType DEF Mark
    <3> QED BY <2>1, <2>2, <3>1 DEF AtLeastAsGood
  <2>5. BucketOf(Ahead("fw", e.arc), Advance("fw", p.q, e.arc)) \in Reachable["fw"][BucketOf(p.v, p.q)]
    BY <2>1, <2>3, <2>4, ChildIsReachable DEF CanTake, Mark
  <2>6. Where(Append(c, n)) = BucketOf(Ahead("fw", e.arc), Advance("fw", p.q, e.arc))
    BY <1>6, <1>8 DEF Where, p
  <2>7. Where(c) \in Bucket /\ BucketOf(p.v, p.q) \in Reachable["fw"][Where(c)]
    BY <1>3, <2>1 DEF Where, m, c
  <2>8. Where(Append(c, n)) \in Reachable["fw"][Where(c)]
    <3>1. BucketOf(p.v, p.q) \in Bucket
      BY <2>1, BucketOfType DEF Mark
    <3> QED BY <2>1, <2>5, <2>6, <2>7, <3>1, ReachableTransitive
  <2>9. Orderly
    BY DEF Underway
  <2> QED BY <1>4, <1>9, <2>7, <2>8, <2>9, FinishedBefore
<1> QED BY <1>1, <1>2, <1>4, <1>5, <1>6, <1>7, <1>8, <1>9 DEF n, m, c

\* Who has made what does not depend on the rest of the state.
LEMMA ExtensionsStay ==
  ASSUME UNCHANGED <<inl, jinl, arcs, jumps>>
  PROVE  /\ \A b : Extensions("fw", b)' = Extensions("fw", b)
         /\ \A n, e : /\ Extend("fw", n, e)' = Extend("fw", n, e)
                      /\ ExtendFeasible("fw", n, e)' <=> ExtendFeasible("fw", n, e)
<1>1. \A b : Extensions("fw", b)' = Extensions("fw", b)
  BY DEF Extensions
<1>2. \A n, e : ExtendQ("fw", n, e)' = ExtendQ("fw", n, e)
  BY DEF ExtendQ, Boosted
<1>3. \A n, e : Extend("fw", n, e)' = Extend("fw", n, e)
  BY <1>2 DEF Extend
<1>4. \A n, e : ExtendFeasible("fw", n, e)' <=> ExtendFeasible("fw", n, e)
  BY <1>2 DEF ExtendFeasible
<1> QED BY <1>1, <1>3, <1>4

\* Steps that touch no label and no flag.
LEMMA UpheldStable ==
  ASSUME Upheld, opt.mode = "mono",
         UNCHANGED <<opt, inl, jinl, arcs, jumps, labels, extended, dominated, finished, cur, todo>>
  PROVE  Upheld'
<1>1. /\ \A b : Extensions("fw", b)' = Extensions("fw", b)
      /\ \A n, e : /\ Extend("fw", n, e)' = Extend("fw", n, e)
                   /\ ExtendFeasible("fw", n, e)' <=> ExtendFeasible("fw", n, e)
  BY ExtensionsStay
<1>2. /\ Live("fw")' = Live("fw") /\ \A y : Represented("fw", y)' <=> Represented("fw", y)
      /\ \A l, e : TriedBy(l, e)' <=> TriedBy(l, e)
  BY DEF Live, Represented, Covers, TriedBy
<1>3. \A l, e : Makes(l, e)' <=> Makes(l, e)
  BY <1>1, <1>2 DEF Makes
<1>4. OriginRepresented("fw")' /\ FollowersRepresented'
  BY <1>1, <1>2, <1>3 DEF Upheld, OriginRepresented, FollowersRepresented
<1>5. SettledAreExtended("fw")' /\ MadeBySome'
  <2>1. SettledAreExtended("fw")'
    BY <1>2 DEF Upheld, SettledAreExtended, Settled, PastMid
  <2>2. MadeBySome'
    BY <1>1, <1>3 DEF Upheld, MadeBySome, Settled
  <2> QED BY <2>1, <2>2
<1> QED BY <1>4, <1>5 DEF Upheld

\* Nothing that was represented is lost if whoever gives way is covered.
LEMMA StillRepresented ==
  ASSUME PackLawful, Underway, labels'["fw"] \subseteq Label,
         \A k \in Live("fw") : \E j \in Live("fw")' : Covers("fw", This(j), This(k))
  PROVE  /\ OriginRepresented("fw")'
         /\ \A l \in labels["fw"] : \A e \in Extensions("fw", Where(l)) :
              Makes(l, e) => \E j \in Live("fw")' :
                               Covers("fw", This(j), Extend("fw", This(l), e))
<1>1. "fw" \in Dir /\ labels["fw"] \subseteq Label /\ Upheld
  BY UnderwayType DEF Underway
<1>2. ASSUME NEW y, Mark(y), Represented("fw", y)
      PROVE  \E j \in Live("fw")' : Covers("fw", This(j), y)
  BY <1>1, <1>2, StaysRepresented
<1>3. OriginRepresented("fw")'
  <2>1. Mark(This(InitialLabel("fw"))) /\ OriginRepresented("fw")
    BY <1>1, InitialLabelType, LabelMarks DEF Upheld
  <2> QED BY <1>2, <2>1 DEF OriginRepresented, Represented
<1>4. ASSUME NEW l \in labels["fw"], NEW e \in Extensions("fw", Where(l)), Makes(l, e)
      PROVE  \E j \in Live("fw")' : Covers("fw", This(j), Extend("fw", This(l), e))
  <2>1. Represented("fw", Extend("fw", This(l), e))
    BY <1>1, <1>4 DEF Upheld, FollowersRepresented
  <2>2. Where(l) \in Bucket /\ This(l) \in Node /\ Where(l)[1] = This(l).v
    BY UnderwayType
  <2>3. e \in [arc : Arc, at : Bucket] /\ e.arc \in ArcsAt("fw", This(l).v)
    BY <2>2, UnderwayType, ExtensionType
  <2>4. Mark(Extend("fw", This(l), e))
    BY <2>2, <2>3, UnderwayType, ChildOfRaised
  <2> QED BY <1>2, <2>1, <2>4
<1> QED BY <1>3, <1>4

\* A solve begins with the origin's label alone.
LEMMA UpheldBegin ==
  ASSUME PackLawful, BeginSolve, opt.mode = "mono"
  PROVE  Orderly' /\ Upheld'
<1> DEFINE o == InitialLabel("fw")
<1>1. "fw" \in Dir /\ "fw" \in Directions /\ o \in Label
  BY InitialLabelType DEF Dir, Directions
<1>2. /\ labels'["fw"] = {o} /\ extended'["fw"] = {} /\ dominated'["fw"] = {}
      /\ finished'["fw"] = {} /\ scc'["fw"] = {} /\ cur'["fw"] = <<>> /\ todo'["fw"] = {}
  BY <1>1 DEF BeginSolve
<1>3. Len(o) = 1 /\ o # <<>>
  BY DEF InitialLabel
<1>4. Live("fw")' = {o}
  BY <1>2 DEF Live
<1>5. Covers("fw", This(o), This(o))
  BY <1>1, LabelMarks, CoversReflexive
<1> HIDE DEF o
<1>6. Orderly'
  BY <1>2 DEF Orderly
<1>7. OriginRepresented("fw")'
  BY <1>4, <1>5 DEF OriginRepresented, Represented, o
<1>8. FollowersRepresented'
  BY <1>2, <1>3 DEF FollowersRepresented, Makes, TriedBy
<1>9. SettledAreExtended("fw")'
  BY <1>2 DEF SettledAreExtended, Settled
<1>10. MadeBySome'
  <2>1. \A m \in labels'["fw"] : ~(Len(m) > 1)
    <3>1. ~(1 > 1)
      OBVIOUS
    <3> QED BY <1>2, <1>3, <3>1
  <2> QED BY <2>1 DEF MadeBySome
<1> QED BY <1>6, <1>7, <1>8, <1>9, <1>10 DEF Upheld

\* A component is taken up: nothing is tried yet.
LEMMA UpheldStart ==
  ASSUME Underway, NEW s \in Sccs["fw"], StartScc("fw", s)
  PROVE  Orderly' /\ Upheld'
<1>1. /\ scc'["fw"] = s /\ Predecessors["fw"][s] \subseteq finished["fw"]
      /\ cur["fw"] = <<>> /\ todo["fw"] = {}
      /\ UNCHANGED <<opt, inl, jinl, arcs, jumps, labels, extended, dominated, finished, cur, todo>>
  <2>1. scc["fw"] = {} /\ scc \in [Dir -> SUBSET Bucket] /\ "fw" \in Dir
    BY UnderwayType DEF StartScc
  <2>2. cur["fw"] = <<>>
    BY <2>1 DEF Underway, Inductive, SearchOK
  <2> QED BY <2>1, <2>2, UnderwayType DEF StartScc, graph
<1>2. Orderly'
  BY <1>1 DEF Underway, Orderly
<1>3. Upheld'
  BY <1>1, UnderwayType, UpheldStable DEF Underway
<1> QED BY <1>2, <1>3

\* A dominated label is dropped: the label that dominates it takes its place.
LEMMA UpheldDrop ==
  ASSUME PackLawful, Underway, NEW l \in labels["fw"], DropDominated("fw", l)
  PROVE  Orderly' /\ Upheld'
<1>1. /\ "fw" \in Dir /\ labels["fw"] \subseteq Label /\ opt.mode = "mono" /\ opt.stage = "Exact"
      /\ dominated \in [Dir -> SUBSET Label] /\ Orderly /\ Upheld
  BY UnderwayType DEF Underway
<1>2. /\ dominated'["fw"] = dominated["fw"] \cup {l}
      /\ UNCHANGED <<opt, inl, jinl, arcs, jumps, labels, extended, scc, finished, cur, todo>>
      /\ l \in Live("fw") /\ DominatedInAdjacent("fw", l)
  BY <1>1 DEF DropDominated, graph, Visit, Pending, Enumerating
<1>3. Live("fw")' = Live("fw") \ {l}
  BY <1>2 DEF Live
<1>4. PICK x \in Live("fw") : x # l /\ Covers("fw", This(x), This(l))
  <2>1. PICK x \in Live("fw") : Where(x) # Where(l) /\ Dominates("fw", This(x), This(l))
    BY <1>2 DEF DominatedInAdjacent
  <2>2. ~Heuristic
    BY <1>1 DEF Heuristic
  <2> QED BY <2>1, <2>2 DEF Dominates, Covers
<1>5. \A k \in Live("fw") : \E j \in Live("fw")' : Covers("fw", This(j), This(k))
  <2>1. \A k \in Live("fw") : Covers("fw", This(k), This(k))
    BY <1>1, LabelMarks, CoversReflexive DEF Live
  <2> QED BY <1>3, <1>4, <2>1
<1>6. /\ OriginRepresented("fw")'
      /\ \A k \in labels["fw"] : \A e \in Extensions("fw", Where(k)) :
           Makes(k, e) => \E j \in Live("fw")' : Covers("fw", This(j), Extend("fw", This(k), e))
  BY <1>1, <1>2, <1>5, StillRepresented
<1>7. /\ \A b : Extensions("fw", b)' = Extensions("fw", b)
      /\ \A n, e : /\ Extend("fw", n, e)' = Extend("fw", n, e)
                   /\ ExtendFeasible("fw", n, e)' <=> ExtendFeasible("fw", n, e)
  BY <1>2, ExtensionsStay
<1>8. \A k, e : Makes(k, e)' <=> Makes(k, e)
  BY <1>2, <1>7 DEF Makes, TriedBy
<1>9. FollowersRepresented'
  BY <1>2, <1>6, <1>7, <1>8 DEF FollowersRepresented, Represented, Covers
<1>10. SettledAreExtended("fw")'
  BY <1>1, <1>2, <1>3 DEF Upheld, SettledAreExtended, Settled, PastMid
<1>11. MadeBySome'
  BY <1>1, <1>2, <1>7, <1>8 DEF Upheld, MadeBySome, Settled
<1>12. Orderly'
  BY <1>1, <1>2, <1>7 DEF Orderly
<1> QED BY <1>6, <1>9, <1>10, <1>11, <1>12 DEF Upheld

\* Opening a label tries nothing yet; a label that has no arcs is done.
LEMMA UpheldOpen ==
  ASSUME PackLawful, Underway, NEW l \in labels["fw"], OpenLabel("fw", l)
  PROVE  Orderly' /\ Upheld'
<1> DEFINE more == Extensions("fw", Where(l))
<1>1. /\ "fw" \in Dir /\ labels["fw"] \subseteq Label /\ opt.mode = "mono"
      /\ extended \in [Dir -> SUBSET Label] /\ cur \in [Dir -> Label \cup {<<>>}]
      /\ todo \in [Dir -> SUBSET [arc : Arc, at : Bucket]] /\ Orderly /\ Upheld
      /\ \A k \in labels["fw"] : k # <<>>
  BY UnderwayType DEF Underway
<1>2. /\ cur'["fw"] = IF more = {} THEN <<>> ELSE l
      /\ todo'["fw"] = more
      /\ extended'["fw"] = IF more = {} THEN extended["fw"] \cup {l} ELSE extended["fw"]
      /\ cur["fw"] = <<>> /\ Where(l) \in scc["fw"] /\ l \notin extended["fw"]
      /\ UNCHANGED <<opt, inl, jinl, arcs, jumps, labels, dominated, scc, finished>>
  BY <1>1 DEF OpenLabel, Visit, Pending, graph
<1>3. /\ \A b : Extensions("fw", b)' = Extensions("fw", b)
      /\ \A n, e : /\ Extend("fw", n, e)' = Extend("fw", n, e)
                   /\ ExtendFeasible("fw", n, e)' <=> ExtendFeasible("fw", n, e)
  BY <1>2, ExtensionsStay
<1> HIDE DEF more
<1>4. Orderly'
  <2>1. todo'["fw"] \subseteq Extensions("fw", Where(cur'["fw"]))
    <3>1. CASE more = {}
      BY <1>2, <3>1
    <3>2. CASE more # {}
      BY <1>2, <3>2 DEF more
    <3> QED BY <3>1, <3>2
  <2> QED BY <1>1, <1>2, <1>3, <2>1 DEF Orderly, Where
<1>5. Live("fw")' = Live("fw") /\ \A y : Represented("fw", y)' <=> Represented("fw", y)
  BY <1>2 DEF Live, Represented, Covers
<1>6. ASSUME NEW k, k # <<>>, NEW e
      PROVE  /\ Makes(k, e) => Makes(k, e)'
             /\ Makes(k, e)' => Makes(k, e)
  <2>1. TriedBy(k, e) => TriedBy(k, e)'
    BY <1>2, <1>6 DEF TriedBy
  <2>2. e \in Extensions("fw", Where(k)) /\ TriedBy(k, e)' => TriedBy(k, e)
    <3>1. CASE k = l
      BY <1>2, <3>1 DEF TriedBy, more
    <3>2. CASE k # l
      BY <1>2, <1>6, <3>2 DEF TriedBy
    <3> QED BY <3>1, <3>2
  <2> QED BY <1>3, <2>1, <2>2 DEF Makes
<1>7. FollowersRepresented'
  BY <1>1, <1>2, <1>3, <1>5, <1>6 DEF Upheld, FollowersRepresented
<1>8. SettledAreExtended("fw")'
  BY <1>1, <1>2, <1>5 DEF Upheld, SettledAreExtended, Settled, PastMid
<1>9. MadeBySome'
  <2> SUFFICES ASSUME NEW m \in labels["fw"], Len(m) > 1
               PROVE  \/ Settled("fw", Where(Parent(m)))
                      \/ \E e \in Extensions("fw", Where(Parent(m))) :
                           Makes(Parent(m), e)' /\ Extend("fw", This(Parent(m)), e) = This(m)
    BY <1>2, <1>3 DEF MadeBySome, Settled
  <2>1. Parent(m) # <<>>
    <3>1. Len(m) \in Nat
      BY <1>1, LabelNodes
    <3>2. 1 \in DOMAIN Parent(m)
      BY <3>1 DEF Parent
    <3>3. DOMAIN <<>> = {}
      OBVIOUS
    <3> QED BY <3>2, <3>3
  <2> QED BY <1>1, <1>6, <2>1 DEF Upheld, MadeBySome
<1>10. OriginRepresented("fw")'
  BY <1>1, <1>5 DEF Upheld, OriginRepresented
<1> QED BY <1>4, <1>7, <1>8, <1>9, <1>10 DEF Upheld

\* In a finished component no label waits: no cap stopped the sweeps.
LEMMA UpheldFinish ==
  ASSUME PackLawful, Underway, ~AtCap("fw"), FinishScc("fw")
  PROVE  Orderly' /\ Upheld'
<1> DEFINE gone == {l \in dominated["fw"] : Where(l) \in scc["fw"]}
           left == labels["fw"] \ gone
<1>1. /\ "fw" \in Dir /\ labels \in [Dir -> SUBSET Label]
      /\ extended \in [Dir -> SUBSET Label] /\ dominated \in [Dir -> SUBSET Label]
      /\ dominated["fw"] \subseteq labels["fw"] /\ extended["fw"] \subseteq labels["fw"]
      /\ finished \in [Dir -> SUBSET SUBSET Bucket] /\ scc \in [Dir -> SUBSET Bucket]
      /\ opt.mode = "mono" /\ fixed = {} /\ Orderly /\ Upheld
      /\ \A l \in labels["fw"] : l # <<>> /\ l \in Label
  BY UnderwayType DEF Underway
<1>2. /\ labels'["fw"] = left
      /\ dominated'["fw"] = dominated["fw"] \ gone
      /\ extended'["fw"] = extended["fw"] \ gone
      /\ finished'["fw"] = finished["fw"] \cup {scc["fw"]} /\ scc'["fw"] = {}
      /\ cur["fw"] = <<>> /\ scc["fw"] # {} /\ Pending("fw") = {}
      /\ UNCHANGED <<opt, inl, jinl, arcs, jumps, cur, todo>>
  BY <1>1 DEF FinishScc, graph
<1>3. /\ scc["fw"] \in Sccs["fw"] /\ Predecessors["fw"][scc["fw"]] \subseteq finished["fw"]
      /\ todo["fw"] = {}
  BY <1>1, <1>2 DEF Underway, Inductive, SearchOK, Orderly
<1>4. /\ \A b : Extensions("fw", b)' = Extensions("fw", b)
      /\ \A n, e : /\ Extend("fw", n, e)' = Extend("fw", n, e)
                   /\ ExtendFeasible("fw", n, e)' <=> ExtendFeasible("fw", n, e)
  BY <1>2, ExtensionsStay
<1>5. Live("fw")' = Live("fw") /\ Live("fw") \subseteq left
  BY <1>1, <1>2 DEF Live
<1>6. \A y : Represented("fw", y)' <=> Represented("fw", y)
  BY <1>5 DEF Represented, Covers
<1>7. \A b : Settled("fw", b)' <=> Settled("fw", b) \/ b \in scc["fw"]
  BY <1>2 DEF Settled
<1>8. \A k, e : Makes(k, e)' => Makes(k, e)
  BY <1>2, <1>4 DEF Makes, TriedBy
<1>9. Orderly'
  BY <1>1, <1>2, <1>3, <1>4 DEF Orderly
<1>10. OriginRepresented("fw")' /\ FollowersRepresented'
  BY <1>1, <1>2, <1>4, <1>6, <1>8 DEF Upheld, OriginRepresented, FollowersRepresented
<1>11. SettledAreExtended("fw")'
  <2> SUFFICES ASSUME NEW l \in Live("fw"), Settled("fw", Where(l)) \/ Where(l) \in scc["fw"]
               PROVE  l \in extended["fw"] /\ l \notin gone
    BY <1>2, <1>5, <1>7 DEF SettledAreExtended
  <2>1. l \notin gone
    BY DEF Live
  <2>2. CASE Settled("fw", Where(l))
    BY <1>1, <2>1, <2>2 DEF Upheld, SettledAreExtended, PastMid
  <2>3. CASE Where(l) \in scc["fw"]
    BY <1>1, <1>2, <2>1, <2>3 DEF Pending, PastMid
  <2> QED BY <2>2, <2>3
<1>12. MadeBySome'
  <2> SUFFICES ASSUME NEW m \in left, Len(m) > 1
               PROVE  \/ Settled("fw", Where(Parent(m))) \/ Where(Parent(m)) \in scc["fw"]
                      \/ \E e \in Extensions("fw", Where(Parent(m))) :
                           Makes(Parent(m), e)' /\ Extend("fw", This(Parent(m)), e) = This(m)
    BY <1>2, <1>4, <1>7 DEF MadeBySome
  <2>1. \/ Settled("fw", Where(Parent(m)))
        \/ \E e \in Extensions("fw", Where(Parent(m))) :
             Makes(Parent(m), e) /\ Extend("fw", This(Parent(m)), e) = This(m)
    BY <1>1 DEF Upheld, MadeBySome
  <2>2. Parent(m) \in gone => Where(Parent(m)) \in scc["fw"]
    OBVIOUS
  <2> HIDE DEF gone, left
  <2>3. ASSUME NEW e, Makes(Parent(m), e), Parent(m) \notin gone
        PROVE  Makes(Parent(m), e)'
    BY <1>2, <1>4, <2>3 DEF Makes, TriedBy
  <2> QED BY <2>1, <2>2, <2>3
<1> QED BY <1>9, <1>10, <1>11, <1>12 DEF Upheld

\* A child is stored, or its bucket has a label that covers it; the labels that it
\* pushes aside are covered by it, or, if another jump had made it before and it was
\* dominated since, by the label that represents it.
LEMMA UpheldExtend ==
  ASSUME PackLawful, Underway, NEW e \in todo["fw"], ExtendArc("fw", e)
  PROVE  Orderly' /\ Upheld'
<1> DEFINE c == cur["fw"]
           m == This(c)
           n == Extend("fw", m, e)
           new == Append(c, n)
           out == Victims("fw", n)
           last == todo["fw"] = {e}
           stored == ExtendFeasible("fw", m, e) /\ ~DominatedInBucket("fw", n)
<1>1. /\ "fw" \in Dir /\ labels \in [Dir -> SUBSET Label] /\ extended \in [Dir -> SUBSET Label]
      /\ dominated \in [Dir -> SUBSET Label] /\ cur \in [Dir -> Label \cup {<<>>}]
      /\ todo \in [Dir -> SUBSET [arc : Arc, at : Bucket]]
      /\ dominated["fw"] \subseteq labels["fw"] /\ extended["fw"] \subseteq labels["fw"]
      /\ opt.mode = "mono" /\ opt.stage = "Exact" /\ fixed = {} /\ Orderly /\ Upheld
      /\ \A l \in labels["fw"] : l # <<>> /\ l \in Label /\ Mark(This(l))
  BY UnderwayType DEF Underway
<1>2. /\ c \in labels["fw"] /\ c \notin extended["fw"] /\ c # <<>> /\ c \in Label
      /\ ~Settled("fw", Where(c)) /\ Len(c) \in Nat \ {0}
      /\ e \in Extensions("fw", Where(c))
      /\ n \in Node /\ Mark(n) /\ This(new) = n /\ new \in Label /\ Len(new) = Len(c) + 1
      /\ ExtendFeasible("fw", m, e) => ~Settled("fw", Where(new))
  BY OpenLabelFacts
<1>3. /\ Replaced("fw", n) = {} /\ Admitted("fw", n)
      /\ (Stored("fw", n) <=> ~DominatedInBucket("fw", n))
      /\ out = {l \in LiveIn("fw", BucketOf(n.v, n.q)) : Dominates("fw", n, This(l))}
  BY <1>1 DEF Replaced, Admitted, Stored, Victims, Enumerating
<1>4. /\ labels'["fw"] = IF stored THEN labels["fw"] \cup {new} ELSE labels["fw"]
      /\ dominated'["fw"] = IF stored THEN dominated["fw"] \cup out ELSE dominated["fw"]
      /\ extended'["fw"] = IF last THEN extended["fw"] \cup {c} ELSE extended["fw"]
      /\ cur'["fw"] = IF last THEN <<>> ELSE c
      /\ todo'["fw"] = todo["fw"] \ {e}
      /\ UNCHANGED <<opt, inl, jinl, arcs, jumps, scc, finished>>
  <2>1. /\ todo' = [todo EXCEPT !["fw"] = @ \ {e}]
        /\ cur' = [cur EXCEPT !["fw"] = IF last THEN <<>> ELSE @]
        /\ UNCHANGED <<opt, inl, jinl, arcs, jumps, scc, finished>>
    BY DEF ExtendArc, graph
  <2>2. CASE stored
    <3>1. /\ labels' = [labels EXCEPT !["fw"] = (@ \ Replaced("fw", n)) \cup {new}]
          /\ dominated' = [dominated EXCEPT !["fw"] = (@ \ Replaced("fw", n)) \cup out]
          /\ extended' = [extended EXCEPT !["fw"] = (@ \ Replaced("fw", n))
                                                      \cup (IF last THEN {c} ELSE {})]
      BY <1>3, <2>2 DEF ExtendArc
    <3> HIDE DEF m, n, new, out, stored, last
    <3> QED BY <1>1, <1>3, <2>1, <2>2, <3>1
  <2>3. CASE ~stored
    <3>1. /\ extended' = [extended EXCEPT !["fw"] = @ \cup (IF last THEN {c} ELSE {})]
          /\ UNCHANGED <<labels, dominated>>
      BY <1>3, <2>3 DEF ExtendArc
    <3> HIDE DEF m, n, new, out, stored, last
    <3> QED BY <1>1, <2>1, <2>3, <3>1
  <2> QED BY <2>2, <2>3
<1>5. out \subseteq Live("fw") /\ Live("fw") \subseteq labels["fw"]
  BY <1>3 DEF LiveIn, Live
<1>6. \A x, y : Dominates("fw", x, y) => Covers("fw", x, y) /\ x.cost + MinDomCost <= y.cost
  BY <1>1 DEF Dominates, Covers, Heuristic
<1>7. /\ \A b : Extensions("fw", b)' = Extensions("fw", b)
      /\ \A x, f : /\ Extend("fw", x, f)' = Extend("fw", x, f)
                   /\ ExtendFeasible("fw", x, f)' <=> ExtendFeasible("fw", x, f)
  BY <1>4, ExtensionsStay
<1>8. new \in labels["fw"] =>
        \E f \in Extensions("fw", Where(c)) : Makes(c, f) /\ Extend("fw", This(c), f) = n
  <2> SUFFICES ASSUME new \in labels["fw"]
               PROVE  \E f \in Extensions("fw", Where(c)) :
                        Makes(c, f) /\ Extend("fw", This(c), f) = n
    OBVIOUS
  <2>1. Len(new) > 1 /\ Parent(new) = c
    <3>1. \A k \in Nat \ {0} : k + 1 > 1
      OBVIOUS
    <3> QED BY <1>2, <3>1, ParentOfAppend
  <2>2. This(new) = n
    BY <1>2
  <2> HIDE DEF c, n, new
  <2> QED BY <1>1, <1>2, <2>1, <2>2 DEF Upheld, MadeBySome
<1> HIDE DEF m, n, new, out, stored, last
<1>9. stored => \E j \in Live("fw")' : Covers("fw", This(j), n)
  <2> SUFFICES ASSUME stored PROVE \E j \in Live("fw")' : Covers("fw", This(j), n)
    OBVIOUS
  <2>1. CASE new \notin dominated["fw"]
    <3>1. new \notin out
      <4> SUFFICES ASSUME new \in out PROVE FALSE
        OBVIOUS
      <4>1. new \in LiveIn("fw", BucketOf(n.v, n.q)) /\ Dominates("fw", This(new), n)
        BY <1>2, <1>3
      <4> QED BY <4>1 DEF stored, DominatedInBucket
    <3>2. new \in Live("fw")'
      BY <1>4, <2>1, <3>1 DEF Live
    <3> QED BY <1>1, <1>2, <3>2, CoversReflexive
  <2>2. CASE new \in dominated["fw"]
    <3>1. Represented("fw", n)
      BY <1>1, <1>2, <1>8, <2>2 DEF Upheld, FollowersRepresented
    <3>2. PICK k \in Live("fw") : Covers("fw", This(k), n)
      BY <3>1 DEF Represented
    <3>3. k \notin out
      <4> SUFFICES ASSUME k \in out PROVE FALSE
        OBVIOUS
      <4>1. k \in LiveIn("fw", BucketOf(n.v, n.q)) /\ Dominates("fw", n, This(k))
        BY <1>3
      <4>2. Mark(This(k)) /\ This(k).cost <= n.cost
        BY <1>1, <1>2, <1>5, <3>2, CoverIsCheaper
      <4>3. n.cost <= This(k).cost /\ n.cost + MinDomCost <= This(k).cost
        BY <1>1, <1>2, <1>6, <4>1, <4>2, CoverIsCheaper
      <4>4. This(k).cost + MinDomCost <= n.cost
        BY <1>2, <4>2, <4>3, PackAssumption DEF Mark
      <4>5. Dominates("fw", This(k), n)
        BY <1>1, <3>2, <4>4 DEF Dominates, Covers, Heuristic
      <4> QED BY <4>1, <4>5 DEF stored, DominatedInBucket
    <3>4. k \in Live("fw")'
      BY <1>4, <1>5, <3>3 DEF Live
    <3> QED BY <3>2, <3>4
  <2> QED BY <2>1, <2>2
<1>10. /\ \A k \in Live("fw") : (stored /\ k \in out) \/ k \in Live("fw")'
       /\ \A k \in Live("fw")' : k \in Live("fw") \/ (stored /\ k = new)
  BY <1>4 DEF Live
<1>11. \A k \in Live("fw") : \E j \in Live("fw")' : Covers("fw", This(j), This(k))
  <2> SUFFICES ASSUME NEW k \in Live("fw")
               PROVE  \E j \in Live("fw")' : Covers("fw", This(j), This(k))
    OBVIOUS
  <2>1. Mark(This(k)) /\ k \in labels["fw"]
    BY <1>1, <1>5
  <2>2. CASE stored /\ k \in out
    <3>1. PICK j \in Live("fw")' : Covers("fw", This(j), n)
      BY <1>9, <2>2
    <3>2. Covers("fw", n, This(k))
      BY <1>3, <1>6, <2>2
    <3>3. Mark(This(j))
      BY <1>1, <1>2, <1>5, <1>10
    <3> QED BY <1>1, <1>2, <2>1, <3>1, <3>2, <3>3, CoversTransitive
  <2>3. CASE ~(stored /\ k \in out)
    BY <1>1, <1>10, <2>1, <2>3, CoversReflexive
  <2> QED BY <2>2, <2>3
<1>12. /\ OriginRepresented("fw")'
       /\ \A l \in labels["fw"] : \A f \in Extensions("fw", Where(l)) :
            Makes(l, f) => \E j \in Live("fw")' : Covers("fw", This(j), Extend("fw", This(l), f))
  <2>1. labels'["fw"] \subseteq Label
    BY <1>1, <1>2, <1>4
  <2> QED BY <1>11, <2>1, StillRepresented
<1>13. ExtendFeasible("fw", m, e) => \E j \in Live("fw")' : Covers("fw", This(j), n)
  <2>1. CASE stored
    BY <1>9, <2>1
  <2>2. CASE DominatedInBucket("fw", n)
    <3>1. PICK x \in Live("fw") : Dominates("fw", This(x), n)
      BY <2>2 DEF DominatedInBucket, LiveIn
    <3>2. Covers("fw", This(x), n) /\ ~stored
      BY <1>6, <2>2, <3>1 DEF stored
    <3> QED BY <1>10, <3>2
  <2> QED BY <2>1, <2>2 DEF stored
<1>14. \A l, f : l \in labels["fw"] /\ Makes(l, f) => Makes(l, f)'
  <2> SUFFICES ASSUME NEW l \in labels["fw"], NEW f, TriedBy(l, f) PROVE TriedBy(l, f)'
    BY <1>7 DEF Makes
  <2> QED BY <1>1, <1>4 DEF TriedBy, last
<1>15. ASSUME NEW l \in labels'["fw"], NEW f, Makes(l, f)'
       PROVE  l \in labels["fw"] /\ (Makes(l, f) \/ (l = c /\ f = e))
  <2>1. l \in labels["fw"]
    <3> SUFFICES ASSUME l \notin labels["fw"] PROVE FALSE
      OBVIOUS
    <3>1. l # c /\ l # <<>> /\ l \notin extended["fw"]
      BY <1>1, <1>2, <1>4
    <3> QED BY <1>4, <1>15, <3>1 DEF Makes, TriedBy
  <2>2. TriedBy(l, f)'
    BY <1>15 DEF Makes
  <2>3. TriedBy(l, f) \/ (l = c /\ f = e)
    <3>1. l # <<>>
      BY <1>1, <2>1
    <3> QED BY <1>4, <2>2, <3>1 DEF TriedBy, last
  <2> QED BY <1>7, <1>15, <2>1, <2>3 DEF Makes
<1>16. FollowersRepresented'
  <2> SUFFICES ASSUME NEW l \in labels'["fw"], NEW f \in Extensions("fw", Where(l)), Makes(l, f)'
               PROVE  \E j \in Live("fw")' : Covers("fw", This(j), Extend("fw", This(l), f))
    BY <1>7 DEF FollowersRepresented, Represented, Covers
  <2>1. l \in labels["fw"] /\ (Makes(l, f) \/ (l = c /\ f = e))
    BY <1>15
  <2>2. CASE Makes(l, f)
    BY <1>12, <2>1, <2>2
  <2>3. CASE l = c /\ f = e
    <3>1. ExtendFeasible("fw", m, e)
      BY <1>7, <2>3 DEF Makes, m
    <3> QED BY <1>13, <2>3, <3>1 DEF n, m
  <2> QED BY <2>1, <2>2, <2>3
<1>17. SettledAreExtended("fw")'
  <2> SUFFICES ASSUME NEW l \in Live("fw")', Settled("fw", Where(l))
               PROVE  l \in extended'["fw"]
    BY <1>4 DEF SettledAreExtended, Settled
  <2>1. l \in Live("fw")
    BY <1>2, <1>10 DEF stored
  <2>2. ~PastMid("fw", This(l))
    BY <1>1 DEF PastMid
  <2> QED BY <1>1, <1>4, <2>1, <2>2 DEF Upheld, SettledAreExtended
<1>18. MadeBySome'
  <2> SUFFICES ASSUME NEW l \in labels'["fw"], Len(l) > 1, ~Settled("fw", Where(Parent(l)))
               PROVE  \E f \in Extensions("fw", Where(Parent(l))) :
                        Makes(Parent(l), f)' /\ Extend("fw", This(Parent(l)), f) = This(l)
    BY <1>4, <1>7 DEF MadeBySome, Settled
  <2>1. CASE l \in labels["fw"]
    <3>1. PICK f \in Extensions("fw", Where(Parent(l))) :
            Makes(Parent(l), f) /\ Extend("fw", This(Parent(l)), f) = This(l)
      BY <1>1, <2>1 DEF Upheld, MadeBySome
    <3>2. TriedBy(Parent(l), f)'
      BY <1>1, <1>4, <3>1 DEF Makes, TriedBy, last
    <3> QED BY <1>7, <3>1, <3>2 DEF Makes
  <2>2. CASE l = new /\ stored
    <3>1. Parent(l) = c /\ This(l) = n
      BY <1>2, <2>2, ParentOfAppend DEF new
    <3>2. TriedBy(Parent(l), e)'
      BY <1>4, <3>1 DEF TriedBy, last
    <3>3. Makes(Parent(l), e)'
      BY <1>2, <1>7, <2>2, <3>1, <3>2 DEF Makes, Where, stored, m
    <3> QED BY <1>2, <3>1, <3>3 DEF n, m
  <2> QED BY <1>4, <2>1, <2>2
<1>19. Orderly'
  <2>1. todo["fw"] # {e} => extended'["fw"] = extended["fw"] /\ cur'["fw"] = c
    BY <1>4 DEF last
  <2>2. todo["fw"] = {e} => cur'["fw"] = <<>> /\ todo'["fw"] = {}
    BY <1>4 DEF last
  <2> QED BY <1>1, <1>4, <1>7, <2>1, <2>2 DEF Orderly, Where
<1> QED BY <1>12, <1>16, <1>17, <1>18, <1>19 DEF Upheld

\* So every step of the labeling upholds it, unless a cap stops the solve.
LEMMA UpheldStays ==
  ASSUME PackLawful, Underway, Uncapped, NEW d \in Dir, LabelStep(d)
  PROVE  Orderly' /\ Upheld'
<1>1. d = "fw"
  <2>1. d \in Directions
    BY DEF LabelStep, StartScc, DropDominated, PruneHopeless, OpenLabel, ExtendArc, FinishScc,
           Visit, Running
  <2> QED BY <2>1, UnderwayType DEF Directions
<1>2. ~AtCap("fw")
  BY UnderwayType DEF Uncapped, Directions
<1>3. ASSUME NEW l \in labels["fw"], PruneHopeless("fw", l) PROVE FALSE
  BY <1>3, UnderwayType DEF PruneHopeless, UseCompletion, Enumerating
<1> QED BY <1>1, <1>2, <1>3, UpheldStart, UpheldDrop, UpheldOpen, UpheldExtend, UpheldFinish
        DEF LabelStep

-----------------------------------------------------------------------------
\* What stands for a path does so still when it is raised for a jump no further than
\* to the bucket of the path: the path has no more left than that bucket's corner.
LEMMA RaisedCovers ==
  ASSUME NEW x, NEW y, Mark(x), Mark(y), Covers("fw", x, y), NEW e \in [arc : Arc, at : Bucket],
         UpTo("fw", e.at, BucketOf(y.v, y.q)), \A r \in Res : y.q[r] >= Lb[y.v][r]
  PROVE  Covers("fw", Raised(x, e), y)
<1> DEFINE z == Raised(x, e)
           corner == BucketLb(e.at)
<1>1. /\ "fw" \in Dir /\ y.v \in Vertex /\ x.q \in [Res -> Int] /\ y.q \in [Res -> Int]
      /\ BucketOf(y.v, y.q) \in Bucket /\ e.at \in Bucket
  BY BucketOfType DEF Dir, Mark
<1>2. /\ AtLeastAsGood("fw", Corner("fw", e.at), Corner("fw", BucketOf(y.v, y.q)))
      /\ AtLeastAsGood("fw", Corner("fw", BucketOf(y.v, y.q)), y.q)
  BY <1>1, CornersDescend, CornerIsBest
<1>3. /\ corner \in [Res -> Int] /\ BucketLb(BucketOf(y.v, y.q)) \in [Res -> Int]
  BY <1>1, CornerType
<1>4. \A r \in Res : corner[r] <= y.q[r]
  BY <1>1, <1>2, <1>3 DEF AtLeastAsGood, Corner
<1>5. z.v = x.v /\ z.cost = x.cost /\ z.st = x.st
      /\ (z.q = x.q \/ z.q = [r \in Res |-> Larger(x.q[r], corner[r])])
  BY DEF Raised, Boosted
<1> HIDE DEF z, corner
<1>6. /\ x.v = y.v /\ \A r \in Res : x.q[r] <= y.q[r]
      /\ \A r \in NonDisposable : x.q[r] = y.q[r]
  BY DEF Covers, AtLeastAsGood
<1>7. \A r \in Res : /\ z.q[r] <= y.q[r]
                     /\ x.q[r] = y.q[r] => z.q[r] = y.q[r]
  BY <1>1, <1>3, <1>4, <1>5, <1>6 DEF Larger
<1>8. NonDisposable \subseteq Res
  BY ProblemAssumption
<1>9. AtLeastAsGood("fw", z.q, y.q) /\ \A r \in NonDisposable : z.q[r] = y.q[r]
  BY <1>6, <1>7, <1>8 DEF AtLeastAsGood
<1> QED BY <1>5, <1>9 DEF Covers, z

\* A path whose arcs are all in place is followed arc by arc: whoever stands for it
\* has the arc, or jumps to where it is, and is extended before its component ends.
LEMMA PathIsFollowed ==
  ASSUME PackLawful, Underway, finished["fw"] = Sccs["fw"], NEW w \in Paths, Open(w),
         NEW k \in 1..Len(w), Represented("fw", Stop(w, k - 1))
  PROVE  Represented("fw", Stop(w, k))
<1> DEFINE m == Stop(w, k - 1)
           n == Stop(w, k)
           a == w[k]
           there == Passed(w, k - 1)
<1>1. /\ "fw" \in Dir /\ red \in [Arc -> Int] /\ PackMeansAllowed /\ w \in PartialWalks
      /\ Len(w) \in Nat /\ k - 1 \in 0..Len(w) /\ GraphCut /\ Upheld
  BY UnderwayType, Beginnings DEF PackLawful, Paths, Underway
<1>2. /\ Mark(m) /\ \A r \in Res : m.q[r] >= Lb[m.v][r]
  BY <1>1, StopType
<1>3. there = BucketOf(m.v, m.q) /\ there \in Bucket /\ a \in arcs["fw"][there]
  BY <1>1, PassedType DEF Stop, EndNode, ReachedWith, Open
<1>4. /\ a \in Arc /\ CanTake("fw", m, a)
      /\ LET t == Taken("fw", m, a)
         IN t.v = n.v /\ t.q = n.q /\ t.cost = n.cost /\ t.st = n.st
  BY <1>1, NextStop
<1> HIDE DEF m, n, a, there
<1>5. PICK j \in Live("fw") : Covers("fw", This(j), m)
  BY DEF Represented, m
<1> DEFINE p == This(j)
           b == Where(j)
<1>6. j \in labels["fw"] /\ p \in Node /\ Mark(p) /\ b \in Bucket /\ b[1] = p.v
  BY <1>5, UnderwayType DEF Live
<1>7. p.v = m.v /\ b = BucketOf(p.v, p.q) /\ AtLeastAsGood("fw", p.q, m.q)
  BY <1>5 DEF Covers, Where
<1> HIDE DEF p, b
<1>8. UpTo("fw", b, there)
  BY <1>1, <1>2, <1>3, <1>6, <1>7, BucketOfMonotone DEF Mark
<1>9. PICK e \in Extensions("fw", b) : e.arc = a /\ e.at \in Bucket /\ UpTo("fw", e.at, there)
  <2>1. CASE a \in arcs["fw"][b]
    <3>1. [arc |-> a, at |-> b] \in Extensions("fw", b)
      BY <2>1 DEF Extensions
    <3> QED BY <1>6, <1>8, <3>1
  <2>2. CASE \E c \in Bucket : <<a, c>> \in jumps["fw"][b] /\ UpTo("fw", c, there)
    <3>1. PICK c \in Bucket : <<a, c>> \in jumps["fw"][b] /\ UpTo("fw", c, there)
      BY <2>2
    <3>2. [arc |-> a, at |-> c] \in Extensions("fw", b)
      BY <3>1 DEF Extensions
    <3> QED BY <3>1, <3>2
  <2> QED BY <1>1, <1>3, <1>6, <1>8, <2>1, <2>2, WithinReach
<1>10. e \in [arc : Arc, at : Bucket] /\ e.arc \in ArcsAt("fw", p.v)
  BY <1>6, UnderwayType, ExtensionType
<1>11. Mark(Raised(p, e)) /\ Covers("fw", Raised(p, e), m)
  <2>1. Covers("fw", p, m)
    BY <1>5 DEF p
  <2> QED BY <1>2, <1>3, <1>6, <1>9, <1>10, <2>1, RaisedType, RaisedCovers
<1>12. CanTake("fw", Raised(p, e), a) /\ Covers("fw", Taken("fw", Raised(p, e), a), Taken("fw", m, a))
  BY <1>1, <1>2, <1>4, <1>11, CoversPersists
<1> DEFINE x == Extend("fw", p, e)
           t == Taken("fw", Raised(p, e), a)
           u == Taken("fw", m, a)
<1>13. /\ ExtendFeasible("fw", p, e) /\ Mark(x) /\ Mark(t)
       /\ x.v = t.v /\ x.q = t.q /\ x.cost = t.cost /\ x.st = t.st
  BY <1>6, <1>9, <1>10, <1>12, UnderwayType, ChildOfRaised
<1>14. Mark(u)
  BY <1>1, <1>2, <1>4, TakenType
<1>15. u.v = n.v /\ u.q = n.q /\ u.cost = n.cost /\ u.st = n.st
  BY <1>4
<1> HIDE DEF t, u
<1>16. j \in extended["fw"]
  <2>1. Settled("fw", Where(j))
    BY <1>1, <1>6, SccsPartition DEF Settled, b
  <2>2. ~PastMid("fw", This(j))
    BY UnderwayType DEF PastMid
  <2> QED BY <1>1, <1>5, <2>1, <2>2 DEF Upheld, SettledAreExtended
<1>17. Makes(j, e)
  BY <1>9, <1>13, <1>16 DEF Makes, TriedBy, b, p
<1>18. Represented("fw", x)
  BY <1>1, <1>6, <1>9, <1>17 DEF Upheld, FollowersRepresented, b, p
<1> HIDE DEF x
<1>19. PICK i \in Live("fw") : Covers("fw", This(i), x)
  BY <1>18 DEF Represented
<1>20. Mark(This(i)) /\ Covers("fw", This(i), t)
  BY <1>13, <1>19, UnderwayType, CoversByFields DEF Live
<1>21. Covers("fw", This(i), u)
  BY <1>1, <1>12, <1>13, <1>14, <1>20, CoversTransitive DEF t, u
<1>22. Covers("fw", This(i), n)
  BY <1>15, <1>21, CoversByFields
<1> QED BY <1>22 DEF Represented, n

\* So every such path is represented where it ends.
LEMMA OpenPathsAreRepresented ==
  ASSUME PackLawful, Underway, finished["fw"] = Sccs["fw"], NEW w \in Paths, Open(w)
  PROVE  Represented("fw", EndNode(w))
<1> DEFINE S == {k \in Nat : k <= Len(w) => Represented("fw", Stop(w, k))}
<1>1. /\ "fw" \in Dir /\ red \in [Arc -> Int] /\ PackMeansAllowed /\ w \in PartialWalks
      /\ Len(w) \in Nat /\ Upheld
  BY UnderwayType, Beginnings DEF PackLawful, Paths, Underway
<1>2. 0 \in S
  <2>1. PICK j \in Live("fw") : Covers("fw", This(j), This(InitialLabel("fw")))
    BY <1>1 DEF Upheld, OriginRepresented, Represented
  <2>2. Covers("fw", This(j), Stop(w, 0))
    BY <1>1, <2>1, FirstStop, CoversByFields
  <2> QED BY <2>2 DEF Represented
<1>3. ASSUME NEW k \in S PROVE k + 1 \in S
  <2> SUFFICES ASSUME k + 1 <= Len(w) PROVE Represented("fw", Stop(w, k + 1))
    BY <1>3
  <2>1. k + 1 \in 1..Len(w) /\ (k + 1) - 1 = k /\ k <= Len(w)
    BY <1>1, <1>3
  <2>2. Represented("fw", Stop(w, (k + 1) - 1))
    BY <1>3, <2>1
  <2> QED BY <2>1, <2>2, PathIsFollowed
<1>4. S = Nat
  <2> HIDE DEF S
  <2>1. S \in SUBSET Nat
    BY DEF S
  <2> QED BY <1>2, <1>3, <2>1, InductOnNat
<1>5. Len(w) \in S
  BY <1>1, <1>4
<1>6. Represented("fw", Stop(w, Len(w)))
  BY <1>1, <1>5
<1> QED BY <1>1, <1>6, RestCosts

\* What a represented path promises the caller: a candidate as cheap is selected.
LEMMA RepresentedIsAnswered ==
  ASSUME PackLawful, Inductive, LoneExact, Collect, NEW w \in Paths, Worth(w),
         Represented("fw", EndNode(w))
  PROVE  \E c \in result' : c.cost <= CostOf(w)
<1>1. /\ "fw" \in Dir /\ red \in [Arc -> Int] /\ labels["fw"] \subseteq Label
      /\ opt.theta \in Int /\ opt.mode = "mono" /\ LabelType /\ LabelsAreSound
      /\ phase = "collect" /\ phase' = "done" /\ UNCHANGED <<opt, labels, dominated>>
  BY OptionAssumption
  DEF Inductive, TypeOK, SolveType, GraphType, LabelType, Dir, LoneExact, Collect, search
<1>2. /\ w \in PartialWalks /\ EndOf(w) = Sink /\ CostOf(w) < opt.theta
  BY DEF Paths, Worth
<1>3. /\ w \in Seq(Arc) /\ EndNode(w).cost = CostOf(w) /\ EndNode(w).v = EndOf(w)
  BY <1>2, ArrivalIsEnd
<1>4. Mark(EndNode(w))
  BY <1>1, <1>3, EndNodeType
<1>5. PICK k \in Live("fw") : Covers("fw", This(k), EndNode(w))
  BY DEF Represented
<1>6. Mark(This(k))
  BY <1>1, <1>5, LabelMarks DEF Live
<1>7. This(k).cost <= CostOf(w) /\ This(k).v = Sink
  BY <1>1, <1>2, <1>3, <1>4, <1>5, <1>6, CoverIsCheaper DEF Covers
<1>8. This(k).cost \in Int /\ CostOf(w) \in Int /\ This(k).cost < opt.theta
  BY <1>1, <1>2, <1>3, <1>4, <1>6, <1>7 DEF Mark
<1> DEFINE y == [fw |-> k, bw |-> <<>>, arc |-> NoArc, cost |-> This(k).cost,
                 real |-> This(k).real]
<1>9. y \in SinkCandidates /\ y.cost = This(k).cost
  BY <1>5, <1>7, <1>8 DEF SinkCandidates
<1> HIDE DEF y
<1>10. Delivered'
  <2>1. Delivered /\ [Next]_vars
    BY <1>1 DEF Delivered, Next, MainStep
  <2> QED BY <2>1, DeliveredStays
<1>11. SinkCandidates' = SinkCandidates /\ LoneExact'
  BY <1>1 DEF SinkCandidates, Live, LoneExact
<1>12. PICK c \in result' : c.cost <= y.cost
  BY <1>1, <1>9, <1>10, <1>11 DEF Delivered
<1>13. c.cost \in Int
  <2>1. Inductive'
    BY <1>1, NextIsInductive DEF Next, MainStep
  <2>2. result' \subseteq Candidate
    BY <2>1 DEF Inductive, TypeOK
  <2> QED BY <2>2 DEF Candidate
<1>14. c.cost <= CostOf(w)
  BY <1>7, <1>8, <1>9, <1>12, <1>13
<1> QED BY <1>14

-----------------------------------------------------------------------------
\* The session as a whole.
LEMMA SessionBegins ==
  ASSUME SessionInit
  PROVE  OptionType /\ LoneSession
<1>1. /\ phase = "ready" /\ dirty = TRUE /\ red \in CostVectors /\ OptionType
      /\ arcs = BuiltArcs /\ jumps = [d \in Dir |-> [b \in Bucket |-> {}]] /\ fixed = {}
      /\ kept = Paths /\ warm = {} /\ waiting = {} /\ Inductive
  BY InitIsInductive DEF SessionInit, Init, OptionType
<1>2. Basics
  BY <1>1 DEF Basics, Inductive, TypeOK
<1>3. GraphCut
  <2>1. \A d \in Dir : JumpArcs(d, BuiltArcs[d]) = [b \in Bucket |-> {}]
    BY NothingBeyond DEF JumpArcs
  <2>2. \A d \in Dir : jumps[d] = [b \in Bucket |-> {}] /\ arcs[d] = BuiltArcs[d]
    BY <1>1
  <2> QED BY <1>1, <2>1, <2>2 DEF GraphCut
<1>4. NothingClosed
  BY <1>1, OpenAsBuilt DEF NothingClosed, Open
<1> QED BY <1>1, <1>2, <1>3, <1>4 DEF LoneSession, WholeSolve, BoundsKnown

\* Nothing happens once the bound on solves is reached.
LEMMA SessionRests ==
  ASSUME PackLawful, Unstopped, LoneSession, opt.mode = "mono", UNCHANGED svars
  PROVE  LoneSession'
<1>1. UNCHANGED vars /\ UNCHANGED <<solves, kept, whole, plain, warm, waiting>>
  BY DEF svars
<1>2. /\ UNCHANGED <<phase, opt, red, inl, jinl, dirty, arcs, jumps, fixed, mid, midSet,
                     labels, extended, dominated, scc, finished, cur, todo, sweep,
                     count, cbest, completion, complete, result>>
  BY <1>1 DEF vars, graph, search
<1>3. Basics /\ GraphCut /\ WholeSolve /\ BoundsKnown /\ NothingClosed
  BY DEF LoneSession
<1>4. Inductive => Inductive'
  BY <1>1, StutterStep
<1>5. Basics'
  BY <1>1, <1>2, <1>3, <1>4 DEF Basics, SolveType, GraphType, SearchType
<1>6. GraphCut' /\ NothingClosed' /\ BoundsKnown'
  BY <1>1, <1>2, <1>3 DEF GraphCut, JumpArcs, NothingClosed, Open, BoundsKnown, Bounded, CostOf
<1>7. WholeSolve'
  <2> SUFFICES ASSUME whole, phase \in {"label", "post", "collect"} PROVE WholeSolve'
    BY <1>1, <1>2 DEF WholeSolve
  <2>1. InOrder /\ Kept /\ Searched
    BY <1>3 DEF WholeSolve
  <2>2. InOrder' /\ Searched' /\ Kept'
    <3>1. Inductive /\ [Next]_vars
      BY <1>1, <2>1 DEF InOrder
    <3>2. Fresh
      BY DEF Fresh
    <3> QED BY <2>1, <3>1, <3>2, OrderStays, SearchedStays, KeptStays
  <2> QED BY <1>1, <1>2, <1>3, <2>2 DEF WholeSolve, LoneExact
<1> QED BY <1>5, <1>6, <1>7 DEF LoneSession

LEMMA SessionStays ==
  ASSUME PackLawful, BoundsReach, Careful, Unstopped, OptionType, LoneSession,
         [SessionNext]_svars
  PROVE  OptionType' /\ LoneSession'
<1>1. OptionType' /\ opt'.mode = opt.mode
  <2>1. ASSUME NEW s \in Stages, NEW t \in Thetas, SetOptions(s, t)
        PROVE  OptionType' /\ opt'.mode = opt.mode
    BY <2>1 DEF SetOptions, OptionType
  <2>2. ASSUME UNCHANGED opt PROVE OptionType' /\ opt'.mode = opt.mode
    BY <2>2 DEF OptionType
  <2>3. CASE SolveStep
    BY <2>2, <2>3, SolveLeaves
  <2>4. CASE SessionOver \/ UNCHANGED svars
    BY <2>2, <2>4 DEF SessionOver, svars, vars
  <2>5. ASSUME NEW l \in waiting, InjectWarmLabel(l) PROVE UNCHANGED opt
    BY <2>5 DEF InjectWarmLabel
  <2>6. ASSUME Call, ~\E s \in Stages, t \in Thetas : SetOptions(s, t) PROVE UNCHANGED opt
    BY <2>6 DEF Call, UpdateArcCosts, Build, ResetElimination, EliminateArcs, Eliminated,
                EliminateArcsLabelBased, FixBuckets, SaveWarmLabels, BeginNextSolve, BeginSolve, vars
  <2> QED BY <2>1, <2>2, <2>3, <2>4, <2>5, <2>6 DEF SessionNext
<1> SUFFICES ASSUME opt.mode = "mono" PROVE LoneSession'
  BY <1>1 DEF LoneSession
<1>2. warm = {} /\ waiting = {}
  BY DEF LoneSession, Basics
<1>3. CASE Call
  <2>1. ASSUME NEW c \in CostVectors, UpdateArcCosts(c) PROVE LoneSession'
    BY <2>1, AskStep
  <2>2. ASSUME NEW s \in Stages, NEW t \in Thetas, SetOptions(s, t) PROVE LoneSession'
    BY <2>2, AskStep
  <2>3. CASE Build \/ ResetElimination
    BY <2>3, RestoreStep
  <2>4. ASSUME NEW gap \in Gaps, EliminateArcs(gap) \/ EliminateArcsLabelBased(gap)
        PROVE  LoneSession'
    <3>1. gap \in Int /\ phase = "done" /\ whole /\ opt.stage = "Exact"
      BY <2>4, SessionAssumption DEF EliminateArcs, EliminateArcsLabelBased, BoundsFit, Careful
    <3>2. Eliminated([d \in Directions |-> WithinGap(d, gap)])
      BY <2>4 DEF EliminateArcs, EliminateArcsLabelBased
    <3>3. kept' = KeptWithin(gap)
      BY <2>4 DEF EliminateArcs, EliminateArcsLabelBased, KeptWithin
    <3> QED BY <3>1, <3>2, <3>3, EliminationStep
  <2>5. ASSUME NEW gap \in Gaps, FixBuckets(gap) PROVE FALSE
    BY <2>5 DEF FixBuckets, Careful
  <2>6. CASE SaveWarmLabels
    BY <2>6 DEF SaveWarmLabels, Careful
  <2>7. CASE BeginNextSolve
    BY <2>7, BeginStep DEF Careful
  <2> QED BY <1>3, <2>1, <2>2, <2>3, <2>4, <2>5, <2>6, <2>7 DEF Call
<1>4. CASE SolveStep
  BY <1>4, SolveStays
<1>5. CASE SessionOver \/ UNCHANGED svars
  BY <1>5, SessionRests DEF SessionOver
<1> QED BY <1>2, <1>3, <1>4, <1>5 DEF SessionNext

\* However often a careful caller changes costs and options, builds, resets, solves
\* and eliminates: no arc is gone from the buckets of a path that was not given up
\* (eliminate_arcs goes by c_best and the completion bounds) ...
THEOREM KeptPathsSurvive ==
  ASSUME PackLawful, BoundsReach, Careful
  PROVE  SessionSpec /\ []Unstopped => []KeptPathsStayOpen
<1>1. OptionType /\ LoneSession => KeptPathsStayOpen
  BY OpenIsOpen DEF LoneSession, Basics, NothingClosed, KeptPathsStayOpen
<1>2. SessionInit => OptionType /\ LoneSession
  BY SessionBegins
<1>3. Unstopped /\ OptionType /\ LoneSession /\ [SessionNext]_svars => OptionType' /\ LoneSession'
  BY SessionStays
<1> QED BY <1>1, <1>2, <1>3, PTL DEF SessionSpec

\* ... and a label that stands in for the path in an earlier bucket of a vertex gets
\* on along the bucket arc or by a jump arc that compute_jump_arcs put there.
THEOREM KeptPathsStayReachable ==
  ASSUME PackLawful, BoundsReach, Careful
  PROVE  SessionSpec /\ []Unstopped => []KeptPathsStayInReach
<1>1. OptionType /\ LoneSession => KeptPathsStayInReach
  BY OpenIsOpen DEF LoneSession, Basics, NothingClosed, KeptPathsStayInReach
<1>2. SessionInit => OptionType /\ LoneSession
  BY SessionBegins
<1>3. Unstopped /\ OptionType /\ LoneSession /\ [SessionNext]_svars => OptionType' /\ LoneSession'
  BY SessionStays
<1> QED BY <1>1, <1>2, <1>3, PTL DEF SessionSpec

-----------------------------------------------------------------------------
\* What an exact mono-directional solve owes the caller, as it goes on: a way to
\* follow every path, a label that has followed it, and in the end an answer as cheap.
Owed ==
  LoneExact =>
    /\ phase = "label" => Orderly /\ Upheld
    /\ phase \in {"post", "collect"} => \A w \in kept : Represented("fw", EndNode(w))
    /\ phase = "done" => \A w \in kept : Worth(w) => \E c \in result : c.cost <= CostOf(w)

\* A step of the solve keeps what is owed.
LEMMA SolveKeepsOwed ==
  ASSUME PackLawful, Unstopped, LoneSession, LoneExact, Owed, SolveStep
  PROVE  Owed'
<1>1. /\ Basics /\ GraphCut /\ NothingClosed /\ kept \subseteq Paths /\ Inductive
      /\ UNCHANGED <<opt, red, kept>> /\ opt.mode = "mono"
      /\ phase \in {"label", "post", "collect"}
  BY SolveLeaves DEF LoneSession, LoneExact, Basics
<1>2. \A w : CostOf(w)' = CostOf(w) /\ EndNode(w)' = EndNode(w)
  BY <1>1 DEF CostOf, EndNode
<1>3. ASSUME NEW d \in Dir, LabelStep(d) PROVE Owed'
  <2>1. phase = "label" /\ phase' = "label"
    BY <1>3 DEF LabelStep, StartScc, DropDominated, PruneHopeless, OpenLabel, ExtendArc, FinishScc,
                Visit, Running
  <2>2. Underway /\ Uncapped
    BY <1>1, <2>1 DEF Underway, Owed, Unstopped
  <2>3. Orderly' /\ Upheld'
    BY <1>3, <2>2, UpheldStays
  <2> QED BY <2>1, <2>3 DEF Owed
<1>4. CASE EndLabeling
  <2>1. /\ phase = "label" /\ phase' = "post" /\ finished["fw"] = Sccs["fw"]
        /\ UNCHANGED <<labels, dominated>>
    BY <1>1, <1>4 DEF EndLabeling, Directions, search
  <2>2. Underway
    BY <1>1, <2>1 DEF Underway, Owed
  <2>3. \A w \in kept : Represented("fw", EndNode(w))
    BY <1>1, <2>1, <2>2, OpenPathsAreRepresented DEF NothingClosed
  <2> QED BY <1>1, <1>2, <2>1, <2>3 DEF Owed, Represented, Live, Covers
<1>5. CASE PostPass
  <2>1. phase = "post" /\ phase' = "collect" /\ UNCHANGED <<labels, dominated>>
    BY <1>1, <1>5 DEF PostPass
  <2>2. \A w \in kept : Represented("fw", EndNode(w))
    BY <2>1 DEF Owed
  <2> QED BY <1>1, <1>2, <2>1, <2>2 DEF Owed, Represented, Live, Covers
<1>6. CASE Collect
  <2>1. phase = "collect" /\ phase' = "done"
    BY <1>6 DEF Collect
  <2>2. \A w \in kept : Represented("fw", EndNode(w))
    BY <2>1 DEF Owed
  <2>3. \A w \in kept : Worth(w) => \E c \in result' : c.cost <= CostOf(w)
    BY <1>1, <1>6, <2>2, RepresentedIsAnswered
  <2> QED BY <1>1, <1>2, <2>1, <2>3 DEF Owed, Worth
<1> QED BY <1>3, <1>4, <1>5, <1>6 DEF SolveStep

\* A solve that begins owes all of it; giving up paths makes it less; whoever asks for
\* something else is owed nothing until the next solve.
LEMMA OwedStays ==
  ASSUME PackLawful, Careful, Unstopped, LoneSession, Owed, [SessionNext]_svars
  PROVE  Owed'
<1>1. ASSUME UNCHANGED <<opt, red, phase, result>>, phase = "done", kept' \subseteq kept PROVE Owed'
  BY <1>1 DEF Owed, LoneExact, Worth, CostOf
<1>2. CASE Call
  <2>1. ASSUME \/ \E c \in CostVectors : UpdateArcCosts(c)
               \/ \E s \in Stages, t \in Thetas : SetOptions(s, t)
               \/ Build \/ ResetElimination
        PROVE  Owed'
    <3>1. phase' = "ready"
      BY <2>1 DEF UpdateArcCosts, SetOptions, Build, ResetElimination
    <3> QED BY <3>1 DEF Owed
  <2>2. ASSUME NEW gap \in Gaps, EliminateArcs(gap) \/ EliminateArcsLabelBased(gap)
        PROVE  Owed'
    <3>1. phase = "done" /\ kept' \subseteq kept /\ UNCHANGED <<opt, red, phase, result>>
      BY <2>2 DEF EliminateArcs, EliminateArcsLabelBased, Eliminated, KeptWithin, BoundsFit, Careful
    <3> QED BY <1>1, <3>1
  <2>3. ASSUME SaveWarmLabels \/ \E gap \in Gaps : FixBuckets(gap) PROVE Owed'
    BY <2>3 DEF Careful, SaveWarmLabels, FixBuckets
  <2>4. CASE BeginNextSolve
    <3>1. BeginSolve /\ opt' = opt /\ phase' = "label"
      BY <2>4 DEF BeginNextSolve, BeginSolve
    <3> SUFFICES ASSUME LoneExact' PROVE Orderly' /\ Upheld'
      BY <3>1 DEF Owed
    <3>2. opt.mode = "mono"
      BY <3>1 DEF LoneExact
    <3> QED BY <3>1, <3>2, UpheldBegin
  <2> QED BY <1>2, <2>1, <2>2, <2>3, <2>4 DEF Call
<1>3. CASE SolveStep
  <2>1. CASE LoneExact
    BY <1>3, <2>1, SolveKeepsOwed
  <2>2. CASE ~LoneExact
    <3>1. opt' = opt
      BY <1>3, SolveLeaves
    <3> QED BY <2>2, <3>1 DEF Owed, LoneExact
  <2> QED BY <2>1, <2>2
<1>4. ASSUME NEW l \in waiting, InjectWarmLabel(l) PROVE Owed'
  <2>1. opt' = opt
    BY <1>4 DEF InjectWarmLabel
  <2>2. opt.mode # "mono"
    BY DEF LoneSession, Basics
  <2> QED BY <2>1, <2>2 DEF Owed, LoneExact
<1>5. CASE SessionOver \/ UNCHANGED svars
  <2>1. UNCHANGED <<opt, red, inl, jinl, arcs, jumps, labels, extended, dominated, scc, finished,
                    cur, todo, phase, result, kept>>
    BY <1>5 DEF SessionOver, svars, vars, graph, search
  <2> SUFFICES ASSUME LoneExact PROVE Owed'
    BY <2>1 DEF Owed, LoneExact
  <2>2. \A w : CostOf(w)' = CostOf(w) /\ EndNode(w)' = EndNode(w)
    BY <2>1 DEF CostOf, EndNode
  <2>3. CASE phase = "label"
    <3>1. Orderly /\ Upheld /\ opt.mode = "mono"
      BY <2>3 DEF Owed, LoneExact
    <3>2. Upheld'
      BY <2>1, <3>1, UpheldStable
    <3>3. Orderly'
      BY <2>1, <3>1 DEF Orderly, Extensions
    <3> QED BY <2>1, <2>3, <3>2, <3>3 DEF Owed
  <2>4. CASE phase \in {"post", "collect"}
    <3>1. \A w \in kept : Represented("fw", EndNode(w))
      BY <2>4 DEF Owed
    <3> QED BY <2>1, <2>2, <2>4, <3>1 DEF Owed, Represented, Live, Covers
  <2>5. CASE phase = "done"
    BY <1>1, <2>1, <2>5
  <2>6. CASE phase \notin {"label", "post", "collect", "done"}
    BY <2>1, <2>6 DEF Owed
  <2> QED BY <2>3, <2>4, <2>5, <2>6
<1> QED BY <1>2, <1>3, <1>4, <1>5 DEF SessionNext

\* ... and every exact mono-directional solve of the session finds a cost as low as
\* that of any such path, although eliminations have taken arcs away for good and
\* solve() has to reach the path by the jump arcs that make up for them.
THEOREM KeptPathsAreFound ==
  ASSUME PackLawful, BoundsReach, Careful
  PROVE  SessionSpec /\ []Unstopped => [](opt.mode = "mono" => FindsKept)
<1>1. Owed => (opt.mode = "mono" => FindsKept)
  BY DEF Owed, LoneExact, FindsKept, Done
<1>2. SessionInit => OptionType /\ LoneSession /\ Owed
  <2>1. SessionInit => OptionType /\ LoneSession
    BY SessionBegins
  <2>2. SessionInit => Owed
    BY DEF SessionInit, Init, Owed
  <2> QED BY <2>1, <2>2
<1>3. Unstopped /\ OptionType /\ LoneSession /\ Owed /\ [SessionNext]_svars
        => OptionType' /\ LoneSession' /\ Owed'
  BY SessionStays, OwedStays
<1> QED BY <1>1, <1>2, <1>3, PTL DEF SessionSpec

-----------------------------------------------------------------------------
\* Enumerations of a session.  They have all bucket arcs and begin with bounds of
\* their own costs, so that nothing of an earlier solve takes part in them.
Listing ==
  opt.mode = "mono" =>
    /\ completion["bw"] = NoBounds
    /\ Enumerating /\ phase \in {"label", "post", "collect"} => whole /\ BoundsOfCosts /\ EnumOK

\* The mode of a graph is never changed.
LEMMA ModeStays ==
  ASSUME OptionType, [SessionNext]_svars
  PROVE  opt'.mode = opt.mode
<1>1. CASE Call
  BY <1>1 DEF Call, UpdateArcCosts, SetOptions, Build, ResetElimination, EliminateArcs,
              EliminateArcsLabelBased, Eliminated, FixBuckets, SaveWarmLabels, BeginNextSolve,
              BeginSolve, OptionType, vars
<1>2. CASE SolveStep
  BY <1>2, SolveLeaves
<1>3. CASE (\E l \in waiting : InjectWarmLabel(l)) \/ SessionOver \/ UNCHANGED svars
  BY <1>3 DEF InjectWarmLabel, SessionOver, svars, vars
<1> QED BY <1>1, <1>2, <1>3 DEF SessionNext

\* What is asked between solves leaves the backward bounds alone, and no
\* enumeration is under way.
LEMMA ListingAsked ==
  ASSUME Careful, LoneSession, Listing, opt.mode = "mono", Call
  PROVE  Listing'
<1>1. "bw" \in Dir /\ "bw" \notin Directions
  BY DEF Dir, Directions
<1>2. completion["bw"] = NoBounds
  BY DEF Listing
<1>3. CASE BeginNextSolve
  <2>1. BeginSolve /\ opt' = opt /\ phase = "ready" /\ whole' = (arcs = BuiltArcs)
    BY <1>3 DEF BeginNextSolve, BeginSolve
  <2>2. completion'["bw"] = NoBounds /\ red' = red
    BY <1>1, <1>2, <2>1 DEF BeginSolve
  <2> SUFFICES ASSUME Enumerating' PROVE whole' /\ BoundsOfCosts' /\ EnumOK'
    BY <2>2 DEF Listing, NoBounds
  <2>3. Enumerating
    BY <2>1 DEF Enumerating
  <2>4. arcs = BuiltArcs /\ whole' /\ (dirty \/ inl = red)
    BY <1>3, <2>1, <2>3 DEF BeginNextSolve, Careful, MayEnumerate, CostsPassed
  <2>5. inl' = red
    BY <2>1, <2>4 DEF BeginSolve
  <2>6. "fw" \in Dir /\ "fw" \in Directions /\ UseCompletion
    BY <2>3 DEF Dir, Directions, UseCompletion
  <2>7. completion'["fw"] = CompletionBounds("fw", BuiltArcs, red)
    BY <2>1, <2>4, <2>5, <2>6 DEF BeginSolve
  <2>8. BoundsOfCosts'
    <3>1. red \in CostVectors /\ red \in [Arc -> Int]
      BY DEF LoneSession, Basics, GraphType
    <3>2. Directions' = Directions
      BY <2>1 DEF Directions
    <3> QED BY <2>2, <2>6, <2>7, <3>1, <3>2 DEF BoundsOfCosts, Dir, NoBounds
  <2>9. EnumKept'
    BY <2>1, EnumBegin
  <2>10. LoneEnum' /\ phase' = "label"
    BY <2>1, <2>3 DEF LoneEnum, BeginSolve, Enumerating
  <2> QED BY <2>4, <2>8, <2>9, <2>10 DEF EnumKept
<1>4. CASE ~BeginNextSolve
  <2>1. /\ opt'.mode = opt.mode /\ phase' \in {"ready", "done"}
        /\ completion'["bw"] = NoBounds
    <3>1. ASSUME \/ \E c \in CostVectors : UpdateArcCosts(c)
                 \/ \E s \in Stages, t \in Thetas : SetOptions(s, t)
                 \/ Build
          PROVE  opt'.mode = opt.mode /\ phase' = "ready" /\ completion' = completion
      <4>1. opt \in [mode : Modes, stage : Stages, theta : Thetas]
        BY DEF LoneSession, Basics, SolveType
      <4> QED BY <3>1, <4>1 DEF UpdateArcCosts, SetOptions, Build
    <3>2. ASSUME ResetElimination
          PROVE  opt' = opt /\ phase' = "ready" /\ completion'["bw"] = NoBounds
      BY <1>1, <3>2 DEF ResetElimination
    <3>3. ASSUME NEW gap \in Gaps, EliminateArcs(gap) \/ EliminateArcsLabelBased(gap)
          PROVE  opt' = opt /\ phase' \in {"ready", "done"} /\ completion' = completion
      BY <3>3 DEF EliminateArcs, EliminateArcsLabelBased, Eliminated, HaveBounds, Idle
    <3>4. ASSUME SaveWarmLabels \/ \E gap \in Gaps : FixBuckets(gap) PROVE FALSE
      BY <3>4 DEF Careful, SaveWarmLabels, FixBuckets
    <3> QED BY <1>2, <1>4, <3>1, <3>2, <3>3, <3>4 DEF Call
  <2> QED BY <2>1 DEF Listing, NoBounds
<1> QED BY <1>3, <1>4

\* A step of an enumeration is one of the solves of the other modules.
LEMMA ListingSolves ==
  ASSUME LoneSession, Listing, opt.mode = "mono", SolveStep
  PROVE  Listing'
<1>1. /\ UNCHANGED <<opt, red, whole>> /\ [Next]_vars
      /\ phase \in {"label", "post", "collect"}
  BY SolveLeaves
<1>2. completion'["bw"] = completion["bw"]
  <2>1. "bw" \in Dir /\ "bw" \notin Directions
    BY DEF Dir, Directions
  <2>3. CASE PostPass
    BY <2>1, <2>3 DEF PostPass
  <2>4. ASSUME \/ EndLabeling \/ Collect
               \/ \E d \in Dir : LabelStep(d)
        PROVE  completion' = completion
    BY <2>4 DEF LabelStep, StartScc, DropDominated, PruneHopeless, OpenLabel, ExtendArc, FinishScc,
                EndLabeling, Collect, graph
  <2> QED BY <2>3, <2>4 DEF SolveStep
<1>3. completion'["bw"] = NoBounds
  BY <1>2 DEF Listing
<1> SUFFICES ASSUME Enumerating', phase' \in {"label", "post", "collect"}
             PROVE  whole' /\ BoundsOfCosts' /\ EnumOK'
  BY <1>3 DEF Listing, NoBounds
<1>4. LoneEnum /\ LoneEnum'
  BY <1>1 DEF LoneEnum, Enumerating
<1>5. whole /\ BoundsOfCosts /\ EnumOK
  BY <1>1, <1>4 DEF Listing, LoneEnum
<1>6. InOrder /\ EnumKept
  BY <1>1, <1>5 DEF LoneSession, WholeSolve, EnumKept
<1>7. BoundsOfCosts' /\ EnumKept'
  BY <1>1, <1>5, <1>6, BoundsStay, EnumStays
<1> QED BY <1>1, <1>4, <1>5, <1>7 DEF EnumKept

LEMMA ListingStays ==
  ASSUME Careful, OptionType, LoneSession, Listing, [SessionNext]_svars
  PROVE  Listing'
<1>1. opt'.mode = opt.mode
  BY ModeStays
<1> SUFFICES ASSUME opt.mode = "mono" PROVE Listing'
  BY <1>1 DEF Listing
<1>2. CASE Call
  BY <1>2, ListingAsked
<1>3. CASE SolveStep
  BY <1>3, ListingSolves
<1>4. ~ \E l \in waiting : InjectWarmLabel(l)
  BY DEF LoneSession, Basics
<1>5. CASE SessionOver \/ UNCHANGED svars
  <2>1. UNCHANGED <<opt, red, phase, whole, completion, labels, extended, dominated, finished, cur, todo,
                    complete>>
    BY <1>5 DEF SessionOver, svars, vars, graph, search
  <2> SUFFICES ASSUME Enumerating', phase \in {"label", "post", "collect"}
               PROVE  whole /\ BoundsOfCosts' /\ EnumOK'
    BY <2>1 DEF Listing, NoBounds
  <2>2. LoneEnum /\ whole /\ BoundsOfCosts /\ EnumOK
    BY <2>1 DEF Listing, LoneEnum, Enumerating
  <2>3. BoundsOfCosts'
    BY <2>1, <2>2 DEF BoundsOfCosts, Directions
  <2>4. EnumKept /\ EnumKept'
    BY <2>1, <2>2, EnumStable DEF EnumKept
  <2>5. LoneEnum'
    BY <2>1, <2>2 DEF LoneEnum, Enumerating
  <2> QED BY <2>1, <2>2, <2>3, <2>4, <2>5 DEF EnumKept
<1> QED BY <1>2, <1>3, <1>4, <1>5 DEF SessionNext

-----------------------------------------------------------------------------
\* What the caller sees, of the oracle's four variables.  The candidates that a
\* mono-directional solve selects from are the labels at the sink.
LEMMA OnlySinkCandidates ==
  ASSUME opt.mode = "mono", Collect
  PROVE  result' \subseteq SinkCandidates
<1>1. PICK C \in Collected : result' \in Selections(C \cup SinkCandidates)
  BY DEF Collect
<1>2. ConcatCandidates = {}
  BY DEF ConcatCandidates
<1>3. C \subseteq ConcatCandidates
  <2>1. CASE Enumerating
    <3>1. Collected \subseteq {D \cup {c \in ConcatCandidates : Shielded(c)} :
                                 D \in SUBSET {c \in ConcatCandidates : ~Shielded(c)}}
      BY <2>1 DEF Collected
    <3> QED BY <3>1
  <2>2. CASE ~Enumerating
    BY <2>2 DEF Collected
  <2> QED BY <2>1, <2>2
<1>4. C = {}
  BY <1>2, <1>3
<1> QED BY <1>1, <1>4 DEF Selections

\* Each is a path below theta, at its own price.
LEMMA SinkCandidatesArePaths ==
  ASSUME PackMeansAllowed, Inductive, NEW c \in SinkCandidates
  PROVE  PathOf(c) \in Paths /\ c.cost = CostOf(PathOf(c)) /\ c.cost < opt.theta
<1>1. red \in [Arc -> Int] /\ labels["fw"] \subseteq Label /\ LabelsAreSound /\ "fw" \in Dir
  BY DEF Inductive, TypeOK, GraphType, LabelType, Dir
<1>2. PICK l \in Live("fw") : /\ This(l).v = Sink /\ This(l).cost < opt.theta
                              /\ c.fw = l /\ c.bw = <<>> /\ c.cost = This(l).cost
  BY DEF SinkCandidates
<1>3. l \in Label /\ SoundLabel("fw", l)
  BY <1>1, <1>2 DEF Live, LabelsAreSound
<1>4. Follows(ArcsOf(l), This(l))
  BY <1>1, <1>2, <1>3, LabelIsWalk
<1>5. PathOf(c) = ArcsOf(l)
  BY <1>2 DEF PathOf
<1> QED BY <1>2, <1>4, <1>5 DEF Follows, Paths

\* What solve() returns is what the oracle may answer: paths below theta, for an exact
\* solve one as cheap as any kept path, for an enumeration that calls itself complete
\* all kept paths.
LEMMA CollectAnswers ==
  ASSUME PackLawful, BoundsReach, Unstopped, LoneSession, Owed, Listing, opt.mode = "mono",
         SolveStep, Collect
  PROVE  Oracle!Answers([paths |-> {PathOf(c) : c \in result'}, all |-> complete'])
<1> DEFINE P == {PathOf(c) : c \in result'}
<1>1. /\ phase = "collect" /\ phase' = "done" /\ UNCHANGED <<opt, red, kept>>
      /\ [Next]_vars
  BY SolveLeaves DEF Collect
<1>2. Inductive /\ kept \subseteq Paths /\ PackMeansAllowed
  BY <1>1 DEF LoneSession, Basics, PackLawful
<1>3. \A c \in result' : PathOf(c) \in Paths /\ c.cost = CostOf(PathOf(c)) /\ c.cost < opt.theta
  BY <1>2, OnlySinkCandidates, SinkCandidatesArePaths
<1>4. P \subseteq Oracle!Below(Paths)
  BY <1>3 DEF Oracle!Below, Oracle!Price, CostOf
<1>5. ASSUME opt.stage = "Exact", NEW w \in Oracle!Below(kept)
      PROVE  \E x \in P : Oracle!Price(x) <= Oracle!Price(w)
  <2>1. w \in kept /\ Worth(w) /\ CostOf(w) = Oracle!Price(w)
    BY <1>5 DEF Oracle!Below, Oracle!Price, Worth, CostOf
  <2>2. LoneExact /\ LoneExact' /\ Owed'
    BY <1>1, <1>5, SolveKeepsOwed DEF LoneExact
  <2>3. CostOf(w)' = CostOf(w)
    BY <1>1 DEF CostOf
  <2>4. \E c \in result' : c.cost <= CostOf(w)
    BY <1>1, <2>1, <2>2, <2>3 DEF Owed, Worth
  <2>5. PICK c \in result' : c.cost <= CostOf(w)
    BY <2>4
  <2>6. PathOf(c) \in P /\ Oracle!Price(PathOf(c)) = c.cost
    BY <1>3, <2>5 DEF Oracle!Price, CostOf
  <2> QED BY <2>1, <2>5, <2>6
<1>6. ASSUME opt.stage = "Enumerate", complete', NEW w \in Oracle!Below(kept)
      PROVE  w \in P
  <2>1. w \in Paths /\ Worth(w)
    BY <1>2, <1>6 DEF Oracle!Below, Oracle!Price, Worth, CostOf
  <2>2. LoneEnum /\ LoneEnum' /\ whole /\ BoundsOfCosts /\ EnumOK
    BY <1>1, <1>6 DEF LoneEnum, Enumerating, Listing
  <2>3. InOrder /\ Searched
    BY <1>1, <2>2 DEF LoneSession, WholeSolve
  <2>4. complete /\ finished["fw"] = Sccs["fw"]
    <3>1. "fw" \in Directions
      BY DEF Directions
    <3> QED BY <1>1, <1>6, <2>3, <3>1 DEF Collect, Searched
  <2>5. SinkCandidates \subseteq result'
    <3>1. EnumKept /\ AllReturned
      BY <1>1, <2>2 DEF EnumKept, AllReturned
    <3>2. AllReturned'
      BY <1>1, <2>3, <3>1, AllReturnedStays
    <3>3. SinkCandidates' = SinkCandidates
      BY <1>1 DEF Collect, search, SinkCandidates, Live
    <3> QED BY <1>1, <1>6, <2>2, <3>2, <3>3 DEF AllReturned
  <2>6. PICK l \in labels["fw"] : ArcsOf(l) = w /\ IsEnd(This(l), w)
    BY <1>2, <2>1, <2>2, <2>3, <2>4, PathIsCarried
  <2>7. This(l).v = Sink /\ This(l).cost < opt.theta
    <3>1. w \in PartialWalks /\ EndOf(w) = Sink /\ CostOf(w) < opt.theta
      BY <2>1 DEF Paths, Worth
    <3>2. This(l).v = EndNode(w).v /\ This(l).cost = EndNode(w).cost
      BY <2>6 DEF IsEnd
    <3> QED BY <3>1, <3>2, ArrivalIsEnd
  <2>8. l \in Live("fw")
    BY <2>2, <2>6 DEF EnumOK, Live
  <2> DEFINE y == [fw |-> l, bw |-> <<>>, arc |-> NoArc, cost |-> This(l).cost,
                   real |-> This(l).real]
  <2>9. y \in SinkCandidates /\ PathOf(y) = w
    BY <2>6, <2>7, <2>8 DEF SinkCandidates, PathOf
  <2> QED BY <2>5, <2>9
<1> HIDE DEF P
<1>7. Oracle!Answers([paths |-> P, all |-> complete'])
  BY <1>4, <1>5, <1>6 DEF Oracle!Answers
<1> QED BY <1>7 DEF P

\* While there is no answer, or it stands, a step that leaves paths, costs and options
\* alone is none of the oracle's.
LEMMA OracleWaits ==
  ASSUME UNCHANGED <<kept, red, opt>>,
         \/ phase # "done" /\ phase' # "done"
         \/ UNCHANGED <<phase, plain, result, complete>>
  PROVE  UNCHANGED Oracle!pricing
<1> DEFINE A == IF phase = "done" /\ plain
                THEN [paths |-> {PathOf(c) : c \in result}, all |-> complete]
                ELSE [paths |-> {}, all |-> FALSE]
<1>1. A' = A
  OBVIOUS
<1> QED BY <1>1 DEF Oracle!pricing

\* What the caller does maps to what the caller of the oracle does.
LEMMA CallsAreAsked ==
  ASSUME Careful, OptionType, LoneSession, opt.mode = "mono", Call
  PROVE  Oracle!PricingStep \/ UNCHANGED Oracle!pricing
<1> DEFINE A == IF phase = "done" /\ plain
                THEN [paths |-> {PathOf(c) : c \in result}, all |-> complete]
                ELSE [paths |-> {}, all |-> FALSE]
<1>1. phase' = "ready" => A' = [paths |-> {}, all |-> FALSE]
  OBVIOUS
<1>2. ASSUME NEW c \in CostVectors, UpdateArcCosts(c) PROVE Oracle!Reprice
  <2>1. phase' = "ready" /\ red' \in CostVectors /\ UNCHANGED <<kept, opt>>
    BY <1>2 DEF UpdateArcCosts
  <2> QED BY <1>1, <2>1 DEF Oracle!Reprice, Oracle!NoAnswer
<1>3. ASSUME NEW s \in Stages, NEW t \in Thetas, SetOptions(s, t) PROVE Oracle!Ask
  <2>1. /\ phase' = "ready" /\ UNCHANGED <<kept, red>>
        /\ opt'.stage = s /\ opt'.theta = t
    BY <1>3 DEF SetOptions, graph, OptionType
  <2> QED BY <1>1, <2>1 DEF Oracle!Ask, Oracle!NoAnswer
<1>4. ASSUME Build \/ ResetElimination PROVE Oracle!Restore
  <2>1. phase' = "ready" /\ kept' = Paths /\ UNCHANGED <<red, opt>>
    BY <1>4 DEF Build, ResetElimination
  <2> QED BY <1>1, <2>1 DEF Oracle!Restore, Oracle!NoAnswer
<1>5. ASSUME NEW gap \in Gaps, EliminateArcs(gap) \/ EliminateArcsLabelBased(gap)
      PROVE  Oracle!GiveUp(gap)
  <2>1. /\ kept' = KeptWithin(gap) /\ phase = "done"
        /\ UNCHANGED <<red, opt, phase, plain, result, complete>>
    <3>1. phase = "done"
      BY <1>5 DEF EliminateArcs, EliminateArcsLabelBased, BoundsFit, Careful
    <3> QED BY <1>5, <3>1 DEF EliminateArcs, EliminateArcsLabelBased, Eliminated
  <2>2. inl = red
    BY <2>1 DEF LoneSession, Basics, Inductive, GraphOK
  <2>3. kept' = {w \in kept : Oracle!Price(w) <= gap}
    BY <2>1, <2>2 DEF KeptWithin, Cost, Oracle!Price
  <2>4. A' = A
    BY <2>1
  <2> QED BY <2>1, <2>3, <2>4 DEF Oracle!GiveUp
<1>6. ASSUME SaveWarmLabels \/ \E gap \in Gaps : FixBuckets(gap) PROVE FALSE
  BY <1>6 DEF Careful, SaveWarmLabels, FixBuckets
<1>7. CASE BeginNextSolve
  <2>1. phase = "ready" /\ phase' = "label" /\ UNCHANGED <<kept, red, opt>>
    BY <1>7 DEF BeginNextSolve, BeginSolve
  <2> QED BY <2>1, OracleWaits
<1> QED BY <1>2, <1>3, <1>4, <1>5, <1>6, <1>7 DEF Call, Oracle!PricingStep

\* Every step of such a session is one of the oracle, or none of its business.
LEMMA StepsArePriced ==
  ASSUME PackLawful, BoundsReach, Careful, Unstopped, OptionType, LoneSession, Owed, Listing,
         opt.mode = "mono", [SessionNext]_svars
  PROVE  [Oracle!PricingStep]_(Oracle!pricing)
<1>1. CASE Call
  BY <1>1, CallsAreAsked
<1>2. CASE SolveStep
  <2>1. UNCHANGED <<kept, red, opt, plain>> /\ phase # "done"
    BY <1>2, SolveLeaves
  <2>2. CASE phase' # "done" \/ ~plain
    <3> DEFINE A == IF phase = "done" /\ plain
                    THEN [paths |-> {PathOf(c) : c \in result}, all |-> complete]
                    ELSE [paths |-> {}, all |-> FALSE]
    <3>1. A' = A
      BY <2>1, <2>2
    <3> QED BY <2>1, <3>1 DEF Oracle!pricing
  <2>3. CASE phase' = "done" /\ plain
    <3>1. Collect
      BY <1>2, <2>3, SolveLeaves
    <3>2. Oracle!Answers([paths |-> {PathOf(c) : c \in result'}, all |-> complete'])
      BY <1>2, <3>1, CollectAnswers
    <3>3. Oracle!Reply
      BY <2>1, <2>3, <3>2 DEF Oracle!Reply
    <3> QED BY <3>3 DEF Oracle!PricingStep
  <2> QED BY <2>2, <2>3
<1>3. ~ \E l \in waiting : InjectWarmLabel(l)
  BY DEF LoneSession, Basics
<1>4. CASE SessionOver \/ UNCHANGED svars
  <2>1. UNCHANGED <<kept, red, opt, phase, plain, result, complete>>
    BY <1>4 DEF SessionOver, svars, vars, graph
  <2> QED BY <2>1, OracleWaits
<1> QED BY <1>1, <1>2, <1>3, <1>4 DEF SessionNext

\* A session begins as the oracle does.
LEMMA SessionStarts ==
  ASSUME SessionInit
  PROVE  Oracle!Start /\ Listing
<1>1. phase = "ready" /\ kept = Paths /\ red \in CostVectors /\ opt.stage \in Stages
      /\ opt.theta \in Thetas /\ completion["bw"] = NoBounds
  BY DEF SessionInit, Init, Dir
<1> QED BY <1>1 DEF Oracle!Start, Oracle!NoAnswer, Listing

\* A mono-directional session is the oracle over the feasible paths, to its caller:
\* whatever sequence of update_arc_costs, set_stage, set_theta, build, eliminate_arcs,
\* eliminate_arcs_label_based, reset_elimination and solve came before, what solve()
\* returns are feasible paths below theta, for an exact solve one as cheap as any that was
\* not given up, and for an enumeration that calls itself complete all of these.
THEOREM MonoSessionsArePriced ==
  ASSUME PackLawful, BoundsReach, Careful
  PROVE  SessionSpec /\ opt.mode = "mono" /\ []Unstopped => ImplementsOracle
<1> DEFINE I == OptionType /\ LoneSession /\ Owed /\ Listing /\ opt.mode = "mono"
<1>1. SessionInit /\ opt.mode = "mono" => I
  BY SessionBegins, SessionStarts DEF SessionInit, Init, Owed
<1>2. Unstopped /\ I /\ [SessionNext]_svars => I'
  <2> SUFFICES ASSUME Unstopped, I, [SessionNext]_svars PROVE I'
    OBVIOUS
  <2>1. OptionType' /\ LoneSession' /\ Owed' /\ Listing'
    BY SessionStays, OwedStays, ListingStays
  <2>2. opt'.mode = "mono"
    BY ModeStays
  <2> QED BY <2>1, <2>2
<1>3. Unstopped /\ I /\ [SessionNext]_svars => [Oracle!PricingStep]_(Oracle!pricing)
  BY StepsArePriced
<1>4. SessionInit => Oracle!Start
  BY SessionStarts
<1> QED BY <1>1, <1>2, <1>3, <1>4, PTL DEF SessionSpec, ImplementsOracle, Oracle!PricingSpec

\* For the ng-path resource, with any neighbourhoods, and for the empty pack, nothing
\* has to be supposed of the pack: eliminate_arcs, the jump arcs and solve() together
\* keep what a session promises.
THEOREM LibraryPacksArePriced ==
  ASSUME PackIsNg \/ PackIsNone, BoundsReach, Careful
  PROVE  /\ SessionSpec /\ []Unstopped => [](opt.mode = "mono" => FindsKept)
         /\ SessionSpec /\ opt.mode = "mono" /\ []Unstopped => ImplementsOracle
<1>1. PackLawful
  BY LibraryPacksQualify
<1>2. SessionSpec /\ []Unstopped => [](opt.mode = "mono" => FindsKept)
  BY <1>1, KeptPathsAreFound
<1>3. SessionSpec /\ opt.mode = "mono" /\ []Unstopped => ImplementsOracle
  BY <1>1, MonoSessionsArePriced
<1> QED BY <1>2, <1>3

=============================================================================
