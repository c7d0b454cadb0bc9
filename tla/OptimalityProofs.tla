-------------------------- MODULE OptimalityProofs --------------------------
(***************************************************************************)
(* Proofs about a solve, for every problem instance, bucket grid, resource *)
(* pack, mode, stage and threshold: the state is well typed, the stored     *)
(* labels are sound and so are the returned paths.                         *)
(*                                                                         *)
(* Then that a solve loses nothing it should keep and returns nothing but   *)
(* paths. First what the definitions of module Walks say of a walk that is  *)
(* one arc longer. Then: components are closed when they are finished; in a *)
(* mono-directional exact solve that no cap stops, every feasible partial   *)
(* path stays represented by a label that is as good, so that a path of     *)
(* least reduced cost is returned; whatever is returned, in any mode, is a  *)
(* feasible path. The library's packs keep what the theorems suppose.       *)
(***************************************************************************)
EXTENDS LabelingProps, BucketGridProofs, PackProofs

-----------------------------------------------------------------------------
\* Raising resources to those of a jump bucket leaves no more than before.
LEMMA BoostedType ==
  ASSUME NEW d \in Dir, NEW q \in [Res -> Int], NEW b \in Bucket
  PROVE  Boosted(d, q, b) \in [Res -> Int] /\ AtLeastAsGood(d, q, Boosted(d, q, b))
BY CornerType DEF Boosted, AtLeastAsGood, Larger, Smaller

\* The resources of a child are no better than the arc alone would make them.
LEMMA ExtendQType ==
  ASSUME NEW d \in Dir, NEW n \in Node, NEW e \in [arc : Arc, at : Bucket]
  PROVE  /\ ExtendQ(d, n, e) \in [Res -> Int]
         /\ AtLeastAsGood(d, Advance(d, n.q, e.arc), ExtendQ(d, n, e))
<1>1. n.q \in [Res -> Int] /\ e.arc \in Arc /\ e.at \in Bucket
  BY DEF Node
<1>2. CASE e.at = BucketOf(n.v, n.q)
  <2>1. ExtendQ(d, n, e) = Advance(d, n.q, e.arc)
    BY <1>2 DEF ExtendQ
  <2>2. AtLeastAsGood(d, Advance(d, n.q, e.arc), Advance(d, n.q, e.arc))
    BY <1>1, AdvanceType DEF AtLeastAsGood
  <2> QED BY <1>1, <2>1, <2>2, AdvanceType
<1>3. CASE e.at # BucketOf(n.v, n.q)
  <2>1. ExtendQ(d, n, e) = Advance(d, Boosted(d, n.q, e.at), e.arc)
    BY <1>3 DEF ExtendQ
  <2> QED BY <1>1, <2>1, BoostedType, AdvanceType, AdvanceMonotone
<1> QED BY <1>2, <1>3

-----------------------------------------------------------------------------
\* Labels as chains of nodes.
LEMMA LabelNodes ==
  ASSUME NEW l \in Label
  PROVE  /\ Len(l) \in Nat \ {0} /\ This(l) \in Node
         /\ \A i \in 1..Len(l) : l[i] \in Node
<1>1. l \in Seq(Node) /\ l # <<>>
  BY DEF Label
<1>2. Len(l) \in Nat \ {0}
  BY <1>1
<1>3. \A i \in 1..Len(l) : l[i] \in Node
  BY <1>1
<1>4. Len(l) \in 1..Len(l)
  BY <1>2
<1> QED BY <1>2, <1>3, <1>4 DEF This

\* The initial label is a sound label.
LEMMA InitialLabelType ==
  ASSUME NEW d \in Dir
  PROVE  InitialLabel(d) \in Label /\ SoundLabel(d, InitialLabel(d))
<1> DEFINE at == ToVertex(d, InitState(d), Origin(d))
           n == [v |-> Origin(d),
                 q |-> [r \in Res |-> IF d = "fw" THEN Lb[Source][r] ELSE Ub[Sink][r]],
                 cost |-> at.cost, real |-> 0, st |-> at.st, arc |-> NoArc]
<1>1. Source \in Vertex /\ Sink \in Vertex /\ Origin(d) \in Vertex
  BY ProblemAssumption DEF Origin
<1>2. at \in [st : PackState, cost : Int]
  BY <1>1, PackAssumption
<1>3. [r \in Res |-> IF d = "fw" THEN Lb[Source][r] ELSE Ub[Sink][r]] \in [Res -> Int]
  BY <1>1, TableType
<1>4. n \in Node
  BY <1>1, <1>2, <1>3 DEF Node
<1>5. InitialLabel(d) = <<n>>
  BY DEF InitialLabel
<1> HIDE DEF n
<1>6. <<n>> \in Label /\ Len(<<n>>) = 1 /\ <<n>>[1] = n
  BY <1>4 DEF Label
<1> QED BY <1>5, <1>6 DEF SoundLabel

\* A sound label with a sound step appended is a sound label.
LEMMA LabelAppend ==
  ASSUME NEW d \in Dir, NEW l \in Label, NEW n \in Node,
         SoundLabel(d, l), SoundStep(d, This(l), n)
  PROVE  /\ Append(l, n) \in Label /\ This(Append(l, n)) = n
         /\ SoundLabel(d, Append(l, n))
<1>1. Len(l) \in Nat \ {0} /\ l \in Seq(Node)
  BY LabelNodes DEF Label
<1>2. /\ Append(l, n) \in Seq(Node) /\ Len(Append(l, n)) = Len(l) + 1
      /\ \A i \in 1..Len(l) : Append(l, n)[i] = l[i]
      /\ Append(l, n)[Len(l) + 1] = n
  BY <1>1
<1>3. Append(l, n) \in Label
  BY <1>1, <1>2 DEF Label
<1>4. <<Append(l, n)[1]>> = InitialLabel(d)
  BY <1>1, <1>2 DEF SoundLabel
<1>5. ASSUME NEW i \in 1..Len(Append(l, n)) - 1
      PROVE  SoundStep(d, Append(l, n)[i], Append(l, n)[i + 1])
  <2>1. CASE i = Len(l)
    <3>1. Append(l, n)[i] = This(l) /\ Append(l, n)[i + 1] = n
      BY <1>1, <1>2, <2>1 DEF This
    <3> QED BY <3>1
  <2>2. CASE i # Len(l)
    <3>1. i \in 1..Len(l) - 1 /\ i \in 1..Len(l) /\ i + 1 \in 1..Len(l)
      BY <1>1, <1>2, <2>2
    <3>2. Append(l, n)[i] = l[i] /\ Append(l, n)[i + 1] = l[i + 1]
      BY <1>2, <3>1
    <3>3. SoundStep(d, l[i], l[i + 1])
      BY <3>1 DEF SoundLabel
    <3> QED BY <3>2, <3>3
  <2> QED BY <2>1, <2>2
<1> QED BY <1>2, <1>3, <1>4, <1>5 DEF This, SoundLabel

\* A child is a node at the far end of its arc.
LEMMA ExtendType ==
  ASSUME NEW d \in Dir, NEW n \in Node, NEW e \in [arc : Arc, at : Bucket],
         inl \in [Arc -> Int], jinl \in [Arc -> Int]
  PROVE  /\ Extend(d, n, e) \in Node
         /\ Extend(d, n, e).v = Ahead(d, e.arc)
<1> DEFINE along == AlongArc(d, n.st, e.arc)
           at    == ToVertex(d, along.st, Ahead(d, e.arc))
           price == IF e.at = BucketOf(n.v, n.q) THEN inl[e.arc] ELSE jinl[e.arc]
<1>1. e.arc \in Arc /\ n.st \in PackState /\ n.cost \in Int /\ n.real \in Int
  BY DEF Node
<1>2. along \in [st : PackState, cost : Int]
  BY <1>1, PackAssumption
<1>3. Ahead(d, e.arc) \in Vertex
  BY <1>1, AheadType
<1>4. at \in [st : PackState, cost : Int]
  BY <1>2, <1>3, PackAssumption
<1>5. price \in Int /\ BaseCost[e.arc] \in Int
  BY <1>1, TableType
<1>6. ExtendQ(d, n, e) \in [Res -> Int]
  BY ExtendQType
<1>7. Extend(d, n, e) = [v |-> Ahead(d, e.arc), q |-> ExtendQ(d, n, e),
                         cost |-> n.cost + price + along.cost + at.cost,
                         real |-> n.real + BaseCost[e.arc],
                         st |-> at.st, arc |-> e.arc]
  BY DEF Extend
<1> HIDE DEF along, at, price
<1> QED BY <1>1, <1>2, <1>3, <1>4, <1>5, <1>6, <1>7 DEF Node

\* One extension is a sound step when the inlined costs are the reduced ones.
LEMMA ExtendIsSound ==
  ASSUME NEW d \in Dir, NEW n \in Node, NEW e \in [arc : Arc, at : Bucket],
         red \in [Arc -> Int], inl = red, jinl = red,
         e.arc \in ArcsAt(d, n.v), ExtendFeasible(d, n, e)
  PROVE  SoundStep(d, n, Extend(d, n, e))
<1> DEFINE along == AlongArc(d, n.st, e.arc)
           at    == ToVertex(d, along.st, Ahead(d, e.arc))
           x     == Extend(d, n, e)
<1>1. /\ x.v = Ahead(d, e.arc) /\ x.arc = e.arc /\ x.q = ExtendQ(d, n, e)
      /\ x.cost = n.cost + red[e.arc] + along.cost + at.cost
      /\ x.real = n.real + BaseCost[e.arc] /\ x.st = at.st
  BY DEF Extend
<1>2. /\ InWindow(d, Ahead(d, e.arc), ExtendQ(d, n, e))
      /\ along.cost < Inf /\ at.cost < Inf
  BY DEF ExtendFeasible
<1>3. AtLeastAsGood(d, Advance(d, n.q, e.arc), ExtendQ(d, n, e))
  BY ExtendQType
<1> HIDE DEF x
<1>4. SoundStep(d, n, x)
  BY <1>1, <1>2, <1>3 DEF SoundStep
<1> QED BY <1>4 DEF x

-----------------------------------------------------------------------------
\* The values that actions compute have the right types.
LEMMA CompletionBoundsDomain ==
  ASSUME NEW d, NEW have, NEW cost
  PROVE  DOMAIN CompletionBounds(d, have, cost) = Bucket
BY DEF CompletionBounds, Propagate

\* The counters a solve starts with are natural numbers.
LEMMA SeedCountType ==
  ASSUME NEW d \in Dir
  PROVE  SeedCount(d) \in [scc : Nat, all : Nat, enum : Nat, sink : Nat]
BY DEF SeedCount, NoCount

\* Counting an inserted label keeps the counters natural numbers.
LEMMA CountedType ==
  ASSUME NEW d \in Dir, NEW n,
         count \in [Dir -> [scc : Nat, all : Nat, enum : Nat, sink : Nat]]
  PROVE  Counted(d, n) \in [scc : Nat, all : Nat, enum : Nat, sink : Nat]
<1> DEFINE c == count[d]
<1>1. c \in [scc : Nat, all : Nat, enum : Nat, sink : Nat]
  OBVIOUS
<1>2. c.scc \in Nat /\ c.all \in Nat /\ c.enum \in Nat /\ c.sink \in Nat
  BY <1>1
<1> HIDE DEF c
<1> QED BY <1>2 DEF Counted, c

\* The ends of the range of the first resource are integers.
LEMMA RangeType == MinLb \in Int /\ MaxUb \in Int
<1>1. {Lb[v][1] : v \in Vertex} \subseteq Int /\ {-Ub[v][1] : v \in Vertex} \subseteq Int
  BY TableType, ResType
<1>2. /\ Least({Lb[v][1] : v \in Vertex}) \in Int
      /\ Least({-Ub[v][1] : v \in Vertex}) \in Int
  BY <1>1, LeastType
<1> QED BY <1>2 DEF MinLb, MaxUb

\* The adjusted midpoint is an integer.
LEMMA AdjustedMidType ==
  ASSUME mid \in Int, count \in [Dir -> [scc : Nat, all : Nat, enum : Nat, sink : Nat]]
  PROVE  AdjustedMid \in Int
<1>1. (mid - MidScale * MinLb) \div 20 \in Int /\ (MidScale * MaxUb - mid) \div 20 \in Int
  BY RangeType DEF MidScale
<1> QED BY <1>1 DEF AdjustedMid

\* The bounds that update_c_best and recompute_bw_c_best set are integers.
LEMMA BestType ==
  ASSUME NEW d \in Dir, NEW kept \in SUBSET Label, cbest \in [Dir -> [Bucket -> Int]]
  PROVE  BestOf(d, kept) \in [Bucket -> Int] /\ BwBestOf(kept) \in [Bucket -> Int]
<1>1. \A l \in kept : This(l).cost \in Int
  BY LabelNodes DEF Node
<1>2. \A b \in Bucket : cbest[d][b] \in Int
  OBVIOUS
<1>3. ASSUME NEW b \in Bucket
      PROVE  BestOf(d, kept)[b] \in Int
  <2> DEFINE own   == {This(l).cost : l \in {x \in kept : /\ UpTo(d, Where(x), b)
                                                         /\ Where(x) \in scc[d]}}
             other == {cbest[d][c] : c \in {x \in BucketsAt(b[1]) \ scc[d] : UpTo(d, x, b)}}
  <2>1. own \subseteq Int
    BY <1>1
  <2>2. BucketsAt(b[1]) \subseteq Bucket
    BY BucketType DEF Bucket
  <2>3. other \subseteq Int
    BY <1>2, <2>2
  <2>4. Least(own \cup other) \in Int
    BY <2>1, <2>3, LeastType
  <2>5. BestOf(d, kept)[b] = IF b \notin scc[d] THEN cbest[d][b] ELSE Least(own \cup other)
    BY DEF BestOf
  <2> HIDE DEF own, other
  <2> QED BY <1>2, <2>4, <2>5
<1>4. ASSUME NEW b \in Bucket
      PROVE  BwBestOf(kept)[b] \in Int
  <2>1. {This(l).cost : l \in {x \in kept : UpTo("bw", Where(x), b)}} \subseteq Int
    BY <1>1
  <2> QED BY <2>1, LeastType DEF BwBestOf
<1>5. DOMAIN BestOf(d, kept) = Bucket /\ DOMAIN BwBestOf(kept) = Bucket
  BY DEF BestOf, BwBestOf
<1>6. /\ BestOf(d, kept) = [b \in Bucket |-> BestOf(d, kept)[b]]
      /\ BwBestOf(kept) = [b \in Bucket |-> BwBestOf(kept)[b]]
  BY DEF BestOf, BwBestOf
<1> QED BY <1>3, <1>4, <1>6

-----------------------------------------------------------------------------
LEMMA InitIsInductive == Init => Inductive
<1> SUFFICES ASSUME Init PROVE Inductive
  OBVIOUS
<1>1. TypeOK
  <2>1. SolveType
    <3>1. opt \in [mode : Modes, stage : Stages, theta : Thetas]
      BY DEF Init
    <3>2. mid \in Int
      BY DEF Init
    <3>3. midSet \in BOOLEAN /\ complete \in BOOLEAN /\ phase = "ready"
      BY DEF Init
    <3> QED BY <3>1, <3>2, <3>3 DEF SolveType
  <2>2. GraphType
    <3>1. red \in [Arc -> Int]
      BY OptionAssumption DEF Init
    <3>2. BaseCost \in [Arc -> Int]
      BY ProblemAssumption
    <3> QED BY <3>1, <3>2, BuiltArcsType DEF Init, GraphType
  <2>3. LabelType
    BY DEF Init, LabelType
  <2>4. SearchType
    <3>1. NoCount \in [scc : Nat, all : Nat, enum : Nat, sink : Nat]
      BY DEF NoCount
    <3>2. NoBounds \in [Bucket -> Int] /\ DOMAIN NoBounds = Bucket
      BY ProblemAssumption DEF NoBounds
    <3>3. /\ todo = [d \in Dir |-> {}] /\ scc = [d \in Dir |-> {}]
          /\ sweep = [d \in Dir |-> {}] /\ finished = [d \in Dir |-> {}]
      BY DEF Init
    <3>4. /\ count = [d \in Dir |-> NoCount] /\ cbest = [d \in Dir |-> NoBounds]
          /\ completion = [d \in Dir |-> NoBounds]
      BY DEF Init
    <3> QED BY <3>1, <3>2, <3>3, <3>4 DEF SearchType
  <2> QED BY <2>1, <2>2, <2>3, <2>4 DEF Init, TypeOK
<1>2. GraphOK
  BY BuiltArcsType DEF Init, GraphOK
<1>3. SearchOK
  BY DEF Init, SearchOK
<1>4. LabelsAreSound /\ ResultsAreSound
  BY DEF Init, LabelsAreSound, ResultsAreSound
<1> QED BY <1>1, <1>2, <1>3, <1>4 DEF Inductive

-----------------------------------------------------------------------------
\* Soundness of a label depends on no variable but the reduced costs.
LEMMA SoundLabelStable ==
  ASSUME red' = red, NEW d, NEW l
  PROVE  SoundLabel(d, l)' <=> SoundLabel(d, l)
BY DEF SoundLabel, SoundStep

\* Results stay sound while theta, the costs and the results do not change.
LEMMA ResultsStaySound ==
  ASSUME ResultsAreSound, UNCHANGED <<opt, red, result>>
  PROVE  ResultsAreSound'
BY DEF ResultsAreSound, SoundCandidate, SoundLabel, SoundStep, Join

\* What a step of a labeling thread leaves alone.
LEMMA Frame ==
  ASSUME Inductive, phase = "label",
         UNCHANGED <<phase, opt, graph, mid, midSet, result>>, complete' \in BOOLEAN
  PROVE  /\ SolveType' /\ GraphType' /\ GraphOK'
         /\ result' \subseteq Candidate /\ ResultsAreSound'
<1>1. /\ SolveType /\ GraphType /\ GraphOK
      /\ result \subseteq Candidate /\ ResultsAreSound
  BY DEF Inductive, TypeOK
<1>2. SolveType'
  BY <1>1 DEF SolveType
<1>3. GraphType'
  BY <1>1 DEF GraphType, graph
<1>4. GraphOK'
  BY <1>1 DEF GraphOK, graph
<1>5. ResultsAreSound'
  BY <1>1, ResultsStaySound DEF graph
<1> QED BY <1>1, <1>2, <1>3, <1>4, <1>5

\* Taking up a component keeps the invariant.
LEMMA StartSccStep ==
  ASSUME Inductive, NEW d \in Dir, NEW s \in Sccs[d], StartScc(d, s)
  PROVE  Inductive'
<1>1. LabelType /\ SearchType /\ SearchOK /\ LabelsAreSound /\ SolveType
  BY DEF Inductive, TypeOK
<1>2. /\ SolveType' /\ GraphType' /\ GraphOK'
      /\ result' \subseteq Candidate /\ ResultsAreSound'
  BY <1>1, Frame DEF StartScc, Running, SolveType
<1>3. LabelType'
  BY <1>1 DEF StartScc, LabelType
<1>4. SearchType'
  <2>1. s \subseteq Bucket
    BY DEF Sccs, Scc
  <2>2. scc' \in [Dir -> SUBSET Bucket]
    BY <1>1, <2>1 DEF StartScc, SearchType
  <2>3. sweep' \in [Dir -> SUBSET Bucket]
    BY <1>1 DEF StartScc, SearchType
  <2>4. count' \in [Dir -> [scc : Nat, all : Nat, enum : Nat, sink : Nat]]
    BY <1>1 DEF StartScc, SearchType
  <2> QED BY <1>1, <2>2, <2>3, <2>4 DEF StartScc, SearchType
<1>5. SearchOK'
  BY <1>1 DEF StartScc, Running, SearchOK, SearchType, Directions
<1>6. LabelsAreSound'
  BY <1>1, SoundLabelStable DEF StartScc, LabelsAreSound, graph
<1> QED BY <1>2, <1>3, <1>4, <1>5, <1>6 DEF Inductive, TypeOK

\* Dropping, pruning and opening a label change its flags at most.
LEMMA VisitStep ==
  ASSUME Inductive, NEW d \in Dir, NEW l \in labels[d],
         DropDominated(d, l) \/ PruneHopeless(d, l) \/ OpenLabel(d, l)
  PROVE  Inductive'
<1>1. LabelType /\ SearchType /\ SearchOK /\ LabelsAreSound /\ SolveType /\ GraphOK
      /\ GraphType
  BY DEF Inductive, TypeOK
<1>2. /\ phase = "label" /\ d \in Directions /\ scc[d] # {} /\ cur[d] = <<>>
      /\ Where(l) \in scc[d] /\ sweep' = [sweep EXCEPT ![d] = {Where(l)}]
      /\ UNCHANGED <<phase, opt, graph, mid, midSet, labels, scc, finished, count,
                     cbest, completion, complete, result>>
  BY DEF DropDominated, PruneHopeless, OpenLabel, Visit, Running, Pending
<1>3. /\ SolveType' /\ GraphType' /\ GraphOK'
      /\ result' \subseteq Candidate /\ ResultsAreSound'
  BY <1>1, <1>2, Frame DEF SolveType
<1>4. Where(l) \in Bucket /\ Where(l)[1] = This(l).v
  BY <1>1, <1>2 DEF SearchType, Where, BucketOf
<1>5. Extensions(d, Where(l)) \subseteq [arc : Arc, at : Bucket]
  BY <1>1, <1>4 DEF Extensions, GraphType
<1>6. \A e \in Extensions(d, Where(l)) : e.arc \in ArcsAt(d, This(l).v)
  BY <1>1, <1>4 DEF Extensions, GraphOK
<1>7. LabelsAreSound'
  BY <1>1, <1>2, SoundLabelStable DEF LabelsAreSound, graph
<1>8. sweep' \in [Dir -> SUBSET Bucket]
  BY <1>1, <1>2, <1>4 DEF SearchType
<1>9. CASE DropDominated(d, l)
  <2>1. LabelType'
    BY <1>1, <1>9 DEF DropDominated, LabelType
  <2>2. SearchType'
    BY <1>1, <1>8, <1>9 DEF DropDominated, SearchType
  <2>3. SearchOK'
    BY <1>1, <1>9 DEF DropDominated, SearchOK, Directions
  <2> QED BY <1>3, <1>7, <2>1, <2>2, <2>3 DEF Inductive, TypeOK
<1>10. CASE PruneHopeless(d, l)
  <2>1. LabelType'
    BY <1>1, <1>10 DEF PruneHopeless, LabelType
  <2>2. SearchType'
    BY <1>1, <1>8, <1>10 DEF PruneHopeless, SearchType
  <2>3. SearchOK'
    BY <1>1, <1>10 DEF PruneHopeless, SearchOK, Directions
  <2> QED BY <1>3, <1>7, <2>1, <2>2, <2>3 DEF Inductive, TypeOK
<1>11. CASE OpenLabel(d, l)
  <2> DEFINE more == Extensions(d, Where(l))
  <2>1. /\ cur' = [cur EXCEPT ![d] = IF more = {} THEN <<>> ELSE l]
        /\ todo' = [todo EXCEPT ![d] = more]
        /\ extended' = [extended EXCEPT ![d] = IF more = {} THEN @ \cup {l} ELSE @]
        /\ dominated' = dominated
    BY <1>11 DEF OpenLabel
  <2> HIDE DEF more
  <2>2. LabelType'
    BY <1>1, <1>2, <2>1 DEF LabelType
  <2>3. SearchType'
    <3>1. todo' \in [Dir -> SUBSET [arc : Arc, at : Bucket]]
      BY <1>1, <1>5, <2>1 DEF SearchType, more
    <3> QED BY <1>1, <1>2, <1>8, <3>1 DEF SearchType
  <2>4. SearchOK'
    <3> SUFFICES ASSUME NEW c \in Dir
                 PROVE  /\ scc[c] # {} => /\ phase = "label" /\ c \in Directions
                                          /\ scc[c] \in Sccs[c] \ finished[c]
                        /\ scc[c] = {} => cur'[c] = <<>>
                        /\ cur'[c] = <<>> => todo'[c] = {}
                        /\ \A e \in todo'[c] : e.arc \in ArcsAt(c, This(cur'[c]).v)
      BY <1>2 DEF SearchOK, Directions
    <3>1. CASE c = d
      <4>1. /\ cur'[c] = IF more = {} THEN <<>> ELSE l
            /\ todo'[c] = more
        BY <1>1, <2>1, <3>1 DEF LabelType, SearchType
      <4>2. l # <<>>
        BY <1>1 DEF LabelType, Label
      <4> QED BY <1>1, <1>2, <1>6, <3>1, <4>1, <4>2 DEF SearchOK, more
    <3>2. CASE c # d
      <4>1. cur'[c] = cur[c] /\ todo'[c] = todo[c]
        BY <1>1, <2>1, <3>2 DEF LabelType, SearchType
      <4> QED BY <1>1, <4>1 DEF SearchOK
    <3> QED BY <3>1, <3>2
  <2> QED BY <1>3, <1>7, <2>2, <2>3, <2>4 DEF Inductive, TypeOK
<1> QED BY <1>9, <1>10, <1>11

\* Extending the open label along one arc, with the insertion of the child and
\* what it drops or overwrites, keeps the invariant.
LEMMA ExtendArcStep ==
  ASSUME Inductive, NEW d \in Dir, NEW e \in todo[d], ExtendArc(d, e)
  PROVE  Inductive'
<1> DEFINE n    == Extend(d, This(cur[d]), e)
           gone == Replaced(d, n)
           done == IF todo[d] = {e} THEN {cur[d]} ELSE {}
           new  == Append(cur[d], n)
           kept == /\ ExtendFeasible(d, This(cur[d]), e)
                   /\ Admitted(d, n) /\ Stored(d, n)
<1>1. /\ LabelType /\ SearchType /\ SearchOK /\ LabelsAreSound /\ SolveType /\ GraphOK
      /\ GraphType
  BY DEF Inductive, TypeOK
<1>2. /\ phase = "label" /\ d \in Directions
      /\ todo' = [todo EXCEPT ![d] = @ \ {e}]
      /\ cur' = [cur EXCEPT ![d] = IF todo[d] = {e} THEN <<>> ELSE @]
      /\ UNCHANGED <<phase, opt, graph, mid, midSet, scc, finished, sweep, cbest,
                     completion, complete, result>>
  BY DEF ExtendArc, Running
<1>3. /\ SolveType' /\ GraphType' /\ GraphOK'
      /\ result' \subseteq Candidate /\ ResultsAreSound'
  BY <1>1, <1>2, Frame DEF SolveType
<1>4. \/ /\ kept
         /\ labels' = [labels EXCEPT ![d] = (@ \ gone) \cup {new}]
         /\ dominated' = [dominated EXCEPT ![d] = (@ \ gone) \cup Victims(d, n)]
         /\ extended' = [extended EXCEPT ![d] = (@ \ gone) \cup done]
         /\ count' = [count EXCEPT ![d] = Counted(d, n)]
      \/ /\ extended' = [extended EXCEPT ![d] = @ \cup done]
         /\ UNCHANGED <<labels, dominated, count>>
  BY DEF ExtendArc
\* The open label is a stored and sound one, and its arc leads elsewhere.
<1>5. /\ cur[d] # <<>> /\ cur[d] \in labels[d] /\ cur[d] \in Label
      /\ SoundLabel(d, cur[d]) /\ This(cur[d]) \in Node
      /\ e \in [arc : Arc, at : Bucket] /\ e.arc \in ArcsAt(d, This(cur[d]).v)
  <2>1. cur[d] # <<>> /\ e.arc \in ArcsAt(d, This(cur[d]).v)
    BY <1>1 DEF SearchOK
  <2>2. cur[d] \in labels[d] /\ cur[d] \in Label
    BY <1>1, <2>1 DEF LabelType
  <2>3. e \in [arc : Arc, at : Bucket]
    BY <1>1 DEF SearchType
  <2> QED BY <1>1, <2>1, <2>2, <2>3, LabelNodes DEF LabelsAreSound
<1>6. n \in Node /\ n.v # This(cur[d]).v
  <2>1. inl \in [Arc -> Int] /\ jinl \in [Arc -> Int]
    BY <1>1 DEF GraphType
  <2>2. n \in Node /\ n.v = Ahead(d, e.arc)
    BY <1>5, <2>1, ExtendType
  <2>3. Behind(d, e.arc) = This(cur[d]).v
    BY <1>5 DEF ArcsAt
  <2> QED BY <1>5, <2>2, <2>3, AheadType
<1>7. gone \subseteq labels[d] /\ cur[d] \notin gone
  <2>1. Where(cur[d])[1] = This(cur[d]).v /\ BucketOf(n.v, n.q)[1] = n.v
    BY DEF Where, BucketOf
  <2>2. Where(cur[d]) # BucketOf(n.v, n.q)
    BY <1>6, <2>1
  <2> HIDE DEF n
  <2> QED BY <2>2 DEF Replaced
<1>8. Victims(d, n) \subseteq labels[d] /\ (gone # {} => Victims(d, n) = {})
  <2> HIDE DEF n
  <2>1. Victims(d, n) \subseteq labels[d]
    BY DEF Victims, LiveIn, Live
  <2>2. Replaced(d, n) # {} => Victims(d, n) = {}
    BY DEF Victims, Replaced
  <2> QED BY <2>1, <2>2
<1>9. kept => new \in Label /\ SoundLabel(d, new)
  <2> SUFFICES ASSUME kept PROVE new \in Label /\ SoundLabel(d, new)
    OBVIOUS
  <2>1. red \in [Arc -> Int] /\ inl = red /\ jinl = red
    BY <1>1, <1>2 DEF GraphType, GraphOK
  <2>2. SoundStep(d, This(cur[d]), n)
    BY <1>5, <2>1, ExtendIsSound
  <2> HIDE DEF n
  <2> QED BY <1>5, <1>6, <2>2, LabelAppend
<1> HIDE DEF n, gone, new, kept
<1>10. LabelType'
  <2>1. done \subseteq labels[d] /\ done \subseteq Label
    BY <1>5
  <2> HIDE DEF done
  <2>2. cur'[d] \in {<<>>, cur[d]} /\ \A c \in Dir : c # d => cur'[c] = cur[c]
    BY <1>1, <1>2 DEF LabelType
  <2>3. cur' \in [Dir -> Label \cup {<<>>}]
    BY <1>1, <1>2 DEF LabelType
  <2>4. CASE /\ kept
             /\ labels' = [labels EXCEPT ![d] = (@ \ gone) \cup {new}]
             /\ dominated' = [dominated EXCEPT ![d] = (@ \ gone) \cup Victims(d, n)]
             /\ extended' = [extended EXCEPT ![d] = (@ \ gone) \cup done]
    <3>1. new \in Label
      BY <1>9, <2>4
    <3>2. /\ labels' \in [Dir -> SUBSET Label] /\ dominated' \in [Dir -> SUBSET Label]
          /\ extended' \in [Dir -> SUBSET Label]
      BY <1>1, <1>8, <2>1, <2>4, <3>1 DEF LabelType
    <3>3. ASSUME NEW c \in Dir
          PROVE  /\ extended'[c] \subseteq labels'[c]
                 /\ dominated'[c] \subseteq labels'[c]
                 /\ cur'[c] # <<>> => cur'[c] \in labels'[c]
      <4>1. CASE c = d
        <5>1. /\ labels'[d] = (labels[d] \ gone) \cup {new}
              /\ dominated'[d] = (dominated[d] \ gone) \cup Victims(d, n)
              /\ extended'[d] = (extended[d] \ gone) \cup done
          BY <1>1, <2>4 DEF LabelType
        <5>2. extended[d] \subseteq labels[d] /\ dominated[d] \subseteq labels[d]
          BY <1>1 DEF LabelType
        <5>3. done \cap gone = {}
          BY <1>7 DEF done
        <5>4. Victims(d, n) \cap gone = {}
          BY <1>8
        <5> QED BY <1>5, <1>7, <1>8, <2>1, <2>2, <4>1, <5>1, <5>2, <5>3, <5>4
      <4>2. CASE c # d
        <5>1. /\ labels'[c] = labels[c] /\ dominated'[c] = dominated[c]
              /\ extended'[c] = extended[c] /\ cur'[c] = cur[c]
          BY <1>1, <2>2, <2>4, <4>2 DEF LabelType
        <5> QED BY <1>1, <5>1 DEF LabelType
      <4> QED BY <4>1, <4>2
    <3> QED BY <2>3, <3>2, <3>3 DEF LabelType
  <2>5. CASE /\ extended' = [extended EXCEPT ![d] = @ \cup done]
             /\ UNCHANGED <<labels, dominated>>
    BY <1>1, <1>5, <2>1, <2>2, <2>3, <2>5 DEF LabelType
  <2> QED BY <1>4, <2>4, <2>5
<1>11. SearchType'
  <2>1. todo' \in [Dir -> SUBSET [arc : Arc, at : Bucket]]
    BY <1>1, <1>2 DEF SearchType
  <2>2. count' \in [Dir -> [scc : Nat, all : Nat, enum : Nat, sink : Nat]]
    <3>1. count \in [Dir -> [scc : Nat, all : Nat, enum : Nat, sink : Nat]]
      BY <1>1 DEF SearchType
    <3>2. Counted(d, n) \in [scc : Nat, all : Nat, enum : Nat, sink : Nat]
      BY <3>1, CountedType
    <3>3. count' = count \/ count' = [count EXCEPT ![d] = Counted(d, n)]
      BY <1>4
    <3> QED BY <3>1, <3>2, <3>3
  <2> QED BY <1>1, <1>2, <2>1, <2>2 DEF SearchType
<1>12. SearchOK'
  <2>1. ASSUME NEW c \in Dir
        PROVE  /\ scc[c] = {} => cur'[c] = <<>>
               /\ cur'[c] = <<>> => todo'[c] = {}
               /\ \A x \in todo'[c] : x.arc \in ArcsAt(c, This(cur'[c]).v)
    <3>1. CASE c = d
      <4>1. /\ cur'[d] = IF todo[d] = {e} THEN <<>> ELSE cur[d]
            /\ todo'[d] = todo[d] \ {e}
        BY <1>1, <1>2 DEF LabelType, SearchType
      <4> QED BY <1>1, <1>5, <3>1, <4>1 DEF SearchOK
    <3>2. CASE c # d
      <4>1. cur'[c] = cur[c] /\ todo'[c] = todo[c]
        BY <1>1, <1>2, <3>2 DEF LabelType, SearchType
      <4> QED BY <1>1, <4>1 DEF SearchOK
    <3> QED BY <3>1, <3>2
  <2>2. \A c \in Dir : scc[c] # {} => /\ phase = "label" /\ c \in Directions
                                      /\ scc[c] \in Sccs[c] \ finished[c]
    BY <1>1 DEF SearchOK
  <2> QED BY <1>2, <2>1, <2>2 DEF SearchOK, Directions
<1>13. LabelsAreSound'
  <2>1. red' = red
    BY <1>2 DEF graph
  <2>2. ASSUME NEW c \in Dir, NEW l \in labels'[c]
        PROVE  SoundLabel(c, l)
    <3>1. l \in labels[c] \/ (kept /\ c = d /\ l = new)
      BY <1>1, <1>4 DEF LabelType
    <3> QED BY <1>1, <1>9, <3>1 DEF LabelsAreSound
  <2> QED BY <2>1, <2>2, SoundLabelStable DEF LabelsAreSound
<1> QED BY <1>3, <1>10, <1>11, <1>12, <1>13 DEF Inductive, TypeOK

\* Compacting a component and updating its bounds keeps the invariant.
LEMMA FinishSccStep ==
  ASSUME Inductive, NEW d \in Dir, FinishScc(d)
  PROVE  Inductive'
<1> DEFINE gone == {l \in dominated[d] : Where(l) \in scc[d]}
<1>1. /\ LabelType /\ SearchType /\ SearchOK /\ LabelsAreSound /\ SolveType /\ GraphOK
      /\ GraphType
  BY DEF Inductive, TypeOK
<1>2. /\ phase = "label" /\ cur[d] = <<>>
      /\ labels' = [labels EXCEPT ![d] = @ \ gone]
      /\ dominated' = [dominated EXCEPT ![d] = @ \ gone]
      /\ extended' = [extended EXCEPT ![d] = @ \ gone]
      /\ cbest' = [cbest EXCEPT ![d] = BestOf(d, labels[d] \ gone)]
      /\ finished' = [finished EXCEPT ![d] = @ \cup {scc[d]}]
      /\ scc' = [scc EXCEPT ![d] = {}]
      /\ UNCHANGED <<phase, opt, graph, mid, midSet, cur, todo, sweep, count,
                     completion, result>>
  BY DEF FinishScc, Running
<1>3. complete' \in BOOLEAN
  BY DEF FinishScc
<1>4. /\ SolveType' /\ GraphType' /\ GraphOK'
      /\ result' \subseteq Candidate /\ ResultsAreSound'
  BY <1>2, <1>3, Frame
<1> HIDE DEF gone
<1>5. LabelType'
  BY <1>1, <1>2 DEF LabelType
<1>6. SearchType'
  <2>1. BestOf(d, labels[d] \ gone) \in [Bucket -> Int]
    BY <1>1, BestType DEF LabelType, SearchType
  <2>2. cbest' \in [Dir -> [Bucket -> Int]]
    BY <1>1, <1>2, <2>1 DEF SearchType
  <2>3. finished' \in [Dir -> SUBSET SUBSET Bucket]
    BY <1>1, <1>2 DEF SearchType
  <2>4. scc' \in [Dir -> SUBSET Bucket]
    BY <1>1, <1>2 DEF SearchType
  <2> QED BY <1>1, <1>2, <2>2, <2>3, <2>4 DEF SearchType
<1>7. SearchOK'
  BY <1>1, <1>2 DEF SearchOK, SearchType, Directions
<1>8. LabelsAreSound'
  <2>1. \A c \in Dir : labels'[c] \subseteq labels[c]
    BY <1>1, <1>2 DEF LabelType
  <2> QED BY <1>1, <1>2, <2>1, SoundLabelStable DEF LabelsAreSound, graph
<1> QED BY <1>4, <1>5, <1>6, <1>7, <1>8 DEF Inductive, TypeOK

-----------------------------------------------------------------------------
\* What a solve needs to begin with: its costs are new or are in the graph already.
Prepared ==
  /\ SolveType /\ GraphType /\ SearchType
  /\ \A d \in Dir, b \in Bucket :
       /\ arcs[d][b] \subseteq ArcsAt(d, b[1])
       /\ \A j \in jumps[d][b] : j[1] \in ArcsAt(d, b[1])
  /\ ~dirty => inl = red /\ jinl = red

\* The first solve finds it so.
LEMMA FirstIsPrepared ==
  ASSUME Inductive, phase = "ready"
  PROVE  Prepared
BY DEF Inductive, TypeOK, GraphOK, Prepared

\* The steps of the calling thread.  Whatever an earlier solve has left behind is
\* cleared away.
LEMMA BeginSolveStep ==
  ASSUME Prepared, BeginSolve
  PROVE  Inductive'
<1>1. SolveType /\ GraphType /\ SearchType
  BY DEF Prepared
<1>2. /\ phase = "ready" /\ phase' = "label" /\ dirty' = FALSE
      /\ inl' = red /\ jinl' = red /\ result' = {}
      /\ UNCHANGED <<opt, red, arcs, jumps, fixed>>
  BY DEF BeginSolve, Prepared
<1>3. SolveType'
  <2>1. (MidScale \div 2) * (MinLb + MaxUb) \in Int
    BY RangeType DEF MidScale
  <2>2. mid' \in Int
    BY <1>1, <2>1 DEF BeginSolve, SolveType
  <2>3. midSet' \in BOOLEAN /\ complete' \in BOOLEAN
    BY DEF BeginSolve
  <2> QED BY <1>1, <1>2, <2>2, <2>3 DEF SolveType
<1>4. GraphType' /\ GraphOK'
  <2>1. GraphType'
    BY <1>1, <1>2 DEF GraphType
  <2>2. GraphOK'
    BY <1>2 DEF GraphOK, Prepared
  <2> QED BY <2>1, <2>2
<1>5. /\ labels' = [d \in Dir |-> IF d \in Directions THEN {InitialLabel(d)} ELSE {}]
      /\ extended' = [d \in Dir |-> {}] /\ dominated' = [d \in Dir |-> {}]
      /\ scc' = [d \in Dir |-> {}] /\ finished' = [d \in Dir |-> {}]
      /\ cur' = [d \in Dir |-> <<>>] /\ todo' = [d \in Dir |-> {}]
      /\ sweep' = [d \in Dir |-> {}] /\ count' = [d \in Dir |-> SeedCount(d)]
      /\ cbest' = [d \in Dir |-> NoBounds]
      /\ completion' = [d \in Dir |-> IF UseCompletion /\ d \in Directions
                                     THEN CompletionBounds(d, arcs, inl')
                                     ELSE completion[d]]
  BY DEF BeginSolve
<1>6. LabelType' /\ LabelsAreSound'
  <2>1. \A d \in Dir : labels'[d] \subseteq {InitialLabel(d)}
    BY <1>5
  <2>2. LabelType'
    BY <1>5, <2>1, InitialLabelType DEF LabelType
  <2>3. \A d \in Dir : \A l \in labels'[d] : SoundLabel(d, l)
    BY <2>1, InitialLabelType
  <2>4. LabelsAreSound'
    BY <1>2, <2>3, SoundLabelStable DEF LabelsAreSound
  <2> QED BY <2>2, <2>4
<1>7. SearchType'
  <2>1. count' \in [Dir -> [scc : Nat, all : Nat, enum : Nat, sink : Nat]]
    BY <1>5, SeedCountType
  <2>2. NoBounds \in [Bucket -> Int]
    BY ProblemAssumption DEF NoBounds
  <2>3. DOMAIN completion' = Dir /\ \A d \in Dir : DOMAIN completion'[d] = Bucket
    BY <1>1, <1>5, CompletionBoundsDomain DEF SearchType
  <2> QED BY <1>5, <2>1, <2>2, <2>3 DEF SearchType
<1>8. SearchOK'
  BY <1>5 DEF SearchOK
<1>9. ResultsAreSound' /\ result' \subseteq Candidate
  BY <1>2 DEF ResultsAreSound
<1> QED BY <1>3, <1>4, <1>6, <1>7, <1>8, <1>9 DEF Inductive, TypeOK

\* Joining the threads keeps the invariant.
LEMMA EndLabelingStep ==
  ASSUME Inductive, EndLabeling
  PROVE  Inductive'
<1>1. /\ LabelType /\ SearchType /\ SearchOK /\ LabelsAreSound /\ SolveType /\ GraphOK
      /\ GraphType /\ result \subseteq Candidate /\ ResultsAreSound
  BY DEF Inductive, TypeOK
<1>2. /\ phase = "label" /\ phase' = "post"
      /\ \A d \in Directions : finished[d] = Sccs[d]
      /\ UNCHANGED <<opt, red, inl, jinl, dirty, arcs, jumps, fixed, mid, midSet,
                     labels, extended, dominated, scc, finished, cur, todo, sweep,
                     count, cbest, completion, complete, result>>
  BY DEF EndLabeling, graph, search
<1>3. \A d \in Dir : scc[d] = {}
  BY <1>1, <1>2 DEF SearchOK
<1>4. SolveType' /\ GraphType' /\ LabelType' /\ SearchType'
  BY <1>1, <1>2 DEF SolveType, GraphType, LabelType, SearchType
<1>5. GraphOK'
  BY <1>1, <1>2 DEF GraphOK
<1>6. SearchOK'
  BY <1>1, <1>2, <1>3 DEF SearchOK
<1>7. LabelsAreSound' /\ ResultsAreSound'
  <2>1. LabelsAreSound'
    BY <1>1, <1>2, SoundLabelStable DEF LabelsAreSound
  <2>2. ResultsAreSound'
    BY <1>1, <1>2, ResultsStaySound
  <2> QED BY <2>1, <2>2
<1> QED BY <1>1, <1>2, <1>4, <1>5, <1>6, <1>7 DEF Inductive, TypeOK

\* Removing backward labels after labeling keeps the invariant.
LEMMA PostPassStep ==
  ASSUME Inductive, PostPass
  PROVE  Inductive'
<1> DEFINE kept == {l \in Live("bw") : ~BwIncompatible(l)}
<1>1. /\ LabelType /\ SearchType /\ SearchOK /\ LabelsAreSound /\ SolveType /\ GraphOK
      /\ GraphType /\ result \subseteq Candidate /\ ResultsAreSound
  BY DEF Inductive, TypeOK
<1>2. /\ phase = "post" /\ phase' = "collect"
      /\ UNCHANGED <<opt, red, inl, jinl, dirty, arcs, jumps, fixed, midSet, scc,
                     finished, cur, todo, sweep, count, complete, result>>
  BY DEF PostPass, graph
<1>3. \/ UNCHANGED <<labels, extended, dominated, cbest>>
      \/ /\ labels' = [labels EXCEPT !["bw"] = kept]
         /\ extended' = [extended EXCEPT !["bw"] = @ \cap kept]
         /\ dominated' = [dominated EXCEPT !["bw"] = {}]
         /\ cbest' = [cbest EXCEPT !["bw"] = BwBestOf(kept)]
  BY DEF PostPass
<1>4. kept \subseteq labels["bw"] /\ "bw" \in Dir
  BY DEF Live, Dir
<1> HIDE DEF kept
<1>5. \A d \in Dir : scc[d] = {} /\ cur[d] = <<>> /\ todo[d] = {}
  BY <1>1, <1>2 DEF SearchOK
<1>6. SolveType'
  <2>1. mid' \in Int
    <3>1. mid \in Int /\ count \in [Dir -> [scc : Nat, all : Nat, enum : Nat, sink : Nat]]
      BY <1>1 DEF SolveType, SearchType
    <3> QED BY <3>1, AdjustedMidType DEF PostPass
  <2> QED BY <1>1, <1>2, <2>1 DEF SolveType
<1>7. GraphType' /\ GraphOK'
  BY <1>1, <1>2 DEF GraphType, GraphOK
<1>8. LabelType'
  BY <1>1, <1>2, <1>3, <1>4, <1>5 DEF LabelType
<1>9. SearchType'
  <2>1. cbest' \in [Dir -> [Bucket -> Int]]
    <3>1. cbest \in [Dir -> [Bucket -> Int]] /\ kept \in SUBSET Label
      BY <1>1, <1>4 DEF SearchType, LabelType
    <3>2. BwBestOf(kept) \in [Bucket -> Int]
      BY <1>4, <3>1, BestType
    <3> QED BY <1>3, <3>1, <3>2
  <2>2. DOMAIN completion' = Dir /\ \A d \in Dir : DOMAIN completion'[d] = Bucket
    BY <1>1, CompletionBoundsDomain DEF PostPass, SearchType
  <2> QED BY <1>1, <1>2, <2>1, <2>2 DEF SearchType
<1>10. SearchOK'
  BY <1>2, <1>5 DEF SearchOK
<1>11. LabelsAreSound'
  <2>1. \A d \in Dir : labels'[d] \subseteq labels[d]
    BY <1>1, <1>3, <1>4 DEF LabelType
  <2> QED BY <1>1, <1>2, <2>1, SoundLabelStable DEF LabelsAreSound
<1>12. ResultsAreSound'
  BY <1>1, <1>2, ResultsStaySound
<1> QED BY <1>1, <1>2, <1>6, <1>7, <1>8, <1>9, <1>10, <1>11, <1>12 DEF Inductive, TypeOK

\* What is collected are sound candidates.
LEMMA SinkCandidatesAreSound ==
  ASSUME LabelType, LabelsAreSound, NEW c \in SinkCandidates
  PROVE  c \in Candidate /\ SoundCandidate(c)
<1>1. PICK l \in Live("fw") :
        /\ This(l).v = Sink /\ This(l).cost < opt.theta
        /\ c = [fw |-> l, bw |-> <<>>, arc |-> NoArc, cost |-> This(l).cost,
                real |-> This(l).real]
  BY DEF SinkCandidates
<1>2. l \in Label /\ SoundLabel("fw", l)
  BY DEF Live, LabelType, LabelsAreSound, Dir
<1>3. This(l).cost \in Int /\ This(l).real \in Int
  BY <1>2, LabelNodes DEF Node
<1>4. c \in Candidate
  BY <1>1, <1>2, <1>3 DEF Candidate
<1>5. /\ c.fw = l /\ c.bw = <<>> /\ c.cost = This(l).cost /\ c.real = This(l).real
  BY <1>1
<1> QED BY <1>1, <1>2, <1>4, <1>5 DEF SoundCandidate

\* Joining two labels along an arc makes a candidate.
LEMMA JoinType ==
  ASSUME NEW f \in Label, NEW g \in Label, NEW a \in Arc, red \in [Arc -> Int]
  PROVE  Join(f, a, g) \in Candidate
<1> DEFINE along == AlongArc("fw", This(f).st, a)
           both  == ConcatCost(To[a], along.st, This(g).st)
<1>1. /\ This(f).cost \in Int /\ This(f).real \in Int /\ This(f).st \in PackState
      /\ This(g).cost \in Int /\ This(g).real \in Int /\ This(g).st \in PackState
  BY LabelNodes DEF Node
<1>2. along \in [st : PackState, cost : Int]
  BY <1>1, PackAssumption DEF Dir
<1>3. both \in Int
  BY <1>1, <1>2, TableType, PackAssumption
<1>4. red[a] \in Int /\ BaseCost[a] \in Int
  BY TableType
<1>5. Join(f, a, g) = [fw |-> f, bw |-> g, arc |-> a,
                       cost |-> This(f).cost + red[a] + This(g).cost + along.cost + both,
                       real |-> This(f).real + BaseCost[a] + This(g).real]
  BY DEF Join
<1> HIDE DEF along, both
<1> QED BY <1>1, <1>2, <1>3, <1>4, <1>5 DEF Candidate

\* What the concatenation accepts is put together from sound labels that fit.
LEMMA ConcatCandidatesAreSound ==
  ASSUME LabelType, LabelsAreSound, red \in [Arc -> Int], NEW c \in ConcatCandidates
  PROVE  c \in Candidate /\ SoundCandidate(c)
<1>1. PICK a \in InnerArcs :
        c \in UNION {{Join(f, a, g) : g \in {h \in Live("bw") : Joinable(f, a, h)}} :
                       f \in {h \in Live("fw") : This(h).v = From[a]}}
  BY DEF ConcatCandidates
<1>2. PICK f \in Live("fw") :
        c \in {Join(f, a, g) : g \in {h \in Live("bw") : Joinable(f, a, h)}}
  BY <1>1
<1>3. PICK g \in Live("bw") : Joinable(f, a, g) /\ c = Join(f, a, g)
  BY <1>2
<1>4. /\ a \in Arc /\ f \in Label /\ g \in Label
      /\ SoundLabel("fw", f) /\ SoundLabel("bw", g)
  BY DEF InnerArcs, Live, LabelType, LabelsAreSound, Dir
<1>5. c \in Candidate
  BY <1>3, <1>4, JoinType
<1>6. /\ This(f).v = From[a] /\ This(g).v = To[a]
      /\ AtLeastAsGood("fw", Advance("fw", This(f).q, a), This(g).q)
      /\ c.cost < opt.theta
      /\ AlongArc("fw", This(f).st, a).cost < Inf
      /\ ConcatCost(To[a], AlongArc("fw", This(f).st, a).st, This(g).st) < Inf
  BY <1>3 DEF Joinable
<1>7. c.fw = f /\ c.arc = a /\ c.bw = g /\ c.bw # <<>>
  BY <1>3, <1>4 DEF Join, Label
<1>8. a \in ArcsAt("fw", This(f).v)
  BY <1>4, <1>6 DEF ArcsAt, Behind
<1>9. SoundCandidate(c)
  BY <1>3, <1>4, <1>6, <1>7, <1>8 DEF SoundCandidate
<1> QED BY <1>5, <1>9

\* Selecting among the candidates keeps the invariant.
LEMMA CollectStep ==
  ASSUME Inductive, Collect
  PROVE  Inductive'
<1>1. /\ LabelType /\ SearchType /\ SearchOK /\ LabelsAreSound /\ SolveType /\ GraphOK
      /\ GraphType
  BY DEF Inductive, TypeOK
<1>2. /\ phase = "collect" /\ phase' = "done"
      /\ UNCHANGED <<opt, red, inl, jinl, dirty, arcs, jumps, fixed, mid, midSet,
                     labels, extended, dominated, scc, finished, cur, todo, sweep,
                     count, cbest, completion>>
  BY DEF Collect, graph, search
<1>3. PICK C \in Collected :
        /\ result' \in Selections(C \cup SinkCandidates)
        /\ complete' = (complete /\ ~(Enumerating /\ MaxPaths > 0
                              /\ Cardinality(C \cup SinkCandidates) > MaxPaths))
  BY DEF Collect
<1>4. C \subseteq ConcatCandidates
  BY DEF Collected
<1>5. result' \subseteq C \cup SinkCandidates
  BY <1>3 DEF Selections
<1>6. \A c \in result' : c \in Candidate /\ SoundCandidate(c)
  BY <1>1, <1>4, <1>5, SinkCandidatesAreSound, ConcatCandidatesAreSound DEF GraphType
<1>7. ResultsAreSound'
  BY <1>2, <1>6 DEF ResultsAreSound, SoundCandidate, SoundLabel, SoundStep, Join
<1>8. SolveType'
  <2>1. complete' \in BOOLEAN
    BY <1>3
  <2> QED BY <1>1, <1>2, <2>1 DEF SolveType
<1>9. GraphType' /\ LabelType' /\ SearchType'
  BY <1>1, <1>2 DEF GraphType, LabelType, SearchType
<1>10. GraphOK' /\ SearchOK'
  BY <1>1, <1>2 DEF GraphOK, SearchOK
<1>11. LabelsAreSound'
  BY <1>1, <1>2, SoundLabelStable DEF LabelsAreSound
<1> QED BY <1>6, <1>7, <1>8, <1>9, <1>10, <1>11 DEF Inductive, TypeOK

\* So does a step that changes nothing.
LEMMA StutterStep ==
  ASSUME Inductive, UNCHANGED vars
  PROVE  Inductive'
<1>1. /\ LabelType /\ SearchType /\ SearchOK /\ LabelsAreSound /\ SolveType /\ GraphOK
      /\ GraphType /\ result \subseteq Candidate /\ ResultsAreSound
  BY DEF Inductive, TypeOK
<1>2. UNCHANGED <<phase, opt, red, inl, jinl, dirty, arcs, jumps, fixed, mid, midSet,
                  labels, extended, dominated, scc, finished, cur, todo, sweep,
                  count, cbest, completion, complete, result>>
  BY DEF vars, graph, search
<1>3. SolveType' /\ GraphType' /\ LabelType' /\ SearchType'
  BY <1>1, <1>2 DEF SolveType, GraphType, LabelType, SearchType
<1>4. GraphOK' /\ SearchOK'
  BY <1>1, <1>2 DEF GraphOK, SearchOK, Directions
<1>5. LabelsAreSound' /\ ResultsAreSound'
  <2>1. LabelsAreSound'
    BY <1>1, <1>2, SoundLabelStable DEF LabelsAreSound
  <2>2. ResultsAreSound'
    BY <1>1, <1>2, ResultsStaySound
  <2> QED BY <2>1, <2>2
<1> QED BY <1>1, <1>2, <1>3, <1>4, <1>5 DEF Inductive, TypeOK

-----------------------------------------------------------------------------
LEMMA NextIsInductive == Inductive /\ [Next]_vars => Inductive'
<1> SUFFICES ASSUME Inductive, [Next]_vars PROVE Inductive'
  OBVIOUS
<1>1. CASE MainStep
  <2>1. CASE BeginSolve
    BY <2>1, FirstIsPrepared, BeginSolveStep DEF BeginSolve
  <2> QED BY <1>1, <2>1, EndLabelingStep, PostPassStep, CollectStep DEF MainStep
<1>2. ASSUME NEW d \in Dir, LabelStep(d) PROVE Inductive'
  <2>1. ASSUME NEW s \in Sccs[d], StartScc(d, s) PROVE Inductive'
    BY <2>1, StartSccStep
  <2>2. ASSUME NEW l \in labels[d],
               DropDominated(d, l) \/ PruneHopeless(d, l) \/ OpenLabel(d, l)
        PROVE  Inductive'
    BY <2>2, VisitStep
  <2>3. ASSUME NEW e \in todo[d], ExtendArc(d, e) PROVE Inductive'
    BY <2>3, ExtendArcStep
  <2>4. CASE FinishScc(d)
    BY <2>4, FinishSccStep
  <2> QED BY <1>2, <2>1, <2>2, <2>3, <2>4 DEF LabelStep
<1>3. CASE Returned \/ UNCHANGED vars
  BY <1>3, StutterStep DEF Returned
<1> QED BY <1>1, <1>2, <1>3 DEF Next

\* The inductive invariant holds throughout a solve.
THEOREM SolveInvariant == Spec => []Inductive
BY InitIsInductive, NextIsInductive, PTL DEF Spec

\* Type correctness: in particular the flags always belong to stored labels, and
\* the label that a thread is extending is still stored, whatever is dominated,
\* overwritten, compacted or pruned meanwhile.
THEOREM TypeCorrect == Spec => []TypeOK
<1>1. Inductive => TypeOK
  BY DEF Inductive
<1> QED BY <1>1, SolveInvariant, PTL

\* Every label that either labeling stores is a path from its origin, reached
\* within the windows and priced with the reduced costs of this solve.
THEOREM StoredLabelsAreSound == Spec => []LabelsAreSound
<1>1. Inductive => LabelsAreSound
  BY DEF Inductive
<1> QED BY <1>1, SolveInvariant, PTL

\* No step but an insertion and the beginning of a solve adds a label.
LEMMA LabelsShrink ==
  ASSUME Inductive, [Next]_vars, ~BeginSolve,
         ~ \E d \in Dir : \E e \in todo[d] : ExtendArc(d, e)
  PROVE  opt' = opt /\ \A d \in Dir : labels'[d] \subseteq labels[d]
<1>1. LabelType
  BY DEF Inductive, TypeOK
<1>2. CASE MainStep
  <2>1. CASE EndLabeling
    BY <2>1 DEF EndLabeling, search
  <2>2. CASE PostPass
    BY <1>1, <2>2 DEF PostPass, Live, LabelType
  <2>3. CASE Collect
    BY <2>3 DEF Collect, search
  <2> QED BY <1>2, <2>1, <2>2, <2>3 DEF MainStep
<1>3. ASSUME NEW d \in Dir, LabelStep(d)
      PROVE  opt' = opt /\ \A c \in Dir : labels'[c] \subseteq labels[c]
  <2>1. ASSUME NEW s \in Sccs[d], StartScc(d, s) PROVE opt' = opt /\ labels' = labels
    BY <2>1 DEF StartScc
  <2>2. ASSUME NEW l \in labels[d],
               DropDominated(d, l) \/ PruneHopeless(d, l) \/ OpenLabel(d, l)
        PROVE  opt' = opt /\ labels' = labels
    BY <2>2 DEF DropDominated, PruneHopeless, OpenLabel
  <2>3. CASE FinishScc(d)
    BY <1>1, <2>3 DEF FinishScc, LabelType
  <2> QED BY <1>3, <2>1, <2>2, <2>3 DEF LabelStep
<1>4. CASE Returned \/ UNCHANGED vars
  BY <1>4 DEF Returned, vars, search
<1> QED BY <1>2, <1>3, <1>4 DEF Next

\* The one label per bucket of Heuristic1: whatever order the sweeps visit the
\* labels in, a child that is stored has overwritten the label of its bucket.
THEOREM OneLabel == Spec => []OneLabelPerBucket
<1>1. Init => OneLabelPerBucket
  BY DEF Init, OneLabelPerBucket
<1>2. Inductive /\ OneLabelPerBucket /\ [Next]_vars => OneLabelPerBucket'
  <2> SUFFICES ASSUME Inductive, OneLabelPerBucket, [Next]_vars
               PROVE  OneLabelPerBucket'
    OBVIOUS
  <2>1. CASE BeginSolve
    <3>1. \A d \in Dir : labels'[d] \subseteq {InitialLabel(d)}
      BY <2>1 DEF BeginSolve
    <3> QED BY <3>1 DEF OneLabelPerBucket
  <2>2. ASSUME NEW d \in Dir, NEW e \in todo[d], ExtendArc(d, e)
        PROVE  OneLabelPerBucket'
    <3> DEFINE n   == Extend(d, This(cur[d]), e)
               new == Append(cur[d], n)
    <3>1. labels \in [Dir -> SUBSET Label] /\ cur[d] \in Label
      <4>1. cur[d] # <<>>
        BY DEF Inductive, SearchOK
      <4> QED BY <4>1 DEF Inductive, TypeOK, LabelType
    <3>2. opt' = opt
      BY <2>2 DEF ExtendArc
    <3>3. \/ labels' = labels
          \/ labels' = [labels EXCEPT ![d] = (@ \ Replaced(d, n)) \cup {new}]
      BY <2>2 DEF ExtendArc
    <3>4. This(new) = n /\ Where(new) = BucketOf(n.v, n.q)
      <4>1. Len(cur[d]) \in Nat /\ cur[d] \in Seq(Node)
        BY <3>1, LabelNodes DEF Label
      <4>2. This(new) = n
        <5>1. n \in Node
          <6>1. /\ e \in [arc : Arc, at : Bucket]
                /\ inl \in [Arc -> Int] /\ jinl \in [Arc -> Int]
            BY DEF Inductive, TypeOK, SearchType, GraphType
          <6> QED BY <3>1, <6>1, LabelNodes, ExtendType
        <5> HIDE DEF n
        <5> QED BY <4>1, <5>1 DEF This
      <4> QED BY <4>2 DEF Where
    <3> HIDE DEF new, n
    <3>5. SUFFICES ASSUME opt.stage = "Heuristic1", NEW c \in Dir,
                          NEW k \in labels'[c], NEW l \in labels'[c], Where(k) = Where(l)
                   PROVE  k = l
      BY <3>2 DEF OneLabelPerBucket
    <3>6. CASE k \in labels[c] /\ l \in labels[c]
      BY <3>5, <3>6 DEF OneLabelPerBucket
    <3>7. CASE ~(k \in labels[c] /\ l \in labels[c])
      <4>1. /\ c = d
            /\ labels'[d] = (labels[d] \ Replaced(d, n)) \cup {new}
        BY <3>1, <3>3, <3>5, <3>7
      <4>2. \A x \in labels[d] : Where(x) = Where(new) => x \in Replaced(d, n)
        BY <3>4, <3>5 DEF Replaced
      <4> QED BY <3>5, <3>7, <4>1, <4>2
    <3> QED BY <3>6, <3>7
  <2>3. CASE /\ ~BeginSolve
             /\ ~ \E d \in Dir : \E e \in todo[d] : ExtendArc(d, e)
    <3>1. opt' = opt /\ \A d \in Dir : labels'[d] \subseteq labels[d]
      BY <2>3, LabelsShrink
    <3> QED BY <3>1 DEF OneLabelPerBucket
  <2> QED BY <2>1, <2>2, <2>3
<1> QED BY <1>1, <1>2, SolveInvariant, PTL DEF Spec

-----------------------------------------------------------------------------
\* The sum over the arcs of a walk, step by step.
LEMMA SumChain ==
  ASSUME NEW f \in [Arc -> Int], NEW w \in Seq(Arc)
  PROVE  \E g \in [0..Len(w) -> Int] :
           /\ SumOver(f, w) = g[Len(w)] /\ g[0] = 0
           /\ \A i \in 1..Len(w) : g[i] = g[i - 1] + f[w[i]]
<1> DEFINE L == Len(w)
           Equation(g) == g = [i \in 0..L |-> IF i = 0 THEN 0 ELSE g[i - 1] + f[w[i]]]
<1>1. L \in Nat /\ \A i \in 1..L : w[i] \in Arc
  OBVIOUS
<1>2. PICK F \in [Nat -> [Int -> Int]] : \A i \in Nat : \A x \in Int :
        F[i][x] = IF i \in 1..L THEN x + f[w[i]] ELSE x
  <2>1. \A i \in Nat : \A x \in Int : (IF i \in 1..L THEN x + f[w[i]] ELSE x) \in Int
    BY <1>1
  <2>2. [i \in Nat |-> [x \in Int |-> IF i \in 1..L THEN x + f[w[i]] ELSE x]] \in [Nat -> [Int -> Int]]
    BY <2>1
  <2> QED BY <2>2
<1> HIDE DEF L
<1>3. PICK g \in [0..L -> Int] : \A i \in 0..L : g[i] = IF i = 0 THEN 0 ELSE F[i][g[i - 1]]
  <2>1. Recursive(Int) /\ 0 \in Int
    BY RecursionIn
  <2>2. PICK k \in [Nat -> Int] : \A i \in Nat : k[i] = IF i = 0 THEN 0 ELSE F[i][k[i - 1]]
    BY <2>1 DEF Recursive
  <2>3. \A i \in 0..L : i \in Nat /\ (i # 0 => i - 1 \in 0..L)
    BY <1>1
  <2> DEFINE h == [i \in 0..L |-> k[i]]
  <2>4. h \in [0..L -> Int] /\ \A i \in 0..L : h[i] = IF i = 0 THEN 0 ELSE F[i][h[i - 1]]
    BY <2>2, <2>3
  <2> HIDE DEF h
  <2> QED BY <2>4
<1>4. g[0] = 0 /\ \A i \in 1..L : g[i] = g[i - 1] + f[w[i]]
  <2>1. 0 \in 0..L
    BY <1>1
  <2>2. ASSUME NEW i \in 1..L PROVE g[i] = g[i - 1] + f[w[i]]
    <3>1. i \in 0..L /\ i # 0 /\ i - 1 \in 0..L /\ i \in Nat
      BY <1>1
    <3> QED BY <1>2, <1>3, <3>1
  <2> QED BY <1>3, <2>1, <2>2
<1>5. Equation(g)
  <2>1. \A i \in 0..L : i # 0 => i \in 1..L
    BY <1>1
  <2> QED BY <1>3, <1>4, <2>1
<1> DEFINE s == CHOOSE h : Equation(h)
<1>6. Equation(s)
  BY <1>5
<1>7. SumOver(f, w) = s[L]
  BY DEF SumOver, L
<1>8. s[0] = g[0] /\ \A i \in 1..L : s[i] = s[i - 1] + f[w[i]]
  <2>1. 0 \in 0..L /\ \A i \in 1..L : i \in 0..L /\ i # 0
    BY <1>1
  <2> QED BY <1>4, <1>6, <2>1
<1> HIDE DEF s, Equation
<1>9. \A i \in 0..L : s[i] = g[i]
  <2>1. SameUpto(L)
    BY <1>1, StepsDecide
  <2>2. s[0] = g[0]
    BY <1>8
  <2>3. \A i \in 1..L : s[i - 1] = g[i - 1] => s[i] = g[i]
    BY <1>4, <1>8
  <2> QED BY <2>1, <2>2, <2>3 DEF SameUpto
<1>10. SumOver(f, w) = g[L]
  <2>1. L \in 0..L
    BY <1>1
  <2>2. s[L] = g[L]
    BY <1>9, <2>1
  <2> QED BY <1>7, <2>2
<1> QED BY <1>4, <1>10 DEF L

\* Sums of integers over a walk are integers.
LEMMA SumType ==
  ASSUME NEW f \in [Arc -> Int], NEW w \in Seq(Arc)
  PROVE  SumOver(f, w) \in Int
<1>1. PICK g \in [0..Len(w) -> Int] : SumOver(f, w) = g[Len(w)]
  BY SumChain
<1>2. Len(w) \in 0..Len(w)
  OBVIOUS
<1> QED BY <1>1, <1>2

\* Nothing is summed over the empty walk.
LEMMA SumEmpty ==
  ASSUME NEW f \in [Arc -> Int]
  PROVE  SumOver(f, <<>>) = 0
<1>1. <<>> \in Seq(Arc) /\ Len(<<>>) = 0
  OBVIOUS
<1> QED BY <1>1, SumChain

\* The sum over a walk that is one arc longer.
LEMMA SumAppend ==
  ASSUME NEW f \in [Arc -> Int], NEW w \in Seq(Arc), NEW a \in Arc
  PROVE  /\ SumOver(f, w) \in Int
         /\ SumOver(f, Append(w, a)) = SumOver(f, w) + f[a]
<1> DEFINE v == Append(w, a)
           L == Len(w)
<1>1. /\ v \in Seq(Arc) /\ Len(v) = L + 1 /\ L \in Nat /\ v[L + 1] = a
      /\ \A i \in 1..L : v[i] = w[i]
  OBVIOUS
<1>2. PICK g \in [0..L -> Int] : /\ SumOver(f, w) = g[L] /\ g[0] = 0
                                 /\ \A i \in 1..L : g[i] = g[i - 1] + f[w[i]]
  BY SumChain
<1> HIDE DEF v
<1>3. PICK h \in [0..Len(v) -> Int] : /\ SumOver(f, v) = h[Len(v)] /\ h[0] = 0
                                      /\ \A i \in 1..Len(v) : h[i] = h[i - 1] + f[v[i]]
  BY <1>1, SumChain
<1>4. \A i \in 1..L : h[i] = h[i - 1] + f[w[i]]
  <2>1. \A i \in 1..L : i \in 1..L + 1
    BY <1>1
  <2> QED BY <1>1, <1>3, <2>1
<1> HIDE DEF L
<1>5. \A i \in 0..L : h[i] = g[i]
  <2>1. SameUpto(L)
    BY <1>1, StepsDecide
  <2>2. h[0] = g[0]
    BY <1>2, <1>3
  <2>3. \A i \in 1..L : h[i - 1] = g[i - 1] => h[i] = g[i]
    BY <1>2, <1>4
  <2> QED BY <2>1, <2>2, <2>3 DEF SameUpto
<1>6. h[L + 1] = h[L] + f[a]
  <2>1. L + 1 \in 1..L + 1 /\ (L + 1) - 1 = L
    BY <1>1
  <2> QED BY <1>1, <1>3, <2>1
<1>7. g[L] \in Int /\ h[L] = g[L]
  BY <1>1, <1>2, <1>5
<1> QED BY <1>1, <1>2, <1>3, <1>6, <1>7 DEF v

-----------------------------------------------------------------------------
\* The vertices of a walk, and those of one that is an arc longer.
LEMMA VisitedAppend ==
  ASSUME NEW w \in Seq(Arc), NEW a \in Arc
  PROVE  /\ Append(w, a) \in Seq(Arc) /\ Len(Append(w, a)) = Len(w) + 1 /\ Len(w) \in Nat
         /\ Append(w, a) # <<>>
         /\ EndOf(<<>>) = Source /\ EndOf(w) \in Vertex /\ EndOf(Append(w, a)) = To[a]
         /\ \A i \in 1..Len(w) + 1 : /\ Visited(w)[i] \in Vertex
                                     /\ Visited(Append(w, a))[i] = Visited(w)[i]
         /\ Visited(Append(w, a))[Len(w) + 2] = To[a]
<1> DEFINE v == Append(w, a)
           L == Len(w)
<1>1. /\ v \in Seq(Arc) /\ Len(v) = L + 1 /\ L \in Nat /\ v[L + 1] = a /\ v # <<>>
      /\ \A i \in 1..L : v[i] = w[i] /\ w[i] \in Arc
  OBVIOUS
<1>2. Source \in Vertex /\ \A b \in Arc : To[b] \in Vertex
  BY ProblemAssumption
<1>3. EndOf(<<>>) = Source
  BY DEF EndOf, Visited
<1> HIDE DEF v, L
<1>4. Visited(w) = [i \in 1..L + 1 |-> IF i = 1 THEN Source ELSE To[w[i - 1]]]
  BY DEF Visited, L
<1>5. Visited(v) = [i \in 1..L + 2 |-> IF i = 1 THEN Source ELSE To[v[i - 1]]]
  <2>1. Len(v) + 1 = L + 2
    BY <1>1
  <2> QED BY <2>1 DEF Visited
<1>6. \A i \in 1..L + 1 : Visited(w)[i] \in Vertex /\ Visited(v)[i] = Visited(w)[i]
  <2> SUFFICES ASSUME NEW i \in 1..L + 1
               PROVE  Visited(w)[i] \in Vertex /\ Visited(v)[i] = Visited(w)[i]
    OBVIOUS
  <2>1. i \in 1..L + 2 /\ (i # 1 => i - 1 \in 1..L)
    BY <1>1
  <2> QED BY <1>1, <1>2, <1>4, <1>5, <2>1
<1>7. Visited(v)[L + 2] = To[a]
  <2>1. L + 2 \in 1..L + 2 /\ L + 2 # 1 /\ (L + 2) - 1 = L + 1
    BY <1>1
  <2> QED BY <1>1, <1>5, <2>1
<1>8. EndOf(w) \in Vertex
  <2>1. L + 1 \in 1..L + 1
    BY <1>1
  <2> QED BY <1>6, <2>1 DEF EndOf, L
<1>9. EndOf(v) = To[a]
  <2>1. Len(v) + 1 = L + 2
    BY <1>1
  <2> QED BY <1>7, <2>1 DEF EndOf
<1> QED BY <1>1, <1>3, <1>6, <1>7, <1>8, <1>9 DEF v, L

\* A walk visits vertices; the empty one ends at the source.
LEMMA VisitedType ==
  ASSUME NEW w \in Seq(Arc)
  PROVE  /\ \A i \in 1..Len(w) + 1 : Visited(w)[i] \in Vertex
         /\ EndOf(w) \in Vertex /\ EndOf(<<>>) = Source
<1> DEFINE L == Len(w)
<1>1. L \in Nat /\ \A i \in 1..L : w[i] \in Arc
  OBVIOUS
<1>2. Source \in Vertex /\ \A b \in Arc : To[b] \in Vertex
  BY ProblemAssumption
<1> HIDE DEF L
<1>3. Visited(w) = [i \in 1..L + 1 |-> IF i = 1 THEN Source ELSE To[w[i - 1]]]
  BY DEF Visited, L
<1>4. ASSUME NEW i \in 1..L + 1 PROVE Visited(w)[i] \in Vertex
  <2>1. i # 1 => i - 1 \in 1..L
    BY <1>1
  <2> QED BY <1>1, <1>2, <1>3, <2>1
<1>5. L + 1 \in 1..L + 1
  BY <1>1
<1>6. EndOf(<<>>) = Source
  BY DEF EndOf, Visited
<1> QED BY <1>4, <1>5, <1>6 DEF EndOf, L

\* What is consumed between two vertices of a walk.
LEMMA BetweenType ==
  ASSUME NEW w \in Seq(Arc), NEW r \in Res, NEW i \in 1..Len(w) + 1, NEW j \in 1..Len(w) + 1,
         i <= j
  PROVE  Between(w, i, j, r) \in Int
<1> DEFINE f == [b \in Arc |-> Use[b][r]]
<1>1. f \in [Arc -> Int]
  BY ProblemAssumption
<1>2. SubSeq(w, i, j - 1) \in Seq(Arc)
  OBVIOUS
<1>3. Between(w, i, j, r) = SumOver(f, SubSeq(w, i, j - 1))
  BY DEF Between
<1> HIDE DEF f
<1> QED BY <1>1, <1>2, <1>3, SumType

\* One arc more changes no consumption but that up to the new end.
LEMMA BetweenAppend ==
  ASSUME NEW w \in Seq(Arc), NEW a \in Arc, NEW r \in Res
  PROVE  /\ \A i, j \in 1..Len(w) + 1 : i <= j => Between(Append(w, a), i, j, r) = Between(w, i, j, r)
         /\ \A i \in 1..Len(w) + 1 :
              Between(Append(w, a), i, Len(w) + 2, r) = Between(w, i, Len(w) + 1, r) + Use[a][r]
         /\ Between(Append(w, a), Len(w) + 2, Len(w) + 2, r) = 0
<1> DEFINE f == [b \in Arc |-> Use[b][r]]
           v == Append(w, a)
<1>1. f \in [Arc -> Int]
  BY ProblemAssumption
<1>2. ASSUME NEW i \in 1..Len(w) + 1, NEW j \in 1..Len(w) + 1, i <= j
      PROVE  SubSeq(w, i, j - 1) \in Seq(Arc) /\ SubSeq(v, i, j - 1) = SubSeq(w, i, j - 1)
  OBVIOUS
<1>3. ASSUME NEW i \in 1..Len(w) + 1
      PROVE  SubSeq(v, i, (Len(w) + 2) - 1) = Append(SubSeq(w, i, (Len(w) + 1) - 1), a)
  OBVIOUS
<1>4. SubSeq(v, Len(w) + 2, (Len(w) + 2) - 1) = <<>>
  OBVIOUS
<1>5. \A x, i, j : Between(x, i, j, r) = SumOver(f, SubSeq(x, i, j - 1))
  BY DEF Between
<1>6. f[a] = Use[a][r]
  OBVIOUS
<1> HIDE DEF v, f
<1>7. \A i, j \in 1..Len(w) + 1 : i <= j => Between(v, i, j, r) = Between(w, i, j, r)
  <2> SUFFICES ASSUME NEW i \in 1..Len(w) + 1, NEW j \in 1..Len(w) + 1, i <= j
               PROVE  Between(v, i, j, r) = Between(w, i, j, r)
    OBVIOUS
  <2>1. SubSeq(v, i, j - 1) = SubSeq(w, i, j - 1)
    BY <1>2
  <2> QED BY <1>5, <2>1
<1>8. \A i \in 1..Len(w) + 1 :
        Between(v, i, Len(w) + 2, r) = Between(w, i, Len(w) + 1, r) + Use[a][r]
  <2> SUFFICES ASSUME NEW i \in 1..Len(w) + 1
               PROVE  Between(v, i, Len(w) + 2, r) = Between(w, i, Len(w) + 1, r) + Use[a][r]
    OBVIOUS
  <2>1. Len(w) + 1 \in 1..Len(w) + 1 /\ i <= Len(w) + 1
    OBVIOUS
  <2>2. SubSeq(w, i, (Len(w) + 1) - 1) \in Seq(Arc)
    BY <1>2, <2>1
  <2>3. SumOver(f, Append(SubSeq(w, i, (Len(w) + 1) - 1), a))
          = SumOver(f, SubSeq(w, i, (Len(w) + 1) - 1)) + f[a]
    BY <1>1, <2>2, SumAppend
  <2> QED BY <1>3, <1>5, <1>6, <2>3
<1>9. Between(v, Len(w) + 2, Len(w) + 2, r) = 0
  <2>1. SumOver(f, <<>>) = 0
    BY <1>1, SumEmpty
  <2> QED BY <1>4, <1>5, <2>1
<1> QED BY <1>7, <1>8, <1>9 DEF v

\* The earliest arrival is decided by a vertex on the way.
LEMMA EarliestIsMost ==
  ASSUME NEW w \in Seq(Arc), NEW j \in 1..Len(w) + 1, NEW r \in Res
  PROVE  /\ Earliest(w, j, r) \in Int
         /\ \E i \in 1..j : Earliest(w, j, r) = Lb[Visited(w)[i]][r] + Between(w, i, j, r)
         /\ \A i \in 1..j : Lb[Visited(w)[i]][r] + Between(w, i, j, r) <= Earliest(w, j, r)
<1> DEFINE T(i) == Lb[Visited(w)[i]][r] + Between(w, i, j, r)
           S == {-T(i) : i \in 1..j}
<1>1. \A i \in 1..j : T(i) \in Int
  <2>1. \A i \in 1..j : i \in 1..Len(w) + 1 /\ i <= j
    OBVIOUS
  <2>2. \A i \in 1..j : Visited(w)[i] \in Vertex /\ Between(w, i, j, r) \in Int
    BY <2>1, VisitedType, BetweenType
  <2>3. \A v \in Vertex : Lb[v][r] \in Int
    BY ProblemAssumption
  <2> QED BY <2>2, <2>3
<1>2. j \in Nat \ {0} /\ 1 \in 1..j
  OBVIOUS
<1>3. Earliest(w, j, r) = -Least(S)
  BY DEF Earliest
<1> HIDE DEF T
<1>4. S \in SUBSET Int /\ S # {} /\ IsFiniteSet(S)
  <2>1. S \in SUBSET Int /\ S # {}
    BY <1>1, <1>2
  <2> DEFINE f == [i \in 1..j |-> -T(i)]
  <2>2. f \in [1..j -> S] /\ \A t \in S : \E i \in 1..j : f[i] = t
    OBVIOUS
  <2>3. IsFiniteSet(1..j)
    BY <1>2, FS_Interval
  <2> HIDE DEF f, S
  <2> QED BY <2>1, <2>2, <2>3, ImageFinite
<1> HIDE DEF S
<1>5. Least(S) \in S /\ \A y \in S : Least(S) <= y
  <2>1. \E x \in S : \A y \in S : x <= y
    BY <1>4, FiniteHasLeast
  <2> QED BY <2>1 DEF Least
<1>6. PICK i \in 1..j : Least(S) = -T(i)
  BY <1>5 DEF S
<1>7. Earliest(w, j, r) = T(i) /\ T(i) \in Int
  <2>1. T(i) \in Int
    BY <1>1
  <2> QED BY <1>3, <1>6, <2>1
<1>8. \A k \in 1..j : T(k) <= Earliest(w, j, r)
  <2> SUFFICES ASSUME NEW k \in 1..j PROVE T(k) <= T(i)
    BY <1>7
  <2>1. T(k) \in Int /\ -T(k) \in S
    BY <1>1 DEF S
  <2>2. -T(i) <= -T(k)
    BY <1>5, <1>6, <2>1
  <2> QED BY <1>7, <2>1, <2>2
<1> QED BY <1>7, <1>8 DEF T

\* An arc more: the earliest arrivals before it are the same, and the one after
\* it is what propagation along the arc makes of the last.
LEMMA EarliestAppend ==
  ASSUME NEW w \in Seq(Arc), NEW a \in Arc, NEW r \in Res
  PROVE  /\ \A j \in 1..Len(w) + 1 : Earliest(Append(w, a), j, r) = Earliest(w, j, r)
         /\ Earliest(Append(w, a), Len(w) + 2, r)
              = Larger(Earliest(w, Len(w) + 1, r) + Use[a][r], Lb[To[a]][r])
<1> DEFINE v == Append(w, a)
           L == Len(w)
           T(i) == Lb[Visited(w)[i]][r] + Between(w, i, L + 1, r)
           U(i) == Lb[Visited(v)[i]][r] + Between(v, i, L + 2, r)
           e == Earliest(w, L + 1, r)
           g == Earliest(v, L + 2, r)
<1>1. /\ v \in Seq(Arc) /\ Len(v) = L + 1 /\ L \in Nat
      /\ \A i \in 1..L + 1 : Visited(w)[i] \in Vertex /\ Visited(v)[i] = Visited(w)[i]
      /\ Visited(v)[L + 2] = To[a]
  BY VisitedAppend
<1>2. /\ \A i, j \in 1..L + 1 : i <= j => Between(v, i, j, r) = Between(w, i, j, r)
      /\ \A i \in 1..L + 1 : Between(v, i, L + 2, r) = Between(w, i, L + 1, r) + Use[a][r]
      /\ Between(v, L + 2, L + 2, r) = 0
  BY BetweenAppend
<1>3. \A i \in 1..L + 1 : Between(w, i, L + 1, r) \in Int
  <2>1. \A i \in 1..L + 1 : L + 1 \in 1..L + 1 /\ i <= L + 1
    BY <1>1
  <2> QED BY <2>1, BetweenType
<1>4. /\ \A x \in Vertex : Lb[x][r] \in Int
      /\ Use[a][r] \in Int /\ To[a] \in Vertex
  BY ProblemAssumption
<1>5. /\ e \in Int /\ \E i \in 1..L + 1 : e = T(i)
      /\ \A i \in 1..L + 1 : T(i) <= e
  <2>1. L + 1 \in 1..L + 1
    BY <1>1
  <2> QED BY <2>1, EarliestIsMost
<1> HIDE DEF v, L
<1>6. /\ g \in Int /\ \E i \in 1..L + 2 : g = U(i)
      /\ \A i \in 1..L + 2 : U(i) <= g
  <2>1. L + 2 \in 1..Len(v) + 1
    BY <1>1
  <2> QED BY <1>1, <2>1, EarliestIsMost
<1>7. \A i \in 1..L + 1 : T(i) \in Int /\ U(i) = T(i) + Use[a][r] /\ i \in 1..L + 2
  <2>1. \A i \in 1..L + 1 : i \in 1..L + 2
    BY <1>1
  <2> QED BY <1>1, <1>2, <1>3, <1>4, <2>1
<1>8. U(L + 2) = Lb[To[a]][r] /\ L + 2 \in 1..L + 2
  BY <1>1, <1>2, <1>4
<1>9. \A i \in 1..L + 2 : i \in 1..L + 1 \/ i = L + 2
  BY <1>1
<1> HIDE DEF T, U, e, g
<1>10. g = Larger(e + Use[a][r], Lb[To[a]][r])
  <2>1. e + Use[a][r] <= g
    BY <1>4, <1>5, <1>6, <1>7
  <2>2. Lb[To[a]][r] <= g
    BY <1>6, <1>8
  <2>3. g = Lb[To[a]][r] \/ g <= e + Use[a][r]
    <3>1. PICK i \in 1..L + 2 : g = U(i)
      BY <1>6
    <3>2. CASE i = L + 2
      BY <1>8, <3>1, <3>2
    <3>3. CASE i \in 1..L + 1
      BY <1>4, <1>5, <1>7, <3>1, <3>3
    <3> QED BY <1>9, <3>2, <3>3
  <2>4. Lb[To[a]][r] \in Int
    BY <1>4
  <2> QED BY <1>4, <1>5, <1>6, <2>1, <2>2, <2>3, <2>4 DEF Larger
<1>11. ASSUME NEW j \in 1..L + 1 PROVE Earliest(v, j, r) = Earliest(w, j, r)
  <2> DEFINE R(i) == Lb[Visited(w)[i]][r] + Between(w, i, j, r)
  <2>1. j \in 1..Len(v) + 1 /\ j \in 1..Len(w) + 1
    BY <1>1 DEF L
  <2>2. \A i \in 1..j : i \in 1..L + 1 /\ i <= j
    BY <1>1
  <2>3. \A i \in 1..j : Lb[Visited(v)[i]][r] + Between(v, i, j, r) = R(i)
    BY <1>1, <1>2, <2>2
  <2>4. /\ Earliest(v, j, r) \in Int /\ \E i \in 1..j : Earliest(v, j, r) = R(i)
        /\ \A i \in 1..j : R(i) <= Earliest(v, j, r)
    BY <1>1, <2>1, <2>3, EarliestIsMost
  <2>5. /\ Earliest(w, j, r) \in Int /\ \E i \in 1..j : Earliest(w, j, r) = R(i)
        /\ \A i \in 1..j : R(i) <= Earliest(w, j, r)
    BY <2>1, EarliestIsMost
  <2> HIDE DEF R
  <2> QED BY <2>4, <2>5
<1> QED BY <1>10, <1>11 DEF v, L, e, g

-----------------------------------------------------------------------------
\* The feasible walks, length by length.
LEMMA UptoDef ==
  /\ WalksUpto[0] = {<<>>}
  /\ \A n \in Nat : /\ WalksUpto[n] \in SUBSET Seq(Arc)
                    /\ WalksUpto[n + 1] = WalksUpto[n] \cup Onward(WalksUpto[n])
<1> DEFINE Sets == SUBSET Seq(Arc)
           z == {<<>>}
           Longer(W) == W \cup Onward(W)
           Equation(f) == f = [n \in Nat |-> IF n = 0 THEN z ELSE Longer(f[n - 1])]
<1>1. z \in Sets
  OBVIOUS
<1>2. ASSUME NEW W \in Sets PROVE Longer(W) \in Sets
  <2>1. \A x \in W \X Arc : Append(x[1], x[2]) \in Seq(Arc)
    OBVIOUS
  <2> QED BY <2>1 DEF Onward
<1> HIDE DEF Sets, z, Longer
<1>3. PICK F \in [Nat -> [Sets -> Sets]] : \A n \in Nat : \A x \in Sets : F[n][x] = Longer(x)
  <2>1. [n \in Nat |-> [x \in Sets |-> Longer(x)]] \in [Nat -> [Sets -> Sets]]
    BY <1>2
  <2> QED BY <2>1
<1>4. PICK f \in [Nat -> Sets] : \A n \in Nat : f[n] = IF n = 0 THEN z ELSE F[n][f[n - 1]]
  BY <1>1, RecursionOnNat
<1>5. \A n \in Nat : f[n] = IF n = 0 THEN z ELSE Longer(f[n - 1])
  <2>1. ASSUME NEW n \in Nat, n # 0
        PROVE  f[n] = Longer(f[n - 1])
    <3>1. n - 1 \in Nat
      BY <2>1
    <3>2. f[n - 1] \in Sets
      BY <3>1
    <3> QED BY <1>3, <1>4, <2>1, <3>2
  <2> QED BY <1>4, <2>1
<1>6. Equation(f)
  BY <1>5
<1>7. WalksUpto = CHOOSE g : Equation(g)
  BY DEF WalksUpto, z, Longer
<1>8. Equation(WalksUpto)
  BY <1>6, <1>7
<1>9. /\ WalksUpto[0] = z
      /\ \A n \in Nat : WalksUpto[n + 1] = Longer(WalksUpto[n])
  <2>1. ASSUME NEW n \in Nat PROVE WalksUpto[n + 1] = Longer(WalksUpto[n])
    <3>1. n + 1 \in Nat /\ n + 1 # 0 /\ (n + 1) - 1 = n
      OBVIOUS
    <3> QED BY <1>8, <3>1
  <2> QED BY <1>8, <2>1
<1> HIDE DEF Equation
<1> DEFINE N == {n \in Nat : WalksUpto[n] \in Sets}
<1>10. 0 \in N
  BY <1>1, <1>9
<1>11. ASSUME NEW n \in N PROVE n + 1 \in N
  BY <1>2, <1>9
<1> HIDE DEF N
<1>12. N = Nat
  <2>1. N \in SUBSET Nat
    BY DEF N
  <2> QED BY <1>10, <1>11, <2>1, InductOnNat
<1>13. \A n \in Nat : WalksUpto[n] \in Sets
  BY <1>12 DEF N
<1> QED BY <1>9, <1>13 DEF Sets, z, Longer

\* Longer layers hold the shorter ones.
LEMMA LayersAreWalks ==
  /\ MaxWalk \in Nat /\ PartialWalks \in SUBSET Seq(Arc)
  /\ \A k \in 0..MaxWalk : WalksUpto[k] \subseteq PartialWalks
<1>1. MaxWalk \in Nat
  BY MaxWalkAssumption
<1> DEFINE M == {n \in Nat : n <= MaxWalk => WalksUpto[MaxWalk - n] \subseteq PartialWalks}
<1>2. M = Nat
  <2>1. 0 \in M
    BY <1>1 DEF PartialWalks
  <2>2. ASSUME NEW n \in M PROVE n + 1 \in M
    <3>1. n \in Nat /\ n + 1 \in Nat
      BY <2>2
    <3>2. CASE n + 1 <= MaxWalk
      <4>1. MaxWalk - (n + 1) \in Nat /\ (MaxWalk - (n + 1)) + 1 = MaxWalk - n /\ n <= MaxWalk
        BY <1>1, <3>1, <3>2
      <4>2. WalksUpto[MaxWalk - (n + 1)] \subseteq WalksUpto[MaxWalk - n]
        BY <4>1, UptoDef
      <4> QED BY <2>2, <3>1, <4>1, <4>2
    <3> QED BY <3>1, <3>2
  <2> HIDE DEF M
  <2>3. M \in SUBSET Nat
    BY DEF M
  <2> QED BY <2>1, <2>2, <2>3, InductOnNat
<1>3. \A k \in 0..MaxWalk : WalksUpto[k] \subseteq PartialWalks
  <2> SUFFICES ASSUME NEW k \in 0..MaxWalk PROVE WalksUpto[k] \subseteq PartialWalks
    OBVIOUS
  <2>1. MaxWalk - k \in Nat /\ MaxWalk - k <= MaxWalk /\ MaxWalk - (MaxWalk - k) = k
    BY <1>1
  <2>2. MaxWalk - k \in M
    BY <1>2, <2>1
  <2> QED BY <2>1, <2>2
<1>4. PartialWalks \in SUBSET Seq(Arc)
  BY <1>1, UptoDef DEF PartialWalks
<1> QED BY <1>1, <1>3, <1>4

\* A property of the empty walk that every feasible arc keeps is one of all
\* feasible walks.
LEMMA WalkInduction ==
  ASSUME NEW P, <<>> \in P,
         \A u \in PartialWalks \cap P : \A a \in Arc :
           From[a] = EndOf(u) /\ Feasible(Append(u, a)) /\ Append(u, a) \in PartialWalks
             => Append(u, a) \in P
  PROVE  PartialWalks \subseteq P
<1>1. MaxWalk \in Nat /\ \A k \in 0..MaxWalk : WalksUpto[k] \subseteq PartialWalks
  BY LayersAreWalks
<1> DEFINE N == {n \in Nat : n <= MaxWalk => WalksUpto[n] \subseteq P}
<1>2. 0 \in N
  BY UptoDef
<1>3. ASSUME NEW n \in N PROVE n + 1 \in N
  <2>1. n \in Nat /\ n + 1 \in Nat
    BY <1>3
  <2>2. CASE n + 1 <= MaxWalk
    <3>1. n \in 0..MaxWalk /\ n + 1 \in 0..MaxWalk
      BY <1>1, <2>1, <2>2
    <3>2. WalksUpto[n] \subseteq P /\ WalksUpto[n] \subseteq PartialWalks
          /\ WalksUpto[n + 1] \subseteq PartialWalks
          /\ WalksUpto[n + 1] = WalksUpto[n] \cup Onward(WalksUpto[n])
      BY <1>1, <1>3, <3>1, UptoDef
    <3>3. ASSUME NEW w \in Onward(WalksUpto[n]) PROVE w \in P
      <4>1. PICK x \in WalksUpto[n] \X Arc : /\ From[x[2]] = EndOf(x[1])
                                             /\ Feasible(Append(x[1], x[2]))
                                             /\ w = Append(x[1], x[2])
        BY <3>3 DEF Onward
      <4>2. x[1] \in WalksUpto[n] /\ x[2] \in Arc
        OBVIOUS
      <4> QED BY <3>2, <4>1, <4>2
    <3> QED BY <2>1, <3>2, <3>3
  <2> QED BY <2>1, <2>2
<1> HIDE DEF N
<1>4. N = Nat
  <2>1. N \in SUBSET Nat
    BY DEF N
  <2> QED BY <1>2, <1>3, <2>1, InductOnNat
<1> QED BY <1>1, <1>4 DEF N, PartialWalks

\* The walk of no arcs is at the source when its window opens.
LEMMA EarliestAtStart ==
  ASSUME NEW r \in Res
  PROVE  Earliest(<<>>, 1, r) = Lb[Source][r]
<1>1. <<>> \in Seq(Arc) /\ Len(<<>>) = 0
  OBVIOUS
<1>2. PICK i \in 1..1 : Earliest(<<>>, 1, r) = Lb[Visited(<<>>)[i]][r] + Between(<<>>, i, 1, r)
  <2>1. 1 \in 1..Len(<<>>) + 1
    OBVIOUS
  <2> QED BY <1>1, <2>1, EarliestIsMost
<1>3. i = 1
  BY <1>2
<1>4. Visited(<<>>)[1] = Source
  BY DEF Visited
<1>5. Between(<<>>, 1, 1, r) = 0
  <2>1. SubSeq(<<>>, 1, 1 - 1) = <<>>
    OBVIOUS
  <2>2. [b \in Arc |-> Use[b][r]] \in [Arc -> Int]
    BY ProblemAssumption
  <2>3. SumOver([b \in Arc |-> Use[b][r]], <<>>) = 0
    BY <2>2, SumEmpty
  <2> QED BY <2>1, <2>3 DEF Between
<1>6. Lb[Source][r] \in Int
  BY ProblemAssumption
<1> QED BY <1>2, <1>3, <1>4, <1>5, <1>6

\* Every feasible continuation of a feasible walk is one: MaxWalk is large enough.
LEMMA WalkGrows ==
  ASSUME NEW u \in PartialWalks, NEW a \in Arc, From[a] = EndOf(u), Feasible(Append(u, a))
  PROVE  Append(u, a) \in PartialWalks
<1> DEFINE P == {w \in Seq(Arc) : w \in WalksUpto[Len(w)]}
<1>1. ASSUME NEW w \in Seq(Arc), w \in WalksUpto[Len(w)], NEW b \in Arc, From[b] = EndOf(w),
             Feasible(Append(w, b))
      PROVE  Append(w, b) \in P
  <2>1. Len(w) \in Nat /\ Append(w, b) \in Seq(Arc) /\ Len(Append(w, b)) = Len(w) + 1
    OBVIOUS
  <2>2. WalksUpto[Len(w) + 1] = WalksUpto[Len(w)] \cup Onward(WalksUpto[Len(w)])
    BY <2>1, UptoDef
  <2>3. Append(w, b) \in Onward(WalksUpto[Len(w)])
    <3> DEFINE x == <<w, b>>
    <3>1. x \in {y \in WalksUpto[Len(w)] \X Arc : From[y[2]] = EndOf(y[1]) /\ Feasible(Append(y[1], y[2]))}
      BY <1>1
    <3>2. Append(w, b) = Append(x[1], x[2])
      OBVIOUS
    <3> HIDE DEF x
    <3> QED BY <3>1, <3>2 DEF Onward
  <2> QED BY <2>1, <2>2, <2>3
<1>2. <<>> \in P
  <2>1. <<>> \in Seq(Arc) /\ Len(<<>>) = 0
    OBVIOUS
  <2> QED BY <2>1, UptoDef
<1>3. \A w \in PartialWalks \cap P : \A b \in Arc :
        From[b] = EndOf(w) /\ Feasible(Append(w, b)) /\ Append(w, b) \in PartialWalks
          => Append(w, b) \in P
  BY <1>1
<1>4. u \in P
  <2> HIDE DEF P
  <2> QED BY <1>2, <1>3, WalkInduction
<1>5. Append(u, a) \in WalksUpto[Len(u) + 1] /\ Len(u) \in Nat
  <2>1. Append(u, a) \in P
    BY <1>1, <1>4
  <2>2. Len(u) \in Nat /\ Len(Append(u, a)) = Len(u) + 1
    BY <1>4
  <2> QED BY <2>1, <2>2
<1>6. Len(u) + 1 \in 0..MaxWalk
  BY <1>5, MaxWalkAssumption
<1> QED BY <1>5, <1>6, LayersAreWalks


-----------------------------------------------------------------------------
\* A sound label is within its window, and its resources are on the side of the
\* window from which its bucket counts.
LEMMA LabelPlaced ==
  ASSUME NEW d \in Dir, NEW l \in Label, SoundLabel(d, l)
  PROVE  /\ This(l).v \in Vertex /\ This(l).q \in [Res -> Int]
         /\ InWindow(d, This(l).v, This(l).q)
         /\ \A r \in Res : IF d = "fw" THEN This(l).q[r] >= Lb[This(l).v][r]
                                       ELSE This(l).q[r] <= Ub[This(l).v][r]
<1>1. Len(l) \in Nat \ {0} /\ This(l) \in Node /\ \A i \in 1..Len(l) : l[i] \in Node
  BY LabelNodes
<1>2. This(l).v \in Vertex /\ This(l).q \in [Res -> Int]
  BY <1>1 DEF Node
<1>3. CASE Len(l) = 1
  <2>1. l[1] = This(l) /\ <<l[1]>> = InitialLabel(d)
    BY <1>3 DEF This, SoundLabel
  <2>2. /\ This(l).v = Origin(d)
        /\ This(l).q = [r \in Res |-> IF d = "fw" THEN Lb[Source][r] ELSE Ub[Sink][r]]
    BY <2>1 DEF InitialLabel
  <2>3. /\ Source \in Vertex /\ Sink \in Vertex
        /\ \A r \in Res : Lb[Source][r] <= Ub[Source][r] /\ Lb[Sink][r] <= Ub[Sink][r]
    BY ProblemAssumption
  <2>4. \A r \in Res : IF d = "fw" THEN This(l).q[r] = Lb[This(l).v][r]
                                   ELSE This(l).q[r] = Ub[This(l).v][r]
    BY <2>2 DEF Origin
  <2>5. \A r \in Res : /\ Lb[This(l).v][r] \in Int /\ Ub[This(l).v][r] \in Int
                       /\ Lb[This(l).v][r] <= Ub[This(l).v][r]
    BY <2>2, <2>3, TableType DEF Origin
  <2> QED BY <1>2, <2>4, <2>5 DEF InWindow
<1>4. CASE Len(l) # 1
  <2> DEFINE m == l[Len(l) - 1]
             n == This(l)
  <2>1. Len(l) - 1 \in 1..Len(l) - 1 /\ (Len(l) - 1) + 1 = Len(l)
    <3>1. \A k \in Nat \ {0} : k # 1 => k - 1 \in 1..k - 1 /\ (k - 1) + 1 = k
      OBVIOUS
    <3> QED BY <1>1, <1>4, <3>1
  <2>2. m \in Node /\ SoundStep(d, m, n)
    BY <1>1, <2>1 DEF SoundLabel, This
  <2> HIDE DEF m, n
  <2>3. /\ n.arc \in Arc /\ n.v = Ahead(d, n.arc) /\ m.q \in [Res -> Int]
        /\ AtLeastAsGood(d, Advance(d, m.q, n.arc), n.q) /\ InWindow(d, n.v, n.q)
    BY <2>2 DEF SoundStep, ArcsAt, Node
  <2>4. \A r \in Res : Advance(d, m.q, n.arc)[r] \in Int
    BY <2>3, AdvanceType
  <2>5. \A r \in Res : IF d = "fw" THEN Advance(d, m.q, n.arc)[r] >= Lb[n.v][r]
                                   ELSE Advance(d, m.q, n.arc)[r] <= Ub[n.v][r]
    <3>1. \A r \in Res : /\ Lb[To[n.arc]][r] \in Int /\ Ub[From[n.arc]][r] \in Int
                         /\ m.q[r] \in Int /\ Use[n.arc][r] \in Int
      BY <2>3, TableType
    <3> QED BY <2>3, <3>1 DEF Advance, Ahead, Larger, Smaller
  <2>6. \A r \in Res : n.q[r] \in Int /\ Lb[n.v][r] \in Int /\ Ub[n.v][r] \in Int
    BY <1>2, TableType DEF n
  <2>7. \A r \in Res : IF d = "fw" THEN n.q[r] >= Lb[n.v][r] ELSE n.q[r] <= Ub[n.v][r]
    BY <2>3, <2>4, <2>5, <2>6 DEF AtLeastAsGood
  <2> QED BY <1>2, <2>3, <2>7 DEF n
<1> QED BY <1>3, <1>4

\* A sound label's bucket is one of the grid.
LEMMA WhereType ==
  ASSUME NEW d \in Dir, NEW l \in Label, SoundLabel(d, l)
  PROVE  Where(l) \in Bucket /\ Where(l)[1] = This(l).v
BY LabelPlaced, BucketOfType DEF Where

-----------------------------------------------------------------------------
\* A solve starts from the graph as it was built and does not change it.
GraphAsBuilt ==
  /\ arcs = BuiltArcs
  /\ jumps = [d \in Dir |-> [b \in Bucket |-> {}]]
  /\ fixed = {}

\* A component is taken up after all that lead to it; the label being extended
\* is in it, and what is left to do for it are bucket arcs.
SearchInOrder ==
  \A d \in Dir :
    /\ \A s \in finished[d] : s \in Sccs[d] /\ Predecessors[d][s] \subseteq finished[d]
    /\ scc[d] # {} => Predecessors[d][scc[d]] \subseteq finished[d]
    /\ cur[d] # <<>> => Where(cur[d]) \in scc[d] /\ cur[d] \notin extended[d]
    /\ \A e \in todo[d] : e.at = Where(cur[d]) /\ e.arc \in BuiltArcs[d][e.at]

\* Where a label is extended, its component is not finished.
LEMMA OpenIsUnsettled ==
  ASSUME Inductive, SearchInOrder, NEW d \in Dir, cur[d] # <<>>
  PROVE  /\ cur[d] \in labels[d] /\ cur[d] \in Label /\ SoundLabel(d, cur[d])
         /\ Where(cur[d]) \in Bucket /\ Scc(d, Where(cur[d])) \notin finished[d]
<1>1. cur[d] \in labels[d] /\ cur[d] \in Label /\ SoundLabel(d, cur[d])
  BY DEF Inductive, TypeOK, LabelType, LabelsAreSound
<1>2. Where(cur[d]) \in Bucket
  BY <1>1, WhereType
<1>3. Where(cur[d]) \in scc[d] /\ scc[d] \in Sccs[d] \ finished[d]
  <2>1. Where(cur[d]) \in scc[d]
    BY DEF SearchInOrder
  <2>2. scc[d] # {} => scc[d] \in Sccs[d] \ finished[d]
    BY DEF Inductive, SearchOK
  <2> QED BY <2>1, <2>2
<1>4. scc[d] = Scc(d, Where(cur[d]))
  BY <1>2, <1>3, SccsPartition
<1> QED BY <1>1, <1>2, <1>3, <1>4

\* What the open label makes of a bucket arc.
LEMMA ChildNode ==
  ASSUME Inductive, GraphAsBuilt, SearchInOrder, NEW d \in Dir, NEW e \in todo[d]
  PROVE  LET m == This(cur[d])
             n == Extend(d, m, e)
         IN /\ cur[d] # <<>> /\ cur[d] \in Label /\ m \in Node
            /\ e \in [arc : Arc, at : Bucket] /\ e.arc \in ArcsAt(d, m.v)
            /\ n \in Node /\ n.v = Ahead(d, e.arc) /\ n.q = Advance(d, m.q, e.arc)
            /\ n.cost = m.cost + red[e.arc] + AlongArc(d, m.st, e.arc).cost
                          + ToVertex(d, AlongArc(d, m.st, e.arc).st, Ahead(d, e.arc)).cost
            /\ n.st = ToVertex(d, AlongArc(d, m.st, e.arc).st, Ahead(d, e.arc)).st
            /\ n.arc = e.arc
            /\ This(Append(cur[d], n)) = n /\ Append(cur[d], n) \in Label
            /\ Len(Append(cur[d], n)) = Len(cur[d]) + 1
<1> DEFINE m == This(cur[d])
           n == Extend(d, m, e)
<1>1. cur[d] # <<>> /\ cur[d] \in Label
  BY DEF Inductive, TypeOK, LabelType, SearchOK
<1>2. m \in Node /\ Len(cur[d]) \in Nat /\ cur[d] \in Seq(Node)
  BY <1>1, LabelNodes DEF Label
<1>3. e \in [arc : Arc, at : Bucket] /\ e.arc \in ArcsAt(d, m.v)
  BY DEF Inductive, TypeOK, SearchType, SearchOK
<1>4. inl = red /\ jinl = red /\ inl \in [Arc -> Int] /\ jinl \in [Arc -> Int]
  <2>1. phase # "ready"
    <3>1. scc[d] # {} /\ phase = "label"
      BY <1>1 DEF Inductive, SearchOK
    <3> QED BY <3>1
  <2> QED BY <2>1 DEF Inductive, TypeOK, GraphType, GraphOK
<1>5. n \in Node /\ n.v = Ahead(d, e.arc)
  BY <1>2, <1>3, <1>4, ExtendType
<1>6. e.at = BucketOf(m.v, m.q)
  BY DEF SearchInOrder, Where
<1>7. n.q = Advance(d, m.q, e.arc)
  BY <1>6 DEF Extend, ExtendQ
<1>8. /\ n.cost = m.cost + red[e.arc] + AlongArc(d, m.st, e.arc).cost
                    + ToVertex(d, AlongArc(d, m.st, e.arc).st, Ahead(d, e.arc)).cost
      /\ n.st = ToVertex(d, AlongArc(d, m.st, e.arc).st, Ahead(d, e.arc)).st
      /\ n.arc = e.arc
  BY <1>4, <1>6 DEF Extend
<1> HIDE DEF m, n
<1>9. /\ This(Append(cur[d], n)) = n /\ Append(cur[d], n) \in Label
      /\ Len(Append(cur[d], n)) = Len(cur[d]) + 1
  BY <1>2, <1>5 DEF This, Label
<1> QED BY <1>1, <1>2, <1>3, <1>5, <1>7, <1>8, <1>9 DEF m, n

\* No child falls into a finished component: its bucket can be reached from its
\* parent's.
LEMMA ChildIsUnsettled ==
  ASSUME Inductive, GraphAsBuilt, SearchInOrder, NEW d \in Dir, NEW e \in todo[d],
         ExtendFeasible(d, This(cur[d]), e)
  PROVE  ~Settled(d, Where(Append(cur[d], Extend(d, This(cur[d]), e))))
<1> DEFINE m == This(cur[d])
           n == Extend(d, m, e)
           c == Where(Append(cur[d], n))
<1>1. /\ cur[d] # <<>> /\ e.arc \in ArcsAt(d, m.v) /\ n.v = Ahead(d, e.arc)
      /\ n.q = Advance(d, m.q, e.arc) /\ This(Append(cur[d], n)) = n
  BY ChildNode
<1>2. /\ cur[d] \in Label /\ SoundLabel(d, cur[d]) /\ Where(cur[d]) \in Bucket
      /\ Scc(d, Where(cur[d])) \notin finished[d]
  BY <1>1, OpenIsUnsettled
<1>3. /\ m.v \in Vertex /\ m.q \in [Res -> Int]
      /\ \A r \in Res : IF d = "fw" THEN m.q[r] >= Lb[m.v][r] ELSE m.q[r] <= Ub[m.v][r]
  BY <1>2, LabelPlaced
<1>4. InWindow(d, Ahead(d, e.arc), Advance(d, m.q, e.arc))
  <2>1. e.at = BucketOf(m.v, m.q)
    BY DEF SearchInOrder, Where
  <2> QED BY <2>1 DEF ExtendFeasible, ExtendQ
<1>5. c = BucketOf(Ahead(d, e.arc), Advance(d, m.q, e.arc)) /\ Where(cur[d]) = BucketOf(m.v, m.q)
  BY <1>1 DEF Where
<1> HIDE DEF m, n, c
<1>6. c \in Reachable[d][Where(cur[d])]
  BY <1>1, <1>3, <1>4, <1>5, ChildIsReachable
<1>7. /\ finished[d] \in SUBSET Sccs[d]
      /\ \A t \in finished[d] : Predecessors[d][t] \subseteq finished[d]
  BY DEF SearchInOrder
<1>8. ASSUME NEW t \in finished[d], c \in t PROVE FALSE
  BY <1>2, <1>6, <1>7, <1>8, ClosedUnderPredecessors
<1>9. ~Settled(d, c)
  BY <1>8 DEF Settled
<1> QED BY <1>9 DEF c, n, m

-----------------------------------------------------------------------------
\* What a solve relies on besides the shape of the state.
InOrder == Inductive /\ GraphAsBuilt /\ SearchInOrder

\* A solve leaves the graph alone.
LEMMA GraphStays ==
  ASSUME GraphAsBuilt, [Next]_vars
  PROVE  GraphAsBuilt'
<1>1. CASE BeginSolve
  BY <1>1 DEF BeginSolve, GraphAsBuilt
<1>2. CASE EndLabeling \/ PostPass \/ Collect \/ Returned \/ UNCHANGED vars
  BY <1>2 DEF EndLabeling, PostPass, Collect, Returned, GraphAsBuilt, graph, vars
<1>3. ASSUME NEW d \in Dir, LabelStep(d)
      PROVE  GraphAsBuilt'
  BY <1>3 DEF LabelStep, StartScc, DropDominated, PruneHopeless, OpenLabel, ExtendArc, FinishScc,
              GraphAsBuilt, graph
<1> QED BY <1>1, <1>2, <1>3 DEF Next, MainStep

\* A solve starts in order.
LEMMA OrderStart == Init => InOrder
<1> SUFFICES ASSUME Init PROVE InOrder
  OBVIOUS
<1>1. GraphAsBuilt
  BY DEF Init, GraphAsBuilt
<1>2. SearchInOrder
  BY DEF Init, SearchInOrder
<1> QED BY <1>1, <1>2, InitIsInductive DEF InOrder

\* The order of a direction of which a step changes nothing.
OrderOf(d) ==
  /\ \A s \in finished[d] : s \in Sccs[d] /\ Predecessors[d][s] \subseteq finished[d]
  /\ scc[d] # {} => Predecessors[d][scc[d]] \subseteq finished[d]
  /\ cur[d] # <<>> => Where(cur[d]) \in scc[d] /\ cur[d] \notin extended[d]
  /\ \A e \in todo[d] : e.at = Where(cur[d]) /\ e.arc \in BuiltArcs[d][e.at]

\* Every step of a solve keeps the order of components.
LEMMA OrderStays ==
  ASSUME InOrder, [Next]_vars
  PROVE  InOrder'
<1>1. Inductive /\ GraphAsBuilt /\ SearchInOrder /\ LabelType /\ SearchType /\ SearchOK
  BY DEF InOrder, Inductive, TypeOK
<1>2. Inductive' /\ GraphAsBuilt'
  BY <1>1, NextIsInductive, GraphStays
<1>3. (\A d \in Dir : OrderOf(d)) /\ ((\A d \in Dir : OrderOf(d)') => SearchInOrder')
  BY <1>1 DEF SearchInOrder, OrderOf
<1>4. CASE BeginSolve
  <2>1. \A d \in Dir : finished'[d] = {} /\ scc'[d] = {} /\ cur'[d] = <<>> /\ todo'[d] = {}
    BY <1>4 DEF BeginSolve
  <2> QED BY <1>2, <2>1 DEF InOrder, SearchInOrder
<1>5. CASE EndLabeling \/ Collect \/ Returned \/ UNCHANGED vars
  <2>1. UNCHANGED <<finished, scc, cur, todo, extended>>
    BY <1>5 DEF EndLabeling, Collect, Returned, search, vars
  <2> QED BY <1>2, <1>3, <2>1 DEF InOrder, OrderOf
<1>6. CASE PostPass
  <2>1. UNCHANGED <<finished, scc, cur, todo>> /\ \A d \in Dir : cur[d] = <<>>
    BY <1>1, <1>6 DEF PostPass, SearchOK
  <2>2. \A d \in Dir : OrderOf(d)'
    BY <1>3, <2>1 DEF OrderOf
  <2> QED BY <1>2, <1>3, <2>2 DEF InOrder
<1>7. ASSUME NEW d \in Dir, LabelStep(d)
      PROVE  InOrder'
  <2> SUFFICES ASSUME NEW c \in Dir PROVE OrderOf(c)'
    BY <1>2, <1>3 DEF InOrder
  <2>1. CASE c # d
    <3>1. /\ finished'[c] = finished[c] /\ scc'[c] = scc[c] /\ cur'[c] = cur[c]
          /\ todo'[c] = todo[c] /\ extended'[c] = extended[c]
      BY <1>1, <1>7, <2>1 DEF LabelStep, StartScc, DropDominated, PruneHopeless, OpenLabel,
                              ExtendArc, FinishScc, Visit, LabelType, SearchType
    <3> QED BY <1>3, <3>1 DEF OrderOf
  <2>2. CASE c = d
    <3>1. ASSUME NEW s \in Sccs[d], StartScc(d, s)
          PROVE  OrderOf(d)'
      <4>1. /\ scc'[d] = s /\ Predecessors[d][s] \subseteq finished[d] /\ cur[d] = <<>>
            /\ UNCHANGED <<finished, cur, todo, extended>>
        BY <1>1, <3>1 DEF StartScc, SearchType, SearchOK
      <4> QED BY <1>1, <1>3, <4>1 DEF OrderOf, SearchOK
    <3>2. ASSUME NEW l \in labels[d], DropDominated(d, l) \/ PruneHopeless(d, l)
          PROVE  OrderOf(d)'
      <4>1. UNCHANGED <<finished, scc, cur, todo>> /\ cur[d] = <<>>
        BY <3>2 DEF DropDominated, PruneHopeless, Visit
      <4> QED BY <1>3, <4>1 DEF OrderOf
    <3>3. ASSUME NEW l \in labels[d], OpenLabel(d, l)
          PROVE  OrderOf(d)'
      <4> DEFINE more == Extensions(d, Where(l))
      <4>1. /\ cur'[d] = IF more = {} THEN <<>> ELSE l
            /\ todo'[d] = more
            /\ extended'[d] = IF more = {} THEN extended[d] \cup {l} ELSE extended[d]
            /\ UNCHANGED <<finished, scc>>
        BY <1>1, <3>3 DEF OpenLabel, LabelType, SearchType
      <4>2. Where(l) \in scc[d] /\ l \notin extended[d]
        BY <3>3 DEF OpenLabel, Visit, Pending
      <4>3. Where(l) \in Bucket
        BY <1>1, <4>2 DEF SearchType
      <4>4. \A e \in more : e.at = Where(l) /\ e.arc \in BuiltArcs[d][e.at]
        BY <1>1, <4>3 DEF Extensions, GraphAsBuilt
      <4> HIDE DEF more
      <4> QED BY <1>3, <4>1, <4>2, <4>4 DEF OrderOf
    <3>4. ASSUME NEW e \in todo[d], ExtendArc(d, e)
          PROVE  OrderOf(d)'
      <4> DEFINE n == Extend(d, This(cur[d]), e)
                 done == IF todo[d] = {e} THEN {cur[d]} ELSE {}
      <4>1. /\ todo'[d] = todo[d] \ {e}
            /\ cur'[d] = IF todo[d] = {e} THEN <<>> ELSE cur[d]
            /\ UNCHANGED <<finished, scc>>
            /\ extended'[d] = extended[d] \cup done
               \/ extended'[d] = (extended[d] \ Replaced(d, n)) \cup done
        BY <1>1, <3>4 DEF ExtendArc, LabelType, SearchType
      <4>2. todo[d] # {e} => extended'[d] \subseteq extended[d]
        BY <4>1
      <4>3. todo[d] = {e} => cur'[d] = <<>> /\ todo'[d] = {}
        BY <4>1
      <4> HIDE DEF n, done
      <4> QED BY <1>3, <4>1, <4>2, <4>3 DEF OrderOf
    <3>5. CASE FinishScc(d)
      <4>1. /\ finished'[d] = finished[d] \cup {scc[d]} /\ scc'[d] = {}
            /\ UNCHANGED <<cur, todo>> /\ cur[d] = <<>> /\ scc[d] # {}
        BY <1>1, <3>5 DEF FinishScc, SearchType
      <4>2. scc[d] \in Sccs[d] /\ Predecessors[d][scc[d]] \subseteq finished[d]
        BY <1>1, <1>3, <4>1 DEF SearchOK, OrderOf
      <4>3. todo[d] = {}
        BY <1>1, <4>1 DEF SearchOK
      <4> QED BY <1>3, <2>2, <4>1, <4>2, <4>3 DEF OrderOf
    <3> QED BY <1>7, <2>2, <3>1, <3>2, <3>3, <3>4, <3>5 DEF LabelStep
  <2> QED BY <2>1, <2>2
<1> QED BY <1>4, <1>5, <1>6, <1>7 DEF Next, MainStep

\* So components are processed in order throughout.
LEMMA AlwaysInOrder == Spec => []InOrder
<1>1. InOrder /\ [Next]_vars => InOrder'
  BY OrderStays
<1> QED BY <1>1, OrderStart, PTL DEF Spec

-----------------------------------------------------------------------------
\* Only the extension of a label stores a label while components are processed.
LEMMA NewLabels ==
  ASSUME InOrder, [Next]_vars, phase = "label", NEW d \in Dir, NEW l \in labels'[d], l \notin labels[d]
  PROVE  \E e \in todo[d] : /\ ExtendArc(d, e) /\ ExtendFeasible(d, This(cur[d]), e)
                            /\ l = Append(cur[d], Extend(d, This(cur[d]), e))
<1>1. labels \in [Dir -> SUBSET Label]
  BY DEF InOrder, Inductive, TypeOK, LabelType
<1>2. PICK c \in Dir : \E e \in todo[c] : ExtendArc(c, e)
  <2>1. ~BeginSolve
    BY DEF BeginSolve
  <2> QED BY <2>1, LabelsShrink DEF InOrder
<1>3. PICK e \in todo[c] : ExtendArc(c, e)
  BY <1>2
<1>4. /\ \/ labels' = labels
         \/ /\ labels' = [labels EXCEPT ![c] = (@ \ Replaced(c, Extend(c, This(cur[c]), e)))
                                                 \cup {Append(cur[c], Extend(c, This(cur[c]), e))}]
            /\ ExtendFeasible(c, This(cur[c]), e)
  BY <1>3 DEF ExtendArc
<1>5. c = d /\ l = Append(cur[c], Extend(c, This(cur[c]), e)) /\ ExtendFeasible(c, This(cur[c]), e)
  BY <1>1, <1>4
<1> QED BY <1>3, <1>5

\* The topological order does what it is for: a finished component never gets
\* another label, however far behind its arc's target a child really falls.
THEOREM ComponentsStayClosed == Spec => FinishedComponentsAreClosed
<1>1. InOrder /\ [Next]_vars =>
        [phase = "label" /\ phase' = "label" =>
           \A d \in Dir : \A l \in labels[d]' \ labels[d] : ~Settled(d, Where(l))]_vars
  <2> SUFFICES ASSUME InOrder, [Next]_vars, phase = "label",
                      NEW d \in Dir, NEW l \in labels'[d], l \notin labels[d]
               PROVE  ~Settled(d, Where(l))
    OBVIOUS
  <2>1. PICK e \in todo[d] : /\ ExtendArc(d, e) /\ ExtendFeasible(d, This(cur[d]), e)
                             /\ l = Append(cur[d], Extend(d, This(cur[d]), e))
    BY NewLabels
  <2> QED BY <2>1, ChildIsUnsettled DEF InOrder
<1> QED BY <1>1, AlwaysInOrder, PTL DEF Spec, FinishedComponentsAreClosed

-----------------------------------------------------------------------------
\* What dominance compares in an exact solve.

\* x can do all that y can, for no more.
Covers(d, x, y) ==
  /\ x.v = y.v /\ AtLeastAsGood(d, x.q, y.q)
  /\ \A r \in NonDisposable : x.q[r] = y.q[r]
  /\ DomCost(d, x.v, x.st, y.st) < Inf
  /\ x.cost + DomCost(d, x.v, x.st, y.st) <= y.cost

Represented(d, y) == \E k \in Live(d) : Covers(d, This(k), y)

\* The arcs that can be taken and where they lead, buckets aside.
CanTake(d, n, a) ==
  LET along == AlongArc(d, n.st, a)
  IN /\ a \in ArcsAt(d, n.v) /\ InWindow(d, Ahead(d, a), Advance(d, n.q, a))
     /\ along.cost < Inf /\ ToVertex(d, along.st, Ahead(d, a)).cost < Inf

Taken(d, n, a) ==
  LET along == AlongArc(d, n.st, a)
      at    == ToVertex(d, along.st, Ahead(d, a))
  IN [v |-> Ahead(d, a), q |-> Advance(d, n.q, a),
      cost |-> n.cost + red[a] + along.cost + at.cost, st |-> at.st]

Mark(n) == n.v \in Vertex /\ n.q \in [Res -> Int] /\ n.cost \in Int /\ n.st \in PackState

\* A lawful pack lets a label stand for itself.
LEMMA CoversReflexive ==
  ASSUME PackLawful, NEW d \in Dir, NEW n, Mark(n)
  PROVE  Covers(d, n, n)
<1>1. d \in Dir
  OBVIOUS
<1>2. DomCost(d, n.v, n.st, n.st) <= 0 /\ DomCost(d, n.v, n.st, n.st) < Inf
      /\ DomCost(d, n.v, n.st, n.st) \in Int
  BY <1>1 DEF PackLawful, Composes, Closed, Mark
<1>3. AtLeastAsGood(d, n.q, n.q)
  BY DEF AtLeastAsGood, Mark
<1> QED BY <1>2, <1>3 DEF Covers, Mark

\* What stands for a label stands for what that label stood for.
LEMMA CoversTransitive ==
  ASSUME PackLawful, NEW d \in Dir, NEW x, NEW y, NEW z, Mark(x), Mark(y), Mark(z),
         Covers(d, x, y), Covers(d, y, z)
  PROVE  Covers(d, x, z)
<1> DEFINE xy == DomCost(d, x.v, x.st, y.st)
           yz == DomCost(d, x.v, y.st, z.st)
           xz == DomCost(d, x.v, x.st, z.st)
<1>1. d \in Dir
  OBVIOUS
<1>2. /\ x.v \in Vertex /\ x.st \in PackState /\ y.st \in PackState /\ z.st \in PackState
      /\ x.cost \in Int /\ y.cost \in Int /\ z.cost \in Int
      /\ x.q \in [Res -> Int] /\ y.q \in [Res -> Int] /\ z.q \in [Res -> Int]
  BY DEF Mark
<1>3. xy \in Int /\ yz \in Int /\ xz \in Int
  BY <1>1, <1>2 DEF PackLawful, Closed
<1>4. /\ x.v = y.v /\ y.v = z.v /\ xy < Inf /\ yz < Inf
      /\ x.cost + xy <= y.cost /\ y.cost + yz <= z.cost
  BY DEF Covers
<1>5. xz < Inf /\ xz <= xy + yz
  BY <1>1, <1>2, <1>4 DEF PackLawful, Composes
<1>6. x.cost + xz <= z.cost
  <2> HIDE DEF xy, yz, xz
  <2> QED BY <1>2, <1>3, <1>4, <1>5
<1>7. AtLeastAsGood(d, x.q, z.q)
  BY <1>2 DEF AtLeastAsGood, Covers
<1>8. \A r \in NonDisposable : x.q[r] = z.q[r]
  BY DEF Covers
<1> QED BY <1>4, <1>5, <1>6, <1>7, <1>8 DEF Covers

\* What lies at the far end of an arc.
LEMMA TakenType ==
  ASSUME red \in [Arc -> Int], NEW d \in Dir, NEW n, Mark(n), NEW a \in Arc
  PROVE  Mark(Taken(d, n, a))
<1> DEFINE along == AlongArc(d, n.st, a)
           at    == ToVertex(d, along.st, Ahead(d, a))
<1>1. Ahead(d, a) \in Vertex /\ n.st \in PackState /\ n.cost \in Int /\ n.q \in [Res -> Int]
  BY TableType DEF Ahead, Mark
<1>2. along \in [st : PackState, cost : Int]
  BY <1>1, PackAssumption
<1>3. at \in [st : PackState, cost : Int]
  BY <1>1, <1>2, PackAssumption
<1>4. Advance(d, n.q, a) \in [Res -> Int]
  BY <1>1, AdvanceType
<1>5. Taken(d, n, a) = [v |-> Ahead(d, a), q |-> Advance(d, n.q, a),
                     cost |-> n.cost + red[a] + along.cost + at.cost, st |-> at.st]
  BY DEF Taken
<1> HIDE DEF along, at
<1> QED BY <1>1, <1>2, <1>3, <1>4, <1>5 DEF Mark

\* Who can do all that another can is as good after any arc that both take, and
\* can take every arc that the other can.
LEMMA CoversPersists ==
  ASSUME PackLawful, red \in [Arc -> Int], NEW d \in Dir, NEW x, NEW y, Mark(x), Mark(y),
         Covers(d, x, y), NEW a \in Arc, CanTake(d, y, a)
  PROVE  CanTake(d, x, a) /\ Covers(d, Taken(d, x, a), Taken(d, y, a))
<1> DEFINE D  == DomCost(d, x.v, x.st, y.st)
           x1 == AlongArc(d, x.st, a)
           y1 == AlongArc(d, y.st, a)
           x2 == ToVertex(d, x1.st, Ahead(d, a))
           y2 == ToVertex(d, y1.st, Ahead(d, a))
           E  == DomCost(d, Ahead(d, a), x2.st, y2.st)
<1>1. d \in Dir /\ Ahead(d, a) \in Vertex /\ red[a] \in Int
  BY TableType DEF Ahead
<1>2. /\ x.v \in Vertex /\ x.st \in PackState /\ y.st \in PackState
      /\ x.cost \in Int /\ y.cost \in Int /\ x.q \in [Res -> Int] /\ y.q \in [Res -> Int]
  BY DEF Mark
<1>3. /\ x.v = y.v /\ D < Inf /\ x.cost + D <= y.cost /\ AtLeastAsGood(d, x.q, y.q)
      /\ \A r \in NonDisposable : x.q[r] = y.q[r]
  BY DEF Covers
<1>4. /\ a \in ArcsAt(d, x.v) /\ y1.cost < Inf /\ y2.cost < Inf
      /\ InWindow(d, Ahead(d, a), Advance(d, y.q, a))
  BY <1>3 DEF CanTake
<1>5. /\ x1.cost < Inf /\ x2.cost < Inf /\ E < Inf
      /\ x1.cost + x2.cost + E <= y1.cost + y2.cost + D
  BY <1>1, <1>2, <1>3, <1>4 DEF PackLawful, Persists
<1>6. /\ x1 \in [st : PackState, cost : Int] /\ y1 \in [st : PackState, cost : Int]
      /\ x2 \in [st : PackState, cost : Int] /\ y2 \in [st : PackState, cost : Int]
  <2>1. x1 \in [st : PackState, cost : Int] /\ y1 \in [st : PackState, cost : Int]
    BY <1>1, <1>2, PackAssumption
  <2>2. x1.st \in PackState /\ y1.st \in PackState
    BY <2>1
  <2>3. x2 \in [st : PackState, cost : Int] /\ y2 \in [st : PackState, cost : Int]
    BY <1>1, <2>2, PackAssumption
  <2> QED BY <2>1, <2>3
<1>7. D \in Int /\ E \in Int
  <2>1. x2.st \in PackState /\ y2.st \in PackState
    BY <1>6
  <2> QED BY <1>1, <1>2, <2>1 DEF PackLawful, Closed
<1>8. /\ AtLeastAsGood(d, Advance(d, x.q, a), Advance(d, y.q, a))
      /\ Advance(d, x.q, a) \in [Res -> Int] /\ Advance(d, y.q, a) \in [Res -> Int]
  BY <1>1, <1>2, <1>3, AdvanceMonotone, AdvanceType
<1>9. InWindow(d, Ahead(d, a), Advance(d, x.q, a))
  BY <1>1, <1>4, <1>8, TableType DEF InWindow, AtLeastAsGood
<1>10. \A r \in NonDisposable : Advance(d, x.q, a)[r] = Advance(d, y.q, a)[r]
  BY <1>3, ProblemAssumption DEF Advance
<1>11. CanTake(d, x, a)
  BY <1>4, <1>5, <1>9 DEF CanTake
<1>12. /\ Taken(d, x, a).v = Ahead(d, a) /\ Taken(d, y, a).v = Ahead(d, a)
       /\ Taken(d, x, a).q = Advance(d, x.q, a) /\ Taken(d, y, a).q = Advance(d, y.q, a)
       /\ Taken(d, x, a).st = x2.st /\ Taken(d, y, a).st = y2.st
       /\ Taken(d, x, a).cost = x.cost + red[a] + x1.cost + x2.cost
       /\ Taken(d, y, a).cost = y.cost + red[a] + y1.cost + y2.cost
  BY DEF Taken
<1>13. Taken(d, x, a).cost + E <= Taken(d, y, a).cost
  <2>1. x1.cost \in Int /\ x2.cost \in Int /\ y1.cost \in Int /\ y2.cost \in Int
    BY <1>6
  <2> HIDE DEF x1, x2, y1, y2, D, E
  <2> QED BY <1>1, <1>2, <1>3, <1>5, <1>7, <1>12, <2>1
<1>14. Covers(d, Taken(d, x, a), Taken(d, y, a))
  BY <1>5, <1>8, <1>10, <1>12, <1>13 DEF Covers
<1> QED BY <1>11, <1>14

\* Only what a record says of these four counts.
LEMMA CoversByFields ==
  ASSUME NEW d, NEW x, NEW y, NEW z, y.v = z.v, y.q = z.q, y.cost = z.cost, y.st = z.st
  PROVE  /\ Covers(d, x, y) <=> Covers(d, x, z)
         /\ Covers(d, y, x) <=> Covers(d, z, x)
BY DEF Covers

-----------------------------------------------------------------------------
\* What keeps every path represented: so is the origin, so is whatever follows
\* an extended label along an arc, and in finished components all labels that
\* are alive have been extended, but for those beyond the midpoint.
OriginRepresented(d) == Represented(d, This(InitialLabel(d)))

Tried(d, l, a) ==
  \/ l \in extended[d]
  \/ l = cur[d] /\ [arc |-> a, at |-> Where(l)] \notin todo[d]

\* What bounds on the other half of a path keep out of the buckets, or from being
\* extended: the filters of bidirectional solves.
GivenUp(d, n) == opt.mode = "par" /\ Hopeless(d, n)
TurnedAway(d, n) ==
  GivenUp(d, n) \/ (opt.mode = "seq" /\ d = "fw" /\ PastMid(d, n) /\ ~CompatibleOpposite(n))

ChildrenRepresented(d) ==
  \A l \in labels[d] : \A a \in Arc :
    CanTake(d, This(l), a) /\ Tried(d, l, a) =>
      \/ Represented(d, Taken(d, This(l), a))
      \/ TurnedAway(d, Taken(d, This(l), a)) \/ GivenUp(d, This(l))

SettledAreExtended(d) ==
  \A l \in Live(d) : Settled(d, Where(l)) => l \in extended[d] \/ PastMid(d, This(l))

\* No label is made twice: its parent has been along its arc, or is gone with its
\* component.
Parent(m) == [i \in 1..Len(m) - 1 |-> m[i]]

MadeOnce(d) ==
  \A m \in labels[d] : Len(m) > 1 =>
    Tried(d, Parent(m), This(m).arc) \/ Settled(d, Where(Parent(m)))

\* c_best of a finished bucket is a bound for all labels up to it.
BestIsBound(d) ==
  \A l \in Live(d) : \A b \in Bucket :
    Settled(d, b) /\ UpTo(d, Where(l), b) => cbest[d][b] <= This(l).cost

KeptOK(d) ==
  /\ OriginRepresented(d) /\ ChildrenRepresented(d) /\ SettledAreExtended(d)
  /\ MadeOnce(d) /\ BestIsBound(d) /\ IsFiniteSet(labels[d])

\* Backward first, forward labeling waits until backward labeling has ended.
Waits == phase = "label" /\ opt.mode = "seq" /\ finished["bw"] # Sccs["bw"]
FwWaits == Waits => extended["fw"] = {} /\ cur["fw"] = <<>> /\ scc["fw"] = {}

\* An exact solve, until the post-pass of a bidirectional one.
ExactRun ==
  opt.stage = "Exact" /\ (phase \in {"label", "post"} \/ (opt.mode = "mono" /\ phase # "ready"))

Kept == FwWaits /\ (ExactRun => \A d \in Directions : KeptOK(d))

-----------------------------------------------------------------------------
\* A label ends in a node that can be compared.
LEMMA LabelMarks ==
  ASSUME NEW l \in Label
  PROVE  Mark(This(l))
BY LabelNodes DEF Mark, Node

\* The parent of a child is the label it was extended from.
LEMMA ParentOfAppend ==
  ASSUME NEW l \in Label, NEW n \in Node
  PROVE  Parent(Append(l, n)) = l
<1>1. Len(l) \in Nat /\ l \in Seq(Node) /\ l = [i \in 1..Len(l) |-> l[i]]
  BY LabelNodes DEF Label
<1>2. Len(Append(l, n)) - 1 = Len(l) /\ \A i \in 1..Len(l) : Append(l, n)[i] = l[i]
  BY <1>1
<1>3. Parent(Append(l, n)) = [i \in 1..Len(l) |-> Append(l, n)[i]]
  BY <1>2 DEF Parent
<1>4. [i \in 1..Len(l) |-> Append(l, n)[i]] = [i \in 1..Len(l) |-> l[i]]
  BY <1>2
<1> QED BY <1>1, <1>3, <1>4

\* A bucket is finished when one behind it is.
LEMMA SettledBefore ==
  ASSUME SearchInOrder, NEW d \in Dir, NEW b \in Bucket, NEW c \in Reachable[d][b], Settled(d, c)
  PROVE  Settled(d, b)
<1>1. /\ finished[d] \in SUBSET Sccs[d]
      /\ \A t \in finished[d] : Predecessors[d][t] \subseteq finished[d]
  BY DEF SearchInOrder
<1>2. PICK t \in finished[d] : c \in t
  BY DEF Settled
<1>3. Scc(d, b) \in finished[d]
  BY <1>1, <1>2, ClosedUnderPredecessors
<1> QED BY <1>3, SccsPartition DEF Settled

\* A record stays represented if the labels that represented it have successors
\* that are as good.
LEMMA StaysRepresented ==
  ASSUME PackLawful, NEW d \in Dir, labels[d] \subseteq Label, labels'[d] \subseteq Label,
         \A k \in Live(d) : \E j \in Live(d)' : Covers(d, This(j), This(k)),
         NEW y, Mark(y), Represented(d, y)
  PROVE  \E j \in Live(d)' : Covers(d, This(j), y)
<1>1. PICK k \in Live(d) : Covers(d, This(k), y)
  BY DEF Represented
<1>2. PICK j \in Live(d)' : Covers(d, This(j), This(k))
  BY <1>1
<1>3. Mark(This(k)) /\ Mark(This(j))
  BY LabelMarks DEF Live
<1>4. Covers(d, This(j), y)
  BY <1>1, <1>2, <1>3, CoversTransitive
<1> QED BY <1>4

\* What a step of direction d leaves alone, so that the filters stay what they are.
Steady(d) ==
  /\ UNCHANGED <<opt, red, mid>>
  /\ opt.mode # "mono" => completion'[d] = completion[d]
  /\ d = "fw" /\ opt.mode = "seq" => cbest'["bw"] = cbest["bw"]

\* Who was turned away stays so.
LEMMA FiltersStay ==
  ASSUME NEW d \in Dir, Steady(d)
  PROVE  \A n : /\ GivenUp(d, n)' <=> GivenUp(d, n)
                /\ TurnedAway(d, n)' <=> TurnedAway(d, n)
<1> SUFFICES ASSUME NEW n
             PROVE  /\ GivenUp(d, n)' <=> GivenUp(d, n)
                    /\ TurnedAway(d, n)' <=> TurnedAway(d, n)
  OBVIOUS
<1>1. opt' = opt /\ red' = red /\ mid' = mid
  BY DEF Steady
<1>2. GivenUp(d, n)' <=> GivenUp(d, n)
  <2>1. CASE opt.mode = "par"
    <3>1. completion'[d] = completion[d]
      BY <2>1 DEF Steady
    <3> QED BY <1>1, <3>1 DEF GivenUp, Hopeless
  <2>2. CASE opt.mode # "par"
    BY <1>1, <2>2 DEF GivenUp
  <2> QED BY <2>1, <2>2
<1>3. PastMid(d, n)' <=> PastMid(d, n)
  BY <1>1 DEF PastMid
<1>4. opt.mode = "seq" /\ d = "fw" => (CompatibleOpposite(n)' <=> CompatibleOpposite(n))
  <2> SUFFICES ASSUME opt.mode = "seq", d = "fw" PROVE CompatibleOpposite(n)' <=> CompatibleOpposite(n)
    OBVIOUS
  <2>1. cbest'["bw"] = cbest["bw"]
    BY DEF Steady
  <2>2. \A v : VertexMin("bw", v)' = VertexMin("bw", v)
    BY <2>1 DEF VertexMin
  <2> QED BY <1>1, <2>2 DEF CompatibleOpposite
<1> QED BY <1>1, <1>2, <1>3, <1>4 DEF TurnedAway

\* Steps that change no label, no flag, no bound and no component of a direction.
LEMMA KeptStable ==
  ASSUME NEW d \in Dir, KeptOK(d), Steady(d), labels'[d] = labels[d], extended'[d] = extended[d],
         dominated'[d] = dominated[d], finished'[d] = finished[d], cur'[d] = cur[d],
         todo'[d] = todo[d], cbest'[d] = cbest[d]
  PROVE  KeptOK(d)'
<1>1. opt' = opt /\ red' = red /\ mid' = mid
  BY DEF Steady
<1>2. Live(d)' = Live(d) /\ \A y : Represented(d, y)' <=> Represented(d, y)
  BY DEF Live, Represented, Covers
<1>3. OriginRepresented(d)'
  BY <1>2 DEF KeptOK, OriginRepresented
<1>4. ChildrenRepresented(d)'
  <2> SUFFICES ASSUME NEW l \in labels[d], NEW a \in Arc, CanTake(d, This(l), a), Tried(d, l, a)
               PROVE  \/ Represented(d, Taken(d, This(l), a))
                      \/ TurnedAway(d, Taken(d, This(l), a)) \/ GivenUp(d, This(l))
    BY <1>1, <1>2, FiltersStay DEF ChildrenRepresented, CanTake, Taken, Tried
  <2> QED BY DEF KeptOK, ChildrenRepresented
<1>5. SettledAreExtended(d)'
  BY <1>1, <1>2 DEF KeptOK, SettledAreExtended, Settled, PastMid
<1>6. MadeOnce(d)' /\ BestIsBound(d)' /\ IsFiniteSet(labels'[d])
  BY <1>2 DEF KeptOK, MadeOnce, BestIsBound, Settled, Tried
<1> QED BY <1>3, <1>4, <1>5, <1>6 DEF KeptOK

\* Only where a record is, with which resources and for what costs, counts for the filters.
LEMMA FiltersByFields ==
  ASSUME NEW d, NEW y, NEW z, y.v = z.v, y.q = z.q, y.cost = z.cost, TurnedAway(d, y)
  PROVE  TurnedAway(d, z)
BY DEF TurnedAway, GivenUp, Hopeless, PastMid, CompatibleOpposite

\* A solve begins with the origin's label alone.
LEMMA KeptBegin ==
  ASSUME PackLawful, BeginSolve, NEW d \in Directions'
  PROVE  KeptOK(d)'
<1> DEFINE o == InitialLabel(d)
<1>1. d \in Dir /\ d \in Directions /\ o \in Label
  BY InitialLabelType DEF Dir, Directions, BeginSolve
<1>2. /\ labels'[d] = {o} /\ extended'[d] = {} /\ dominated'[d] = {}
      /\ finished'[d] = {} /\ cur'[d] = <<>>
  BY <1>1 DEF BeginSolve
<1>3. Len(o) = 1 /\ o # <<>>
  BY DEF InitialLabel
<1>4. Live(d)' = {o}
  BY <1>2 DEF Live
<1>5. Covers(d, This(o), This(o))
  BY <1>1, LabelMarks, CoversReflexive
<1> HIDE DEF o
<1>6. OriginRepresented(d)'
  BY <1>4, <1>5 DEF OriginRepresented, Represented, o
<1>7. ChildrenRepresented(d)'
  BY <1>2, <1>3 DEF ChildrenRepresented, Tried
<1>8. SettledAreExtended(d)' /\ BestIsBound(d)'
  BY <1>2 DEF SettledAreExtended, BestIsBound, Settled
<1>9. MadeOnce(d)'
  <2>1. \A m \in labels'[d] : m = o
    BY <1>2
  <2>2. \A m \in labels'[d] : Len(m) = 1
    BY <1>3, <2>1
  <2>3. ~(1 > 1)
    OBVIOUS
  <2> QED BY <2>2, <2>3 DEF MadeOnce
<1>10. IsFiniteSet(labels'[d])
  BY <1>2, FS_Singleton
<1> QED BY <1>6, <1>7, <1>8, <1>9, <1>10 DEF KeptOK

\* What a step of one direction's labeling leaves alone.
LEMMA StepIsSteady ==
  ASSUME TypeOK, NEW d \in Dir, LabelStep(d)
  PROVE  /\ Steady(d) /\ phase = "label" /\ phase' = "label" /\ d \in Directions
         /\ UNCHANGED <<opt, red, mid, completion>>
<1>1. /\ phase = "label" /\ phase' = "label" /\ d \in Directions
      /\ UNCHANGED <<opt, red, mid, completion>>
  BY DEF LabelStep, StartScc, DropDominated, PruneHopeless, OpenLabel, ExtendArc, FinishScc,
         Visit, Running, graph
<1>2. d = "fw" => cbest'["bw"] = cbest["bw"]
  <2> SUFFICES ASSUME d = "fw" PROVE cbest'["bw"] = cbest["bw"]
    OBVIOUS
  <2>1. cbest \in [Dir -> [Bucket -> Int]] /\ "bw" \in Dir
    BY DEF TypeOK, SearchType, Dir
  <2>2. cbest' = cbest \/ \E x : cbest' = [cbest EXCEPT !["fw"] = x]
    BY DEF LabelStep, StartScc, DropDominated, PruneHopeless, OpenLabel, ExtendArc, FinishScc
  <2> QED BY <2>1, <2>2
<1> QED BY <1>1, <1>2 DEF Steady

\* A dominated label is dropped: the label that dominates it takes its place.
LEMMA KeptDrop ==
  ASSUME PackLawful, InOrder, NEW d \in Dir, KeptOK(d), Steady(d), opt.stage = "Exact",
         NEW l \in labels[d], DropDominated(d, l)
  PROVE  KeptOK(d)'
<1>1. /\ labels \in [Dir -> SUBSET Label]
      /\ dominated \in [Dir -> SUBSET Label] /\ red \in [Arc -> Int]
  BY DEF InOrder, Inductive, TypeOK, LabelType, GraphType, DropDominated, Visit, Running, Dir
<1>2. /\ dominated'[d] = dominated[d] \cup {l}
      /\ UNCHANGED <<opt, red, mid, labels, extended, finished, cur, todo, cbest>>
      /\ l \in Live(d) /\ DominatedInAdjacent(d, l) /\ ~Enumerating
  BY <1>1 DEF DropDominated, graph, Visit, Pending
<1>3. KeptOK(d)
  OBVIOUS
<1>4. Live(d)' = Live(d) \ {l}
  BY <1>2 DEF Live
<1>5. PICK x \in Live(d) : x # l /\ Covers(d, This(x), This(l))
  <2>1. PICK x \in Live(d) : Where(x) # Where(l) /\ Dominates(d, This(x), This(l))
    BY <1>2 DEF DominatedInAdjacent
  <2>2. ~Heuristic
    BY DEF Heuristic
  <2> QED BY <2>1, <2>2 DEF Dominates, Covers
<1>6. \A k \in Live(d) : \E j \in Live(d)' : Covers(d, This(j), This(k))
  <2>1. \A k \in Live(d) : Covers(d, This(k), This(k))
    BY <1>1, LabelMarks, CoversReflexive DEF Live
  <2> QED BY <1>4, <1>5, <2>1
<1>7. ASSUME NEW y, Mark(y), Represented(d, y)
      PROVE  \E j \in Live(d)' : Covers(d, This(j), y)
  <2>1. labels[d] \subseteq Label /\ labels'[d] \subseteq Label
    BY <1>1, <1>2
  <2> QED BY <1>6, <1>7, <2>1, StaysRepresented
<1>8. OriginRepresented(d)'
  <2>1. Mark(This(InitialLabel(d))) /\ OriginRepresented(d)
    BY <1>1, <1>3, InitialLabelType, LabelMarks DEF KeptOK
  <2> QED BY <1>7, <2>1 DEF OriginRepresented, Represented
<1>9. ChildrenRepresented(d)'
  <2> SUFFICES ASSUME NEW m \in labels[d], NEW a \in Arc, CanTake(d, This(m), a), Tried(d, m, a)
               PROVE  \/ \E j \in Live(d)' : Covers(d, This(j), Taken(d, This(m), a))
                      \/ TurnedAway(d, Taken(d, This(m), a)) \/ GivenUp(d, This(m))
    BY <1>2, FiltersStay DEF ChildrenRepresented, CanTake, Taken, Tried, Represented, Covers
  <2>1. Mark(Taken(d, This(m), a))
    BY <1>1, LabelMarks, TakenType
  <2> QED BY <1>3, <1>7, <2>1 DEF KeptOK, ChildrenRepresented
<1>10. SettledAreExtended(d)' /\ MadeOnce(d)' /\ BestIsBound(d)'
  BY <1>2, <1>3, <1>4 DEF KeptOK, SettledAreExtended, MadeOnce, BestIsBound, Settled, Tried,
                         PastMid
<1>11. IsFiniteSet(labels'[d])
  BY <1>2, <1>3 DEF KeptOK
<1> QED BY <1>8, <1>9, <1>10, <1>11 DEF KeptOK

\* A label that is pruned is given up.
LEMMA KeptPrune ==
  ASSUME InOrder, NEW d \in Dir, KeptOK(d), Steady(d), opt.stage = "Exact",
         NEW l \in labels[d], PruneHopeless(d, l)
  PROVE  KeptOK(d)'
<1>1. labels \in [Dir -> SUBSET Label] /\ extended \in [Dir -> SUBSET Label]
  BY DEF InOrder, Inductive, TypeOK, LabelType
<1>2. /\ extended'[d] = extended[d] \cup {l}
      /\ UNCHANGED <<opt, red, mid, labels, dominated, finished, cur, todo, cbest>>
      /\ opt.mode = "par" /\ Hopeless(d, This(l))
  BY <1>1 DEF PruneHopeless, graph, UseCompletion, Enumerating
<1>3. Live(d)' = Live(d) /\ \A y : Represented(d, y)' <=> Represented(d, y)
  BY <1>2 DEF Live, Represented, Covers
<1>4. OriginRepresented(d)'
  BY <1>3 DEF KeptOK, OriginRepresented
<1>5. ChildrenRepresented(d)'
  <2> SUFFICES ASSUME NEW m \in labels[d], NEW a \in Arc, CanTake(d, This(m), a), Tried(d, m, a)'
               PROVE  \/ Represented(d, Taken(d, This(m), a))
                      \/ TurnedAway(d, Taken(d, This(m), a)) \/ GivenUp(d, This(m))
    BY <1>2, <1>3, FiltersStay DEF ChildrenRepresented, CanTake, Taken
  <2>1. CASE m = l
    BY <1>2, <2>1 DEF GivenUp
  <2>2. CASE m # l
    <3>1. Tried(d, m, a)
      BY <1>2, <2>2 DEF Tried
    <3> QED BY <3>1 DEF KeptOK, ChildrenRepresented
  <2> QED BY <2>1, <2>2
<1>6. SettledAreExtended(d)' /\ MadeOnce(d)' /\ BestIsBound(d)'
  BY <1>2, <1>3 DEF KeptOK, SettledAreExtended, MadeOnce, BestIsBound, Settled, Tried, PastMid
<1>7. IsFiniteSet(labels'[d])
  BY <1>2 DEF KeptOK
<1> QED BY <1>4, <1>5, <1>6, <1>7 DEF KeptOK

\* Opening a label tries nothing yet; a label without arcs is done.
LEMMA KeptOpen ==
  ASSUME InOrder, NEW d \in Dir, KeptOK(d), Steady(d), NEW l \in labels[d], OpenLabel(d, l)
  PROVE  KeptOK(d)'
<1> DEFINE more == Extensions(d, Where(l))
<1>1. /\ labels \in [Dir -> SUBSET Label]
      /\ extended \in [Dir -> SUBSET Label] /\ cur \in [Dir -> Label \cup {<<>>}]
      /\ DOMAIN todo = Dir /\ todo \in [Dir -> SUBSET [arc : Arc, at : Bucket]]
  BY DEF InOrder, Inductive, TypeOK, LabelType, SearchType, OpenLabel, Visit, Running, Dir
<1>2. /\ cur'[d] = IF more = {} THEN <<>> ELSE l
      /\ todo'[d] = more
      /\ extended'[d] = IF more = {} THEN extended[d] \cup {l} ELSE extended[d]
      /\ cur[d] = <<>>
      /\ UNCHANGED <<opt, red, mid, labels, dominated, finished, cbest>>
  BY <1>1 DEF OpenLabel, Visit, graph
<1>3. KeptOK(d)
  OBVIOUS
<1>4. Live(d)' = Live(d) /\ \A y : Represented(d, y)' <=> Represented(d, y)
  BY <1>2 DEF Live, Represented, Covers
<1>5. ASSUME NEW a \in Arc, CanTake(d, This(l), a)
      PROVE  [arc |-> a, at |-> Where(l)] \in more
  <2>1. /\ This(l).v \in Vertex /\ This(l).q \in [Res -> Int] /\ a \in ArcsAt(d, This(l).v)
        /\ \A r \in Res : IF d = "fw" THEN This(l).q[r] >= Lb[This(l).v][r]
                                     ELSE This(l).q[r] <= Ub[This(l).v][r]
        /\ InWindow(d, Ahead(d, a), Advance(d, This(l).q, a))
    <3>1. l \in Label /\ SoundLabel(d, l)
      BY <1>1 DEF InOrder, Inductive, LabelsAreSound
    <3> QED BY <1>1, <1>5, <3>1, LabelPlaced DEF CanTake
  <2>2. a \in BuiltArcs[d][Where(l)]
    BY <1>1, <2>1, ChildBehindTarget DEF Where
  <2> QED BY <2>2 DEF Extensions, InOrder, GraphAsBuilt
<1> HIDE DEF more
<1>6. OriginRepresented(d)'
  BY <1>3, <1>4 DEF KeptOK, OriginRepresented
<1>7. ChildrenRepresented(d)'
  <2> SUFFICES ASSUME NEW m \in labels[d], NEW a \in Arc, CanTake(d, This(m), a), Tried(d, m, a)'
               PROVE  \/ Represented(d, Taken(d, This(m), a))
                      \/ TurnedAway(d, Taken(d, This(m), a)) \/ GivenUp(d, This(m))
    BY <1>2, <1>4, FiltersStay DEF ChildrenRepresented, CanTake, Taken
  <2>1. m # <<>>
    BY <1>1 DEF Label
  <2>2. CASE m = l
    BY <1>2, <1>3, <1>5, <2>1, <2>2 DEF Tried, KeptOK, ChildrenRepresented
  <2>3. CASE m # l
    <3>1. Tried(d, m, a)
      BY <1>2, <2>1, <2>3 DEF Tried
    <3> QED BY <1>3, <3>1 DEF KeptOK, ChildrenRepresented
  <2> QED BY <2>2, <2>3
<1>8. SettledAreExtended(d)' /\ BestIsBound(d)'
  BY <1>2, <1>3, <1>4 DEF KeptOK, SettledAreExtended, BestIsBound, Settled, PastMid
<1>9. MadeOnce(d)'
  <2> SUFFICES ASSUME NEW m \in labels[d], Len(m) > 1
               PROVE  Tried(d, Parent(m), This(m).arc)' \/ Settled(d, Where(Parent(m)))
    BY <1>2 DEF MadeOnce, Settled
  <2>1. Tried(d, Parent(m), This(m).arc) \/ Settled(d, Where(Parent(m)))
    BY <1>3 DEF KeptOK, MadeOnce
  <2>2. Parent(m) # <<>>
    <3>1. Len(m) \in Nat
      BY <1>1, LabelNodes
    <3>2. 1 \in DOMAIN Parent(m)
      BY <3>1 DEF Parent
    <3>3. DOMAIN <<>> = {}
      OBVIOUS
    <3> QED BY <3>2, <3>3
  <2> QED BY <1>2, <2>1, <2>2 DEF Tried
<1>10. IsFiniteSet(labels'[d])
  BY <1>2, <1>3 DEF KeptOK
<1> QED BY <1>6, <1>7, <1>8, <1>9, <1>10 DEF KeptOK

\* In a finished component no label waits: no cap stopped the sweeps.
LEMMA KeptFinishScc ==
  ASSUME InOrder, NEW d \in Dir, KeptOK(d), Steady(d), ~AtCap(d), FinishScc(d)
  PROVE  KeptOK(d)'
<1> DEFINE gone == {l \in dominated[d] : Where(l) \in scc[d]}
           kept == labels[d] \ gone
<1>1. /\ phase = "label" /\ labels \in [Dir -> SUBSET Label]
      /\ extended \in [Dir -> SUBSET Label] /\ dominated \in [Dir -> SUBSET Label]
      /\ dominated[d] \subseteq labels[d] /\ extended[d] \subseteq labels[d]
      /\ finished \in [Dir -> SUBSET SUBSET Bucket] /\ cbest \in [Dir -> [Bucket -> Int]]
      /\ SearchInOrder
  BY DEF InOrder, Inductive, TypeOK, LabelType, SearchType, FinishScc, Running, Dir
<1>2. /\ labels'[d] = kept
      /\ dominated'[d] = dominated[d] \ gone
      /\ extended'[d] = extended[d] \ gone
      /\ cbest'[d] = BestOf(d, kept)
      /\ finished'[d] = finished[d] \cup {scc[d]}
      /\ cur[d] = <<>> /\ scc[d] # {} /\ Pending(d) = {}
      /\ UNCHANGED <<opt, red, mid, cur, todo>>
  BY <1>1 DEF FinishScc, graph
<1>3. KeptOK(d)
  OBVIOUS
<1>4. /\ scc[d] \in Sccs[d] /\ scc[d] \subseteq Bucket
      /\ Predecessors[d][scc[d]] \subseteq finished[d]
  <2>1. scc[d] \in Sccs[d]
    BY <1>1, <1>2 DEF InOrder, Inductive, SearchOK
  <2>2. scc[d] \subseteq Bucket
    <3>1. PICK b \in Bucket : scc[d] = Scc(d, b)
      BY <1>1, <2>1 DEF Sccs
    <3> QED BY <3>1 DEF Scc
  <2>3. Predecessors[d][scc[d]] \subseteq finished[d]
    BY <1>1, <1>2 DEF SearchInOrder
  <2> QED BY <2>1, <2>2, <2>3
<1>5. Live(d)' = Live(d) /\ Live(d) \subseteq kept
  BY <1>1, <1>2 DEF Live
<1>6. \A y : Represented(d, y)' <=> Represented(d, y)
  BY <1>5 DEF Represented, Covers
<1>7. \A b : Settled(d, b)' <=> Settled(d, b) \/ b \in scc[d]
  BY <1>2 DEF Settled
<1>8. \A l \in labels[d] : l # <<>> /\ l \in Label /\ Where(l) \in Bucket
  BY <1>1, WhereType DEF Label, InOrder, Inductive, LabelsAreSound
<1>9. OriginRepresented(d)'
  BY <1>3, <1>6 DEF KeptOK, OriginRepresented
<1>10. ChildrenRepresented(d)'
  <2> SUFFICES ASSUME NEW m \in kept, NEW a \in Arc, CanTake(d, This(m), a), Tried(d, m, a)'
               PROVE  \/ Represented(d, Taken(d, This(m), a))
                      \/ TurnedAway(d, Taken(d, This(m), a)) \/ GivenUp(d, This(m))
    BY <1>2, <1>6, FiltersStay DEF ChildrenRepresented, CanTake, Taken
  <2>1. Tried(d, m, a)
    BY <1>2 DEF Tried
  <2> QED BY <1>3, <2>1 DEF KeptOK, ChildrenRepresented
<1>11. SettledAreExtended(d)'
  <2> SUFFICES ASSUME NEW l \in Live(d), Settled(d, Where(l)) \/ Where(l) \in scc[d]
               PROVE  PastMid(d, This(l)) \/ (l \in extended[d] /\ l \notin gone)
    BY <1>2, <1>5, <1>7 DEF SettledAreExtended, PastMid
  <2>1. l \notin gone
    BY DEF Live
  <2>2. CASE Settled(d, Where(l))
    BY <1>3, <2>1, <2>2 DEF KeptOK, SettledAreExtended
  <2>3. CASE Where(l) \in scc[d]
    <3>1. fixed = {}
      BY DEF InOrder, GraphAsBuilt
    <3> QED BY <1>2, <2>1, <2>3, <3>1 DEF Pending
  <2> QED BY <2>2, <2>3
<1>12. MadeOnce(d)'
  <2> SUFFICES ASSUME NEW m \in kept, Len(m) > 1
               PROVE  Tried(d, Parent(m), This(m).arc)' \/ Settled(d, Where(Parent(m)))'
    BY <1>2 DEF MadeOnce
  <2>1. Tried(d, Parent(m), This(m).arc) \/ Settled(d, Where(Parent(m)))
    BY <1>3 DEF KeptOK, MadeOnce
  <2>2. Parent(m) \in gone => Where(Parent(m)) \in scc[d]
    OBVIOUS
  <2> HIDE DEF gone
  <2> QED BY <1>2, <1>7, <2>1, <2>2 DEF Tried
<1>13. BestIsBound(d)'
  <2> SUFFICES ASSUME NEW l \in Live(d), NEW b \in Bucket,
                      Settled(d, b) \/ b \in scc[d], UpTo(d, Where(l), b)
               PROVE  BestOf(d, kept)[b] <= This(l).cost
    BY <1>2, <1>5, <1>7 DEF BestIsBound
  <2>1. l \in kept /\ Where(l) \in Bucket /\ This(l).cost \in Int
    BY <1>5, <1>8, LabelMarks DEF Mark
  <2> DEFINE own   == {This(x).cost : x \in {y \in kept : /\ UpTo(d, Where(y), b)
                                                         /\ Where(y) \in scc[d]}}
             other == {cbest[d][c] : c \in {x \in BucketsAt(b[1]) \ scc[d] : UpTo(d, x, b)}}
  <2>2. CASE b \in scc[d]
    <3>1. BestOf(d, kept)[b] = Least(own \cup other)
      BY <2>2 DEF BestOf
    <3>2. own \cup other \in SUBSET Int /\ IsFiniteSet(own \cup other)
      <4>1. own \in SUBSET Int
        BY <1>8, LabelMarks DEF Mark
      <4>2. other \in SUBSET Int /\ BucketsAt(b[1]) \in SUBSET Bucket
        <5>1. BucketsAt(b[1]) \in SUBSET Bucket
          <6>1. b[1] \in Vertex
            BY BucketType
          <6> QED BY <6>1 DEF Bucket
        <5>2. \A c \in Bucket : cbest[d][c] \in Int
          BY <1>1
        <5>3. \A x \in other : x \in Int
          BY <5>1, <5>2
        <5> QED BY <5>1, <5>3
      <4>3. IsFiniteSet(own)
        <5> DEFINE S == {y \in kept : UpTo(d, Where(y), b) /\ Where(y) \in scc[d]}
                   f == [x \in S |-> This(x).cost]
        <5>1. IsFiniteSet(S)
          <6>1. S \in SUBSET labels[d] /\ IsFiniteSet(labels[d])
            BY <1>3 DEF KeptOK
          <6> HIDE DEF S
          <6> QED BY <6>1, FS_Subset
        <5>2. f \in [S -> own] /\ \A c \in own : \E x \in S : f[x] = c
          OBVIOUS
        <5> HIDE DEF S, f, own
        <5> QED BY <5>1, <5>2, ImageFinite
      <4>4. IsFiniteSet(other)
        <5> DEFINE S == {x \in BucketsAt(b[1]) \ scc[d] : UpTo(d, x, b)}
                   f == [c \in S |-> cbest[d][c]]
        <5>1. IsFiniteSet(S)
          <6>1. S \in SUBSET Bucket
            BY <4>2
          <6> HIDE DEF S
          <6> QED BY <6>1, BucketsFinite, FS_Subset
        <5>2. f \in [S -> other] /\ \A c \in other : \E x \in S : f[x] = c
          OBVIOUS
        <5> HIDE DEF S, f, other
        <5> QED BY <5>1, <5>2, ImageFinite
      <4> HIDE DEF own, other
      <4> QED BY <4>1, <4>2, <4>3, <4>4, FS_Union
    <3> DEFINE S == own \cup other
    <3>3. ASSUME NEW c \in S PROVE Least(S) <= c
      <4> HIDE DEF S
      <4>1. PICK x \in S : \A y \in S : x <= y
        <5>1. S \in SUBSET Int /\ IsFiniteSet(S) /\ S # {}
          BY <3>2, <3>3 DEF S
        <5> QED BY <5>1, FiniteHasLeast
      <4> QED BY <3>3, <4>1 DEF Least
    <3>4. CASE Where(l) \in scc[d]
      <4>1. This(l).cost \in own
        BY <2>1, <2>2, <3>4
      <4> HIDE DEF own, other
      <4> QED BY <3>1, <3>3, <4>1
    <3>5. CASE Where(l) \notin scc[d]
      <4>1. Where(l) \in BucketsAt(b[1])
        <5>1. Where(l)[1] = b[1]
          BY DEF UpTo
        <5> QED BY <2>1, <5>1 DEF Bucket, BucketsAt
      <4>2. cbest[d][Where(l)] \in other
        BY <3>5, <4>1
      <4>3. Settled(d, Where(l))
        <5>1. b \in Reachable[d][Where(l)]
          BY <1>1, <2>1, UpToIsReachable
        <5>2. Scc(d, Where(l)) \in Sccs[d] /\ Where(l) \in Scc(d, Where(l))
          BY <1>1, <2>1, SccsPartition
        <5>3. Precedes(d, Scc(d, Where(l)), scc[d])
          BY <2>2, <3>5, <5>1, <5>2 DEF Precedes
        <5>4. Scc(d, Where(l)) \in Predecessors[d][scc[d]]
          BY <1>1, <1>4, <5>2, <5>3 DEF Predecessors
        <5> QED BY <1>4, <5>2, <5>4 DEF Settled
      <4>4. UpTo(d, Where(l), Where(l))
        BY <2>1, BucketType DEF UpTo
      <4>5. cbest[d][Where(l)] <= This(l).cost
        BY <1>3, <2>1, <4>3, <4>4 DEF KeptOK, BestIsBound
      <4>6. Least(S) <= cbest[d][Where(l)]
        BY <3>3, <4>2
      <4>7. Least(S) \in Int /\ cbest[d][Where(l)] \in Int
        <5>1. S \in SUBSET Int
          BY <3>2
        <5> HIDE DEF S
        <5> QED BY <1>1, <2>1, <5>1, LeastType
      <4> HIDE DEF own, other
      <4> QED BY <2>1, <3>1, <4>5, <4>6, <4>7
    <3> QED BY <3>4, <3>5
  <2>3. CASE b \notin scc[d]
    <3>1. BestOf(d, kept)[b] = cbest[d][b]
      BY <2>3 DEF BestOf
    <3> QED BY <1>3, <2>3, <3>1 DEF KeptOK, BestIsBound
  <2> QED BY <2>2, <2>3
<1>14. IsFiniteSet(labels'[d])
  <2>1. kept \in SUBSET labels[d] /\ IsFiniteSet(labels[d])
    BY <1>3 DEF KeptOK
  <2> HIDE DEF kept
  <2> QED BY <1>2, <2>1, FS_Subset
<1> QED BY <1>9, <1>10, <1>11, <1>12, <1>13, <1>14 DEF KeptOK

\* A child is stored, or its bucket has a label that covers it; the labels that
\* it pushes aside are covered by it.
LEMMA KeptExtend ==
  ASSUME PackLawful, InOrder, NEW d \in Dir, KeptOK(d), Steady(d), opt.stage = "Exact",
         NEW e \in todo[d], ExtendArc(d, e)
  PROVE  KeptOK(d)'
<1> DEFINE c == cur[d]
           m == This(c)
           n == Extend(d, m, e)
           new == Append(c, n)
           out == Victims(d, n)
           last == todo[d] = {e}
           stored == ExtendFeasible(d, m, e) /\ Admitted(d, n) /\ ~DominatedInBucket(d, n)
<1>1. /\ labels \in [Dir -> SUBSET Label]
      /\ extended \in [Dir -> SUBSET Label] /\ dominated \in [Dir -> SUBSET Label]
      /\ cur \in [Dir -> Label \cup {<<>>}] /\ todo \in [Dir -> SUBSET [arc : Arc, at : Bucket]]
      /\ dominated[d] \subseteq labels[d] /\ extended[d] \subseteq labels[d]
      /\ red \in [Arc -> Int] /\ SearchInOrder /\ GraphAsBuilt /\ Inductive
  BY DEF InOrder, Inductive, TypeOK, LabelType, SearchType, GraphType, ExtendArc, Running, Dir
<1>2. KeptOK(d) /\ opt.stage = "Exact"
  OBVIOUS
<1>3. /\ c # <<>> /\ c \in Label /\ m \in Node /\ e \in [arc : Arc, at : Bucket]
      /\ e.arc \in ArcsAt(d, m.v) /\ n \in Node /\ n.v = Ahead(d, e.arc)
      /\ n.q = Advance(d, m.q, e.arc)
      /\ n.cost = Taken(d, m, e.arc).cost /\ n.st = Taken(d, m, e.arc).st /\ n.arc = e.arc
      /\ This(new) = n /\ new \in Label /\ Len(new) = Len(c) + 1
  BY <1>1, ChildNode DEF Taken
<1>4. /\ c \in labels[d] /\ c \notin extended[d] /\ e.at = Where(c)
      /\ ~Settled(d, Where(c)) /\ Len(c) \in Nat \ {0}
  <2>1. c \in labels[d] /\ Where(c) \in Bucket /\ Scc(d, Where(c)) \notin finished[d]
    BY <1>1, <1>3, OpenIsUnsettled
  <2>2. c \notin extended[d] /\ e.at = Where(c) /\ finished[d] \subseteq Sccs[d]
    BY <1>1, <1>3 DEF SearchInOrder
  <2>3. ~Settled(d, Where(c))
    BY <1>1, <2>1, <2>2, SccsPartition DEF Settled
  <2> QED BY <1>3, <2>1, <2>2, <2>3, LabelNodes
<1>5. e = [arc |-> e.arc, at |-> Where(c)]
  BY <1>3, <1>4
<1>6. /\ Replaced(d, n) = {} /\ (~Admitted(d, n) => TurnedAway(d, n))
      /\ (Stored(d, n) <=> ~DominatedInBucket(d, n))
      /\ out = {l \in LiveIn(d, BucketOf(n.v, n.q)) : Dominates(d, n, This(l))}
  BY <1>1, <1>2 DEF Replaced, Admitted, TurnedAway, GivenUp, Stored, Victims, Enumerating, GraphAsBuilt
<1>7. /\ labels'[d] = IF stored THEN labels[d] \cup {new} ELSE labels[d]
      /\ dominated'[d] = IF stored THEN dominated[d] \cup out ELSE dominated[d]
      /\ extended'[d] = IF last THEN extended[d] \cup {c} ELSE extended[d]
      /\ cur'[d] = IF last THEN <<>> ELSE c
      /\ todo'[d] = todo[d] \ {e}
      /\ UNCHANGED <<opt, red, mid, finished, cbest>>
  <2>1. /\ todo' = [todo EXCEPT ![d] = @ \ {e}]
        /\ cur' = [cur EXCEPT ![d] = IF last THEN <<>> ELSE @]
        /\ UNCHANGED <<opt, red, mid, finished, cbest>>
    BY DEF ExtendArc, graph
  <2>2. CASE stored
    <3>1. /\ labels' = [labels EXCEPT ![d] = (@ \ Replaced(d, n)) \cup {new}]
          /\ dominated' = [dominated EXCEPT ![d] = (@ \ Replaced(d, n)) \cup out]
          /\ extended' = [extended EXCEPT ![d] = (@ \ Replaced(d, n))
                                                      \cup (IF last THEN {c} ELSE {})]
      BY <1>6, <2>2 DEF ExtendArc
    <3> HIDE DEF m, n, new, out, stored, last
    <3> QED BY <1>1, <1>6, <2>1, <2>2, <3>1
  <2>3. CASE ~stored
    <3>1. /\ extended' = [extended EXCEPT ![d] = @ \cup (IF last THEN {c} ELSE {})]
          /\ UNCHANGED <<labels, dominated>>
      BY <1>6, <2>3 DEF ExtendArc
    <3> HIDE DEF m, n, new, out, stored, last
    <3> QED BY <1>1, <2>1, <2>3, <3>1
  <2> QED BY <2>2, <2>3
<1>8. out \subseteq Live(d) /\ Live(d) \subseteq labels[d]
  BY <1>6 DEF LiveIn, Live
<1>9. \A x \in {This(l) : l \in labels[d]} \cup {n}, y \in {This(l) : l \in labels[d]} \cup {n} :
        Dominates(d, x, y) => Covers(d, x, y)
  BY <1>2 DEF Dominates, Covers, Heuristic
<1>10. ~(\E l \in labels[d] : l = new)
  <2> SUFFICES ASSUME new \in labels[d] PROVE FALSE
    OBVIOUS
  <2>1. Len(new) > 1 /\ Parent(new) = c /\ This(new).arc = e.arc
    <3>1. \A k \in Nat \ {0} : k + 1 > 1
      OBVIOUS
    <3> QED BY <1>3, <1>4, <3>1, ParentOfAppend
  <2> HIDE DEF c, m, n, new
  <2>2. Tried(d, c, e.arc) \/ Settled(d, Where(c))
    BY <1>2, <2>1 DEF KeptOK, MadeOnce
  <2> QED BY <1>4, <1>5, <2>2 DEF Tried
<1> HIDE DEF m, n, new, out, stored, last
<1>11. Live(d)' = IF stored THEN (Live(d) \ out) \cup {new} ELSE Live(d)
  <2>1. CASE stored
    <3>1. new \notin dominated[d] /\ new \notin out
      BY <1>1, <1>8, <1>10
    <3> QED BY <1>7, <2>1, <3>1 DEF Live
  <2>2. CASE ~stored
    BY <1>7, <2>2 DEF Live
  <2> QED BY <2>1, <2>2
<1>12. Mark(n) /\ \A l \in labels[d] : l \in Label /\ l # <<>> /\ Mark(This(l))
  <2>1. Mark(n)
    BY <1>3 DEF Mark, Node
  <2> QED BY <1>1, <2>1, LabelMarks DEF Label
<1>13. \A k \in Live(d) : \E j \in Live(d)' : Covers(d, This(j), This(k))
  <2> SUFFICES ASSUME NEW k \in Live(d) PROVE \E j \in Live(d)' : Covers(d, This(j), This(k))
    OBVIOUS
  <2>1. Covers(d, This(k), This(k))
    BY <1>8, <1>12, CoversReflexive
  <2>2. CASE stored /\ k \in out
    <3>1. Covers(d, n, This(k))
      BY <1>6, <1>8, <1>9, <2>2
    <3> QED BY <1>3, <1>11, <2>2, <3>1
  <2>3. CASE ~(stored /\ k \in out)
    BY <1>11, <2>1, <2>3
  <2> QED BY <2>2, <2>3
<1>14. ASSUME NEW y, Mark(y), Represented(d, y)
       PROVE  \E j \in Live(d)' : Covers(d, This(j), y)
  <2>1. labels[d] \subseteq Label /\ labels'[d] \subseteq Label
    BY <1>1, <1>3, <1>7
  <2> QED BY <1>13, <1>14, <2>1, StaysRepresented
<1>15. OriginRepresented(d)'
  <2>1. Mark(This(InitialLabel(d))) /\ OriginRepresented(d)
    BY <1>1, <1>2, InitialLabelType, LabelMarks DEF KeptOK
  <2> QED BY <1>14, <2>1 DEF OriginRepresented, Represented
<1>16. \E j \in Live(d)' : ExtendFeasible(d, m, e) /\ Admitted(d, n) => Covers(d, This(j), n)
  <2>1. CASE stored
    BY <1>3, <1>11, <1>12, <2>1, CoversReflexive
  <2>2. CASE ~stored /\ DominatedInBucket(d, n)
    <3>1. PICK x \in Live(d) : Dominates(d, This(x), n)
      BY <2>2 DEF DominatedInBucket, LiveIn
    <3>2. Covers(d, This(x), n)
      BY <1>8, <1>9, <3>1
    <3> QED BY <1>11, <2>2, <3>2
  <2>3. CASE ~(ExtendFeasible(d, m, e) /\ Admitted(d, n))
    <3>1. PICK j \in Live(d)' : TRUE
      <4>1. Live(d) # {}
        BY <1>2 DEF KeptOK, OriginRepresented, Represented
      <4> QED BY <1>13, <4>1
    <3> QED BY <2>3, <3>1
  <2> QED BY <2>1, <2>2, <2>3 DEF stored
<1>17. ASSUME NEW l, NEW a, l \in labels'[d], Tried(d, l, a)'
       PROVE  l \in labels[d] /\ (Tried(d, l, a) \/ (l = c /\ a = e.arc))
  <2>1. l # new
    <3>1. new # c /\ new # <<>> /\ new \notin extended[d]
      BY <1>1, <1>3, <1>4, <1>10 DEF Label
    <3> QED BY <1>7, <1>17, <3>1 DEF Tried
  <2>2. l \in labels[d] /\ l # <<>>
    BY <1>7, <1>12, <1>17, <2>1
  <2>3. CASE l # c
    <3>1. l \in extended[d]
      BY <1>7, <1>17, <2>2, <2>3 DEF Tried
    <3> QED BY <2>2, <3>1 DEF Tried
  <2>4. CASE l = c /\ a # e.arc
    <3>1. [arc |-> a, at |-> Where(c)] # e
      BY <1>5, <2>4
    <3>2. [arc |-> a, at |-> Where(c)] \notin todo[d]
      BY <1>4, <1>7, <1>17, <2>4, <3>1 DEF Tried, last
    <3> QED BY <2>2, <2>4, <3>2 DEF Tried
  <2> QED BY <2>2, <2>3, <2>4
<1>18. ChildrenRepresented(d)'
  <2> SUFFICES ASSUME NEW l \in labels'[d], NEW a \in Arc, CanTake(d, This(l), a), Tried(d, l, a)'
               PROVE  \/ \E j \in Live(d)' : Covers(d, This(j), Taken(d, This(l), a))
                      \/ TurnedAway(d, Taken(d, This(l), a)) \/ GivenUp(d, This(l))
    BY <1>7, FiltersStay DEF ChildrenRepresented, CanTake, Taken, Represented, Covers
  <2>1. l \in labels[d] /\ (Tried(d, l, a) \/ (l = c /\ a = e.arc))
    BY <1>17
  <2>2. CASE Tried(d, l, a)
    <3>1. \/ Represented(d, Taken(d, This(l), a))
          \/ TurnedAway(d, Taken(d, This(l), a)) \/ GivenUp(d, This(l))
      BY <1>2, <2>1, <2>2 DEF KeptOK, ChildrenRepresented
    <3>2. Mark(Taken(d, This(l), a))
      BY <1>1, <1>12, <2>1, TakenType
    <3> QED BY <1>14, <3>1, <3>2
  <2>3. CASE l = c /\ a = e.arc
    <3>1. ExtendFeasible(d, m, e)
      <4>1. e.at = BucketOf(m.v, m.q) /\ This(l) = m
        BY <1>4, <2>3 DEF Where, m
      <4> QED BY <2>3, <4>1 DEF CanTake, ExtendFeasible, ExtendQ
    <3>2. /\ Taken(d, m, a).v = n.v /\ Taken(d, m, a).q = n.q
          /\ Taken(d, m, a).cost = n.cost /\ Taken(d, m, a).st = n.st
      BY <1>3, <2>3 DEF Taken
    <3>3. CASE Admitted(d, n)
      <4>1. PICK j \in Live(d)' : Covers(d, This(j), n)
        BY <1>16, <3>1, <3>3
      <4>2. Covers(d, This(j), Taken(d, m, a))
        BY <3>2, <4>1, CoversByFields
      <4> QED BY <2>3, <4>2 DEF m
    <3>4. CASE ~Admitted(d, n)
      <4>1. TurnedAway(d, Taken(d, m, a))
        BY <1>6, <3>2, <3>4, FiltersByFields
      <4> QED BY <2>3, <4>1 DEF m
    <3> QED BY <3>3, <3>4
  <2> QED BY <2>1, <2>2, <2>3
<1>19. stored => ~Settled(d, Where(new))
  BY <1>1, ChildIsUnsettled DEF stored, new, n, m
<1>20. SettledAreExtended(d)'
  <2> SUFFICES ASSUME NEW l \in Live(d)', Settled(d, Where(l))
               PROVE  l \in extended'[d] \/ PastMid(d, This(l))
    BY <1>7 DEF SettledAreExtended, Settled, PastMid
  <2>1. l \in Live(d)
    BY <1>11, <1>19
  <2> QED BY <1>2, <1>7, <2>1 DEF KeptOK, SettledAreExtended
<1>21. MadeOnce(d)'
  <2> SUFFICES ASSUME NEW l \in labels'[d], Len(l) > 1
               PROVE  Tried(d, Parent(l), This(l).arc)' \/ Settled(d, Where(Parent(l)))
    BY <1>7 DEF MadeOnce, Settled
  <2>1. CASE l \in labels[d]
    <3>1. Tried(d, Parent(l), This(l).arc) \/ Settled(d, Where(Parent(l)))
      BY <1>2, <2>1 DEF KeptOK, MadeOnce
    <3> QED BY <1>7, <3>1 DEF Tried, last
  <2>2. CASE l = new
    <3>1. Parent(l) = c /\ This(l).arc = e.arc
      BY <1>3, <2>2, ParentOfAppend DEF new
    <3>2. Parent(l) \in extended'[d] \/ (Parent(l) = cur'[d] /\ e \notin todo'[d])
      BY <1>7, <3>1 DEF last
    <3> QED BY <1>5, <3>1, <3>2 DEF Tried
  <2> QED BY <1>7, <2>1, <2>2
<1>22. BestIsBound(d)'
  <2> SUFFICES ASSUME NEW l \in Live(d)', NEW b \in Bucket, Settled(d, b),
                      UpTo(d, Where(l), b)
               PROVE  cbest[d][b] <= This(l).cost
    BY <1>7 DEF BestIsBound, Settled
  <2>1. CASE l \in Live(d)
    BY <1>2, <2>1 DEF KeptOK, BestIsBound
  <2>2. CASE stored /\ l = new
    <3>1. Where(new) \in Bucket
      <4>1. n.v \in Vertex /\ n.q \in [Res -> Int]
        BY <1>12 DEF Mark
      <4> QED BY <1>3, <4>1, BucketOfType DEF Where
    <3>2. b \in Reachable[d][Where(new)]
      BY <1>1, <2>2, <3>1, UpToIsReachable
    <3>3. Settled(d, Where(new))
      BY <1>1, <3>1, <3>2, SettledBefore
    <3> QED BY <1>19, <2>2, <3>3
  <2> QED BY <1>11, <2>1, <2>2
<1>23. IsFiniteSet(labels'[d])
  BY <1>2, <1>7, FS_AddElement DEF KeptOK
<1> QED BY <1>15, <1>18, <1>20, <1>21, <1>22, <1>23 DEF KeptOK

-----------------------------------------------------------------------------
\* While a direction is being labeled, it has a component left to finish.
LEMMA StepIsUnfinished ==
  ASSUME Inductive, NEW d \in Dir, LabelStep(d)
  PROVE  finished[d] # Sccs[d]
<1>1. SearchOK
  BY DEF Inductive
<1>2. CASE \E s \in Sccs[d] : StartScc(d, s)
  BY <1>2 DEF StartScc
<1>3. CASE scc[d] # {}
  BY <1>1, <1>3 DEF SearchOK
<1>4. CASE \E e \in todo[d] : ExtendArc(d, e)
  <2>1. scc[d] # {}
    BY <1>1, <1>4 DEF SearchOK
  <2> QED BY <1>3, <2>1
<1> QED BY <1>2, <1>3, <1>4
        DEF LabelStep, DropDominated, PruneHopeless, OpenLabel, Visit, FinishScc

\* What a step of one direction leaves alone of the other.
LEMMA OtherDirection ==
  ASSUME TypeOK, NEW c \in Dir, NEW d \in Dir, c # d, LabelStep(c)
  PROVE  /\ labels'[d] = labels[d] /\ extended'[d] = extended[d] /\ dominated'[d] = dominated[d]
         /\ finished'[d] = finished[d] /\ cur'[d] = cur[d] /\ todo'[d] = todo[d]
         /\ cbest'[d] = cbest[d] /\ scc'[d] = scc[d]
<1>1. /\ DOMAIN labels = Dir /\ DOMAIN extended = Dir /\ DOMAIN dominated = Dir
      /\ DOMAIN finished = Dir /\ DOMAIN cur = Dir /\ DOMAIN todo = Dir
      /\ DOMAIN cbest = Dir /\ DOMAIN scc = Dir
  BY DEF TypeOK, LabelType, SearchType
<1>2. CASE \E s \in Sccs[c] : StartScc(c, s)
  BY <1>1, <1>2 DEF StartScc
<1>3. CASE \E l \in labels[c] : DropDominated(c, l)
  BY <1>1, <1>3 DEF DropDominated
<1>4. CASE \E l \in labels[c] : PruneHopeless(c, l)
  BY <1>1, <1>4 DEF PruneHopeless
<1>5. CASE \E l \in labels[c] : OpenLabel(c, l)
  BY <1>1, <1>5 DEF OpenLabel
<1>6. CASE \E e \in todo[c] : ExtendArc(c, e)
  BY <1>1, <1>6 DEF ExtendArc
<1>7. CASE FinishScc(c)
  BY <1>1, <1>7 DEF FinishScc
<1> QED BY <1>2, <1>3, <1>4, <1>5, <1>6, <1>7 DEF LabelStep

\* Forward labeling waits for backward labeling in backward-first solves.
LEMMA WaitStays ==
  ASSUME InOrder, FwWaits, [Next]_vars
  PROVE  FwWaits'
<1>1. /\ Inductive /\ TypeOK /\ "fw" \in Dir /\ "bw" \in Dir
  BY DEF InOrder, Inductive, Dir
<1>2. CASE BeginSolve
  BY <1>1, <1>2 DEF BeginSolve, FwWaits
<1>3. CASE EndLabeling \/ PostPass \/ Collect
  BY <1>3 DEF EndLabeling, PostPass, Collect, FwWaits, Waits
<1>4. CASE Returned \/ UNCHANGED vars
  BY <1>4 DEF Returned, FwWaits, Waits, vars, search
<1>5. ASSUME NEW d \in Dir, LabelStep(d)
      PROVE  FwWaits'
  <2>1. phase = "label" /\ phase' = "label" /\ opt' = opt
    BY <1>1, <1>5, StepIsSteady
  <2>2. CASE d = "bw"
    <3>1. finished["bw"] # Sccs["bw"]
      BY <1>1, <1>5, <2>2, StepIsUnfinished
    <3>2. extended'["fw"] = extended["fw"] /\ cur'["fw"] = cur["fw"] /\ scc'["fw"] = scc["fw"]
      BY <1>1, <1>5, <2>2, OtherDirection
    <3> QED BY <2>1, <3>1, <3>2 DEF FwWaits, Waits
  <2>3. CASE d = "fw"
    <3>1. finished'["bw"] = finished["bw"]
      BY <1>1, <1>5, <2>3, OtherDirection
    <3>2. opt.mode = "seq" => finished["bw"] = Sccs["bw"]
      <4>1. Running("fw") \/ (cur["fw"] = <<>> /\ Running("fw"))
        BY <1>5, <2>3 DEF LabelStep, StartScc, DropDominated, PruneHopeless, OpenLabel, ExtendArc,
                          FinishScc, Visit
      <4> QED BY <4>1 DEF Running
    <3> QED BY <2>1, <3>1, <3>2 DEF FwWaits, Waits
  <2> QED BY <2>2, <2>3 DEF Dir
<1> QED BY <1>2, <1>3, <1>4, <1>5 DEF Next, MainStep

\* A step of one direction keeps what the other one has represented.
LEMMA OtherStaysKept ==
  ASSUME InOrder, FwWaits, NEW c \in Dir, NEW d \in Dir, c # d, LabelStep(c), KeptOK(d)
  PROVE  KeptOK(d)'
<1>1. Inductive /\ TypeOK /\ labels \in [Dir -> SUBSET Label]
  BY DEF InOrder, Inductive, TypeOK, LabelType
<1>2. /\ phase = "label" /\ UNCHANGED <<opt, red, mid, completion>>
  BY <1>1, StepIsSteady
<1>3. /\ labels'[d] = labels[d] /\ extended'[d] = extended[d] /\ dominated'[d] = dominated[d]
      /\ finished'[d] = finished[d] /\ cur'[d] = cur[d] /\ todo'[d] = todo[d]
      /\ cbest'[d] = cbest[d] /\ scc'[d] = scc[d]
  BY <1>1, OtherDirection
<1>4. CASE ~(d = "fw" /\ opt.mode = "seq")
  <2>1. Steady(d)
    BY <1>2, <1>4 DEF Steady
  <2> QED BY <1>3, <2>1, KeptStable
<1>5. CASE d = "fw" /\ opt.mode = "seq"
  <2>1. c = "bw"
    BY <1>5 DEF Dir
  <2>2. extended[d] = {} /\ cur[d] = <<>>
    <3>1. finished["bw"] # Sccs["bw"]
      BY <1>1, <2>1, StepIsUnfinished
    <3> QED BY <1>2, <1>5, <3>1 DEF FwWaits, Waits
  <2>3. Live(d)' = Live(d) /\ \A y : Represented(d, y)' <=> Represented(d, y)
    BY <1>3 DEF Live, Represented, Covers
  <2>4. OriginRepresented(d)'
    BY <2>3 DEF KeptOK, OriginRepresented
  <2>5. ChildrenRepresented(d)'
    <3>1. \A l \in labels'[d] : \A a : ~Tried(d, l, a)'
      BY <1>1, <1>3, <2>2 DEF Tried, Label
    <3> QED BY <3>1 DEF ChildrenRepresented
  <2>6. SettledAreExtended(d)'
    BY <1>2, <1>3, <2>3 DEF KeptOK, SettledAreExtended, Settled, PastMid
  <2>7. MadeOnce(d)' /\ BestIsBound(d)' /\ IsFiniteSet(labels'[d])
    BY <1>3, <2>3 DEF KeptOK, MadeOnce, BestIsBound, Settled, Tried
  <2> QED BY <2>4, <2>5, <2>6, <2>7 DEF KeptOK
<1> QED BY <1>4, <1>5

-----------------------------------------------------------------------------
\* A solve starts without components and results.
Fresh == phase = "ready" => finished["fw"] = {} /\ result = {}

\* While labels are extended, no cap stops an exact solve.
Unstopped == phase = "label" => Uncapped

\* A mono-directional exact solve.
LoneExact == opt.mode = "mono" /\ opt.stage = "Exact"

\* A step of a direction keeps what it has represented, unless a cap stops it.
LEMMA OwnStaysKept ==
  ASSUME PackLawful, InOrder, Uncapped, NEW d \in Dir, LabelStep(d), KeptOK(d),
         opt.stage = "Exact"
  PROVE  KeptOK(d)'
<1>1. TypeOK
  BY DEF InOrder, Inductive
<1>2. Steady(d) /\ d \in Directions
  BY <1>1, StepIsSteady
<1>3. ~AtCap(d)
  BY <1>2 DEF Uncapped
<1>4. ASSUME NEW s \in Sccs[d], StartScc(d, s)
      PROVE  KeptOK(d)'
  <2>1. UNCHANGED <<labels, extended, dominated, finished, cur, todo, cbest>>
    BY <1>4 DEF StartScc
  <2> QED BY <1>2, <2>1, KeptStable
<1> QED BY <1>2, <1>3, <1>4, KeptDrop, KeptPrune, KeptOpen, KeptExtend, KeptFinishScc DEF LabelStep

\* Every step of an exact solve without caps keeps what has to be represented represented.
LEMMA KeptStays ==
  ASSUME PackLawful, InOrder, Kept, Fresh, Unstopped, [Next]_vars
  PROVE  Kept' /\ Fresh'
<1> SUFFICES ASSUME ExactRun' PROVE (\A d \in Directions : KeptOK(d))' /\ Fresh'
  <2>1. CASE ExactRun'
    BY <2>1, WaitStays DEF Kept
  <2>2. CASE ~ExactRun'
    <3>1. Fresh'
      <4>1. CASE UNCHANGED vars
        BY <4>1 DEF vars, search, Fresh
      <4>2. CASE BeginSolve \/ EndLabeling \/ PostPass \/ Collect \/ Returned
        BY <4>2 DEF BeginSolve, EndLabeling, PostPass, Collect, Returned, vars, search, Fresh
      <4>3. ASSUME NEW d \in Dir, LabelStep(d) PROVE Fresh'
        <5>1. phase' = "label"
          BY <4>3, StepIsSteady DEF InOrder, Inductive
        <5> QED BY <5>1 DEF Fresh
      <4> QED BY <4>1, <4>2, <4>3 DEF Next, MainStep
    <3> QED BY <2>2, <3>1, WaitStays DEF Kept
  <2> QED BY <2>1, <2>2
<1>1. FwWaits /\ (ExactRun => \A d \in Directions : KeptOK(d))
  BY DEF Kept
<1>2. phase' # "ready"
  BY DEF ExactRun
<1>3. Fresh'
  BY <1>2 DEF Fresh
<1>4. CASE BeginSolve
  BY <1>3, <1>4, KeptBegin
<1>5. CASE EndLabeling \/ Collect \/ Returned \/ UNCHANGED vars
  <2>1. /\ UNCHANGED <<opt, red, mid, completion, labels, extended, dominated, finished, cur, todo,
                       cbest>>
        /\ phase' = phase \/ phase' \in {"post", "done"}
        /\ phase' = "post" => phase \in {"label", "post"}
        /\ phase # "ready"
    BY <1>2, <1>5 DEF EndLabeling, Collect, Returned, search, graph, vars
  <2>2. ExactRun /\ Directions' = Directions
    BY <2>1 DEF ExactRun, Directions
  <2>3. \A d \in Directions : d \in Dir /\ Steady(d)
    BY <2>1 DEF Steady, Directions, Dir
  <2>4. \A d \in Directions : KeptOK(d)'
    BY <1>1, <2>1, <2>2, <2>3, KeptStable
  <2> QED BY <1>3, <2>2, <2>4
<1>6. CASE PostPass
  <2>1. /\ phase = "post" /\ phase' = "collect" /\ UNCHANGED <<opt, red, finished, cur, todo>>
    BY <1>6 DEF PostPass, graph
  <2>2. opt.mode = "mono" /\ ExactRun
    BY <2>1 DEF ExactRun
  <2>3. UNCHANGED <<labels, extended, dominated, cbest, mid>>
    BY <1>6, <2>2 DEF PostPass
  <2>4. \A d \in Directions : KeptOK(d)'
    <3> SUFFICES ASSUME NEW d \in Directions PROVE KeptOK(d)'
      OBVIOUS
    <3>1. d \in Dir /\ Steady(d)
      BY <2>1, <2>2, <2>3 DEF Steady, Directions, Dir
    <3> QED BY <1>1, <2>1, <2>2, <2>3, <3>1, KeptStable
  <2>5. Directions' = Directions
    BY <2>1 DEF Directions
  <2> QED BY <1>3, <2>4, <2>5
<1>7. ASSUME NEW c \in Dir, LabelStep(c)
      PROVE  (\A d \in Directions : KeptOK(d))'
  <2>1. phase = "label" /\ opt' = opt /\ TypeOK /\ phase' = "label"
    BY <1>7, StepIsSteady DEF InOrder, Inductive
  <2>2. ExactRun /\ Directions' = Directions /\ opt.stage = "Exact"
    BY <2>1 DEF ExactRun, Directions
  <2>3. ASSUME NEW d \in Directions PROVE KeptOK(d)'
    <3>1. d \in Dir /\ KeptOK(d)
      BY <1>1, <2>2 DEF Directions, Dir
    <3>2. CASE c = d
      BY <1>7, <2>1, <2>2, <3>1, <3>2, OwnStaysKept DEF Unstopped
    <3>3. CASE c # d
      BY <1>1, <1>7, <3>1, <3>3, OtherStaysKept
    <3> QED BY <3>2, <3>3
  <2> QED BY <2>2, <2>3
<1> QED BY <1>3, <1>4, <1>5, <1>6, <1>7 DEF Next, MainStep

\* So it is represented throughout, whatever the pack, as long as it is lawful.
LEMMA AlwaysKept ==
  ASSUME PackLawful
  PROVE  Spec /\ []Uncapped => [](InOrder /\ Kept /\ Fresh)
<1>1. Init => Kept /\ Fresh
  BY DEF Init, Kept, Fresh, Dir, FwWaits, Waits, ExactRun
<1>2. InOrder /\ Kept /\ Fresh /\ Uncapped /\ [Next]_vars => (Kept /\ Fresh)'
  BY KeptStays DEF Unstopped
<1> QED BY <1>1, <1>2, AlwaysInOrder, PTL DEF Spec
-----------------------------------------------------------------------------
\* The pack state at the end of a walk, step by step.
Onto(s, a) == ToVertex("fw", AlongArc("fw", s, a).st, To[a]).st
StateAtStart == ToVertex("fw", InitState("fw"), Source).st

\* States of the pack lead to states of the pack.
LEMMA OntoType ==
  StateAtStart \in PackState /\ \A s \in PackState, a \in Arc : Onto(s, a) \in PackState
<1>1. "fw" \in Dir /\ Source \in Vertex /\ \A a \in Arc : To[a] \in Vertex
  BY ProblemAssumption DEF Dir
<1>2. StateAtStart \in PackState
  BY <1>1, PackAssumption DEF StateAtStart
<1>3. ASSUME NEW s \in PackState, NEW a \in Arc PROVE Onto(s, a) \in PackState
  <2>1. AlongArc("fw", s, a).st \in PackState
    BY <1>1, PackAssumption
  <2> QED BY <1>1, <2>1, PackAssumption DEF Onto
<1> QED BY <1>2, <1>3

\* The pack's state along a walk, step by step.
LEMMA StateChain ==
  ASSUME NEW w \in Seq(Arc)
  PROVE  \E g : /\ StateAfter(w) = g[Len(w)] /\ g[0] = StateAtStart
                /\ \A i \in 1..Len(w) : g[i] = Onto(g[i - 1], w[i])
                /\ \A i \in 0..Len(w) : g[i] \in PackState
<1> DEFINE L == Len(w)
           Equation(g) == g = [i \in 0..L |-> IF i = 0 THEN StateAtStart ELSE Onto(g[i - 1], w[i])]
<1>1. L \in Nat /\ \A i \in 1..L : w[i] \in Arc
  OBVIOUS
<1> HIDE DEF L
<1>2. PICK F \in [Nat -> [PackState -> PackState]] : \A i \in Nat : \A s \in PackState :
        F[i][s] = IF i \in 1..L THEN Onto(s, w[i]) ELSE s
  <2>1. [i \in Nat |-> [s \in PackState |-> IF i \in 1..L THEN Onto(s, w[i]) ELSE s]]
          \in [Nat -> [PackState -> PackState]]
    BY <1>1, OntoType
  <2> QED BY <2>1
<1>3. PICK k \in [Nat -> PackState] : \A i \in Nat : k[i] = IF i = 0 THEN StateAtStart ELSE F[i][k[i - 1]]
  <2>1. Recursive(PackState)
    BY RecursionIn
  <2> QED BY <2>1, OntoType DEF Recursive
<1> DEFINE g == [i \in 0..L |-> k[i]]
<1>4. \A i \in 0..L : g[i] = k[i] /\ i \in Nat /\ (i # 0 => i \in 1..L /\ i - 1 \in 0..L /\ i - 1 \in Nat)
  BY <1>1
<1>5. DOMAIN g = 0..L /\ g = [i \in 0..L |-> g[i]]
  OBVIOUS
<1> HIDE DEF g
<1>6. \A i \in 0..L : g[i] = IF i = 0 THEN StateAtStart ELSE Onto(g[i - 1], w[i])
  BY <1>2, <1>3, <1>4
<1>7. Equation(g)
  BY <1>5, <1>6
<1> DEFINE s == CHOOSE h : Equation(h)
<1>8. Equation(s)
  BY <1>7
<1>9. StateAfter(w) = s[L]
  BY DEF StateAfter, L, StateAtStart, Onto
<1>10. \A i \in 0..L : s[i] = IF i = 0 THEN StateAtStart ELSE Onto(s[i - 1], w[i])
  BY <1>8
<1> HIDE DEF s, Equation
<1>11. 0 \in 0..L /\ L \in 0..L /\ \A i \in 1..L : i \in 0..L /\ i # 0
  BY <1>1
<1>12. \A i \in 0..L : s[i] = g[i]
  <2>1. SameUpto(L)
    BY <1>1, StepsDecide
  <2>2. s[0] = g[0]
    BY <1>6, <1>10, <1>11
  <2>3. \A i \in 1..L : s[i - 1] = g[i - 1] => s[i] = g[i]
    BY <1>6, <1>10, <1>11
  <2> QED BY <2>1, <2>2, <2>3 DEF SameUpto
<1>13. StateAfter(w) = g[L]
  BY <1>9, <1>11, <1>12
<1>14. g[0] = StateAtStart /\ \A i \in 1..L : g[i] = Onto(g[i - 1], w[i])
  BY <1>6, <1>11
<1>15. \A i \in 0..L : g[i] \in PackState
  BY <1>3, <1>4
<1> QED BY <1>13, <1>14, <1>15 DEF L

\* The pack's state at the end of a walk is one of its states.
LEMMA StateType ==
  ASSUME NEW w \in Seq(Arc)
  PROVE  StateAfter(w) \in PackState /\ StateAfter(<<>>) = StateAtStart
<1>1. StateAfter(w) \in PackState
  <2>1. Len(w) \in 0..Len(w)
    OBVIOUS
  <2> QED BY <2>1, StateChain
<1>2. StateAfter(<<>>) = StateAtStart
  <2>1. <<>> \in Seq(Arc) /\ Len(<<>>) = 0
    OBVIOUS
  <2> QED BY <2>1, StateChain
<1> QED BY <1>1, <1>2

\* One arc more extends the pack's state once.
LEMMA StateAppend ==
  ASSUME NEW w \in Seq(Arc), NEW a \in Arc
  PROVE  StateAfter(Append(w, a)) = Onto(StateAfter(w), a)
<1> DEFINE v == Append(w, a)
           L == Len(w)
<1>1. /\ v \in Seq(Arc) /\ Len(v) = L + 1 /\ L \in Nat /\ v[L + 1] = a
      /\ \A i \in 1..L : v[i] = w[i]
  OBVIOUS
<1>2. PICK g : /\ StateAfter(w) = g[L] /\ g[0] = StateAtStart
               /\ \A i \in 1..L : g[i] = Onto(g[i - 1], w[i])
  BY StateChain
<1> HIDE DEF v, L
<1>3. PICK h : /\ StateAfter(v) = h[L + 1] /\ h[0] = StateAtStart
               /\ \A i \in 1..L + 1 : h[i] = Onto(h[i - 1], v[i])
  BY <1>1, StateChain
<1>4. \A i \in 0..L : h[i] = g[i]
  <2>1. SameUpto(L)
    BY <1>1, StepsDecide
  <2>2. h[0] = g[0]
    BY <1>2, <1>3
  <2>3. \A i \in 1..L : h[i - 1] = g[i - 1] => h[i] = g[i]
    <3>1. \A i \in 1..L : i \in 1..L + 1
      BY <1>1
    <3> QED BY <1>1, <1>2, <1>3, <3>1
  <2> QED BY <2>1, <2>2, <2>3 DEF SameUpto
<1>5. L + 1 \in 1..L + 1 /\ (L + 1) - 1 = L /\ L \in 0..L
  BY <1>1
<1>6. StateAfter(v) = Onto(StateAfter(w), a)
  BY <1>1, <1>2, <1>3, <1>4, <1>5
<1> QED BY <1>6 DEF v

\* Where a walk arrives, as a record that can be compared with labels.
EndNode(w) ==
  [v |-> EndOf(w), q |-> [r \in Res |-> Earliest(w, Len(w) + 1, r)],
   cost |-> CostOf(w), st |-> StateAfter(w)]

\* A walk ends in a node that can be compared with labels and has a bucket.
LEMMA EndNodeType ==
  ASSUME red \in [Arc -> Int], NEW w \in Seq(Arc)
  PROVE  /\ Mark(EndNode(w)) /\ EndNode(w).cost = CostOf(w)
         /\ \A r \in Res : EndNode(w).q[r] >= Lb[EndNode(w).v][r]
         /\ BucketOf(EndNode(w).v, EndNode(w).q) \in Bucket
<1> DEFINE j == Len(w) + 1
<1>1. j \in 1..Len(w) + 1 /\ j \in 1..j /\ EndOf(w) = Visited(w)[j]
  BY DEF EndOf
<1>2. EndOf(w) \in Vertex
  BY VisitedType
<1>3. StateAfter(w) \in PackState
  BY StateType
<1>4. CostOf(w) \in Int
  BY SumType DEF CostOf
<1> HIDE DEF j
<1>5. \A r \in Res : Earliest(w, j, r) \in Int
  BY <1>1, EarliestIsMost
<1>6. \A r \in Res : Earliest(w, j, r) >= Lb[EndOf(w)][r]
  <2> SUFFICES ASSUME NEW r \in Res PROVE Earliest(w, j, r) >= Lb[EndOf(w)][r]
    OBVIOUS
  <2>1. Lb[Visited(w)[j]][r] + Between(w, j, j, r) <= Earliest(w, j, r)
    BY <1>1, EarliestIsMost
  <2>2. Between(w, j, j, r) = 0
    <3>1. SubSeq(w, j, j - 1) = <<>>
      BY DEF j
    <3>2. [b \in Arc |-> Use[b][r]] \in [Arc -> Int] /\ <<>> \in Seq(Arc)
      BY ProblemAssumption
    <3>3. SumOver([b \in Arc |-> Use[b][r]], <<>>) = 0
      BY <3>2, SumEmpty
    <3> QED BY <3>1, <3>3 DEF Between
  <2>3. Lb[EndOf(w)][r] \in Int
    BY <1>2, TableType
  <2> QED BY <1>1, <1>5, <2>1, <2>2, <2>3
<1>7. /\ EndNode(w).v = EndOf(w) /\ EndNode(w).q = [r \in Res |-> Earliest(w, j, r)]
      /\ EndNode(w).cost = CostOf(w) /\ EndNode(w).st = StateAfter(w)
  BY DEF EndNode, j
<1>8. Mark(EndNode(w))
  BY <1>2, <1>3, <1>4, <1>5, <1>7 DEF Mark
<1>9. BucketOf(EndNode(w).v, EndNode(w).q) \in Bucket
  BY <1>8, BucketOfType DEF Mark
<1> QED BY <1>6, <1>7, <1>8, <1>9

\* The origin's label is where the empty walk arrives.
LEMMA EndOfEmpty ==
  ASSUME PackMeansAllowed, red \in [Arc -> Int]
  PROVE  LET o == This(InitialLabel("fw"))
             n == EndNode(<<>>)
         IN o.v = n.v /\ o.q = n.q /\ o.cost = n.cost /\ o.st = n.st
<1> DEFINE o == This(InitialLabel("fw"))
           n == EndNode(<<>>)
           at == ToVertex("fw", InitState("fw"), Source)
<1>1. o.v = Source /\ o.q = [r \in Res |-> Lb[Source][r]] /\ o.cost = at.cost /\ o.st = at.st
  BY DEF This, InitialLabel, Origin
<1>2. at.cost = 0
  BY DEF PackMeansAllowed
<1>3. n.v = Source /\ <<>> \in Seq(Arc) /\ Len(<<>>) = 0
  <2>1. <<>> \in Seq(Arc) /\ Len(<<>>) = 0
    OBVIOUS
  <2>2. n.v = EndOf(<<>>)
    BY DEF EndNode
  <2> QED BY <2>1, <2>2, VisitedType
<1>4. n.cost = 0
  BY <1>3, SumEmpty DEF EndNode, CostOf
<1>5. n.st = at.st
  <2>1. n.st = StateAfter(<<>>)
    BY DEF EndNode
  <2> QED BY <1>3, <2>1, StateType DEF StateAtStart
<1>6. n.q = [r \in Res |-> Lb[Source][r]]
  <2>1. n.q = [r \in Res |-> Earliest(<<>>, 1, r)]
    BY <1>3 DEF EndNode
  <2> HIDE DEF n
  <2> QED BY <2>1, EarliestAtStart
<1> QED BY <1>1, <1>2, <1>3, <1>4, <1>5, <1>6

\* A feasible walk's next arc can be taken from where the walk arrives, and leads
\* to where the longer walk arrives.
LEMMA EndOfLonger ==
  ASSUME PackMeansAllowed, red \in [Arc -> Int], NEW u \in PartialWalks, NEW a \in Arc,
         From[a] = EndOf(u), Feasible(Append(u, a))
  PROVE  /\ CanTake("fw", EndNode(u), a)
         /\ LET t == Taken("fw", EndNode(u), a)
                n == EndNode(Append(u, a))
            IN t.v = n.v /\ t.q = n.q /\ t.cost = n.cost /\ t.st = n.st
<1> DEFINE L == Len(u)
           w == Append(u, a)
           m == EndNode(u)
           n == EndNode(w)
           along == AlongArc("fw", m.st, a)
           at == ToVertex("fw", along.st, To[a])
<1>1. u \in Seq(Arc)
  BY LayersAreWalks
<1>2. /\ w \in Seq(Arc) /\ Len(w) = L + 1 /\ L \in Nat
      /\ EndOf(w) = To[a] /\ Visited(w)[L + 2] = To[a] /\ To[a] \in Vertex
  BY <1>1, VisitedAppend, ProblemAssumption
<1>3. Len(w) + 1 = L + 2
  BY <1>2
<1>4. m.v = EndOf(u) /\ m.st = StateAfter(u) /\ m.cost = CostOf(u)
      /\ \A r \in Res : m.q[r] = Earliest(u, L + 1, r)
  BY DEF EndNode
<1>5. /\ n.v = To[a] /\ n.st = StateAfter(w) /\ n.cost = CostOf(w)
      /\ n.q = [r \in Res |-> Earliest(w, L + 2, r)]
  BY <1>2, <1>3 DEF EndNode
<1>6. a \in ArcsAt("fw", EndOf(u))
  BY DEF ArcsAt, Behind
<1>7. /\ along.cost < Inf /\ at.cost < Inf /\ along.cost = 0 /\ at.cost = 0
  BY <1>4, <1>6 DEF PackMeansAllowed, Feasible
<1>8. n.st = at.st
  BY <1>1, <1>4, <1>5, StateAppend DEF Onto
<1>9. n.cost = m.cost + red[a] /\ m.cost \in Int /\ red[a] \in Int
  BY <1>1, <1>4, <1>5, SumAppend DEF CostOf
<1>10. n.q = Advance("fw", m.q, a)
  <2>1. \A r \in Res : Earliest(w, L + 2, r) = Larger(Earliest(u, L + 1, r) + Use[a][r], Lb[To[a]][r])
    BY <1>1, EarliestAppend
  <2> HIDE DEF m, n, w, L
  <2>2. Advance("fw", m.q, a) = [r \in Res |-> Larger(m.q[r] + Use[a][r], Lb[To[a]][r])]
    BY DEF Advance
  <2> QED BY <1>4, <1>5, <2>1, <2>2
<1>11. InWindow("fw", To[a], n.q)
  <2>1. L + 2 \in 1..Len(w) + 1
    BY <1>2
  <2>2. \A r \in Res : Earliest(w, L + 2, r) <= Ub[To[a]][r]
    BY <1>2, <2>1 DEF Feasible
  <2> HIDE DEF m, n, w, L
  <2> QED BY <1>5, <2>2 DEF InWindow
<1>12. CanTake("fw", m, a)
  BY <1>4, <1>6, <1>7, <1>10, <1>11 DEF CanTake, Ahead
<1>13. /\ Taken("fw", m, a).v = To[a] /\ Taken("fw", m, a).q = Advance("fw", m.q, a)
       /\ Taken("fw", m, a).st = at.st /\ Taken("fw", m, a).cost = m.cost + red[a] + along.cost + at.cost
  BY DEF Taken, Ahead
<1> HIDE DEF m, n, along, at
<1> QED BY <1>5, <1>7, <1>8, <1>9, <1>10, <1>12, <1>13 DEF m, n

-----------------------------------------------------------------------------
\* The bucket of module LabelingProps in which a walk arrives.
LEMMA ArrivalIsEnd ==
  ASSUME NEW w \in PartialWalks
  PROVE  /\ w \in Seq(Arc) /\ BucketAfter[w] = BucketOf(EndNode(w).v, EndNode(w).q)
         /\ Arrival[w].q = EndNode(w).q /\ Arrival[w].st = EndNode(w).st
         /\ EndNode(w).v = EndOf(w) /\ EndNode(w).cost = CostOf(w)
<1>1. w \in Seq(Arc)
  BY LayersAreWalks
<1>2. /\ Arrival[w].v = EndNode(w).v /\ Arrival[w].q = EndNode(w).q
      /\ Arrival[w].st = EndNode(w).st
      /\ EndNode(w).v = EndOf(w) /\ EndNode(w).cost = CostOf(w)
  BY DEF Arrival, EndNode
<1>3. BucketAfter[w] = BucketOf(Arrival[w].v, Arrival[w].q)
  BY DEF BucketAfter
<1> QED BY <1>1, <1>2, <1>3

\* A label that covers a record of a finished bucket is in a finished bucket, too,
\* at or before that one.
LEMMA CoverIsSettled ==
  ASSUME InOrder, NEW k \in labels["fw"], NEW n, Mark(n), Covers("fw", This(k), n),
         Settled("fw", BucketOf(n.v, n.q))
  PROVE  UpTo("fw", Where(k), BucketOf(n.v, n.q)) /\ Settled("fw", Where(k))
<1>1. /\ "fw" \in Dir /\ k \in Label /\ SearchInOrder
  BY DEF InOrder, Inductive, TypeOK, LabelType, Dir
<1>2. /\ This(k).v = n.v /\ AtLeastAsGood("fw", This(k).q, n.q)
      /\ n.v \in Vertex /\ n.q \in [Res -> Int] /\ This(k).q \in [Res -> Int]
  BY <1>1, LabelMarks DEF Mark, Covers
<1>3. /\ UpTo("fw", Where(k), BucketOf(n.v, n.q))
      /\ Where(k) \in Bucket /\ BucketOf(n.v, n.q) \in Bucket
  BY <1>1, <1>2, BucketOfMonotone, BucketOfType DEF Where
<1>4. BucketOf(n.v, n.q) \in Reachable["fw"][Where(k)]
  BY <1>1, <1>3, UpToIsReachable
<1> QED BY <1>1, <1>3, <1>4, SettledBefore

\* The promise of dominance, for every feasible partial path.
LEMMA WalksAreRepresented ==
  ASSUME PackLawful, InOrder, KeptOK("fw"), LoneExact,
         NEW w \in PartialWalks, Settled("fw", BucketAfter[w])
  PROVE  Represented("fw", EndNode(w))
<1> DEFINE P == {u \in PartialWalks : Settled("fw", BucketAfter[u]) => Represented("fw", EndNode(u))}
<1>1. /\ "fw" \in Dir /\ red \in [Arc -> Int] /\ SearchInOrder /\ labels["fw"] \subseteq Label
      /\ PackMeansAllowed
  BY DEF InOrder, Inductive, TypeOK, GraphType, LabelType, Dir, PackLawful
<1>2. <<>> \in P
  <2>1. <<>> \in PartialWalks
    <3>1. 0 \in 0..MaxWalk
      BY LayersAreWalks
    <3> QED BY <3>1, LayersAreWalks, UptoDef
  <2>2. Represented("fw", EndNode(<<>>))
    <3>1. PICK k \in Live("fw") : Covers("fw", This(k), This(InitialLabel("fw")))
      BY DEF KeptOK, OriginRepresented, Represented
    <3>2. Covers("fw", This(k), EndNode(<<>>))
      BY <1>1, <3>1, EndOfEmpty, CoversByFields
    <3> QED BY <3>2 DEF Represented
  <2> QED BY <2>1, <2>2
<1>3. ASSUME NEW u \in PartialWalks, u \in P, NEW a \in Arc,
             From[a] = EndOf(u), Feasible(Append(u, a)), Append(u, a) \in PartialWalks,
             Settled("fw", BucketAfter[Append(u, a)])
      PROVE  Represented("fw", EndNode(Append(u, a)))
  <2> DEFINE v == Append(u, a)
             m == EndNode(u)
             n == EndNode(v)
             t == Taken("fw", m, a)
  <2>1. CanTake("fw", m, a) /\ t.v = n.v /\ t.q = n.q /\ t.cost = n.cost /\ t.st = n.st
    BY <1>1, <1>3, EndOfLonger
  <2>2. /\ BucketAfter[u] = BucketOf(m.v, m.q) /\ BucketAfter[v] = BucketOf(n.v, n.q)
        /\ u \in Seq(Arc)
    BY <1>3, ArrivalIsEnd
  <2>3. Mark(m) /\ (\A r \in Res : m.q[r] >= Lb[m.v][r]) /\ BucketOf(m.v, m.q) \in Bucket
    BY <1>1, <2>2, EndNodeType
  <2> HIDE DEF v, m, n
  <2>4. Settled("fw", BucketAfter[u])
    <3>1. n.v = Ahead("fw", a) /\ n.q = Advance("fw", m.q, a)
      BY <2>1 DEF Taken, Ahead
    <3>2. a \in ArcsAt("fw", m.v) /\ InWindow("fw", Ahead("fw", a), Advance("fw", m.q, a))
      BY <2>1 DEF CanTake, Ahead
    <3>3. m.v \in Vertex /\ m.q \in [Res -> Int]
      BY <2>3 DEF Mark
    <3>4. BucketAfter[v] \in Reachable["fw"][BucketAfter[u]]
      <4>1. \A r \in Res : IF "fw" = "fw" THEN m.q[r] >= Lb[m.v][r] ELSE m.q[r] <= Ub[m.v][r]
        BY <2>3
      <4>2. BucketOf(Ahead("fw", a), Advance("fw", m.q, a))
              \in Reachable["fw"][BucketOf(m.v, m.q)]
        BY <1>1, <3>2, <3>3, <4>1, ChildIsReachable
      <4> QED BY <2>2, <3>1, <4>2
    <3>5. Settled("fw", BucketAfter[v])
      BY <1>3 DEF v
    <3> QED BY <1>1, <2>2, <2>3, <3>4, <3>5, SettledBefore
  <2>5. PICK k \in Live("fw") : Covers("fw", This(k), m)
    BY <1>3, <2>4 DEF Represented, m
  <2>6. k \in labels["fw"] /\ Mark(This(k))
    BY <1>1, <2>5, LabelMarks DEF Live
  <2>7. k \in extended["fw"]
    <3>1. Settled("fw", Where(k))
      BY <2>2, <2>3, <2>4, <2>5, <2>6, CoverIsSettled
    <3>2. ~PastMid("fw", This(k))
      BY DEF LoneExact, PastMid
    <3> QED BY <2>5, <3>1, <3>2 DEF KeptOK, SettledAreExtended
  <2>8. CanTake("fw", This(k), a) /\ Covers("fw", Taken("fw", This(k), a), t)
    BY <1>1, <2>1, <2>3, <2>5, <2>6, CoversPersists
  <2>9. PICK j \in Live("fw") : Covers("fw", This(j), Taken("fw", This(k), a))
    <3>1. Tried("fw", k, a)
      BY <2>7 DEF Tried
    <3>2. a \in Arc /\ \A x : ~TurnedAway("fw", x) /\ ~GivenUp("fw", x)
      BY DEF LoneExact, TurnedAway, GivenUp
    <3> QED BY <2>6, <2>8, <3>1, <3>2 DEF KeptOK, ChildrenRepresented, Represented
  <2>10. Mark(This(j)) /\ Mark(Taken("fw", This(k), a)) /\ Mark(t)
    BY <1>1, <2>3, <2>6, LabelMarks, TakenType DEF Live
  <2> HIDE DEF t
  <2>11. Covers("fw", This(j), t)
    BY <1>1, <2>8, <2>9, <2>10, CoversTransitive
  <2>12. Covers("fw", This(j), n)
    BY <2>1, <2>11, CoversByFields
  <2> QED BY <2>12 DEF Represented, n, v
<1>4. \A u \in PartialWalks \cap P : \A a \in Arc :
        From[a] = EndOf(u) /\ Feasible(Append(u, a)) /\ Append(u, a) \in PartialWalks
          => Append(u, a) \in P
  BY <1>3
<1>5. w \in P
  <2> HIDE DEF P
  <2> QED BY <1>2, <1>4, WalkInduction
<1> QED BY <1>5

\* What is settled before a solve is nothing.
LEMMA SettledIsKept ==
  ASSUME Kept, Fresh, LoneExact, NEW b, Settled("fw", b)
  PROVE  KeptOK("fw")
BY DEF Kept, Fresh, Settled, LoneExact, ExactRun, Directions

\* Dominance loses nothing: in an exact solve that no cap stops, every feasible
\* partial path that ends in a finished bucket is represented by a label that is
\* as good.
THEOREM PathsStayRepresented ==
  ASSUME PackLawful
  PROVE  Spec /\ []Uncapped => []EveryPathRepresented
<1>1. InOrder /\ Kept /\ Fresh => EveryPathRepresented
  <2> SUFFICES ASSUME InOrder, Kept, Fresh, LoneExact, NEW w \in PartialWalks,
                      Settled("fw", BucketAfter[w])
               PROVE  \E l \in Live("fw") :
                        LET n == This(l)
                        IN /\ n.v = EndOf(w) /\ AtLeastAsGood("fw", n.q, Arrival[w].q)
                           /\ \A r \in NonDisposable : n.q[r] = Arrival[w].q[r]
                           /\ DomCost("fw", n.v, n.st, Arrival[w].st) < Inf
                           /\ n.cost + DomCost("fw", n.v, n.st, Arrival[w].st) <= CostOf(w)
    BY DEF EveryPathRepresented, LoneExact
  <2>1. PICK l \in Live("fw") : Covers("fw", This(l), EndNode(w))
    BY SettledIsKept, WalksAreRepresented DEF Represented
  <2> QED BY <2>1, ArrivalIsEnd DEF Covers
<1> QED BY <1>1, AlwaysKept, PTL

\* A label that covers a path costs no more than the path.
LEMMA CoverIsCheaper ==
  ASSUME PackLawful, NEW d \in Dir, NEW x, NEW y, Mark(x), Mark(y), Covers(d, x, y)
  PROVE  x.cost <= y.cost
<1> DEFINE D == DomCost(d, x.v, x.st, y.st)
<1>1. x.v \in Vertex /\ x.st \in PackState /\ y.st \in PackState
  BY DEF Mark
<1>2. D \in Int /\ x.cost \in Int /\ y.cost \in Int
  BY <1>1 DEF PackLawful, Closed, Mark
<1>3. D < Inf /\ x.cost + D <= y.cost
  BY DEF Covers
<1>4. D >= 0
  BY <1>1, <1>3 DEF PackLawful, Persists
<1> HIDE DEF D
<1> QED BY <1>2, <1>3, <1>4

\* So c_best of a finished bucket bounds the costs of every path that ends in it, also
\* of those whose labels other buckets' labels have dominated.
LEMMA BestBoundsWalks ==
  ASSUME PackLawful, InOrder, KeptOK("fw"), LoneExact,
         NEW w \in PartialWalks, Settled("fw", BucketAfter[w])
  PROVE  cbest["fw"][BucketAfter[w]] <= CostOf(w)
<1>1. /\ "fw" \in Dir /\ red \in [Arc -> Int] /\ labels["fw"] \subseteq Label
      /\ cbest \in [Dir -> [Bucket -> Int]]
  BY DEF InOrder, Inductive, TypeOK, GraphType, LabelType, SearchType, Dir
<1>2. PICK l \in Live("fw") : Covers("fw", This(l), EndNode(w))
  BY WalksAreRepresented DEF Represented
<1>3. l \in labels["fw"] /\ Mark(This(l))
  BY <1>1, <1>2, LabelMarks DEF Live
<1>4. /\ w \in Seq(Arc) /\ BucketAfter[w] = BucketOf(EndNode(w).v, EndNode(w).q)
      /\ EndNode(w).cost = CostOf(w)
  BY ArrivalIsEnd
<1>5. Mark(EndNode(w)) /\ BucketAfter[w] \in Bucket
  BY <1>1, <1>4, EndNodeType
<1>6. This(l).cost <= CostOf(w)
  BY <1>1, <1>2, <1>3, <1>4, <1>5, CoverIsCheaper
<1>7. UpTo("fw", Where(l), BucketAfter[w])
  BY <1>2, <1>3, <1>4, <1>5, CoverIsSettled
<1>8. cbest["fw"][BucketAfter[w]] <= This(l).cost
  BY <1>2, <1>5, <1>7 DEF KeptOK, BestIsBound
<1>9. cbest["fw"][BucketAfter[w]] \in Int /\ This(l).cost \in Int /\ CostOf(w) \in Int
  BY <1>1, <1>3, <1>4, <1>5 DEF Mark
<1> QED BY <1>6, <1>8, <1>9

\* c_best of a finished bucket bounds every feasible partial path that ends in it,
\* throughout an exact solve that no cap stops.
THEOREM CBestStaysBound ==
  ASSUME PackLawful
  PROVE  Spec /\ []Uncapped => []CBestIsLowerBound
<1>1. InOrder /\ Kept /\ Fresh => CBestIsLowerBound
  BY SettledIsKept, BestBoundsWalks DEF CBestIsLowerBound, LoneExact
<1> QED BY <1>1, AlwaysKept, PTL

-----------------------------------------------------------------------------
\* The end of a solve: labeling stops when every component is finished, and the
\* candidates that are selected are the cheapest.
Searched ==
  phase \in {"post", "collect", "done"} => \A d \in Directions : finished[d] = Sccs[d]

Delivered ==
  (phase = "done" /\ LoneExact) =>
    \A y \in SinkCandidates : \E c \in result : c.cost <= y.cost

\* Labeling ends only when every component of the directions searched is finished.
LEMMA SearchedStays ==
  ASSUME Inductive, Searched, [Next]_vars
  PROVE  Searched'
<1>1. CASE BeginSolve
  BY <1>1 DEF BeginSolve, Searched
<1>2. CASE EndLabeling
  BY <1>2 DEF EndLabeling, Searched, Directions, search
<1>3. CASE PostPass \/ Collect \/ Returned \/ UNCHANGED vars
  <2>1. finished' = finished /\ opt' = opt /\ (phase' = phase \/ phase \in {"post", "collect"})
    BY <1>3 DEF PostPass, Collect, Returned, search, vars
  <2> QED BY <2>1 DEF Searched, Directions
<1>4. ASSUME NEW d \in Dir, LabelStep(d)
      PROVE  Searched'
  <2>1. phase = "label" /\ phase' = phase
    BY <1>4 DEF LabelStep, StartScc, DropDominated, PruneHopeless, OpenLabel, ExtendArc, FinishScc,
                Visit, Running
  <2> QED BY <2>1 DEF Searched
<1> QED BY <1>1, <1>2, <1>3, <1>4 DEF Next, MainStep

\* What is selected is at least as cheap as what is not.
LEMMA SelectionIsCheapest ==
  ASSUME NEW C, \A y \in C : y.cost \in Int, NEW R \in Selections(C), NEW y \in C
  PROVE  \E c \in R : c.cost <= y.cost
<1>1. CASE R = C
  <2>1. y.cost <= y.cost
    OBVIOUS
  <2> QED BY <1>1, <2>1
<1>2. CASE R # C
  <2>1. /\ R \in SUBSET C /\ Cardinality(R) = MaxPaths /\ MaxPaths # 0
        /\ \A x \in R, z \in C \ R : x.cost <= z.cost
    BY <1>2 DEF Selections
  <2>2. R # {}
    BY <2>1, FS_EmptySet
  <2>3. CASE y \in R
    <3>1. y.cost <= y.cost
      OBVIOUS
    <3> QED BY <2>3, <3>1
  <2>4. CASE y \notin R
    BY <2>1, <2>2, <2>4
  <2> QED BY <2>3, <2>4
<1> QED BY <1>1, <1>2

\* Steps that change no label and no result.
LEMMA DeliveredStable ==
  ASSUME Delivered, UNCHANGED <<opt, labels, dominated, result>>, phase' = phase \/ phase' # "done"
  PROVE  Delivered'
BY DEF Delivered, LoneExact, SinkCandidates, Live

\* Collecting keeps one of the cheapest labels at the sink.
LEMMA DeliveredStays ==
  ASSUME Inductive, Delivered, [Next]_vars
  PROVE  Delivered'
<1>1. CASE BeginSolve \/ EndLabeling \/ PostPass
  BY <1>1 DEF BeginSolve, EndLabeling, PostPass, Delivered
<1>2. CASE Returned \/ UNCHANGED vars
  <2>1. UNCHANGED <<opt, labels, dominated, result, phase>>
    BY <1>2 DEF Returned, vars, search
  <2> QED BY <2>1, DeliveredStable
<1>3. CASE Collect
  <2>1. UNCHANGED <<opt, labels, dominated>>
    BY <1>3 DEF Collect, search
  <2> SUFFICES ASSUME LoneExact
               PROVE  \A y \in SinkCandidates : \E c \in result' : c.cost <= y.cost
    BY <2>1 DEF Delivered, LoneExact, SinkCandidates, Live
  <2>2. Collected = {{}}
    BY DEF Collected, ConcatCandidates, Enumerating, LoneExact
  <2>3. result' \in Selections(SinkCandidates)
    <3>1. PICK C \in Collected : result' \in Selections(C \cup SinkCandidates)
      BY <1>3 DEF Collect
    <3>2. C \cup SinkCandidates = SinkCandidates
      BY <2>2, <3>1
    <3> QED BY <3>1, <3>2
  <2>4. \A y \in SinkCandidates : y.cost \in Int
    <3>1. LabelType /\ LabelsAreSound
      BY DEF Inductive, TypeOK
    <3> QED BY <3>1, SinkCandidatesAreSound DEF Candidate
  <2> QED BY <2>3, <2>4, SelectionIsCheapest
<1>4. ASSUME NEW d \in Dir, LabelStep(d)
      PROVE  Delivered'
  <2>1. phase = "label" /\ phase' = phase
    BY <1>4 DEF LabelStep, StartScc, DropDominated, PruneHopeless, OpenLabel, ExtendArc, FinishScc,
                Visit, Running
  <2> QED BY <2>1 DEF Delivered
<1> QED BY <1>1, <1>2, <1>3, <1>4 DEF Next, MainStep

\* So a finished exact solve has returned one as cheap as any label at the sink.
LEMMA AlwaysDelivered == Spec => [](Searched /\ Delivered)
<1>1. Init => Searched /\ Delivered
  BY DEF Init, Searched, Delivered
<1>2. InOrder /\ Searched /\ Delivered /\ [Next]_vars => (Searched /\ Delivered)'
  BY SearchedStays, DeliveredStays DEF InOrder
<1> QED BY <1>1, <1>2, AlwaysInOrder, PTL DEF Spec

\* Any path worth finding is answered by one as cheap.
LEMMA LoneSolveFinds ==
  ASSUME PackLawful, InOrder, Kept, Fresh, Searched, Delivered, Done, LoneExact,
         NEW w \in Paths, Worth(w)
  PROVE  \E c \in result : c.cost <= CostOf(w)
<1>1. /\ "fw" \in Dir /\ red \in [Arc -> Int] /\ labels["fw"] \subseteq Label
      /\ opt.theta \in Int /\ opt.mode = "mono" /\ result \subseteq Candidate
      /\ LabelType /\ LabelsAreSound
  BY OptionAssumption
  DEF InOrder, Inductive, TypeOK, SolveType, GraphType, LabelType, SearchType, Dir, LoneExact
<1>2. LoneExact /\ phase = "done" /\ "fw" \in Directions
  BY <1>1 DEF LoneExact, Done, Directions
<1>3. /\ w \in PartialWalks /\ EndOf(w) = Sink /\ CostOf(w) < opt.theta
  BY DEF Paths, Worth
<1>4. /\ w \in Seq(Arc) /\ BucketAfter[w] = BucketOf(EndNode(w).v, EndNode(w).q)
      /\ EndNode(w).cost = CostOf(w) /\ EndNode(w).v = EndOf(w)
  BY <1>3, ArrivalIsEnd
<1>5. Mark(EndNode(w)) /\ BucketAfter[w] \in Bucket
  BY <1>1, <1>4, EndNodeType
<1>6. Settled("fw", BucketAfter[w])
  <2>1. finished["fw"] = Sccs["fw"]
    BY <1>2 DEF Searched
  <2> QED BY <1>1, <1>5, <2>1, SccsPartition DEF Settled
<1>7. KeptOK("fw")
  BY <1>2, <1>6, SettledIsKept
<1>8. PICK k \in Live("fw") : Covers("fw", This(k), EndNode(w))
  BY <1>2, <1>3, <1>6, <1>7, WalksAreRepresented DEF Represented
<1>9. Mark(This(k))
  BY <1>1, <1>8, LabelMarks DEF Live
<1>10. This(k).cost <= CostOf(w) /\ This(k).v = Sink
  BY <1>1, <1>3, <1>4, <1>5, <1>8, <1>9, CoverIsCheaper DEF Covers
<1>11. This(k).cost \in Int /\ CostOf(w) \in Int
  BY <1>4, <1>5, <1>9 DEF Mark
<1>12. This(k).cost < opt.theta
  BY <1>1, <1>3, <1>10, <1>11
<1> DEFINE y == [fw |-> k, bw |-> <<>>, arc |-> NoArc, cost |-> This(k).cost,
                 real |-> This(k).real]
<1>13. y \in SinkCandidates /\ y.cost = This(k).cost
  BY <1>8, <1>10, <1>12 DEF SinkCandidates
<1> HIDE DEF y
<1>14. PICK c \in result : c.cost <= y.cost
  BY <1>2, <1>13 DEF Delivered
<1>15. c.cost \in Int
  BY <1>1 DEF Candidate
<1>16. c.cost <= CostOf(w)
  BY <1>10, <1>11, <1>13, <1>14, <1>15
<1> QED BY <1>16

\* A mono-directional exact solve that no cap stops returns a path of least
\* reduced cost when there is one below theta.
THEOREM ExactFindsOptimum ==
  ASSUME PackLawful, Modes = {"mono"}
  PROVE  Spec /\ []Uncapped => []FindsOptimum
<1>1. InOrder /\ Kept /\ Fresh /\ Searched /\ Delivered => FindsOptimum
  <2> SUFFICES ASSUME InOrder, Kept, Fresh, Searched, Delivered, Done, opt.stage = "Exact"
               PROVE  \A w \in Paths : Worth(w) => \E c \in result : c.cost <= CostOf(w)
    BY DEF FindsOptimum
  <2>1. LoneExact
    BY DEF InOrder, Inductive, TypeOK, SolveType, LoneExact
  <2> QED BY <2>1, LoneSolveFinds
<1> QED BY <1>1, AlwaysKept, AlwaysDelivered, PTL

-----------------------------------------------------------------------------
\* What is returned is a path: first, that a forward label is a walk.
LEMMA WalksAreFeasible ==
  ASSUME PackMeansAllowed, NEW w \in PartialWalks
  PROVE  Feasible(w)
<1> DEFINE P == {u \in PartialWalks : Feasible(u)}
<1>1. <<>> \in P
  <2>1. /\ <<>> \in Seq(Arc) /\ Len(<<>>) = 0 /\ <<>> \in PartialWalks
    <3>1. 0 \in 0..MaxWalk
      BY LayersAreWalks
    <3> QED BY <3>1, LayersAreWalks, UptoDef
  <2>2. PackAllows(Visited(<<>>)) /\ Visited(<<>>)[1] = Source
    BY DEF PackMeansAllowed, Visited
  <2>3. \A r \in Res : Earliest(<<>>, 1, r) <= Ub[Source][r]
    <3>1. \A r \in Res : Lb[Source][r] <= Ub[Source][r]
      BY ProblemAssumption
    <3> QED BY <3>1, EarliestAtStart
  <2>4. \A j \in 1..Len(<<>>) + 1 : j = 1
    BY <2>1
  <2>5. Feasible(<<>>)
    BY <2>2, <2>3, <2>4 DEF Feasible
  <2> QED BY <2>1, <2>5
<1>2. \A u \in PartialWalks \cap P : \A a \in Arc :
        From[a] = EndOf(u) /\ Feasible(Append(u, a)) /\ Append(u, a) \in PartialWalks
          => Append(u, a) \in P
  OBVIOUS
<1>3. w \in P
  <2> HIDE DEF P
  <2> QED BY <1>1, <1>2, WalkInduction
<1> QED BY <1>3

\* A walk can be continued along an arc that some label no earlier takes: it
\* arrives no later than that label and pays the arc's cost.
LEMMA WalkContinues ==
  ASSUME PackMeansAllowed, red \in [Arc -> Int], NEW u \in PartialWalks,
         NEW a \in ArcsAt("fw", EndOf(u)), NEW q \in [Res -> Int],
         AtLeastAsGood("fw", Advance("fw", EndNode(u).q, a), q), InWindow("fw", To[a], q),
         AlongArc("fw", StateAfter(u), a).cost < Inf,
         ToVertex("fw", AlongArc("fw", StateAfter(u), a).st, To[a]).cost < Inf
  PROVE  LET w == Append(u, a)
         IN /\ w \in PartialWalks /\ EndOf(w) = To[a]
            /\ AtLeastAsGood("fw", EndNode(w).q, q)
            /\ StateAfter(w) = Onto(StateAfter(u), a)
            /\ AlongArc("fw", StateAfter(u), a).cost = 0
            /\ ToVertex("fw", AlongArc("fw", StateAfter(u), a).st, To[a]).cost = 0
            /\ CostOf(u) \in Int /\ CostOf(w) = CostOf(u) + red[a]
            /\ SumOver(BaseCost, u) \in Int
            /\ SumOver(BaseCost, w) = SumOver(BaseCost, u) + BaseCost[a]
<1> DEFINE w == Append(u, a)
           L == Len(u)
<1>1. u \in Seq(Arc) /\ a \in Arc /\ From[a] = EndOf(u) /\ BaseCost \in [Arc -> Int]
  BY LayersAreWalks, ProblemAssumption DEF ArcsAt, Behind
<1>2. /\ w \in Seq(Arc) /\ Len(w) = L + 1 /\ L \in Nat /\ EndOf(w) = To[a]
      /\ Visited(w)[L + 2] = To[a] /\ \A i \in 1..L + 1 : Visited(w)[i] = Visited(u)[i]
  BY <1>1, VisitedAppend
<1>3. /\ AlongArc("fw", StateAfter(u), a).cost = 0
      /\ ToVertex("fw", AlongArc("fw", StateAfter(u), a).st, To[a]).cost = 0
      /\ PackAllows(Visited(w))
  BY DEF PackMeansAllowed
<1>4. \A r \in Res : /\ Earliest(w, L + 2, r) = Advance("fw", EndNode(u).q, a)[r]
                     /\ \A j \in 1..L + 1 : Earliest(w, j, r) = Earliest(u, j, r)
  <2>1. \A r \in Res : EndNode(u).q[r] = Earliest(u, L + 1, r)
    BY DEF EndNode
  <2>2. \A r \in Res :
          Advance("fw", EndNode(u).q, a)[r] = Larger(EndNode(u).q[r] + Use[a][r], Lb[To[a]][r])
    BY DEF Advance
  <2>3. \A r \in Res :
          /\ \A j \in 1..L + 1 : Earliest(w, j, r) = Earliest(u, j, r)
          /\ Earliest(w, L + 2, r) = Larger(Earliest(u, L + 1, r) + Use[a][r], Lb[To[a]][r])
    BY <1>1, EarliestAppend
  <2> HIDE DEF w, L
  <2> QED BY <2>1, <2>2, <2>3
<1>5. EndNode(w).q = [r \in Res |-> Earliest(w, L + 2, r)]
  <2>1. Len(w) + 1 = L + 2
    BY <1>2
  <2> HIDE DEF w, L
  <2> QED BY <2>1 DEF EndNode
<1>6. AtLeastAsGood("fw", EndNode(w).q, q)
  <2> HIDE DEF w, L
  <2> QED BY <1>4, <1>5 DEF AtLeastAsGood
<1>7. Feasible(w)
  <2>1. Feasible(u)
    BY WalksAreFeasible
  <2>2. ASSUME NEW r \in Res
        PROVE  Earliest(w, L + 2, r) <= Ub[To[a]][r]
    <3>1. Advance("fw", EndNode(u).q, a)[r] <= q[r] /\ q[r] <= Ub[To[a]][r]
      BY DEF AtLeastAsGood, InWindow
    <3>2. Advance("fw", EndNode(u).q, a)[r] \in Int /\ q[r] \in Int /\ Ub[To[a]][r] \in Int
      <4>1. EndNode(u).q \in [Res -> Int] /\ "fw" \in Dir /\ To[a] \in Vertex
        BY <1>1, EndNodeType, ProblemAssumption DEF Mark, Dir
      <4> QED BY <1>1, <4>1, AdvanceType, TableType
    <3>3. Earliest(w, L + 2, r) = Advance("fw", EndNode(u).q, a)[r]
      BY <1>4
    <3> HIDE DEF w, L
    <3> QED BY <3>1, <3>2, <3>3
  <2>3. \A j \in 1..Len(w) + 1 : j = L + 2 \/ j \in 1..L + 1
    BY <1>2
  <2>4. \A j \in 1..L + 1, r \in Res : Earliest(w, j, r) <= Ub[Visited(w)[j]][r]
    BY <1>2, <1>4, <2>1 DEF Feasible
  <2> HIDE DEF w, L
  <2> QED BY <1>2, <1>3, <2>2, <2>3, <2>4 DEF Feasible
<1>8. w \in PartialWalks
  BY <1>1, <1>7, WalkGrows
<1>9. StateAfter(w) = Onto(StateAfter(u), a)
  BY <1>1, StateAppend
<1>10. /\ CostOf(u) \in Int /\ CostOf(w) = CostOf(u) + red[a]
       /\ SumOver(BaseCost, u) \in Int
       /\ SumOver(BaseCost, w) = SumOver(BaseCost, u) + BaseCost[a]
  BY <1>1, SumAppend DEF CostOf
<1> QED BY <1>2, <1>3, <1>6, <1>8, <1>9, <1>10

\* The walk u leads to the node n, with what n says of it.
Follows(u, n) ==
  /\ u \in PartialWalks /\ EndOf(u) = n.v /\ StateAfter(u) = n.st
  /\ CostOf(u) = n.cost /\ SumOver(BaseCost, u) = n.real
  /\ AtLeastAsGood("fw", EndNode(u).q, n.q)

\* A walk that a label follows goes on with the label's next arc.
LEMMA FollowsStep ==
  ASSUME PackMeansAllowed, red \in [Arc -> Int], NEW m \in Node, NEW n \in Node,
         SoundStep("fw", m, n), NEW u, Follows(u, m)
  PROVE  Follows(Append(u, n.arc), n)
<1> DEFINE a == n.arc
           along == AlongArc("fw", m.st, a)
           at == ToVertex("fw", along.st, n.v)
<1>1. /\ a \in ArcsAt("fw", m.v) /\ a \in Arc /\ n.v = To[a] /\ "fw" \in Dir
      /\ AtLeastAsGood("fw", Advance("fw", m.q, a), n.q) /\ InWindow("fw", n.v, n.q)
      /\ along.cost < Inf /\ at.cost < Inf /\ n.st = at.st
      /\ n.cost = m.cost + red[a] + along.cost + at.cost
      /\ n.real = m.real + BaseCost[a]
  BY DEF SoundStep, ArcsAt, Ahead, Dir
<1>2. /\ u \in PartialWalks /\ EndOf(u) = m.v /\ StateAfter(u) = m.st /\ u \in Seq(Arc)
      /\ CostOf(u) = m.cost /\ SumOver(BaseCost, u) = m.real
      /\ AtLeastAsGood("fw", EndNode(u).q, m.q)
  BY LayersAreWalks DEF Follows
<1>3. EndNode(u).q \in [Res -> Int] /\ m.q \in [Res -> Int] /\ n.q \in [Res -> Int]
  BY <1>2, EndNodeType DEF Mark, Node
<1>4. AtLeastAsGood("fw", Advance("fw", EndNode(u).q, a), n.q)
  <2>1. AtLeastAsGood("fw", Advance("fw", EndNode(u).q, a), Advance("fw", m.q, a))
    BY <1>1, <1>2, <1>3, AdvanceMonotone
  <2>2. /\ Advance("fw", EndNode(u).q, a) \in [Res -> Int] /\ Advance("fw", m.q, a) \in [Res -> Int]
    BY <1>1, <1>3, AdvanceType
  <2> QED BY <1>1, <1>3, <2>1, <2>2 DEF AtLeastAsGood
<1>5. LET w == Append(u, a)
      IN /\ w \in PartialWalks /\ EndOf(w) = To[a]
         /\ AtLeastAsGood("fw", EndNode(w).q, n.q)
         /\ StateAfter(w) = Onto(StateAfter(u), a)
         /\ AlongArc("fw", StateAfter(u), a).cost = 0
         /\ ToVertex("fw", AlongArc("fw", StateAfter(u), a).st, To[a]).cost = 0
         /\ CostOf(u) \in Int /\ CostOf(w) = CostOf(u) + red[a]
         /\ SumOver(BaseCost, u) \in Int
         /\ SumOver(BaseCost, w) = SumOver(BaseCost, u) + BaseCost[a]
  <2>1. a \in ArcsAt("fw", EndOf(u)) /\ InWindow("fw", To[a], n.q)
    BY <1>1, <1>2
  <2>2. /\ AlongArc("fw", StateAfter(u), a).cost < Inf
        /\ ToVertex("fw", AlongArc("fw", StateAfter(u), a).st, To[a]).cost < Inf
    BY <1>1, <1>2
  <2> HIDE DEF a
  <2> QED BY <1>2, <1>3, <1>4, <2>1, <2>2, WalkContinues
<1>6. red[a] \in Int /\ BaseCost[a] \in Int
  BY <1>1, ProblemAssumption
<1>7. /\ CostOf(Append(u, a)) = n.cost /\ SumOver(BaseCost, Append(u, a)) = n.real
      /\ StateAfter(Append(u, a)) = n.st
  BY <1>1, <1>2, <1>5, <1>6 DEF Onto
<1> QED BY <1>1, <1>5, <1>7 DEF Follows

\* The first n arcs of a walk.
Take(w, n) == [k \in 1..n |-> w[k]]

\* A walk is its first arcs, one after the other.
LEMMA TakeNext ==
  ASSUME NEW w \in Seq(Arc)
  PROVE  /\ Take(w, 0) = <<>> /\ Take(w, Len(w)) = w
         /\ \A n \in Nat : n < Len(w) => /\ w[n + 1] \in Arc
                                         /\ Append(Take(w, n), w[n + 1]) = Take(w, n + 1)
<1>1. Take(w, 0) = <<>> /\ Take(w, Len(w)) = w
  BY DEF Take
<1>2. ASSUME NEW n \in Nat, n < Len(w)
      PROVE  w[n + 1] \in Arc /\ Append(Take(w, n), w[n + 1]) = Take(w, n + 1)
  <2>1. w[n + 1] \in Arc /\ \A k \in 1..n : w[k] \in Arc
    BY <1>2
  <2>2. Take(w, n) \in Seq(Arc) /\ Len(Take(w, n)) = n
    BY <2>1 DEF Take
  <2>3. Take(w, n + 1) \in Seq(Arc) /\ Len(Take(w, n + 1)) = n + 1
    <3>1. \A k \in 1..n + 1 : w[k] \in Arc
      BY <1>2
    <3> QED BY <3>1 DEF Take
  <2>4. \A k \in 1..n : Take(w, n)[k] = w[k] /\ Take(w, n + 1)[k] = w[k]
    BY DEF Take
  <2>5. Take(w, n + 1)[n + 1] = w[n + 1]
    BY DEF Take
  <2> QED BY <2>1, <2>2, <2>3, <2>4, <2>5
<1> QED BY <1>1, <1>2

\* The arcs of a sound forward label are a walk, and it is where the walk arrives.
LEMMA LabelIsWalk ==
  ASSUME PackMeansAllowed, red \in [Arc -> Int], NEW l \in Label, SoundLabel("fw", l)
  PROVE  Follows(ArcsOf(l), This(l)) /\ ArcsOf(l) \in Seq(Arc) /\ Len(ArcsOf(l)) = Len(l) - 1
<1> DEFINE w == ArcsOf(l)
           L == Len(l) - 1
           N == {n \in Nat : n <= L => Follows(Take(w, n), l[n + 1])}
<1>1. /\ Len(l) \in Nat \ {0} /\ L \in Nat /\ L + 1 = Len(l)
      /\ \A i \in 1..Len(l) : l[i] \in Node
  BY LabelNodes
<1>2. \A i \in 1..L : SoundStep("fw", l[i], l[i + 1]) /\ l[i + 1].arc \in Arc
  BY DEF SoundLabel, SoundStep, ArcsAt
<1>3. w \in Seq(Arc) /\ Len(w) = L /\ \A i \in 1..L : w[i] = l[i + 1].arc
  <2>1. w = [i \in 1..L |-> l[i + 1].arc]
    BY DEF ArcsOf
  <2>2. \A i \in 1..L : l[i + 1].arc \in Arc
    BY <1>2
  <2>3. L \in Nat
    BY <1>1
  <2> HIDE DEF w, L, N
  <2>4. \A i \in 1..L : w[i] = l[i + 1].arc /\ w[i] \in Arc
    BY <2>1, <2>2
  <2>5. w \in [1..L -> Arc]
    BY <2>1, <2>4
  <2>6. w \in Seq(Arc) /\ Len(w) = L
    BY <2>3, <2>5
  <2> QED BY <2>4, <2>6
<1>4. 0 \in N
  <2>1. Follows(<<>>, l[1])
    <3>1. l[1] = This(InitialLabel("fw")) /\ l[1].real = 0
      BY DEF SoundLabel, InitialLabel, This
    <3>2. LET n == EndNode(<<>>)
          IN l[1].v = n.v /\ l[1].q = n.q /\ l[1].cost = n.cost /\ l[1].st = n.st
      BY <3>1, EndOfEmpty
    <3>3. <<>> \in PartialWalks
      <4>1. 0 \in 0..MaxWalk
        BY LayersAreWalks
      <4> QED BY <4>1, LayersAreWalks, UptoDef
    <3>4. SumOver(BaseCost, <<>>) = 0
      BY SumEmpty, ProblemAssumption
    <3>5. AtLeastAsGood("fw", EndNode(<<>>).q, l[1].q)
      <4>1. 1 \in 1..Len(l)
        BY <1>1
      <4>2. l[1].q \in [Res -> Int]
        BY <1>1, <4>1 DEF Node
      <4>3. \A r \in Res : l[1].q[r] <= l[1].q[r]
        BY <4>2
      <4> QED BY <3>2, <4>3 DEF AtLeastAsGood
    <3> QED BY <3>1, <3>2, <3>3, <3>4, <3>5 DEF Follows, EndNode
  <2>2. Take(w, 0) = <<>>
    BY <1>3, TakeNext
  <2> QED BY <2>1, <2>2
<1>5. ASSUME NEW n \in N PROVE n + 1 \in N
  <2> SUFFICES ASSUME n + 1 <= L PROVE Follows(Take(w, n + 1), l[(n + 1) + 1])
    OBVIOUS
  <2>1. /\ n \in Nat /\ n + 1 \in 1..L /\ n < L /\ n + 1 \in 1..Len(l) /\ (n + 1) + 1 \in 1..Len(l)
    BY <1>1, <1>5
  <2>2. Follows(Take(w, n), l[n + 1]) /\ l[n + 1] \in Node /\ l[(n + 1) + 1] \in Node
    BY <1>1, <1>5, <2>1
  <2>3. SoundStep("fw", l[n + 1], l[(n + 1) + 1])
    BY <1>2, <2>1
  <2>4. Follows(Append(Take(w, n), l[(n + 1) + 1].arc), l[(n + 1) + 1])
    BY <2>2, <2>3, FollowsStep
  <2>5. Append(Take(w, n), w[n + 1]) = Take(w, n + 1) /\ w[n + 1] = l[(n + 1) + 1].arc
    BY <1>3, <2>1, TakeNext
  <2> QED BY <2>4, <2>5
<1>6. N = Nat
  <2> HIDE DEF N
  <2>1. N \in SUBSET Nat
    BY DEF N
  <2> QED BY <1>4, <1>5, <2>1, InductOnNat
<1>7. Follows(Take(w, L), l[L + 1])
  BY <1>1, <1>6
<1>8. Take(w, L) = w /\ l[L + 1] = This(l)
  BY <1>1, <1>3, TakeNext DEF This
<1> QED BY <1>3, <1>7, <1>8

-----------------------------------------------------------------------------
\* The backward half of a path.  Each node of a sound label is within its window
\* and has left a vertex.
LEMMA NodeOfSoundLabel ==
  ASSUME NEW d \in Dir, NEW l \in Label, SoundLabel(d, l), NEW k \in 1..Len(l)
  PROVE  /\ l[k] \in Node /\ InWindow(d, l[k].v, l[k].q)
         /\ \A r \in Res : IF d = "fw" THEN l[k].q[r] >= Lb[l[k].v][r]
                                       ELSE l[k].q[r] <= Ub[l[k].v][r]
         /\ \E x \in PackState : l[k].st = ToVertex(d, x, l[k].v).st
<1> DEFINE p == [i \in 1..k |-> l[i]]
<1>1. /\ Len(l) \in Nat \ {0} /\ k \in Nat /\ k >= 1 /\ \A i \in 1..Len(l) : l[i] \in Node
      /\ \A i \in 1..k : i \in 1..Len(l)
  BY LabelNodes
<1>2. p \in Seq(Node) /\ Len(p) = k /\ \A i \in 1..k : p[i] = l[i]
  BY <1>1
<1> HIDE DEF p
<1>3. p \in Label /\ This(p) = l[k] /\ p[1] = l[1]
  BY <1>1, <1>2 DEF Label, This
<1>4. \A i \in 1..k - 1 : i \in 1..Len(l) - 1 /\ i \in 1..k /\ i + 1 \in 1..k
  BY <1>1
<1>5. SoundLabel(d, p)
  BY <1>2, <1>3, <1>4 DEF SoundLabel
<1>6. \E x \in PackState : l[k].st = ToVertex(d, x, l[k].v).st
  <2>1. CASE k = 1
    <3>1. <<l[1]>> = InitialLabel(d) /\ InitState(d) \in PackState
      BY PackAssumption DEF SoundLabel
    <3>2. l[1].st = ToVertex(d, InitState(d), Origin(d)).st /\ l[1].v = Origin(d)
      BY <3>1 DEF InitialLabel
    <3> QED BY <2>1, <3>1, <3>2
  <2>2. CASE k # 1
    <3>1. k - 1 \in 1..Len(l) - 1 /\ k - 1 \in 1..Len(l) /\ (k - 1) + 1 = k
      BY <1>1, <2>2
    <3>2. SoundStep(d, l[k - 1], l[k]) /\ l[k - 1].st \in PackState
      BY <1>1, <3>1 DEF SoundLabel, Node
    <3>3. /\ l[k].arc \in Arc
          /\ l[k].st = ToVertex(d, AlongArc(d, l[k - 1].st, l[k].arc).st, l[k].v).st
      BY <3>2 DEF SoundStep, ArcsAt
    <3>4. AlongArc(d, l[k - 1].st, l[k].arc).st \in PackState
      BY <3>2, <3>3, PackAssumption
    <3> QED BY <3>3, <3>4
  <2> QED BY <2>1, <2>2
<1>7. /\ InWindow(d, l[k].v, l[k].q)
      /\ \A r \in Res : IF d = "fw" THEN l[k].q[r] >= Lb[l[k].v][r]
                                    ELSE l[k].q[r] <= Ub[l[k].v][r]
  BY <1>3, <1>5, LabelPlaced
<1> QED BY <1>1, <1>6, <1>7

\* Arc b leads from the end of the walk u to the backward node n, which the walk
\* may meet there; together they make the cost and the original cost given.
Meets(u, b, n, cost, real) ==
  LET along == AlongArc("fw", StateAfter(u), b)
      both  == ConcatCost(To[b], along.st, n.st)
  IN /\ u \in PartialWalks /\ b \in ArcsAt("fw", EndOf(u)) /\ n.v = To[b]
     /\ AtLeastAsGood("fw", Advance("fw", EndNode(u).q, b), n.q)
     /\ along.cost < Inf /\ both < Inf
     /\ CostOf(u) + red[b] + along.cost + both + n.cost = cost
     /\ SumOver(BaseCost, u) + BaseCost[b] + n.real = real

\* What Meets is about has types.
LEMMA MeetsType ==
  ASSUME NEW u \in Seq(Arc), NEW b \in Arc, NEW s \in PackState
  PROVE  /\ StateAfter(u) \in PackState /\ To[b] \in Vertex
         /\ AlongArc("fw", StateAfter(u), b) \in [st : PackState, cost : Int]
         /\ ConcatCost(To[b], AlongArc("fw", StateAfter(u), b).st, s) \in Int
<1>1. StateAfter(u) \in PackState /\ To[b] \in Vertex /\ "fw" \in Dir
  BY StateType, ProblemAssumption DEF Dir
<1>2. AlongArc("fw", StateAfter(u), b) \in [st : PackState, cost : Int]
  BY <1>1, PackAssumption
<1> DEFINE y == AlongArc("fw", StateAfter(u), b).st
<1>3. y \in PackState
  BY <1>2
<1> HIDE DEF y
<1>4. ConcatCost(To[b], y, s) \in Int
  BY <1>1, <1>3, PackAssumption
<1> QED BY <1>1, <1>2, <1>4 DEF y

\* The walk takes the arc and meets the backward label one node earlier.
LEMMA MeetsStep ==
  ASSUME PackMeansAllowed, PackJoins, red \in [Arc -> Int],
         NEW m \in Node, NEW n \in Node, SoundStep("bw", m, n),
         \A r \in Res : m.q[r] >= Lb[m.v][r] /\ n.q[r] <= Ub[n.v][r],
         NEW x \in PackState, m.st = ToVertex("bw", x, m.v).st,
         NEW u, NEW b, NEW cost, NEW real, Meets(u, b, n, cost, real)
  PROVE  Meets(Append(u, b), n.arc, m, cost, real)
<1> DEFINE a == n.arc
           w == Append(u, b)
           along == AlongArc("fw", StateAfter(u), b)
           at    == ToVertex("fw", along.st, To[b])
           both  == ConcatCost(To[b], along.st, n.st)
           back  == AlongArc("bw", m.st, a)
           here  == ToVertex("bw", back.st, To[b])
           next  == AlongArc("fw", at.st, a)
           later == ConcatCost(To[a], next.st, m.st)
<1>1. /\ u \in PartialWalks /\ b \in ArcsAt("fw", EndOf(u)) /\ n.v = To[b] /\ b \in Arc
      /\ AtLeastAsGood("fw", Advance("fw", EndNode(u).q, b), n.q)
      /\ along.cost < Inf /\ both < Inf
      /\ CostOf(u) + red[b] + along.cost + both + n.cost = cost
      /\ SumOver(BaseCost, u) + BaseCost[b] + n.real = real
  BY DEF Meets, ArcsAt
<1>2. /\ a \in Arc /\ To[a] = m.v /\ From[a] = n.v
      /\ AtLeastAsGood("bw", Advance("bw", m.q, a), n.q)
      /\ back.cost < Inf /\ here.cost < Inf /\ n.st = here.st
      /\ n.cost = m.cost + red[a] + back.cost + here.cost
      /\ n.real = m.real + BaseCost[a]
  BY <1>1 DEF SoundStep, ArcsAt, Behind, Ahead
<1>3. u \in Seq(Arc) /\ "fw" \in Dir /\ "bw" \in Dir /\ m.st \in PackState /\ n.st \in PackState
  BY <1>1, LayersAreWalks DEF Dir, Node
<1>4. /\ StateAfter(u) \in PackState /\ To[b] \in Vertex /\ To[a] \in Vertex
      /\ along \in [st : PackState, cost : Int] /\ both \in Int
  BY <1>1, <1>2, <1>3, MeetsType, ProblemAssumption
<1>5. /\ at.cost < Inf /\ next.cost < Inf /\ later < Inf
      /\ both + back.cost + here.cost = at.cost + next.cost + later
  <2>1. a \in ArcsAt("fw", To[b])
    BY <1>1, <1>2 DEF ArcsAt, Behind
  <2>2. m.st = ToVertex("bw", x, To[a]).st
    BY <1>2
  <2> HIDE DEF a
  <2>3. LET t == ToVertex("bw", x, To[a]).st
            k == AlongArc("bw", t, a)
            h == ToVertex("bw", k.st, To[b])
        IN k.cost < Inf /\ h.cost < Inf /\ ConcatCost(To[b], along.st, h.st) < Inf =>
             /\ at.cost < Inf /\ next.cost < Inf /\ ConcatCost(To[a], next.st, t) < Inf
             /\ ConcatCost(To[b], along.st, h.st) + k.cost + h.cost
                  = at.cost + next.cost + ConcatCost(To[a], next.st, t)
    BY <1>1, <1>4, <2>1 DEF PackJoins, Joins
  <2> QED BY <1>1, <1>2, <2>2, <2>3
<1>6. n.q \in [Res -> Int] /\ m.q \in [Res -> Int] /\ EndNode(u).q \in [Res -> Int]
      /\ m.cost \in Int /\ m.real \in Int
  BY <1>3, EndNodeType DEF Node, Mark
<1>7. InWindow("fw", To[b], n.q)
  BY <1>1 DEF InWindow
<1>8. /\ w \in PartialWalks /\ EndOf(w) = To[b] /\ AtLeastAsGood("fw", EndNode(w).q, n.q)
      /\ StateAfter(w) = at.st /\ along.cost = 0 /\ at.cost = 0
      /\ CostOf(u) \in Int /\ CostOf(w) = CostOf(u) + red[b]
      /\ SumOver(BaseCost, u) \in Int
      /\ SumOver(BaseCost, w) = SumOver(BaseCost, u) + BaseCost[b]
  BY <1>1, <1>5, <1>6, <1>7, WalkContinues DEF Onto
<1>9. AtLeastAsGood("fw", Advance("fw", EndNode(w).q, a), m.q)
  <2>1. w \in Seq(Arc)
    BY <1>8, LayersAreWalks
  <2>2. EndNode(w).q \in [Res -> Int]
    BY <2>1, EndNodeType DEF Mark
  <2> HIDE DEF w, a
  <2> SUFFICES ASSUME NEW r \in Res
               PROVE  Larger(EndNode(w).q[r] + Use[a][r], Lb[To[a]][r]) <= m.q[r]
    BY DEF AtLeastAsGood, Advance
  <2>3. Smaller(m.q[r] - Use[a][r], Ub[From[a]][r]) >= n.q[r]
    BY <1>2 DEF AtLeastAsGood, Advance
  <2>4. EndNode(w).q[r] <= n.q[r] /\ m.q[r] >= Lb[To[a]][r]
    BY <1>2, <1>8 DEF AtLeastAsGood
  <2>5. /\ EndNode(w).q[r] \in Int /\ n.q[r] \in Int /\ m.q[r] \in Int
        /\ Use[a][r] \in Int /\ Lb[To[a]][r] \in Int /\ Ub[From[a]][r] \in Int
    BY <1>2, <1>6, <2>2, TableType
  <2> QED BY <2>3, <2>4, <2>5 DEF Larger, Smaller
<1>10. /\ next = AlongArc("fw", StateAfter(w), a)
       /\ a \in ArcsAt("fw", EndOf(w)) /\ m.v = To[a]
  BY <1>1, <1>2, <1>8 DEF ArcsAt, Behind
<1>11. CostOf(w) + red[a] + next.cost + later + m.cost = cost
  <2>1. back.cost \in Int /\ here.cost \in Int /\ next.cost \in Int /\ later \in Int
    <3>1. back \in [st : PackState, cost : Int]
      BY <1>2, <1>3, PackAssumption
    <3>2. here \in [st : PackState, cost : Int]
      BY <1>3, <1>4, <3>1, PackAssumption
    <3>3. w \in Seq(Arc)
      BY <1>8, LayersAreWalks
    <3>4. next \in [st : PackState, cost : Int] /\ later \in Int
      BY <1>2, <1>3, <1>10, <3>3, MeetsType
    <3> QED BY <3>1, <3>2, <3>4
  <2>2. red[a] \in Int /\ red[b] \in Int
    BY <1>1, <1>2
  <2>3. both + back.cost + here.cost = next.cost + later
    BY <1>5, <1>8, <2>1
  <2>4. CostOf(u) + red[b] + both + n.cost = cost
    BY <1>1, <1>4, <1>8, <2>2
  <2> HIDE DEF back, here, next, later, both, at, along, w, a
  <2>5. CostOf(w) + red[a] + next.cost + later + m.cost
          = CostOf(u) + red[b] + both + (m.cost + red[a] + back.cost + here.cost)
    BY <1>4, <1>6, <1>8, <2>1, <2>2, <2>3
  <2> QED BY <1>2, <2>4, <2>5
<1>12. SumOver(BaseCost, w) + BaseCost[a] + m.real = real
  <2>1. BaseCost[a] \in Int /\ BaseCost[b] \in Int
    BY <1>1, <1>2, ProblemAssumption
  <2> HIDE DEF w, a
  <2> QED BY <1>1, <1>2, <1>6, <1>8, <2>1
<1>13. later = ConcatCost(To[a], AlongArc("fw", StateAfter(w), a).st, m.st)
  BY <1>10
<1> HIDE DEF w, a, later, next
<1>14. Meets(w, a, m, cost, real)
  BY <1>5, <1>8, <1>9, <1>10, <1>11, <1>12, <1>13 DEF Meets
<1> QED BY <1>14 DEF w, a

\* The walk takes the arc to the sink.
LEMMA MeetsEnd ==
  ASSUME PackMeansAllowed, PackJoins, red \in [Arc -> Int],
         NEW n \in Node, <<n>> = InitialLabel("bw"),
         NEW u, NEW b, NEW cost \in Int, NEW real \in Int, Meets(u, b, n, cost, real)
  PROVE  LET w == Append(u, b)
         IN w \in Paths /\ CostOf(w) = cost /\ SumOver(BaseCost, w) = real
<1> DEFINE w == Append(u, b)
           along == AlongArc("fw", StateAfter(u), b)
           at    == ToVertex("fw", along.st, To[b])
           last  == ToVertex("bw", InitState("bw"), Sink)
           both  == ConcatCost(To[b], along.st, n.st)
<1>1. /\ u \in PartialWalks /\ b \in ArcsAt("fw", EndOf(u)) /\ n.v = To[b] /\ b \in Arc
      /\ AtLeastAsGood("fw", Advance("fw", EndNode(u).q, b), n.q)
      /\ along.cost < Inf /\ both < Inf
      /\ CostOf(u) + red[b] + along.cost + both + n.cost = cost
      /\ SumOver(BaseCost, u) + BaseCost[b] + n.real = real
  BY DEF Meets, ArcsAt
<1>2. /\ n.v = Sink /\ n.q = [r \in Res |-> Ub[Sink][r]]
      /\ n.cost = last.cost /\ n.real = 0 /\ n.st = last.st
  BY DEF InitialLabel, Origin
<1>3. u \in Seq(Arc) /\ "fw" \in Dir /\ "bw" \in Dir /\ n.st \in PackState /\ n.q \in [Res -> Int]
      /\ n.cost \in Int
  BY <1>1, LayersAreWalks DEF Dir, Node
<1>4. /\ StateAfter(u) \in PackState /\ To[b] \in Vertex
      /\ along \in [st : PackState, cost : Int] /\ both \in Int
  BY <1>1, <1>3, MeetsType
<1>5. at.cost < Inf /\ both + last.cost = at.cost
  <2>1. ConcatCost(To[b], along.st, last.st) < Inf => /\ at.cost < Inf
                                                      /\ ConcatCost(To[b], along.st, last.st) + last.cost = at.cost
    BY <1>1, <1>2, <1>4 DEF PackJoins, Joins
  <2> QED BY <1>1, <1>2, <2>1
<1>6. InWindow("fw", To[b], n.q)
  <2>1. \A r \in Res : Ub[Sink][r] <= Ub[Sink][r]
    BY TableType, ProblemAssumption
  <2> QED BY <1>1, <1>2, <2>1 DEF InWindow
<1>7. /\ w \in PartialWalks /\ EndOf(w) = To[b] /\ along.cost = 0 /\ at.cost = 0
      /\ CostOf(u) \in Int /\ CostOf(w) = CostOf(u) + red[b]
      /\ SumOver(BaseCost, u) \in Int
      /\ SumOver(BaseCost, w) = SumOver(BaseCost, u) + BaseCost[b]
  BY <1>1, <1>3, <1>5, <1>6, WalkContinues
<1>8. red[b] \in Int /\ BaseCost[b] \in Int
  BY <1>1, ProblemAssumption
<1>9. w \in Paths
  BY <1>1, <1>2, <1>7 DEF Paths
<1> HIDE DEF w, at, along, last, both
<1>10. CostOf(w) = cost
  <2>1. both + n.cost = 0
    BY <1>2, <1>5, <1>7
  <2> QED BY <1>1, <1>3, <1>4, <1>7, <1>8, <2>1
<1>11. SumOver(BaseCost, w) = real
  BY <1>1, <1>2, <1>7, <1>8
<1> QED BY <1>9, <1>10, <1>11 DEF w

\* Two sequences, one after the other.
LEMMA Glued ==
  ASSUME NEW S, NEW h \in Seq(S), NEW t \in Seq(S), NEW w, w = h \o t
  PROVE  /\ w \in Seq(S) /\ Len(w) = Len(h) + Len(t)
         /\ \A k \in 1..Len(h) : w[k] = h[k]
         /\ \A k \in 1..Len(t) : w[Len(h) + k] = t[k]
<1>1. w \in Seq(S) /\ Len(w) = Len(h) + Len(t)
  OBVIOUS
<1>2. \A k \in 1..Len(h) : w[k] = h[k]
  OBVIOUS
<1>3. \A k \in 1..Len(t) : w[Len(h) + k] = t[k]
  OBVIOUS
<1> QED BY <1>1, <1>2, <1>3

\* How a path is put together from two labels.
Joined(f, a, g) == f \o <<a>> \o Backwards(ArcsOf(g))

\* The parts of a joined path: the forward label's arcs, the joint, and the backward label's arcs from its end.
LEMMA PathParts ==
  ASSUME NEW f \in Seq(Arc), NEW a \in Arc, NEW g \in Label, ArcsOf(g) \in Seq(Arc),
         Len(ArcsOf(g)) = Len(g) - 1
  PROVE  LET w == Joined(f, a, g)
         IN /\ w \in Seq(Arc) /\ Len(w) = Len(f) + Len(g)
            /\ Take(w, Len(f)) = f /\ w[Len(f) + 1] = a
            /\ \A i \in 1..Len(g) - 1 : w[Len(f) + i + 1] = g[Len(g) - i + 1].arc
<1> DEFINE F == Len(f)
           G == Len(g)
           s == ArcsOf(g)
           B == Backwards(s)
           h == f \o <<a>>
           W == h \o B
<1>1. F \in Nat /\ G \in Nat \ {0} /\ G - 1 \in Nat /\ Len(s) = G - 1
  <2>1. G \in Nat \ {0}
    BY LabelNodes
  <2> QED BY <2>1
<1>2. \A i \in 1..G - 1 : s[i] = g[i + 1].arc /\ s[i] \in Arc
  <2>1. s = [i \in 1..G - 1 |-> g[i + 1].arc]
    BY DEF ArcsOf
  <2>2. s \in Seq(Arc)
    OBVIOUS
  <2> HIDE DEF s, G
  <2>3. \A i \in 1..Len(s) : s[i] \in Arc
    BY <2>2
  <2> QED BY <1>1, <2>1, <2>3
<1>3. B \in Seq(Arc) /\ Len(B) = G - 1 /\ \A i \in 1..G - 1 : B[i] = g[G - i + 1].arc
  <2>1. B = [i \in 1..G - 1 |-> s[G - i]]
    <3>1. \A i \in 1..G - 1 : (G - 1) + 1 - i = G - i
      BY <1>1
    <3> HIDE DEF s, G
    <3>2. Backwards(s) = [i \in 1..G - 1 |-> s[(G - 1) + 1 - i]]
      BY <1>1 DEF Backwards
    <3> QED BY <3>1, <3>2
  <2> HIDE DEF s, G, B
  <2>2. \A i \in 1..G - 1 : G - i \in 1..G - 1
    BY <1>1
  <2>3. \A i \in 1..G - 1 : B[i] = g[G - i + 1].arc /\ B[i] \in Arc
    BY <1>2, <2>1, <2>2
  <2>4. B \in [1..G - 1 -> Arc]
    BY <2>1, <2>3
  <2> QED BY <1>1, <2>3, <2>4
<1> HIDE DEF F, G, s, B
<1>4. /\ h \in Seq(Arc) /\ Len(h) = F + 1 /\ h[F + 1] = a /\ \A k \in 1..F : h[k] = f[k]
  BY DEF F
<1> HIDE DEF h
<1>5. /\ W \in Seq(Arc) /\ Len(W) = F + G
      /\ \A k \in 1..F + 1 : W[k] = h[k]
      /\ \A i \in 1..G - 1 : W[F + 1 + i] = B[i]
  <2>1. /\ W \in Seq(Arc) /\ Len(W) = Len(h) + Len(B)
        /\ \A k \in 1..Len(h) : W[k] = h[k]
        /\ \A k \in 1..Len(B) : W[Len(h) + k] = B[k]
    <3>1. W = h \o B
      OBVIOUS
    <3>2. h \in Seq(Arc) /\ B \in Seq(Arc)
      BY <1>3, <1>4
    <3> HIDE DEF W
    <3> QED BY <3>1, <3>2, Glued
  <2> HIDE DEF W
  <2> QED BY <1>1, <1>3, <1>4, <2>1
<1> HIDE DEF W
<1>6. Take(W, F) = f
  <2>0. \A k \in 1..F : k \in 1..F + 1
    BY <1>1
  <2>1. \A k \in 1..F : W[k] = f[k]
    BY <1>4, <1>5, <2>0
  <2>2. f = [k \in 1..F |-> f[k]]
    BY DEF F
  <2> QED BY <2>1, <2>2 DEF Take
<1>7. W[F + 1] = a
  BY <1>1, <1>4, <1>5
<1>8. \A i \in 1..G - 1 : W[F + i + 1] = g[G - i + 1].arc
  <2>1. \A i \in 1..G - 1 : F + i + 1 = F + 1 + i
    BY <1>1
  <2> QED BY <1>3, <1>5, <2>1
<1>9. Joined(f, a, g) = W
  BY DEF Joined, W, h, B, s
<1> QED BY <1>5, <1>6, <1>7, <1>8, <1>9 DEF F, G

\* What a forward and a backward label make is a path.
LEMMA JoinIsPath ==
  ASSUME PackMeansAllowed, PackJoins, red \in [Arc -> Int], NEW c \in Candidate,
         SoundCandidate(c), c.bw # <<>>
  PROVE  LET W == PathOf(c)
         IN W \in Paths /\ CostOf(W) = c.cost /\ SumOver(BaseCost, W) = c.real
<1> DEFINE f == ArcsOf(c.fw)
           F == Len(f)
           g == c.bw
           G == Len(g)
           a == c.arc
           W == PathOf(c)
           N == {i \in Nat : i <= G - 1 =>
                   Meets(Take(W, F + i), W[F + i + 1], g[G - i], c.cost, c.real)}
<1>1. /\ c.fw \in Label /\ g \in Label /\ SoundLabel("fw", c.fw) /\ SoundLabel("bw", g)
      /\ c.cost \in Int /\ c.real \in Int
      /\ a \in ArcsAt("fw", This(c.fw).v) /\ a \in Arc /\ This(g).v = To[a]
      /\ AtLeastAsGood("fw", Advance("fw", This(c.fw).q, a), This(g).q)
      /\ AlongArc("fw", This(c.fw).st, a).cost < Inf
      /\ ConcatCost(To[a], AlongArc("fw", This(c.fw).st, a).st, This(g).st) < Inf
      /\ c = Join(c.fw, a, g)
  <2>1. c.fw \in Label /\ c.bw \in Label \cup {<<>>} /\ c.cost \in Int /\ c.real \in Int
    BY DEF Candidate
  <2>2. /\ SoundLabel("fw", c.fw) /\ SoundLabel("bw", c.bw)
        /\ c.arc \in ArcsAt("fw", This(c.fw).v) /\ This(c.bw).v = To[c.arc]
        /\ AtLeastAsGood("fw", Advance("fw", This(c.fw).q, c.arc), This(c.bw).q)
        /\ AlongArc("fw", This(c.fw).st, c.arc).cost < Inf
        /\ ConcatCost(To[c.arc], AlongArc("fw", This(c.fw).st, c.arc).st, This(c.bw).st) < Inf
        /\ c = Join(c.fw, c.arc, c.bw)
    BY DEF SoundCandidate
  <2>3. c.arc \in Arc
    BY <2>2 DEF ArcsAt
  <2> QED BY <2>1, <2>2, <2>3
<1>2. Follows(f, This(c.fw)) /\ f \in Seq(Arc) /\ F \in Nat
  BY <1>1, LabelIsWalk
<1>3. /\ G \in Nat \ {0} /\ \A i \in 1..G : g[i] \in Node
      /\ \A i \in 1..G - 1 : SoundStep("bw", g[i], g[i + 1])
      /\ <<g[1]>> = InitialLabel("bw") /\ "bw" \in Dir /\ "fw" \in Dir
  BY <1>1, LabelNodes DEF SoundLabel, Dir
<1>4. ArcsOf(g) \in Seq(Arc) /\ Len(ArcsOf(g)) = Len(g) - 1
  <2>1. \A i \in 1..G - 1 : g[i + 1].arc \in Arc
    BY <1>3 DEF SoundStep, ArcsAt
  <2>2. ArcsOf(g) = [i \in 1..G - 1 |-> g[i + 1].arc] /\ G - 1 \in Nat
    BY <1>3 DEF ArcsOf
  <2> HIDE DEF G, g
  <2>3. ArcsOf(g) \in [1..G - 1 -> Arc]
    BY <2>1, <2>2
  <2>4. ArcsOf(g) \in Seq(Arc) /\ Len(ArcsOf(g)) = G - 1
    BY <2>2, <2>3
  <2> QED BY <2>4 DEF G, g
<1>5. G - 1 \in Nat /\ F + (G - 1) \in Nat
  <2>1. F \in Nat /\ G \in Nat \ {0}
    BY <1>2, <1>3
  <2> HIDE DEF F, G
  <2> QED BY <2>1
<1>6. /\ W \in Seq(Arc) /\ Len(W) = F + G /\ Take(W, F) = f /\ W[F + 1] = a
      /\ \A i \in 1..G - 1 : W[F + i + 1] = g[G - i + 1].arc
  <2>1. W = Joined(f, a, g)
    BY DEF PathOf, Joined
  <2>2. /\ f \in Seq(Arc) /\ a \in Arc /\ g \in Label
        /\ ArcsOf(g) \in Seq(Arc) /\ Len(ArcsOf(g)) = Len(g) - 1
    BY <1>1, <1>2, <1>4
  <2> HIDE DEF W, g, a, f, F, G, N
  <2>3. /\ W \in Seq(Arc) /\ Len(W) = Len(f) + Len(g) /\ Take(W, Len(f)) = f
        /\ W[Len(f) + 1] = a
        /\ \A i \in 1..Len(g) - 1 : W[Len(f) + i + 1] = g[Len(g) - i + 1].arc
    BY <2>1, <2>2, PathParts
  <2> QED BY <2>3 DEF G, F
<1>7. \A n \in Nat : n < F + G => Append(Take(W, n), W[n + 1]) = Take(W, n + 1)
  BY <1>6, TakeNext
<1>8. Meets(f, a, This(g), c.cost, c.real)
  <2>1. /\ f \in PartialWalks /\ EndOf(f) = This(c.fw).v /\ StateAfter(f) = This(c.fw).st
        /\ CostOf(f) = This(c.fw).cost /\ SumOver(BaseCost, f) = This(c.fw).real
        /\ AtLeastAsGood("fw", EndNode(f).q, This(c.fw).q)
    BY <1>2 DEF Follows
  <2>2. /\ EndNode(f).q \in [Res -> Int] /\ This(c.fw).q \in [Res -> Int]
        /\ This(g).q \in [Res -> Int] /\ This(g).cost \in Int /\ This(g).real \in Int
        /\ This(g).st \in PackState
    BY <1>1, <1>2, EndNodeType, LabelNodes DEF Mark, Node
  <2>3. AtLeastAsGood("fw", Advance("fw", EndNode(f).q, a), This(g).q)
    <3>1. AtLeastAsGood("fw", Advance("fw", EndNode(f).q, a), Advance("fw", This(c.fw).q, a))
      BY <1>1, <1>3, <2>1, <2>2, AdvanceMonotone
    <3>2. /\ Advance("fw", EndNode(f).q, a) \in [Res -> Int]
          /\ Advance("fw", This(c.fw).q, a) \in [Res -> Int]
      BY <1>1, <1>3, <2>2, AdvanceType
    <3> QED BY <1>1, <2>2, <3>1, <3>2 DEF AtLeastAsGood
  <2> DEFINE along == AlongArc("fw", StateAfter(f), a)
             both == ConcatCost(To[a], along.st, This(g).st)
  <2>4. /\ c.cost = CostOf(f) + red[a] + This(g).cost + along.cost + both
        /\ c.real = SumOver(BaseCost, f) + BaseCost[a] + This(g).real
    BY <1>1, <2>1 DEF Join
  <2>5. /\ CostOf(f) \in Int /\ SumOver(BaseCost, f) \in Int /\ red[a] \in Int /\ BaseCost[a] \in Int
        /\ along.cost \in Int /\ both \in Int
    <3>1. along \in [st : PackState, cost : Int] /\ both \in Int
      BY <1>1, <1>2, <2>2, MeetsType
    <3>2. CostOf(f) \in Int /\ SumOver(BaseCost, f) \in Int
      BY <1>2, SumType, ProblemAssumption DEF CostOf
    <3> QED BY <1>1, <3>1, <3>2, ProblemAssumption
  <2>6. along.cost < Inf /\ both < Inf /\ a \in ArcsAt("fw", EndOf(f))
    <3> HIDE DEF a
    <3> QED BY <1>1, <2>1
  <2>7. /\ CostOf(f) + red[a] + along.cost + both + This(g).cost = c.cost
        /\ SumOver(BaseCost, f) + BaseCost[a] + This(g).real = c.real
    <3> HIDE DEF along, both, f, g, a
    <3> QED BY <2>2, <2>4, <2>5
  <2> HIDE DEF f, g, a
  <2> QED BY <1>1, <2>1, <2>3, <2>6, <2>7 DEF Meets
<1>9. 0 \in N
  <2>1. F + 0 = F /\ G - 0 = G /\ g[G] = This(g)
    BY <1>2, <1>3 DEF This
  <2> HIDE DEF W, f, F, g, G
  <2> QED BY <1>6, <1>8, <2>1
<1>10. ASSUME NEW i \in N PROVE i + 1 \in N
  <2> SUFFICES ASSUME i + 1 <= G - 1
               PROVE  Meets(Take(W, F + (i + 1)), W[F + (i + 1) + 1], g[G - (i + 1)], c.cost, c.real)
    OBVIOUS
  <2> DEFINE m == g[G - (i + 1)]
             n == g[G - i]
  <2>1. /\ i \in Nat /\ i <= G - 1 /\ i + 1 \in 1..G - 1 /\ G - (i + 1) \in 1..G - 1
        /\ G - (i + 1) \in 1..G /\ G - i \in 1..G /\ (G - (i + 1)) + 1 = G - i
        /\ F + i \in Nat /\ F + i < F + G /\ (F + i) + 1 = F + (i + 1)
        /\ G - (i + 1) + 1 = G - i
    <3>1. F \in Nat /\ G \in Nat \ {0} /\ i \in Nat
      BY <1>2, <1>3, <1>10
    <3> HIDE DEF F, G, N
    <3> QED BY <3>1
  <2>2. Meets(Take(W, F + i), W[F + i + 1], n, c.cost, c.real)
    BY <1>10, <2>1
  <2>3. m \in Node /\ n \in Node /\ SoundStep("bw", m, n)
    BY <1>3, <2>1
  <2>4. /\ InWindow("bw", m.v, m.q) /\ \A r \in Res : n.q[r] <= Ub[n.v][r]
        /\ \E x \in PackState : m.st = ToVertex("bw", x, m.v).st
    <3>1. "bw" # "fw"
      OBVIOUS
    <3> HIDE DEF W, F, g
    <3> QED BY <1>1, <1>3, <2>1, <3>1, NodeOfSoundLabel DEF G
  <2>5. \A r \in Res : m.q[r] >= Lb[m.v][r] /\ n.q[r] <= Ub[n.v][r]
    BY <2>4 DEF InWindow
  <2>6. PICK x \in PackState : m.st = ToVertex("bw", x, m.v).st
    BY <2>4
  <2>7. Append(Take(W, F + i), W[F + i + 1]) = Take(W, F + (i + 1))
    BY <1>7, <2>1
  <2>8. W[F + (i + 1) + 1] = n.arc
    <3>1. W[F + (i + 1) + 1] = g[G - (i + 1) + 1].arc
      BY <1>6, <2>1
    <3> QED BY <2>1, <3>1
  <2> HIDE DEF W, F, m, n
  <2>9. Meets(Append(Take(W, F + i), W[F + i + 1]), n.arc, m, c.cost, c.real)
    BY <2>2, <2>3, <2>5, <2>6, MeetsStep
  <2> QED BY <2>7, <2>8, <2>9 DEF m
<1>11. N = Nat
  <2> HIDE DEF N
  <2>1. N \in SUBSET Nat
    BY DEF N
  <2> QED BY <1>9, <1>10, <2>1, InductOnNat
<1>12. Meets(Take(W, F + (G - 1)), W[F + (G - 1) + 1], g[G - (G - 1)], c.cost, c.real)
  <2>1. G - 1 \in N
    BY <1>5, <1>11
  <2>2. G - 1 <= G - 1
    BY <1>5
  <2> HIDE DEF W, F, G, g
  <2> QED BY <2>1, <2>2
<1>13. G - (G - 1) = 1 /\ F + (G - 1) + 1 = F + G /\ F + (G - 1) < F + G /\ 1 \in 1..G
  <2>1. F \in Nat /\ G \in Nat \ {0}
    BY <1>2, <1>3
  <2> HIDE DEF F, G
  <2> QED BY <2>1
<1>14. Append(Take(W, F + (G - 1)), W[F + (G - 1) + 1]) = W
  BY <1>5, <1>6, <1>7, <1>13, TakeNext
<1> HIDE DEF W, F, G, g
<1>15. LET w == Append(Take(W, F + (G - 1)), W[F + (G - 1) + 1])
       IN w \in Paths /\ CostOf(w) = c.cost /\ SumOver(BaseCost, w) = c.real
  <2>1. g[1] \in Node /\ Meets(Take(W, F + (G - 1)), W[F + (G - 1) + 1], g[1], c.cost, c.real)
    BY <1>3, <1>12, <1>13
  <2> QED BY <1>1, <1>3, <2>1, MeetsEnd
<1> QED BY <1>14, <1>15 DEF W

\* Whatever is returned is a feasible path, found in either direction or put
\* together from both, whichever stage, mode, caps or filters produced it; its
\* costs are the sums over its arcs.
THEOREM OnlyPathsAreReturned ==
  ASSUME PackMeansAllowed, PackJoins
  PROVE  Spec => []ResultsAreFeasiblePaths
<1>1. Inductive => ResultsAreFeasiblePaths
  <2> SUFFICES ASSUME Inductive, NEW c \in result
               PROVE  LET w == PathOf(c)
                      IN /\ w \in Paths
                         /\ c.cost = CostOf(w) /\ c.cost < opt.theta
                         /\ c.real = SumOver(BaseCost, w)
    BY DEF ResultsAreFeasiblePaths
  <2>1. red \in [Arc -> Int] /\ c \in Candidate /\ SoundCandidate(c)
    BY DEF Inductive, TypeOK, GraphType, ResultsAreSound
  <2>2. c.cost < opt.theta
    BY <2>1 DEF SoundCandidate
  <2>3. CASE c.bw = <<>>
    <3>1. /\ c.fw \in Label /\ SoundLabel("fw", c.fw) /\ This(c.fw).v = Sink
          /\ c.cost = This(c.fw).cost /\ c.real = This(c.fw).real
      BY <2>1, <2>3 DEF SoundCandidate, Candidate
    <3>2. Follows(ArcsOf(c.fw), This(c.fw))
      BY <2>1, <3>1, LabelIsWalk
    <3>3. PathOf(c) = ArcsOf(c.fw)
      BY <2>3 DEF PathOf
    <3> QED BY <2>2, <3>1, <3>2, <3>3 DEF Follows, Paths
  <2>4. CASE c.bw # <<>>
    BY <2>1, <2>2, <2>4, JoinIsPath
  <2> QED BY <2>3, <2>4
<1> QED BY <1>1, SolveInvariant, PTL

-----------------------------------------------------------------------------
\* The packs of which the hypotheses are true: first, that a pack inherits the
\* laws of what it is.
PackIsNg ==
  PackIs(NgState, NgInit, NgAlongArc, NgToVertex, NgDomCost, NgConcatCost, NgRoute)
PackIsNone ==
  PackIs(NoState, NoInit, NoAlongArc, NoToVertex, NoDomCost, NoConcatCost, AnyRoute)

\* The code gives up at once when the origin is forbidden, so that a cost of 0 is
\* less than Inf.
LEMMA NothingIsCheap ==
  ASSUME \A s \in PackState : ToVertex("fw", s, Source).cost \in {0, Inf}
  PROVE  0 < Inf
<1>1. /\ "fw" \in Dir /\ InitState("fw") \in PackState
      /\ ToVertex("fw", InitState("fw"), Origin("fw")).cost < Inf
  BY PackAssumption DEF Dir
<1>2. Origin("fw") = Source /\ Inf \in Nat
  BY ProblemAssumption DEF Origin
<1> QED BY <1>1, <1>2

\* The vertices that the last one of a walk still remembers.
Remembered(w) ==
  {x \in Vertex : \E i \in 1..Len(w) + 1 :
     /\ Visited(w)[i] = x
     /\ \A k \in i + 1..Len(w) + 1 : x \in Neighbors[Visited(w)[k]]}

\* A walk visits one vertex more than it has arcs.
LEMMA VisitedDomain ==
  ASSUME NEW w \in Seq(Arc)
  PROVE  DOMAIN Visited(w) = 1..Len(w) + 1
BY DEF Visited

\* One arc more: what is remembered, and when that is an ng-route.
LEMMA RememberedAppend ==
  ASSUME NEW w \in Seq(Arc), NEW a \in Arc
  PROVE  Remembered(Append(w, a)) = (Remembered(w) \cap Neighbors[To[a]]) \cup {To[a]}
<1> DEFINE u == Append(w, a)
           n == Len(w) + 1
           V == Visited(w)
           U == Visited(u)
<1>1. /\ n \in Nat \ {0} /\ Len(u) + 1 = n + 1 /\ U[n + 1] = To[a] /\ To[a] \in Vertex
      /\ \A i \in 1..n : U[i] = V[i] /\ V[i] \in Vertex
  <2>1. /\ Len(u) = Len(w) + 1 /\ Len(w) \in Nat /\ U[Len(w) + 2] = To[a]
        /\ \A i \in 1..Len(w) + 1 : V[i] \in Vertex /\ U[i] = V[i]
    BY VisitedAppend
  <2>2. Len(w) + 2 = n + 1 /\ To[a] \in Vertex
    BY <2>1, ProblemAssumption
  <2> HIDE DEF u, U, V
  <2> QED BY <2>1, <2>2
<1>2. Remembered(w) = {x \in Vertex : \E i \in 1..n : V[i] = x /\ \A k \in i + 1..n : x \in Neighbors[V[k]]}
  BY DEF Remembered
<1>3. Remembered(u) = {x \in Vertex : \E i \in 1..n + 1 :
                         U[i] = x /\ \A k \in i + 1..n + 1 : x \in Neighbors[U[k]]}
  <2> HIDE DEF u, U, n
  <2> QED BY <1>1 DEF Remembered, U
<1> HIDE DEF u, n, U, V
<1>4. ASSUME NEW x \in Remembered(u) PROVE x \in (Remembered(w) \cap Neighbors[To[a]]) \cup {To[a]}
  <2>1. PICK i \in 1..n + 1 : x \in Vertex /\ U[i] = x /\ \A k \in i + 1..n + 1 : x \in Neighbors[U[k]]
    BY <1>3
  <2>2. CASE i = n + 1
    BY <1>1, <2>1, <2>2
  <2>3. CASE i # n + 1
    <3>1. i \in 1..n /\ n + 1 \in i + 1..n + 1 /\ \A k \in i + 1..n : k \in i + 1..n + 1 /\ k \in 1..n
      BY <1>1, <2>3
    <3> QED BY <1>1, <1>2, <2>1, <3>1
  <2> QED BY <2>2, <2>3
<1>5. ASSUME NEW x \in Remembered(w), x \in Neighbors[To[a]] PROVE x \in Remembered(u)
  <2>1. PICK i \in 1..n : x \in Vertex /\ V[i] = x /\ \A k \in i + 1..n : x \in Neighbors[V[k]]
    BY <1>2
  <2>2. i \in 1..n + 1 /\ \A k \in i + 1..n + 1 : k = n + 1 \/ (k \in i + 1..n /\ k \in 1..n)
    BY <1>1
  <2> QED BY <1>1, <1>3, <1>5, <2>1, <2>2
<1>6. To[a] \in Remembered(u)
  <2>1. n + 1 \in 1..n + 1 /\ \A k \in (n + 1) + 1..n + 1 : FALSE
    BY <1>1
  <2> QED BY <1>1, <1>3, <2>1
<1> QED BY <1>4, <1>5, <1>6 DEF u

\* A walk with one arc more is an ng-route if the rest is one and the new vertex is not remembered.
LEMMA RouteAppend ==
  ASSUME NEW w \in Seq(Arc), NEW a \in Arc
  PROVE  NgRoute(Visited(Append(w, a))) <=> NgRoute(Visited(w)) /\ To[a] \notin Remembered(w)
<1> DEFINE u == Append(w, a)
           n == Len(w) + 1
           V == Visited(w)
           U == Visited(u)
<1>1. /\ n \in Nat \ {0} /\ Len(u) + 1 = n + 1 /\ U[n + 1] = To[a] /\ To[a] \in Vertex
      /\ \A i \in 1..n : U[i] = V[i] /\ V[i] \in Vertex
  <2>1. /\ Len(u) = Len(w) + 1 /\ Len(w) \in Nat /\ U[Len(w) + 2] = To[a]
        /\ \A i \in 1..Len(w) + 1 : V[i] \in Vertex /\ U[i] = V[i]
    BY VisitedAppend
  <2>2. Len(w) + 2 = n + 1 /\ To[a] \in Vertex
    BY <2>1, ProblemAssumption
  <2> HIDE DEF u, U, V
  <2> QED BY <2>1, <2>2
<1>2. Remembered(w) = {x \in Vertex : \E i \in 1..n : V[i] = x /\ \A k \in i + 1..n : x \in Neighbors[V[k]]}
  BY DEF Remembered
<1>3. DOMAIN V = 1..n /\ DOMAIN U = 1..n + 1
  <2>1. DOMAIN U = 1..Len(u) + 1
    BY VisitedAppend, VisitedDomain
  <2>2. DOMAIN V = 1..n
    BY VisitedDomain
  <2> HIDE DEF u, U, n, V
  <2> QED BY <1>1, <2>1, <2>2
<1> HIDE DEF u, n, U, V
<1>4. NgRoute(V) <=> \A i, j \in 1..n : i < j /\ V[i] = V[j] => \E k \in i + 1..j - 1 : V[i] \notin Neighbors[V[k]]
  BY <1>3 DEF NgRoute
<1>5. NgRoute(U) <=> \A i, j \in 1..n + 1 : i < j /\ U[i] = U[j] => \E k \in i + 1..j - 1 : U[i] \notin Neighbors[U[k]]
  BY <1>3 DEF NgRoute
<1>6. ASSUME NgRoute(U) PROVE NgRoute(V)
  <2> SUFFICES ASSUME NEW i \in 1..n, NEW j \in 1..n, i < j, V[i] = V[j]
               PROVE  \E k \in i + 1..j - 1 : V[i] \notin Neighbors[V[k]]
    BY <1>4
  <2>1. i \in 1..n + 1 /\ j \in 1..n + 1 /\ U[i] = U[j] /\ \A k \in i + 1..j - 1 : k \in 1..n
    BY <1>1
  <2>2. PICK k \in i + 1..j - 1 : U[i] \notin Neighbors[U[k]]
    BY <1>5, <1>6, <2>1
  <2> QED BY <1>1, <2>1, <2>2
<1>7. ASSUME NgRoute(U) PROVE To[a] \notin Remembered(w)
  <2> SUFFICES ASSUME NEW i \in 1..n, V[i] = To[a], \A k \in i + 1..n : To[a] \in Neighbors[V[k]]
               PROVE  FALSE
    BY <1>2
  <2>1. i \in 1..n + 1 /\ n + 1 \in 1..n + 1 /\ i < n + 1 /\ U[i] = U[n + 1] /\ U[i] = To[a]
        /\ (n + 1) - 1 = n /\ \A k \in i + 1..n : k \in 1..n
    BY <1>1
  <2>2. PICK k \in i + 1..n : U[i] \notin Neighbors[U[k]]
    BY <1>5, <1>7, <2>1
  <2> QED BY <1>1, <2>1, <2>2
<1>8. ASSUME NgRoute(V), To[a] \notin Remembered(w) PROVE NgRoute(U)
  <2> SUFFICES ASSUME NEW i \in 1..n + 1, NEW j \in 1..n + 1, i < j, U[i] = U[j]
               PROVE  \E k \in i + 1..j - 1 : U[i] \notin Neighbors[U[k]]
    BY <1>5
  <2>1. i \in 1..n
    BY <1>1
  <2>2. CASE j = n + 1
    <3>1. V[i] = To[a] /\ j - 1 = n
      BY <1>1, <2>1, <2>2
    <3>2. PICK k \in i + 1..n : To[a] \notin Neighbors[V[k]]
      BY <1>1, <1>2, <1>8, <2>1, <3>1
    <3>3. k \in 1..n
      BY <1>1, <2>1
    <3> QED BY <1>1, <2>1, <3>1, <3>2, <3>3
  <2>3. CASE j # n + 1
    <3>1. j \in 1..n /\ V[i] = V[j] /\ \A k \in i + 1..j - 1 : k \in 1..n
      BY <1>1, <2>1, <2>3
    <3>2. PICK k \in i + 1..j - 1 : V[i] \notin Neighbors[V[k]]
      BY <1>4, <1>8, <2>1, <3>1
    <3> QED BY <1>1, <2>1, <3>1, <3>2
  <2> QED BY <2>2, <2>3
<1> QED BY <1>6, <1>7, <1>8 DEF U, V, u

\* A label of the ng-path resource holds what its walk remembers.
LEMMA NgMeansAllowed ==
  ASSUME PackIsNg
  PROVE  PackMeansAllowed
<1>1. /\ PackState = NgState /\ "fw" \in Dir /\ InitState("fw") = {} /\ Source \in Vertex
      /\ \A a \in Arc : To[a] \in Vertex
  BY ProblemAssumption DEF PackIsNg, PackIs, Dir, NgInit
<1>2. \A t \in NgState :
        /\ \A a \in Arc : AlongArc("fw", t, a) = NgAlongArc("fw", t, a)
        /\ \A v \in Vertex : ToVertex("fw", t, v) = NgToVertex("fw", t, v)
  BY <1>1 DEF PackIsNg, PackIs
<1>3. \A t \in NgState : \A v \in Vertex : ToVertex("fw", t, v) = [st |-> t \cup {v}, cost |-> 0]
  BY <1>2 DEF NgToVertex
<1>4. 0 < Inf /\ Inf \in Nat
  <2>1. \A t \in PackState : ToVertex("fw", t, Source).cost = 0
    BY <1>1, <1>3
  <2> QED BY <2>1, NothingIsCheap, ProblemAssumption
<1>5. \A w \in PartialWalks :
        /\ PackAllows(Visited(w)) <=> NgRoute(Visited(w))
        /\ \A a \in ArcsAt("fw", EndOf(w)) :
             PackAllows(Visited(Append(w, a))) <=> NgRoute(Visited(Append(w, a)))
  BY DEF PackIsNg, PackIs
<1>6. /\ <<>> \in PartialWalks /\ PackAllows(Visited(<<>>))
      /\ StateAfter(<<>>) = Remembered(<<>>) /\ NgRoute(Visited(<<>>))
  <2>1. <<>> \in Seq(Arc) /\ Len(<<>>) = 0 /\ 0 \in 0..MaxWalk
    BY LayersAreWalks
  <2>2. <<>> \in PartialWalks
    BY <2>1, LayersAreWalks, UptoDef
  <2>3. Visited(<<>>)[1] = Source /\ DOMAIN Visited(<<>>) = 1..1
    BY <2>1, VisitedDomain DEF Visited
  <2>4. NgRoute(Visited(<<>>))
    BY <2>3 DEF NgRoute
  <2>5. StateAfter(<<>>) = {Source}
    <3>1. StateAfter(<<>>) = ToVertex("fw", {}, Source).st
      BY <1>1, <2>1, StateType DEF StateAtStart
    <3>2. {} \in NgState
      BY DEF NgState
    <3> QED BY <1>1, <1>3, <3>1, <3>2
  <2>6. Remembered(<<>>) = {Source}
    <3>1. Remembered(<<>>) = {x \in Vertex : \E i \in 1..1 :
                                /\ Visited(<<>>)[i] = x
                                /\ \A k \in i + 1..1 : x \in Neighbors[Visited(<<>>)[k]]}
      BY <2>1 DEF Remembered
    <3>2. \A i \in 1..1 : i = 1 /\ \A k \in i + 1..1 : FALSE
      OBVIOUS
    <3> QED BY <1>1, <2>3, <3>1, <3>2
  <2> QED BY <1>5, <2>2, <2>4, <2>5, <2>6
<1>7. ASSUME NEW w \in PartialWalks, StateAfter(w) = Remembered(w), NgRoute(Visited(w)),
             NEW a \in ArcsAt("fw", EndOf(w))
      PROVE  LET along == AlongArc("fw", StateAfter(w), a)
             IN /\ PackAllows(Visited(Append(w, a))) <=> along.cost < Inf
                /\ along.cost < Inf =>
                     /\ along.cost = 0 /\ along.st = StateAfter(w) \cap Neighbors[To[a]]
                /\ along.st \in NgState
  <2>1. /\ w \in Seq(Arc) /\ a \in Arc /\ From[a] = EndOf(w) /\ To[a] # From[a]
        /\ StateAfter(w) \in NgState
    BY <1>1, LayersAreWalks, StateType, ProblemAssumption DEF ArcsAt, Behind
  <2>2. PackAllows(Visited(Append(w, a))) <=> To[a] \notin StateAfter(w)
    BY <1>5, <1>7, <2>1, RouteAppend
  <2>3. To[a] \in StateAfter(w) => To[a] \in Neighbors[From[a]]
    <3> SUFFICES ASSUME To[a] \in Remembered(w) PROVE To[a] \in Neighbors[From[a]]
      BY <1>7
    <3>1. PICK i \in 1..Len(w) + 1 :
            /\ Visited(w)[i] = To[a]
            /\ \A k \in i + 1..Len(w) + 1 : To[a] \in Neighbors[Visited(w)[k]]
      BY DEF Remembered
    <3>2. i # Len(w) + 1 /\ Visited(w)[Len(w) + 1] = From[a]
      BY <2>1, <3>1 DEF EndOf
    <3>3. Len(w) + 1 \in i + 1..Len(w) + 1
      BY <2>1, <3>2
    <3> QED BY <3>1, <3>2, <3>3
  <2>4. AlongArc("fw", StateAfter(w), a)
          = IF To[a] \in StateAfter(w) THEN [st |-> {}, cost |-> Inf]
            ELSE [st |-> StateAfter(w) \cap Neighbors[To[a]], cost |-> 0]
    BY <1>2, <2>1, <2>3 DEF NgAlongArc, Ahead, Behind
  <2>5. {} \in NgState /\ StateAfter(w) \cap Neighbors[To[a]] \in NgState
    BY <2>1 DEF NgState
  <2> QED BY <1>4, <2>2, <2>4, <2>5
<1>8. \A w \in PartialWalks : StateAfter(w) = Remembered(w) /\ NgRoute(Visited(w))
  <2> DEFINE P == {u \in PartialWalks : StateAfter(u) = Remembered(u) /\ NgRoute(Visited(u))}
  <2>1. <<>> \in P
    BY <1>6
  <2>2. ASSUME NEW u \in PartialWalks \cap P, NEW a \in Arc, From[a] = EndOf(u),
               Feasible(Append(u, a)), Append(u, a) \in PartialWalks
        PROVE  Append(u, a) \in P
    <3>1. /\ u \in PartialWalks /\ u \in Seq(Arc) /\ a \in ArcsAt("fw", EndOf(u))
          /\ StateAfter(u) = Remembered(u) /\ NgRoute(Visited(u))
          /\ PackAllows(Visited(Append(u, a)))
      BY <2>2, LayersAreWalks DEF Feasible, ArcsAt, Behind
    <3>2. NgRoute(Visited(Append(u, a)))
      BY <1>5, <3>1
    <3>3. AlongArc("fw", StateAfter(u), a).st = StateAfter(u) \cap Neighbors[To[a]]
          /\ AlongArc("fw", StateAfter(u), a).st \in NgState
      BY <1>7, <3>1
    <3>4. StateAfter(Append(u, a)) = (StateAfter(u) \cap Neighbors[To[a]]) \cup {To[a]}
      BY <1>1, <1>3, <3>1, <3>3, StateAppend DEF Onto
    <3>5. Remembered(Append(u, a)) = (Remembered(u) \cap Neighbors[To[a]]) \cup {To[a]}
      BY <3>1, RememberedAppend
    <3> QED BY <2>2, <3>1, <3>2, <3>4, <3>5
  <2> HIDE DEF P
  <2>3. PartialWalks \subseteq P
    BY <2>1, <2>2, WalkInduction
  <2> QED BY <2>3 DEF P
<1>9. ToVertex("fw", InitState("fw"), Source).cost = 0
  <2>1. {} \in NgState
    BY DEF NgState
  <2> QED BY <1>1, <1>3, <2>1
<1>10. ASSUME NEW w \in PartialWalks, NEW a \in ArcsAt("fw", EndOf(w))
       PROVE  LET along == AlongArc("fw", StateAfter(w), a)
                  at == ToVertex("fw", along.st, To[a])
                  may == along.cost < Inf /\ at.cost < Inf
              IN /\ PackAllows(Visited(Append(w, a))) <=> may
                 /\ may => along.cost = 0 /\ at.cost = 0
  <2>1. a \in Arc /\ To[a] \in Vertex
    BY <1>1 DEF ArcsAt
  <2>2. ToVertex("fw", AlongArc("fw", StateAfter(w), a).st, To[a]).cost = 0
    BY <1>3, <1>7, <1>8, <2>1
  <2> QED BY <1>4, <1>7, <1>8, <2>2
<1> QED BY <1>6, <1>9, <1>10 DEF PackMeansAllowed

\* The ng-path resource satisfies every hypothesis on packs.
LEMMA NgIsLawful ==
  ASSUME PackIsNg
  PROVE  PackLawful /\ PackJoins
<1>1. PackState = NgState /\ PackIs(NgState, NgInit, NgAlongArc, NgToVertex, NgDomCost, NgConcatCost, NgRoute)
  BY DEF PackIsNg, PackIs
<1>2. \A d \in Dir :
        /\ InitState(d) = NgInit(d)
        /\ \A t \in NgState :
             /\ \A a \in Arc : AlongArc(d, t, a) = NgAlongArc(d, t, a)
             /\ \A v \in Vertex : /\ ToVertex(d, t, v) = NgToVertex(d, t, v)
                                  /\ \A u \in NgState : DomCost(d, v, t, u) = NgDomCost(d, v, t, u)
  BY <1>1 DEF PackIs
<1>3. \A v \in Vertex : \A t, u \in NgState : ConcatCost(v, t, u) = NgConcatCost(v, t, u)
  BY <1>1 DEF PackIs
<1>4. 0 < Inf
  <2>1. \A t \in NgState : ToVertex("fw", t, Source).cost = 0
    BY <1>2, ProblemAssumption DEF Dir, NgToVertex
  <2> QED BY <1>1, <2>1, NothingIsCheap
<1>5. Closed(PackState, InitState, AlongArc, ToVertex, DomCost)
  <2> SUFFICES ASSUME NEW d \in Dir
               PROVE  /\ InitState(d) \in NgState
                      /\ \A t \in NgState :
                           /\ \A a \in Arc : AlongArc(d, t, a).st \in NgState /\ AlongArc(d, t, a).cost \in Int
                           /\ \A v \in Vertex :
                                /\ ToVertex(d, t, v).st \in NgState /\ ToVertex(d, t, v).cost \in Int
                                /\ \A u \in NgState : DomCost(d, v, t, u) \in Int
    BY <1>1 DEF Closed
  <2>1. /\ NgInit(d) \in NgState
        /\ \A t \in NgState :
             /\ \A a \in Arc : NgAlongArc(d, t, a).st \in NgState /\ NgAlongArc(d, t, a).cost \in Int
             /\ \A v \in Vertex :
                  /\ NgToVertex(d, t, v).st \in NgState /\ NgToVertex(d, t, v).cost \in Int
                  /\ \A u \in NgState : NgDomCost(d, v, t, u) \in Int
    BY NgPersists DEF Closed
  <2> QED BY <1>2, <2>1
<1>6. \A d \in Dir : \A t \in NgState : \A a \in Arc :
        NgAlongArc(d, t, a).st \in NgState /\ Ahead(d, a) \in Vertex
  BY NgPersists, EndsOfArcs, AheadType DEF Closed
<1>7. \A d \in Dir : \A t \in NgState : \A v \in Vertex : NgToVertex(d, t, v).st \in NgState
  BY NgPersists DEF Closed
<1>8. Persists(PackState, AlongArc, ToVertex, DomCost)
  <2> SUFFICES ASSUME NEW d \in Dir, NEW v \in Vertex, NEW t \in NgState, NEW u \in NgState,
                      DomCost(d, v, t, u) < Inf
               PROVE  /\ DomCost(d, v, t, u) >= 0
                      /\ \A a \in ArcsAt(d, v) :
                           LET w == Ahead(d, a)
                               t1 == AlongArc(d, t, a)  u1 == AlongArc(d, u, a)
                               t2 == ToVertex(d, t1.st, w)  u2 == ToVertex(d, u1.st, w)
                           IN u1.cost < Inf /\ u2.cost < Inf =>
                                /\ t1.cost < Inf /\ t2.cost < Inf
                                /\ DomCost(d, w, t2.st, u2.st) < Inf
                                /\ t1.cost + t2.cost + DomCost(d, w, t2.st, u2.st)
                                     <= u1.cost + u2.cost + DomCost(d, v, t, u)
    BY <1>1 DEF Persists
  <2>1. DomCost(d, v, t, u) = NgDomCost(d, v, t, u)
    BY <1>2
  <2>2. /\ NgDomCost(d, v, t, u) >= 0
        /\ \A a \in ArcsAt(d, v) :
             LET w == Ahead(d, a)
                 t1 == NgAlongArc(d, t, a)  u1 == NgAlongArc(d, u, a)
                 t2 == NgToVertex(d, t1.st, w)  u2 == NgToVertex(d, u1.st, w)
             IN u1.cost < Inf /\ u2.cost < Inf =>
                  /\ t1.cost < Inf /\ t2.cost < Inf
                  /\ NgDomCost(d, w, t2.st, u2.st) < Inf
                  /\ t1.cost + t2.cost + NgDomCost(d, w, t2.st, u2.st)
                       <= u1.cost + u2.cost + NgDomCost(d, v, t, u)
    BY <2>1, NgPersists DEF Persists
  <2>3. ASSUME NEW a \in ArcsAt(d, v)
        PROVE  LET w == Ahead(d, a)
                   t1 == NgAlongArc(d, t, a)  u1 == NgAlongArc(d, u, a)
                   t2 == NgToVertex(d, t1.st, w)  u2 == NgToVertex(d, u1.st, w)
               IN /\ AlongArc(d, t, a) = t1 /\ AlongArc(d, u, a) = u1
                  /\ ToVertex(d, t1.st, w) = t2 /\ ToVertex(d, u1.st, w) = u2
                  /\ DomCost(d, w, t2.st, u2.st) = NgDomCost(d, w, t2.st, u2.st)
    <3>1. a \in Arc /\ Ahead(d, a) \in Vertex
      BY EndsOfArcs
    <3>2. NgAlongArc(d, t, a).st \in NgState /\ NgAlongArc(d, u, a).st \in NgState
      BY <1>6, <3>1
    <3> QED BY <1>2, <1>7, <3>1, <3>2
  <2> QED BY <2>1, <2>2, <2>3
<1>9. Composes(PackState, DomCost)
  BY <1>1, <1>2, <1>4, NgComposes DEF Composes
<1>10. PackJoins
  <2>0. "fw" \in Dir /\ "bw" \in Dir /\ Sink \in Vertex /\ \A b \in Arc : To[b] \in Vertex
    BY ProblemAssumption DEF Dir
  <2> SUFFICES ASSUME NEW y \in NgState, NEW b \in Arc, AlongArc("fw", y, b).cost < Inf
               PROVE  LET t0 == AlongArc("fw", y, b).st
                          v == To[b]
                          at == ToVertex("fw", t0, v)
                          last == ToVertex("bw", InitState("bw"), Sink)
                      IN /\ v = Sink /\ ConcatCost(v, t0, last.st) < Inf =>
                              at.cost < Inf /\ ConcatCost(v, t0, last.st) + last.cost = at.cost
                         /\ \A x \in NgState : \A a \in ArcsAt("fw", v) :
                              LET t == ToVertex("bw", x, To[a]).st
                                  back == AlongArc("bw", t, a)
                                  here == ToVertex("bw", back.st, v)
                                  along == AlongArc("fw", at.st, a)
                              IN back.cost < Inf /\ here.cost < Inf /\ ConcatCost(v, t0, here.st) < Inf =>
                                   /\ at.cost < Inf /\ along.cost < Inf
                                   /\ ConcatCost(To[a], along.st, t) < Inf
                                   /\ ConcatCost(v, t0, here.st) + back.cost + here.cost
                                        = at.cost + along.cost + ConcatCost(To[a], along.st, t)
    BY <1>1 DEF PackJoins, Joins
  <2> DEFINE t0 == NgAlongArc("fw", y, b).st
             v == To[b]
             at == NgToVertex("fw", t0, v)
             last == NgToVertex("bw", NgInit("bw"), Sink)
  <2>1. /\ AlongArc("fw", y, b) = NgAlongArc("fw", y, b) /\ t0 \in NgState
        /\ ToVertex("fw", t0, v) = at /\ at.st \in NgState
    BY <1>2, <1>6, <1>7, <2>0
  <2>2. /\ ToVertex("bw", InitState("bw"), Sink) = last /\ last.st \in NgState
        /\ ConcatCost(v, t0, last.st) = NgConcatCost(v, t0, last.st)
    <3>1. NgInit("bw") \in NgState
      BY DEF NgInit, NgState
    <3>2. ToVertex("bw", InitState("bw"), Sink) = last /\ last.st \in NgState
      BY <1>2, <1>7, <2>0, <3>1
    <3> QED BY <1>3, <2>0, <2>1, <3>2
  <2>3. /\ v = Sink /\ NgConcatCost(v, t0, last.st) < Inf =>
             at.cost < Inf /\ NgConcatCost(v, t0, last.st) + last.cost = at.cost
        /\ \A x \in NgState : \A a \in ArcsAt("fw", v) :
             LET t == NgToVertex("bw", x, To[a]).st
                 back == NgAlongArc("bw", t, a)
                 here == NgToVertex("bw", back.st, v)
                 along == NgAlongArc("fw", at.st, a)
             IN back.cost < Inf /\ here.cost < Inf /\ NgConcatCost(v, t0, here.st) < Inf =>
                  /\ at.cost < Inf /\ along.cost < Inf
                  /\ NgConcatCost(To[a], along.st, t) < Inf
                  /\ NgConcatCost(v, t0, here.st) + back.cost + here.cost
                       = at.cost + along.cost + NgConcatCost(To[a], along.st, t)
    BY <1>4, <2>1, NgJoins DEF Joins
  <2>4. ASSUME NEW x \in NgState, NEW a \in ArcsAt("fw", v)
        PROVE  LET t == NgToVertex("bw", x, To[a]).st
                   back == NgAlongArc("bw", t, a)
                   here == NgToVertex("bw", back.st, v)
                   along == NgAlongArc("fw", at.st, a)
               IN /\ ToVertex("bw", x, To[a]).st = t /\ AlongArc("bw", t, a) = back
                  /\ ToVertex("bw", back.st, v) = here /\ AlongArc("fw", at.st, a) = along
                  /\ ConcatCost(v, t0, here.st) = NgConcatCost(v, t0, here.st)
                  /\ ConcatCost(To[a], along.st, t) = NgConcatCost(To[a], along.st, t)
    <3> DEFINE t == NgToVertex("bw", x, To[a]).st
               back == NgAlongArc("bw", t, a)
               here == NgToVertex("bw", back.st, v)
               along == NgAlongArc("fw", at.st, a)
    <3>1. a \in Arc /\ To[a] \in Vertex /\ v \in Vertex
      BY <2>0, EndsOfArcs
    <3>2. ToVertex("bw", x, To[a]).st = t /\ t \in NgState
      BY <1>2, <1>7, <2>0, <3>1
    <3>3. AlongArc("bw", t, a) = back /\ back.st \in NgState
      BY <1>2, <1>6, <2>0, <3>1, <3>2
    <3>4. ToVertex("bw", back.st, v) = here /\ here.st \in NgState
      BY <1>2, <1>7, <2>0, <3>1, <3>3
    <3>5. AlongArc("fw", at.st, a) = along /\ along.st \in NgState
      BY <1>2, <1>6, <2>0, <2>1, <3>1
    <3> HIDE DEF t, back, here, along, t0, at
    <3>6. /\ ConcatCost(v, t0, here.st) = NgConcatCost(v, t0, here.st)
          /\ ConcatCost(To[a], along.st, t) = NgConcatCost(To[a], along.st, t)
      BY <1>3, <2>1, <3>1, <3>2, <3>4, <3>5
    <3> QED BY <3>2, <3>3, <3>4, <3>5, <3>6 DEF t, back, here, along
  <2> HIDE DEF t0, at, last
  <2>5. AlongArc("fw", y, b).st = t0
    BY <2>1 DEF t0
  <2> QED BY <2>1, <2>2, <2>3, <2>4, <2>5
<1> QED BY <1>5, <1>8, <1>9, <1>10, NgMeansAllowed DEF PackLawful

\* So does no pack at all.
LEMMA NoPackIsLawful ==
  ASSUME PackIsNone
  PROVE  PackLawful /\ PackJoins
<1> DEFINE free == [st |-> "none", cost |-> 0]
<1>1. PackState = {"none"} /\ \A w \in PartialWalks :
         /\ PackAllows(Visited(w))
         /\ \A a \in ArcsAt("fw", EndOf(w)) : PackAllows(Visited(Append(w, a)))
  BY DEF PackIsNone, PackIs, NoState, AnyRoute
<1>2. \A d \in Dir :
        /\ InitState(d) = "none"
        /\ \A t \in PackState :
             /\ \A a \in Arc : AlongArc(d, t, a) = free
             /\ \A v \in Vertex : /\ ToVertex(d, t, v) = free
                                  /\ \A u \in PackState : DomCost(d, v, t, u) = 0
  BY <1>1 DEF PackIsNone, PackIs, NoState, NoInit, NoAlongArc, NoToVertex, NoDomCost
<1>3. \A v \in Vertex : \A t, u \in PackState : ConcatCost(v, t, u) = 0
  BY <1>1 DEF PackIsNone, PackIs, NoState, NoConcatCost
<1>4. "fw" \in Dir /\ "bw" \in Dir /\ Source \in Vertex /\ Sink \in Vertex
      /\ \A b \in Arc : To[b] \in Vertex
  BY ProblemAssumption DEF Dir
<1>5. 0 < Inf
  <2>1. \A t \in PackState : ToVertex("fw", t, Source).cost = 0
    BY <1>2, <1>4
  <2> QED BY <2>1, NothingIsCheap
<1>6. free.st \in PackState /\ free.cost = 0
  BY <1>1
<1> HIDE DEF free
<1>7. Closed(PackState, InitState, AlongArc, ToVertex, DomCost)
  BY <1>1, <1>2, <1>6 DEF Closed
<1>8. Persists(PackState, AlongArc, ToVertex, DomCost)
  BY <1>2, <1>5, <1>6, EndsOfArcs DEF Persists
<1>9. Composes(PackState, DomCost)
  BY <1>2, <1>5 DEF Composes
<1>10. PackJoins
  <2> SUFFICES ASSUME NEW y \in PackState, NEW b \in Arc
               PROVE  LET t0 == AlongArc("fw", y, b).st
                          v == To[b]
                          at == ToVertex("fw", t0, v)
                          last == ToVertex("bw", InitState("bw"), Sink)
                      IN /\ at.cost < Inf /\ ConcatCost(v, t0, last.st) + last.cost = at.cost
                         /\ \A x \in PackState : \A a \in ArcsAt("fw", v) :
                              LET t == ToVertex("bw", x, To[a]).st
                                  back == AlongArc("bw", t, a)
                                  here == ToVertex("bw", back.st, v)
                                  along == AlongArc("fw", at.st, a)
                              IN /\ at.cost < Inf /\ along.cost < Inf
                                 /\ ConcatCost(To[a], along.st, t) < Inf
                                 /\ ConcatCost(v, t0, here.st) + back.cost + here.cost
                                      = at.cost + along.cost + ConcatCost(To[a], along.st, t)
    BY DEF PackJoins, Joins
  <2>1. /\ AlongArc("fw", y, b) = free /\ ToVertex("fw", free.st, To[b]) = free
        /\ ToVertex("bw", InitState("bw"), Sink) = free
        /\ ConcatCost(To[b], free.st, free.st) = 0
    BY <1>1, <1>2, <1>3, <1>4, <1>6
  <2>2. ASSUME NEW x \in PackState, NEW a \in ArcsAt("fw", To[b])
        PROVE  /\ ToVertex("bw", x, To[a]) = free /\ AlongArc("bw", free.st, a) = free
               /\ ToVertex("bw", free.st, To[b]) = free /\ AlongArc("fw", free.st, a) = free
               /\ ConcatCost(To[a], free.st, free.st) = 0
    <3>1. a \in Arc /\ To[a] \in Vertex
      BY <1>4 DEF ArcsAt
    <3> QED BY <1>1, <1>2, <1>3, <1>4, <1>6, <3>1
  <2> QED BY <1>5, <1>6, <2>1, <2>2
<1>11. PackMeansAllowed
  <2>1. \A w \in PartialWalks : StateAfter(w) \in PackState
    BY LayersAreWalks, StateType
  <2>2. <<>> \in PartialWalks
    <3>1. 0 \in 0..MaxWalk
      BY LayersAreWalks
    <3> QED BY <3>1, LayersAreWalks, UptoDef
  <2>3. ToVertex("fw", InitState("fw"), Source).cost = 0
    BY <1>1, <1>2, <1>4, <1>6
  <2>4. ASSUME NEW w \in PartialWalks, NEW a \in ArcsAt("fw", EndOf(w))
        PROVE  /\ AlongArc("fw", StateAfter(w), a) = free
               /\ ToVertex("fw", free.st, To[a]) = free
               /\ PackAllows(Visited(Append(w, a)))
    <3>1. a \in Arc
      BY DEF ArcsAt
    <3> QED BY <1>1, <1>2, <1>4, <1>6, <2>1, <3>1
  <2> QED BY <1>1, <1>5, <1>6, <2>2, <2>3, <2>4 DEF PackMeansAllowed
<1> QED BY <1>7, <1>8, <1>9, <1>10, <1>11 DEF PackLawful

\* What the theorems above suppose of a pack is true of the ng-path resource, with
\* any neighbourhoods, and of the empty pack.
THEOREM LibraryPacksQualify ==
  ASSUME PackIsNg \/ PackIsNone
  PROVE  PackLawful /\ PackJoins /\ PackMeansAllowed
BY NgIsLawful, NoPackIsLawful DEF PackLawful

\* Solves with these packs, without a supposition on the pack: every mode, stage
\* and filter returns feasible paths only, and a mono-directional exact solve that
\* no cap stops returns a cheapest one.
THEOREM LibraryPacksAreSolved ==
  ASSUME PackIsNg \/ PackIsNone
  PROVE  /\ Spec => []ResultsAreFeasiblePaths
         /\ Spec /\ []Uncapped => [](EveryPathRepresented /\ CBestIsLowerBound)
         /\ Modes = {"mono"} => (Spec /\ []Uncapped => []FindsOptimum)
<1>1. PackLawful /\ PackJoins /\ PackMeansAllowed
  BY LibraryPacksQualify
<1>2. Spec => []ResultsAreFeasiblePaths
  BY <1>1, OnlyPathsAreReturned
<1>3. Spec /\ []Uncapped => []EveryPathRepresented
  BY <1>1, PathsStayRepresented
<1>4. Spec /\ []Uncapped => []CBestIsLowerBound
  BY <1>1, CBestStaysBound
<1>5. Spec /\ []Uncapped => [](EveryPathRepresented /\ CBestIsLowerBound)
  BY <1>3, <1>4, PTL
<1>6. Modes = {"mono"} => (Spec /\ []Uncapped => []FindsOptimum)
  BY <1>1, ExactFindsOptimum
<1> QED BY <1>2, <1>5, <1>6

=============================================================================
