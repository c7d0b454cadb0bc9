------------------------- MODULE CompletenessProofs -------------------------
(***************************************************************************)
(* Proofs that no path worth returning is missed where labels are left out  *)
(* for what a bound on the rest of their way says. The completion bounds    *)
(* of both directions are lower bounds, so that a mono-directional          *)
(* enumeration, which prunes by them, misses no path. An exact solve that   *)
(* labels in both directions, backward first or both at once, loses no      *)
(* cheapest path on the way: not where forward labels beyond the midpoint   *)
(* are turned away, not by the bounds that prune while both directions are  *)
(* labelled, not in the post-pass, not in the filters of the                *)
(* concatenation; only paths with one inner vertex beyond the midpoint are  *)
(* missed.                                                                  *)
(***************************************************************************)
EXTENDS OptimalityProofs

-----------------------------------------------------------------------------
\* The beginnings of a feasible walk are feasible walks, each an arc longer than
\* the one before.
LEMMA Beginnings ==
  ASSUME NEW w \in PartialWalks
  PROVE  /\ w \in Seq(Arc) /\ Len(w) \in Nat
         /\ \A k \in 0..Len(w) : SubSeq(w, 1, k) \in PartialWalks
         /\ \A k \in 1..Len(w) :
              /\ SubSeq(w, 1, k) = Append(SubSeq(w, 1, k - 1), w[k])
              /\ w[k] \in Arc /\ From[w[k]] = EndOf(SubSeq(w, 1, k - 1))
              /\ Feasible(SubSeq(w, 1, k))
<1> DEFINE Grown(x, k) == /\ SubSeq(x, 1, k) = Append(SubSeq(x, 1, k - 1), x[k])
                          /\ x[k] \in Arc /\ From[x[k]] = EndOf(SubSeq(x, 1, k - 1))
                          /\ Feasible(SubSeq(x, 1, k))
           P == {x \in Seq(Arc) : /\ \A k \in 0..Len(x) : SubSeq(x, 1, k) \in PartialWalks
                                  /\ \A k \in 1..Len(x) : Grown(x, k)}
<1>1. <<>> \in P
  <2>1. <<>> \in Seq(Arc) /\ Len(<<>>) = 0 /\ SubSeq(<<>>, 1, 0) = <<>>
    OBVIOUS
  <2>2. <<>> \in PartialWalks
    <3>1. 0 \in 0..MaxWalk
      BY LayersAreWalks
    <3> QED BY <3>1, LayersAreWalks, UptoDef
  <2>3. (\A k \in 0..0 : k = 0) /\ (\A k \in 1..0 : FALSE)
    OBVIOUS
  <2> HIDE DEF Grown
  <2>4. \A k \in 0..Len(<<>>) : SubSeq(<<>>, 1, k) \in PartialWalks
    <3>1. \A k \in 0..Len(<<>>) : k = 0
      BY <2>1, <2>3
    <3> QED BY <2>1, <2>2, <3>1
  <2>5. \A k \in 1..Len(<<>>) : Grown(<<>>, k)
    BY <2>1, <2>3
  <2> QED BY <2>1, <2>4, <2>5
<1>2. ASSUME NEW u \in PartialWalks, u \in P, NEW a \in Arc, From[a] = EndOf(u),
             Feasible(Append(u, a)), Append(u, a) \in PartialWalks
      PROVE  Append(u, a) \in P
  <2> DEFINE v == Append(u, a)
             L == Len(u)
  <2>1. /\ u \in Seq(Arc) /\ v \in Seq(Arc) /\ Len(v) = L + 1 /\ L \in Nat /\ v[L + 1] = a
        /\ \A i \in 1..L : v[i] = u[i]
    BY <1>2
  <2>2. \A k \in 0..L : SubSeq(v, 1, k) = SubSeq(u, 1, k)
    OBVIOUS
  <2>3. SubSeq(v, 1, L + 1) = v /\ SubSeq(v, 1, L) = u
    BY <2>1
  <2> HIDE DEF v, L
  <2>4. \A k \in 0..Len(v) : SubSeq(v, 1, k) \in PartialWalks
    <3>1. \A k \in 0..Len(v) : k = L + 1 \/ k \in 0..L
      BY <2>1
    <3>2. \A k \in 0..L : SubSeq(v, 1, k) \in PartialWalks
      BY <1>2, <2>2 DEF L
    <3> QED BY <1>2, <2>3, <3>1, <3>2 DEF v
  <2>5. \A k \in 1..Len(v) : Grown(v, k)
    <3>1. \A k \in 1..Len(v) : k = L + 1 \/ k \in 1..L
      BY <2>1
    <3>2. ASSUME NEW k \in 1..L PROVE Grown(v, k)
      <4>1. k \in 0..L /\ k - 1 \in 0..L
        BY <2>1
      <4>2. Grown(u, k)
        BY <1>2 DEF L
      <4> QED BY <2>1, <2>2, <4>1, <4>2
    <3>3. Grown(v, L + 1)
      <4>1. (L + 1) - 1 = L
        BY <2>1
      <4> QED BY <1>2, <2>1, <2>3, <4>1 DEF v
    <3> QED BY <3>1, <3>2, <3>3
  <2> HIDE DEF Grown
  <2> QED BY <2>1, <2>4, <2>5 DEF v
<1>3. w \in P
  <2>1. \A u \in PartialWalks \cap P : \A a \in Arc :
          From[a] = EndOf(u) /\ Feasible(Append(u, a)) /\ Append(u, a) \in PartialWalks
            => Append(u, a) \in P
    BY <1>2
  <2> HIDE DEF P
  <2> QED BY <1>1, <2>1, WalkInduction
<1>4. Len(w) \in Nat
  BY <1>3
<1> QED BY <1>3, <1>4

\* What is summed over the end of a walk, arc by arc from behind.
LEMMA SumOfRest ==
  ASSUME NEW f \in [Arc -> Int], NEW w \in Seq(Arc)
  PROVE  /\ SumOver(f, SubSeq(w, Len(w) + 1, Len(w))) = 0
         /\ \A i \in 0..Len(w) : SumOver(f, SubSeq(w, i + 1, Len(w))) \in Int
         /\ \A i \in 1..Len(w) : SumOver(f, SubSeq(w, i, Len(w)))
                                   = f[w[i]] + SumOver(f, SubSeq(w, i + 1, Len(w)))
         /\ \A i \in 0..Len(w) :
              SumOver(f, SubSeq(w, 1, i)) + SumOver(f, SubSeq(w, i + 1, Len(w))) = SumOver(f, w)
<1> DEFINE L == Len(w)
<1>1. L \in Nat /\ \A i \in 1..L : w[i] \in Arc
  OBVIOUS
<1>2. PICK s \in [0..L -> Int] : /\ SumOver(f, w) = s[L] /\ s[0] = 0
                                 /\ \A i \in 1..L : s[i] = s[i - 1] + f[w[i]]
  BY SumChain
<1>3. ASSUME NEW i \in 0..L
      PROVE  SumOver(f, SubSeq(w, i + 1, L)) = s[L] - s[i]
  <2> DEFINE v == SubSeq(w, i + 1, L)
             n == L - i
             h == [k \in 0..n |-> s[i + k] - s[i]]
  <2>1. /\ v \in Seq(Arc) /\ Len(v) = n /\ n \in Nat
        /\ \A k \in 1..n : v[k] = w[i + k]
    BY <1>1
  <2>2. /\ \A k \in 1..n : /\ i + k \in 1..L /\ (i + k) - 1 = i + (k - 1) /\ k - 1 \in 0..n
                           /\ k \in 0..n
        /\ \A k \in 0..n : i + k \in 0..L
        /\ 0 \in 0..n /\ n \in 0..n /\ i + n = L /\ i + 0 = i
    BY <1>1
  <2> HIDE DEF v, n, L
  <2>3. PICK g \in [0..n -> Int] : /\ SumOver(f, v) = g[n] /\ g[0] = 0
                                   /\ \A k \in 1..n : g[k] = g[k - 1] + f[v[k]]
    BY <2>1, SumChain
  <2>4. \A k \in 0..n : s[i + k] \in Int
    BY <2>2
  <2>5. h[0] = 0 /\ h[n] = s[L] - s[i]
    BY <2>2, <2>4
  <2>6. ASSUME NEW k \in 1..n PROVE h[k] = h[k - 1] + f[v[k]]
    <3>1. s[i + k] = s[i + (k - 1)] + f[w[i + k]]
      BY <1>2, <2>2
    <3>2. h[k] = s[i + k] - s[i] /\ h[k - 1] = s[i + (k - 1)] - s[i]
      BY <2>2
    <3>3. /\ s[i + k] \in Int /\ s[i + (k - 1)] \in Int /\ s[i] \in Int
          /\ f[w[i + k]] \in Int /\ v[k] = w[i + k]
      <4>1. w[i + k] \in Arc
        BY <1>1, <2>2
      <4> QED BY <2>1, <2>2, <2>4, <4>1
    <3> HIDE DEF h
    <3> QED BY <3>1, <3>2, <3>3
  <2> HIDE DEF h
  <2>7. \A k \in 0..n : g[k] = h[k]
    <3>1. SameUpto(n)
      BY <2>1, StepsDecide
    <3>2. \A k \in 1..n : g[k - 1] = h[k - 1] => g[k] = h[k]
      BY <2>3, <2>6
    <3>3. g[0] = h[0]
      BY <2>3, <2>5
    <3>4. \A k \in 1..n : g[k - 1] = h[k - 1] => g[k] = h[k]
      BY <3>2
    <3> QED BY <3>1, <3>3, <3>4 DEF SameUpto
  <2> QED BY <2>2, <2>3, <2>5, <2>7 DEF v
<1>4. ASSUME NEW i \in 0..L
      PROVE  SumOver(f, SubSeq(w, 1, i)) = s[i]
  <2> DEFINE v == SubSeq(w, 1, i)
  <2>1. v \in Seq(Arc) /\ Len(v) = i /\ i \in Nat /\ \A k \in 1..i : v[k] = w[k] /\ k \in 1..L
    BY <1>1
  <2> HIDE DEF v, L
  <2>2. PICK g \in [0..i -> Int] : /\ SumOver(f, v) = g[i] /\ g[0] = 0
                                   /\ \A k \in 1..i : g[k] = g[k - 1] + f[v[k]]
    BY <2>1, SumChain
  <2>3. \A k \in 0..i : g[k] = s[k]
    <3>1. SameUpto(i)
      BY <2>1, StepsDecide
    <3>2. \A k \in 1..i : g[k - 1] = s[k - 1] => g[k] = s[k]
      BY <1>2, <2>1, <2>2
    <3>3. g[0] = s[0]
      BY <1>2, <2>2
    <3> QED BY <3>1, <3>2, <3>3 DEF SameUpto
  <2>4. i \in 0..i
    BY <2>1
  <2> QED BY <2>2, <2>3, <2>4 DEF v
<1> HIDE DEF L
<1>5. L \in 0..L /\ (\A i \in 1..L : i - 1 \in 0..L /\ i \in 0..L /\ (i - 1) + 1 = i)
  BY <1>1
<1>6. s[L] \in Int /\ \A i \in 0..L : s[i] \in Int
  BY <1>5
<1>7. SumOver(f, SubSeq(w, L + 1, L)) = 0
  BY <1>3, <1>5, <1>6
<1>8. \A i \in 0..L : SumOver(f, SubSeq(w, i + 1, L)) \in Int
  BY <1>3, <1>6
<1>9. ASSUME NEW i \in 1..L
      PROVE  SumOver(f, SubSeq(w, i, L)) = f[w[i]] + SumOver(f, SubSeq(w, i + 1, L))
  <2>1. SumOver(f, SubSeq(w, (i - 1) + 1, L)) = s[L] - s[i - 1]
    BY <1>3, <1>5
  <2>2. SumOver(f, SubSeq(w, i + 1, L)) = s[L] - s[i]
    BY <1>3, <1>5
  <2>3. s[i] = s[i - 1] + f[w[i]] /\ f[w[i]] \in Int /\ s[i - 1] \in Int /\ s[i] \in Int
    BY <1>1, <1>2, <1>5
  <2> QED BY <1>5, <1>6, <2>1, <2>2, <2>3
<1>10. \A i \in 0..L :
         SumOver(f, SubSeq(w, 1, i)) + SumOver(f, SubSeq(w, i + 1, L)) = SumOver(f, w)
  BY <1>2, <1>3, <1>4, <1>6
<1> QED BY <1>7, <1>8, <1>9, <1>10 DEF L

\* The resource values with which a walk arrives at its end.
ReachedWith(w) == [r \in Res |-> Earliest(w, Len(w) + 1, r)]

\* They are integers within the window's lower bounds.
LEMMA ReachedType ==
  ASSUME NEW w \in Seq(Arc)
  PROVE  /\ ReachedWith(w) \in [Res -> Int] /\ EndOf(w) \in Vertex
         /\ \A r \in Res : ReachedWith(w)[r] >= Lb[EndOf(w)][r]
<1> DEFINE j == Len(w) + 1
<1>1. j \in 1..Len(w) + 1 /\ j \in 1..j /\ EndOf(w) = Visited(w)[j] /\ SubSeq(w, j, j - 1) = <<>>
  BY DEF EndOf
<1>2. EndOf(w) \in Vertex
  BY VisitedType
<1> HIDE DEF j
<1>3. ASSUME NEW r \in Res PROVE Earliest(w, j, r) \in Int /\ Earliest(w, j, r) >= Lb[EndOf(w)][r]
  <2>1. /\ Earliest(w, j, r) \in Int
        /\ Lb[Visited(w)[j]][r] + Between(w, j, j, r) <= Earliest(w, j, r)
    BY <1>1, EarliestIsMost
  <2>2. Between(w, j, j, r) = 0
    <3>1. [b \in Arc |-> Use[b][r]] \in [Arc -> Int]
      BY ProblemAssumption
    <3>2. SumOver([b \in Arc |-> Use[b][r]], <<>>) = 0
      BY <3>1, SumEmpty
    <3> QED BY <1>1, <3>2 DEF Between
  <2>3. Lb[EndOf(w)][r] \in Int
    BY <1>2, TableType
  <2> QED BY <1>1, <2>1, <2>2, <2>3
<1>4. ReachedWith(w) = [r \in Res |-> Earliest(w, j, r)]
  BY DEF ReachedWith, j
<1> QED BY <1>2, <1>3, <1>4

\* A feasible walk that goes on along an arc arrives with what propagation along
\* it makes, in the window.
LEMMA ReachedByArc ==
  ASSUME NEW u \in Seq(Arc), NEW a \in Arc, Feasible(Append(u, a))
  PROVE  /\ ReachedWith(Append(u, a)) = Advance("fw", ReachedWith(u), a)
         /\ EndOf(Append(u, a)) = To[a]
         /\ InWindow("fw", To[a], Advance("fw", ReachedWith(u), a))
<1> DEFINE w == Append(u, a)
           L == Len(u)
<1>1. /\ w \in Seq(Arc) /\ Len(w) = L + 1 /\ L \in Nat /\ EndOf(w) = To[a]
      /\ Visited(w)[L + 2] = To[a]
  BY VisitedAppend
<1>2. Len(w) + 1 = L + 2 /\ L + 2 \in 1..Len(w) + 1
  BY <1>1
<1>3. \A r \in Res : Earliest(w, L + 2, r) = Larger(Earliest(u, L + 1, r) + Use[a][r], Lb[To[a]][r])
  BY EarliestAppend
<1>4. \A r \in Res : Earliest(w, L + 2, r) <= Ub[To[a]][r]
  <2> HIDE DEF w, L
  <2> QED BY <1>1, <1>2 DEF Feasible, w
<1> HIDE DEF w, L
<1>5. ReachedWith(w) = [r \in Res |-> Earliest(w, L + 2, r)]
  BY <1>2 DEF ReachedWith
<1>6. Advance("fw", ReachedWith(u), a)
        = [r \in Res |-> Larger(Earliest(u, L + 1, r) + Use[a][r], Lb[To[a]][r])]
  BY DEF Advance, ReachedWith, L
<1>7. ReachedWith(w) = Advance("fw", ReachedWith(u), a)
  BY <1>3, <1>5, <1>6
<1>8. InWindow("fw", To[a], ReachedWith(w))
  BY <1>4, <1>5 DEF InWindow
<1> QED BY <1>1, <1>7, <1>8 DEF w

-----------------------------------------------------------------------------
\* The numbering of the buckets is a strict total order.
LEMMA BeforeOrders ==
  /\ \A b \in Bucket : ~Before(b, b)
  /\ \A b, c \in Bucket : b = c \/ Before(b, c) \/ Before(c, b)
  /\ \A a, b, c \in Bucket : Before(a, b) /\ Before(b, c) => Before(a, c)
<1>1. \A b \in Bucket : /\ b[1] \in Nat /\ b[2] \in [Res -> Int] /\ b = <<b[1], b[2]>>
                        /\ b[2][1] \in Int /\ b[2][NMain] \in Int
  <2> SUFFICES ASSUME NEW b \in Bucket
               PROVE  /\ b[1] \in Nat /\ b[2] \in [Res -> Int] /\ b = <<b[1], b[2]>>
                      /\ b[2][1] \in Int /\ b[2][NMain] \in Int
    OBVIOUS
  <2>1. b[1] \in Vertex /\ b[2] \in [Res -> Int]
    BY BucketType
  <2>2. b = <<b[1], b[2]>>
    BY DEF Bucket, BucketsAt
  <2> QED BY <2>1, <2>2, ResType, ProblemAssumption
<1>2. ASSUME NEW b \in Bucket, NEW c \in Bucket, b[1] = c[1], b[2][1] = c[2][1],
             b[2][NMain] = c[2][NMain]
      PROVE  b = c
  <2>1. \A r \in Res : b[2][r] = c[2][r]
    BY <1>2, ResType
  <2>2. b[2] = c[2]
    BY <1>1, <2>1
  <2> QED BY <1>1, <1>2, <2>2
<1>3. \A b, c \in Bucket : b = c \/ Before(b, c) \/ Before(c, b)
  BY <1>1, <1>2 DEF Before
<1>4. \A a, b, c \in Bucket : Before(a, b) /\ Before(b, c) => Before(a, c)
  BY <1>1 DEF Before
<1>5. \A b \in Bucket : ~Before(b, b)
  BY <1>1 DEF Before
<1> QED BY <1>3, <1>4, <1>5

\* The number of rounds of a component and the levels are natural numbers.
LEMMA RoundsType ==
  ASSUME NEW d \in Dir, NEW b \in Bucket
  PROVE  /\ Rounds(Scc(d, b)) \in Nat /\ Cardinality(Reachable[d][b]) \in Nat
         /\ IsFiniteSet(Reachable[d][b])
<1>1. Reachable[d][b] \in SUBSET Bucket /\ Scc(d, b) \in SUBSET Bucket
  BY SearchEnds DEF Scc
<1>2. IsFiniteSet(Reachable[d][b]) /\ IsFiniteSet(Scc(d, b))
  BY <1>1, BucketsFinite, FS_Subset
<1> QED BY <1>2, FS_CardinalityType DEF Rounds

\* The steps of the relaxation, and that there are finitely many.
LEMMA RelaxStepsType ==
  ASSUME NEW d \in Dir
  PROVE  /\ IsFiniteSet(RelaxSteps(d))
         /\ \A x \in RelaxSteps(d) : /\ x[1] \in Nat /\ x[2] \in Nat /\ x[3] \in Bucket
                                     /\ x = <<x[1], x[2], x[3]>>
         /\ \A b \in Bucket : \A i \in 1..Rounds(Scc(d, b)) :
              <<Cardinality(Reachable[d][b]), i, b>> \in RelaxSteps(d)
<1> DEFINE Of(b) == {<<Cardinality(Reachable[d][b]), i, b>> : i \in 1..Rounds(Scc(d, b))}
           All == {Of(b) : b \in Bucket}
<1>1. RelaxSteps(d) = UNION All
  BY DEF RelaxSteps
<1>2. ASSUME NEW b \in Bucket PROVE IsFiniteSet(Of(b))
  <2> DEFINE f == [i \in 1..Rounds(Scc(d, b)) |-> <<Cardinality(Reachable[d][b]), i, b>>]
  <2>1. f \in [1..Rounds(Scc(d, b)) -> Of(b)]
        /\ \A x \in Of(b) : \E i \in 1..Rounds(Scc(d, b)) : f[i] = x
    OBVIOUS
  <2>2. IsFiniteSet(1..Rounds(Scc(d, b)))
    <3>1. 1 \in Int /\ Rounds(Scc(d, b)) \in Int
      BY RoundsType
    <3> QED BY ONLY <3>1, FS_Interval
  <2> HIDE DEF f, Of
  <2> QED BY <2>1, <2>2, ImageFinite
<1>3. IsFiniteSet(All)
  <2> DEFINE g == [b \in Bucket |-> Of(b)]
  <2>1. g \in [Bucket -> All] /\ \A s \in All : \E b \in Bucket : g[b] = s
    OBVIOUS
  <2> HIDE DEF g, All
  <2> QED BY <2>1, BucketsFinite, ImageFinite
<1>4. IsFiniteSet(UNION All)
  <2>1. \A s \in All : IsFiniteSet(s)
    BY <1>2
  <2> HIDE DEF All
  <2> QED BY <1>3, <2>1, FS_UNION
<1>5. ASSUME NEW x \in RelaxSteps(d)
      PROVE  x[1] \in Nat /\ x[2] \in Nat /\ x[3] \in Bucket /\ x = <<x[1], x[2], x[3]>>
  <2>1. PICK b \in Bucket : \E i \in 1..Rounds(Scc(d, b)) : x = <<Cardinality(Reachable[d][b]), i, b>>
    BY DEF RelaxSteps
  <2>2. PICK i \in 1..Rounds(Scc(d, b)) : x = <<Cardinality(Reachable[d][b]), i, b>>
    BY <2>1
  <2>3. i \in Nat /\ Cardinality(Reachable[d][b]) \in Nat
    BY RoundsType
  <2> QED BY <2>2, <2>3
<1>6. ASSUME NEW b \in Bucket, NEW i \in 1..Rounds(Scc(d, b))
      PROVE  <<Cardinality(Reachable[d][b]), i, b>> \in RelaxSteps(d)
  BY DEF RelaxSteps
<1> HIDE DEF All
<1> QED BY <1>1, <1>4, <1>5, <1>6

\* The order in which the steps are made is a strict total order.
LEMMA EarlierOrders ==
  ASSUME NEW d \in Dir, NEW x \in RelaxSteps(d), NEW y \in RelaxSteps(d), NEW z \in RelaxSteps(d)
  PROVE  /\ ~Earlier(x, x)
         /\ x = y \/ Earlier(x, y) \/ Earlier(y, x)
         /\ Earlier(x, y) /\ Earlier(y, z) => Earlier(x, z)
<1>1. /\ x[1] \in Nat /\ x[2] \in Nat /\ x[3] \in Bucket /\ x = <<x[1], x[2], x[3]>>
      /\ y[1] \in Nat /\ y[2] \in Nat /\ y[3] \in Bucket /\ y = <<y[1], y[2], y[3]>>
      /\ z[1] \in Nat /\ z[2] \in Nat /\ z[3] \in Bucket
  BY RelaxStepsType
<1>2. /\ ~Before(x[3], x[3])
      /\ x[3] = y[3] \/ Before(x[3], y[3]) \/ Before(y[3], x[3])
      /\ Before(x[3], y[3]) /\ Before(y[3], z[3]) => Before(x[3], z[3])
  BY <1>1, BeforeOrders
<1>3. x = y \/ Earlier(x, y) \/ Earlier(y, x)
  <2>1. x[1] = y[1] /\ x[2] = y[2] /\ x[3] = y[3] => x = y
    BY <1>1
  <2> QED BY <1>1, <1>2, <2>1 DEF Earlier
<1>4. ~Earlier(x, x)
  BY <1>1, <1>2 DEF Earlier
<1>5. Earlier(x, y) /\ Earlier(y, z) => Earlier(x, z)
  BY <1>1, <1>2 DEF Earlier
<1> QED BY <1>3, <1>4, <1>5

\* Every step has its place in the order in which the code relaxes, behind the
\* steps that are earlier.
LEMMA StepsHavePlaces ==
  ASSUME NEW d \in Dir
  PROVE  /\ Len(RelaxOrder[d]) \in Nat
         /\ \E place \in [RelaxSteps(d) -> Nat] :
              \A x \in RelaxSteps(d) :
                /\ place[x] \in 1..Len(RelaxOrder[d]) /\ RelaxOrder[d][place[x]] = x[3]
                /\ \A y \in RelaxSteps(d) : Earlier(y, x) => place[y] < place[x]
<1> DEFINE S == RelaxSteps(d)
           place == [x \in S |-> Cardinality({y \in S : Earlier(y, x)}) + 1]
           N == Cardinality(S)
           order == [i \in 1..N |-> (CHOOSE x \in S : place[x] = i)[3]]
<1>1. RelaxOrder[d] = order
  BY DEF RelaxOrder
<1>2. IsFiniteSet(S) /\ N \in Nat
  BY RelaxStepsType, FS_CardinalityType
<1>3. /\ \A x \in S : ~Earlier(x, x)
      /\ \A x, y \in S : x = y \/ Earlier(x, y) \/ Earlier(y, x)
      /\ \A x, y, z \in S : Earlier(x, y) /\ Earlier(y, z) => Earlier(x, z)
  BY EarlierOrders
<1> HIDE DEF S
<1>4. ASSUME NEW x \in S, NEW y \in S, Earlier(y, x)
      PROVE  place[y] < place[x]
  <2> DEFINE A == {z \in S : Earlier(z, y)}
             B == {z \in S : Earlier(z, x)}
  <2>1. A \in SUBSET B /\ y \in B /\ y \notin A /\ B \in SUBSET S
    BY <1>3, <1>4
  <2>2. place[y] = Cardinality(A) + 1 /\ place[x] = Cardinality(B) + 1
    OBVIOUS
  <2> HIDE DEF A, B, place
  <2>3. IsFiniteSet(B) /\ IsFiniteSet(A)
    BY <1>2, <2>1, FS_Subset
  <2>4. Cardinality(A) <= Cardinality(B) /\ Cardinality(A) # Cardinality(B)
    BY <2>1, <2>3, FS_Subset
  <2>5. Cardinality(A) \in Nat /\ Cardinality(B) \in Nat
    BY <2>3, FS_CardinalityType
  <2> QED BY <2>2, <2>4, <2>5
<1>5. ASSUME NEW x \in S
      PROVE  place[x] \in 1..N /\ place[x] \in Nat
  <2> DEFINE B == {z \in S : Earlier(z, x)}
  <2>1. B \in SUBSET S /\ x \notin B /\ place[x] = Cardinality(B) + 1
    BY <1>3
  <2> HIDE DEF B, place
  <2>2. IsFiniteSet(B) /\ Cardinality(B) <= N /\ Cardinality(B) # N
    BY <1>2, <2>1, FS_Subset DEF N
  <2>3. Cardinality(B) \in Nat
    BY <2>2, FS_CardinalityType
  <2> QED BY <1>2, <2>1, <2>2, <2>3
<1>6. place \in [S -> Nat]
  BY <1>5
<1> HIDE DEF place, N
<1>7. ASSUME NEW x \in S
      PROVE  order[place[x]] = x[3]
  <2>1. \A y \in S : place[y] = place[x] => y = x
    <3> SUFFICES ASSUME NEW y \in S, place[y] = place[x], y # x PROVE FALSE
      OBVIOUS
    <3>1. place[y] < place[x] \/ place[x] < place[y]
      BY <1>3, <1>4
    <3>2. place[y] \in Nat /\ place[x] \in Nat
      BY <1>5
    <3> QED BY <3>1, <3>2
  <2>2. (CHOOSE y \in S : place[y] = place[x]) = x
    BY <2>1
  <2>3. place[x] \in 1..N
    BY <1>5
  <2> QED BY <2>2, <2>3
<1>8. Len(order) = N
  BY <1>2
<1> HIDE DEF order
<1> QED BY <1>1, <1>2, <1>4, <1>5, <1>6, <1>7, <1>8 DEF S

-----------------------------------------------------------------------------
\* The bounds after one relaxation.
Lowered(d, comp, b, have, cost) == [comp EXCEPT ![b] = Relax(d, comp, b, have, cost)]

\* have gives each bucket arcs that build() gave it.
ArcsOfBuckets(d, have) ==
  \A b \in Bucket : have[d][b] \subseteq BuiltArcs[d][b]

\* A relaxation keeps the bounds integers and raises none, and the bound of its
\* bucket is not above what goes on along one of its arcs.
LEMMA RelaxLowers ==
  ASSUME NEW d \in Dir, NEW comp \in [Bucket -> Int], NEW o, NEW have, ArcsOfBuckets(d, have),
         NEW cost \in [Arc -> Int]
  PROVE  /\ Lowered(d, comp, o, have, cost) \in [Bucket -> Int]
         /\ \A b \in Bucket : Lowered(d, comp, o, have, cost)[b] <= comp[b]
         /\ o \in Bucket =>
              \A a \in have[d][o] :
                comp[Target[d][o][a]] < Inf =>
                  Lowered(d, comp, o, have, cost)[o] <= cost[a] + comp[Target[d][o][a]]
<1> DEFINE next == Lowered(d, comp, o, have, cost)
<1>1. next = [b \in Bucket |-> IF b = o THEN Relax(d, comp, o, have, cost) ELSE comp[b]]
  BY DEF Lowered
<1> HIDE DEF next
<1>2. CASE o \notin Bucket
  BY <1>1, <1>2 DEF next
<1>3. CASE o \in Bucket
  <2> DEFINE to(a) == Target[d][o][a]
             Open == {a \in have[d][o] : comp[to(a)] < Inf}
             S == {cost[a] + comp[to(a)] : a \in Open}
  <2>1. \A a \in have[d][o] : a \in Arc /\ to(a) \in Bucket
    <3>1. have[d][o] \subseteq BuiltArcs[d][o] /\ BuiltArcs[d][o] \subseteq Arc
      BY <1>3, BuiltArcsType DEF ArcsOfBuckets
    <3> QED BY <1>3, <3>1, TargetType
  <2>2. Relax(d, comp, o, have, cost) = Smaller(comp[o], Least(S)) /\ comp[o] \in Int
    BY <1>3 DEF Relax
  <2> HIDE DEF to
  <2>3. \A a \in Open : cost[a] + comp[to(a)] \in Int
    BY <2>1
  <2>4. S \in SUBSET Int
    BY <2>3
  <2>5. IsFiniteSet(S)
    <3> DEFINE f == [a \in Open |-> cost[a] + comp[to(a)]]
    <3>1. IsFiniteSet(Arc) /\ Open \in SUBSET Arc
      BY <2>1, ProblemAssumption
    <3>2. IsFiniteSet(Open)
      BY <3>1, FS_Subset
    <3>3. f \in [Open -> S] /\ \A t \in S : \E a \in Open : f[a] = t
      OBVIOUS
    <3> HIDE DEF f, S, Open
    <3> QED BY <3>2, <3>3, ImageFinite
  <2>6. ASSUME NEW a \in Open
        PROVE  Least(S) <= cost[a] + comp[to(a)]
    <3>1. cost[a] + comp[to(a)] \in S
      OBVIOUS
    <3> HIDE DEF S
    <3>2. \E x \in S : \A y \in S : x <= y
      BY <2>4, <2>5, <3>1, FiniteHasLeast
    <3>3. \A y \in S : Least(S) <= y
      BY <3>2 DEF Least
    <3> QED BY <3>1, <3>3
  <2>7. Least(S) \in Int
    <3> HIDE DEF S
    <3> QED BY <2>4, LeastType
  <2>8. ASSUME NEW a \in have[d][o], comp[to(a)] < Inf
        PROVE  Smaller(comp[o], Least(S)) <= cost[a] + comp[to(a)]
    <3>1. Least(S) <= cost[a] + comp[to(a)] /\ cost[a] + comp[to(a)] \in Int
      BY <2>3, <2>6, <2>8
    <3> HIDE DEF S
    <3> QED BY <2>2, <2>7, <3>1 DEF Smaller
  <2>9. Smaller(comp[o], Least(S)) \in Int /\ Smaller(comp[o], Least(S)) <= comp[o]
    <3> HIDE DEF S
    <3> QED BY <2>2, <2>7 DEF Smaller
  <2>10. next[o] = Smaller(comp[o], Least(S)) /\ \A b \in Bucket : b # o => next[b] = comp[b]
    <3> HIDE DEF S
    <3> QED BY <1>1, <1>3, <2>2
  <2> HIDE DEF S
  <2>11. next \in [Bucket -> Int]
    <3>1. \A b \in Bucket : (IF b = o THEN Relax(d, comp, o, have, cost) ELSE comp[b]) \in Int
      BY <2>2, <2>9
    <3> QED BY <1>1, <3>1
  <2>12. \A b \in Bucket : next[b] <= comp[b]
    <3> SUFFICES ASSUME NEW b \in Bucket PROVE next[b] <= comp[b]
      OBVIOUS
    <3>1. comp[b] \in Int
      OBVIOUS
    <3> QED BY <2>9, <2>10, <3>1
  <2> QED BY <2>8, <2>10, <2>11, <2>12 DEF next, to
<1> QED BY <1>2, <1>3

\* compute_completion_bounds, relaxation by relaxation.
ByRelaxing(d, have, cost) ==
  \E after \in [0..Len(RelaxOrder[d]) -> [Bucket -> Int]] :
    /\ after[0] = [b \in Bucket |-> IF b[1] = Terminal(d) THEN 0 ELSE Inf]
    /\ \A i \in 1..Len(RelaxOrder[d]) :
         after[i] = Lowered(d, after[i - 1], RelaxOrder[d][i], have, cost)
    /\ CompletionBounds(d, have, cost) = Propagate(d, after[Len(RelaxOrder[d])])

\* The recursive definition of the bounds has that solution.
LEMMA CompletionChain ==
  ASSUME NEW d \in Dir, NEW have, ArcsOfBuckets(d, have), NEW cost \in [Arc -> Int]
  PROVE  ByRelaxing(d, have, cost)
<1> DEFINE order == RelaxOrder[d]
           L == Len(order)
           zero == [b \in Bucket |-> IF b[1] = Terminal(d) THEN 0 ELSE Inf]
           Bounds == [Bucket -> Int]
           NextBounds(x, i) == CHOOSE next \in
               {[comp EXCEPT ![order[i]] = Relax(d, comp, order[i], have, cost)] :
                  comp \in {x}} : TRUE
           Equation(g) == g = [i \in 0..L |-> IF i = 0 THEN zero ELSE NextBounds(g[i - 1], i)]
           s == CHOOSE g : Equation(g)
<1>1. L \in Nat
  BY StepsHavePlaces
<1>2. CompletionBounds(d, have, cost)
        = CHOOSE bounds \in {Propagate(d, comp) : comp \in {s[L]}} : TRUE
  BY DEF CompletionBounds
<1>3. CompletionBounds(d, have, cost) = Propagate(d, s[L])
  <2> HIDE DEF s, L
  <2>1. \A y : {Propagate(d, comp) : comp \in {y}} = {Propagate(d, y)}
    OBVIOUS
  <2> QED BY <1>2, <2>1
<1>4. ASSUME NEW x, NEW i
      PROVE  NextBounds(x, i) = Lowered(d, x, order[i], have, cost)
  <2>1. {[comp EXCEPT ![order[i]] = Relax(d, comp, order[i], have, cost)] : comp \in {x}}
          = {[x EXCEPT ![order[i]] = Relax(d, x, order[i], have, cost)]}
    OBVIOUS
  <2> QED BY <2>1 DEF Lowered
<1> HIDE DEF NextBounds, L, order
<1>5. zero \in Bounds
  BY ProblemAssumption
<1>6. ASSUME NEW x \in Bounds, NEW i
      PROVE  NextBounds(x, i) \in Bounds
  BY <1>4, RelaxLowers
<1> HIDE DEF zero, Bounds
<1>7. PICK F \in [Nat -> [Bounds -> Bounds]] : \A i \in Nat : \A x \in Bounds : F[i][x] = NextBounds(x, i)
  <2>1. [i \in Nat |-> [x \in Bounds |-> NextBounds(x, i)]] \in [Nat -> [Bounds -> Bounds]]
    BY <1>6
  <2> QED BY <2>1
<1>8. PICK k \in [Nat -> Bounds] : \A i \in Nat : k[i] = IF i = 0 THEN zero ELSE F[i][k[i - 1]]
  <2>1. Recursive(Bounds)
    BY RecursionIn
  <2> QED BY <1>5, <2>1 DEF Recursive
<1>9. \A i \in Nat : k[i] \in Bounds /\ k[i] = IF i = 0 THEN zero ELSE NextBounds(k[i - 1], i)
  <2>1. ASSUME NEW i \in Nat, i # 0 PROVE k[i] = NextBounds(k[i - 1], i)
    <3>1. i - 1 \in Nat
      BY <2>1
    <3>2. k[i - 1] \in Bounds
      BY <3>1
    <3> QED BY <1>7, <1>8, <2>1, <3>2
  <2> QED BY <1>8, <2>1
<1> DEFINE g == [i \in 0..L |-> k[i]]
<1>10. /\ g \in [0..L -> Bounds] /\ g[0] = zero
       /\ \A i \in 1..L : g[i] = NextBounds(g[i - 1], i)
  <2>1. 0 \in 0..L /\ \A i \in 0..L : i \in Nat
    BY <1>1
  <2>2. \A i \in 1..L : i \in 0..L /\ i - 1 \in 0..L /\ i # 0
    BY <1>1
  <2> HIDE DEF Equation, s
  <2> QED BY <1>9, <2>1, <2>2
<1>11. Equation(g)
  <2>1. \A i \in 0..L : i # 0 => i \in 1..L
    BY <1>1
  <2>2. g = [i \in 0..L |-> g[i]]
    OBVIOUS
  <2> HIDE DEF g
  <2>3. \A i \in 0..L : g[i] = IF i = 0 THEN zero ELSE NextBounds(g[i - 1], i)
    BY <1>10, <2>1
  <2> QED BY <2>2, <2>3
<1> HIDE DEF g
<1>12. Equation(s)
  BY <1>11
<1>13. s[0] = zero /\ \A i \in 1..L : s[i] = NextBounds(s[i - 1], i)
  <2>1. 0 \in 0..L /\ \A i \in 1..L : i \in 0..L /\ i # 0
    BY <1>1
  <2> HIDE DEF s
  <2> QED BY <1>12, <2>1
<1> HIDE DEF s, Equation
<1>14. \A i \in 0..L : s[i] = g[i]
  <2>1. SameUpto(L)
    BY <1>1, StepsDecide
  <2>2. s[0] = g[0]
    BY <1>10, <1>13
  <2>3. \A i \in 1..L : s[i - 1] = g[i - 1] => s[i] = g[i]
    BY <1>10, <1>13
  <2> QED BY <2>1, <2>2, <2>3 DEF SameUpto
<1>15. CompletionBounds(d, have, cost) = Propagate(d, g[L])
  <2>1. L \in 0..L
    BY <1>1
  <2> QED BY <1>3, <1>14, <2>1
<1>16. \A i \in 1..L : g[i] = Lowered(d, g[i - 1], order[i], have, cost)
  BY <1>4, <1>10
<1> QED BY <1>10, <1>15, <1>16 DEF ByRelaxing, L, order, zero, Bounds

\* A completion bound is an integer.
LEMMA CompletionBoundsType ==
  ASSUME NEW d \in Dir, NEW have, ArcsOfBuckets(d, have), NEW cost \in [Arc -> Int]
  PROVE  \A b \in Bucket : CompletionBounds(d, have, cost)[b] \in Int
<1> DEFINE L == Len(RelaxOrder[d])
<1>1. L \in Nat
  BY StepsHavePlaces
<1>2. PICK comp \in [Bucket -> Int] : CompletionBounds(d, have, cost) = Propagate(d, comp)
  <2>1. ByRelaxing(d, have, cost)
    BY CompletionChain
  <2>2. PICK after \in [0..L -> [Bucket -> Int]] :
          CompletionBounds(d, have, cost) = Propagate(d, after[L])
    BY <2>1 DEF ByRelaxing
  <2> QED BY <1>1, <2>2
<1> SUFFICES ASSUME NEW b \in Bucket PROVE Propagate(d, comp)[b] \in Int
  BY <1>2
<1>3. BucketsAt(b[1]) \subseteq Bucket
  BY BucketType DEF Bucket
<1>4. {comp[c] : c \in {x \in BucketsAt(b[1]) : UpTo(d, b, x)}} \in SUBSET Int
  BY <1>3
<1> QED BY <1>4, LeastType DEF Propagate

-----------------------------------------------------------------------------
\* Where a way through buckets c[0..n] still runs up the numbering within the
\* component of c[j].
Rises(d, c, n, j) ==
  {k \in j + 1..n : c[k] \in Scc(d, c[j]) /\ ~Before(c[k], c[k - 1])}

\* Going one bucket back, either the component is the same, with a rise more if
\* there is one, or the level is higher: the step is later in any case.
LEMMA WayBackIsLater ==
  ASSUME NEW d \in Dir, NEW n \in Nat, NEW c \in [0..n -> Bucket], NEW j \in 1..n,
         c[j] \in Successors[d][c[j - 1]]
  PROVE  /\ IsFiniteSet(Rises(d, c, n, j)) /\ IsFiniteSet(Rises(d, c, n, j - 1))
         /\ Earlier(<<Cardinality(Reachable[d][c[j]]), Cardinality(Rises(d, c, n, j)) + 1, c[j]>>,
                    <<Cardinality(Reachable[d][c[j - 1]]),
                      Cardinality(Rises(d, c, n, j - 1)) + 1, c[j - 1]>>)
<1> DEFINE x == c[j - 1]
           y == c[j]
           U == Rises(d, c, n, j)
           V == Rises(d, c, n, j - 1)
<1>1. j \in 0..n /\ j - 1 \in 0..n /\ (j - 1) + 1 = j /\ j \in Int
  OBVIOUS
<1>2. x \in Bucket /\ y \in Bucket
  BY <1>1
<1>3. U \in SUBSET (1..n) /\ V \in SUBSET (1..n)
  BY <1>1 DEF Rises
<1>4. IsFiniteSet(1..n)
  <2>1. 1 \in Int /\ n \in Int
    OBVIOUS
  <2> QED BY ONLY <2>1, FS_Interval
<1>5. IsFiniteSet(U) /\ IsFiniteSet(V)
  <2> HIDE DEF U, V
  <2> QED BY <1>3, <1>4, FS_Subset
<1>6. Cardinality(U) \in Nat /\ Cardinality(V) \in Nat
  BY <1>5, FS_CardinalityType
<1>7. /\ x \in Reachable[d][x] /\ y \in Reachable[d][y] /\ y \in Reachable[d][x]
      /\ Reachable[d][x] \in SUBSET Bucket /\ Reachable[d][y] \in SUBSET Bucket
  BY <1>2, SearchEnds
<1>8. Reachable[d][y] \subseteq Reachable[d][x]
  BY <1>2, <1>7, ReachableTransitive
<1>9. /\ IsFiniteSet(Reachable[d][x])
      /\ Cardinality(Reachable[d][x]) \in Nat /\ Cardinality(Reachable[d][y]) \in Nat
  BY <1>2, RoundsType
<1>10. U = {k \in j + 1..n : c[k] \in Scc(d, y) /\ ~Before(c[k], c[k - 1])}
  BY DEF Rises
<1>11. V = {k \in j..n : c[k] \in Scc(d, x) /\ ~Before(c[k], c[k - 1])}
  BY <1>1 DEF Rises
<1> HIDE DEF U, V, x, y
<1>12. CASE y \in Scc(d, x)
  <2>1. Scc(d, y) = Scc(d, x)
    BY <1>2, <1>12, SccsPartition
  <2>2. x \in Reachable[d][y]
    BY <1>12 DEF Scc
  <2>3. Reachable[d][x] = Reachable[d][y]
    BY <1>2, <1>8, <2>2, ReachableTransitive
  <2>4. j..n = {j} \cup (j + 1..n) /\ j \notin j + 1..n
    BY <1>1
  <2>5. CASE Before(y, x)
    <3>1. V = U
      BY <1>10, <1>11, <1>12, <2>1, <2>4, <2>5 DEF x, y
    <3>2. Cardinality(Reachable[d][y]) = Cardinality(Reachable[d][x])
          /\ Cardinality(U) + 1 = Cardinality(V) + 1
      BY <2>3, <3>1
    <3>3. Earlier(<<Cardinality(Reachable[d][y]), Cardinality(U) + 1, y>>,
                  <<Cardinality(Reachable[d][x]), Cardinality(V) + 1, x>>)
      BY <2>5, <3>2 DEF Earlier
    <3> QED BY <1>5, <3>3 DEF x, y, U, V
  <2>6. CASE ~Before(y, x)
    <3>1. V = U \cup {j} /\ j \notin U
      BY <1>10, <1>11, <1>12, <2>1, <2>4, <2>6 DEF x, y
    <3>2. Cardinality(V) = Cardinality(U) + 1
      BY <1>5, <3>1, FS_AddElement
    <3>3. Cardinality(U) + 1 < Cardinality(V) + 1
      BY <1>6, <3>2
    <3>4. Cardinality(Reachable[d][y]) = Cardinality(Reachable[d][x])
      BY <2>3
    <3>5. Earlier(<<Cardinality(Reachable[d][y]), Cardinality(U) + 1, y>>,
                  <<Cardinality(Reachable[d][x]), Cardinality(V) + 1, x>>)
      BY <3>3, <3>4 DEF Earlier
    <3> QED BY <1>5, <3>5 DEF x, y, U, V
  <2> QED BY <1>5, <2>5, <2>6 DEF U, V
<1>13. CASE y \notin Scc(d, x)
  <2>1. x \notin Reachable[d][y]
    BY <1>2, <1>7, <1>13 DEF Scc
  <2>2. /\ Cardinality(Reachable[d][y]) <= Cardinality(Reachable[d][x])
        /\ Cardinality(Reachable[d][y]) # Cardinality(Reachable[d][x])
    BY <1>7, <1>8, <1>9, <2>1, FS_Subset
  <2>3. Cardinality(Reachable[d][y]) < Cardinality(Reachable[d][x])
    BY <1>9, <2>2
  <2>4. Earlier(<<Cardinality(Reachable[d][y]), Cardinality(U) + 1, y>>,
                <<Cardinality(Reachable[d][x]), Cardinality(V) + 1, x>>)
    BY <2>3 DEF Earlier
  <2> QED BY <1>5, <2>4 DEF x, y, U, V
<1> QED BY <1>12, <1>13

\* A way to the terminal's buckets costs no less than the bound of the bucket in
\* which it starts, if the rounds suffice and nothing on it costs as much as Inf.
Way(d, have, cost, n, c, u, rest) ==
  /\ c[n][1] = Terminal(d) /\ rest[n] = 0
  /\ \A j \in 1..n : /\ u[j] \in have[d][c[j - 1]]
                     /\ c[j] = Target[d][c[j - 1]][u[j]]
                     /\ rest[j - 1] = cost[u[j]] + rest[j]
  /\ \A j \in 0..n : /\ rest[j] < Inf
                     /\ Cardinality(Rises(d, c, n, j)) < Rounds(Scc(d, c[j]))

\* By induction over the relaxations: when the step of a bucket on the way has been
\* made, its bound is not above the rest of the way.
LEMMA BoundOfWay ==
  ASSUME NEW d \in Dir, NEW have, ArcsOfBuckets(d, have), NEW cost \in [Arc -> Int],
         NEW n \in Nat, NEW c \in [0..n -> Bucket], NEW u \in [1..n -> Arc],
         NEW rest \in [0..n -> Int], Way(d, have, cost, n, c, u, rest)
  PROVE  CompletionBounds(d, have, cost)[c[0]] <= rest[0]
<1> DEFINE order == RelaxOrder[d]
           L == Len(order)
           x(j) == <<Cardinality(Reachable[d][c[j]]), Cardinality(Rises(d, c, n, j)) + 1, c[j]>>
<1>1. L \in Nat
  BY StepsHavePlaces
<1>2. PICK place \in [RelaxSteps(d) -> Nat] :
        \A z \in RelaxSteps(d) :
          /\ place[z] \in 1..L /\ order[place[z]] = z[3]
          /\ \A y \in RelaxSteps(d) : Earlier(y, z) => place[y] < place[z]
  BY StepsHavePlaces
<1>3. PICK after \in [0..L -> [Bucket -> Int]] :
        /\ after[0] = [b \in Bucket |-> IF b[1] = Terminal(d) THEN 0 ELSE Inf]
        /\ \A i \in 1..L : after[i] = Lowered(d, after[i - 1], order[i], have, cost)
        /\ CompletionBounds(d, have, cost) = Propagate(d, after[L])
  <2>1. ByRelaxing(d, have, cost)
    BY CompletionChain
  <2> QED BY <2>1 DEF ByRelaxing
<1>4. ASSUME NEW j \in 0..n
      PROVE  x(j) \in RelaxSteps(d) /\ x(j)[3] = c[j]
  <2>1. Rises(d, c, n, j) \in SUBSET (1..n) /\ IsFiniteSet(1..n)
    <3>1. 1 \in Int /\ n \in Int
      OBVIOUS
    <3>2. IsFiniteSet(1..n)
      BY ONLY <3>1, FS_Interval
    <3> QED BY <3>2 DEF Rises
  <2>2. IsFiniteSet(Rises(d, c, n, j))
    BY <2>1, FS_Subset
  <2>3. Cardinality(Rises(d, c, n, j)) \in Nat
    BY <2>2, FS_CardinalityType
  <2>4. /\ c[j] \in Bucket /\ Rounds(Scc(d, c[j])) \in Nat
        /\ Cardinality(Rises(d, c, n, j)) < Rounds(Scc(d, c[j]))
    BY RoundsType DEF Way
  <2>5. Cardinality(Rises(d, c, n, j)) + 1 \in 1..Rounds(Scc(d, c[j]))
    BY <2>3, <2>4
  <2> QED BY <2>4, <2>5, RelaxStepsType
<1>5. ASSUME NEW j \in 1..n
      PROVE  Earlier(x(j), x(j - 1)) /\ j - 1 \in 0..n /\ j \in 0..n
  <2>1. j - 1 \in 0..n /\ j \in 0..n
    OBVIOUS
  <2>2. /\ u[j] \in BuiltArcs[d][c[j - 1]] /\ c[j - 1] \in Bucket
        /\ c[j] = Target[d][c[j - 1]][u[j]]
    BY <2>1 DEF ArcsOfBuckets, Way
  <2>3. c[j] \in Successors[d][c[j - 1]]
    <3> DEFINE b == c[j - 1]
    <3>1. c[j] \in {Target[d][b][a] : a \in BuiltArcs[d][b]} /\ b \in Bucket
      BY <2>2
    <3> HIDE DEF b
    <3>2. c[j] \in Successors[d][b]
      BY <3>1 DEF Successors
    <3> QED BY <3>2 DEF b
  <2> QED BY <2>1, <2>3, WayBackIsLater
<1> DEFINE p == [j \in 0..n |-> place[x(j)]]
<1> HIDE DEF x, L, order
<1>6. /\ \A j \in 0..n : p[j] \in 1..L /\ order[p[j]] = c[j]
      /\ \A j \in 1..n : p[j] < p[j - 1]
  <2>1. ASSUME NEW j \in 0..n PROVE p[j] \in 1..L /\ order[p[j]] = c[j]
    BY <1>2, <1>4
  <2>2. ASSUME NEW j \in 1..n PROVE p[j] < p[j - 1]
    <3>1. j - 1 \in 0..n /\ j \in 0..n /\ Earlier(x(j), x(j - 1))
      BY <1>5
    <3>2. x(j) \in RelaxSteps(d) /\ x(j - 1) \in RelaxSteps(d)
      BY <1>4, <3>1
    <3> QED BY <1>2, <3>1, <3>2
  <2> QED BY <2>1, <2>2
<1> HIDE DEF p
<1>7. ASSUME NEW i \in 1..L
      PROVE  /\ i - 1 \in 0..L /\ i \in 0..L
             /\ after[i] \in [Bucket -> Int] /\ after[i - 1] \in [Bucket -> Int]
             /\ \A b \in Bucket : after[i][b] <= after[i - 1][b]
             /\ order[i] \in Bucket =>
                  \A a \in have[d][order[i]] :
                    after[i - 1][Target[d][order[i]][a]] < Inf =>
                      after[i][order[i]] <= cost[a] + after[i - 1][Target[d][order[i]][a]]
  <2>1. i - 1 \in 0..L /\ i \in 0..L
    BY <1>1
  <2>2. after[i - 1] \in [Bucket -> Int] /\ after[i] \in [Bucket -> Int]
    BY <2>1
  <2>3. after[i] = Lowered(d, after[i - 1], order[i], have, cost)
    BY <1>3
  <2> DEFINE f == after[i - 1]
             o == order[i]
  <2> HIDE DEF f, o
  <2>4. f \in [Bucket -> Int]
    BY <2>2 DEF f
  <2>5. /\ \A b \in Bucket : Lowered(d, f, o, have, cost)[b] <= f[b]
        /\ o \in Bucket =>
              \A a \in have[d][o] :
                f[Target[d][o][a]] < Inf =>
                  Lowered(d, f, o, have, cost)[o] <= cost[a] + f[Target[d][o][a]]
    BY <2>4, RelaxLowers
  <2>6. after[i] = Lowered(d, f, o, have, cost)
    BY <2>3 DEF f, o
  <2>7. /\ \A b \in Bucket : after[i][b] <= f[b]
        /\ o \in Bucket => \A a \in have[d][o] : f[Target[d][o][a]] < Inf =>
                              after[i][o] <= cost[a] + f[Target[d][o][a]]
    BY <2>5, <2>6
  <2> QED BY <2>1, <2>2, <2>7 DEF f, o
\* After the i-th relaxation the bounds of the buckets relaxed so far are down.
<1> DEFINE Down(i) == /\ after[i][c[n]] <= 0
                      /\ \A j \in 0..n : p[j] <= i => after[i][c[j]] <= rest[j]
           N == {i \in Nat : i <= L => Down(i)}
<1>8. 0 \in N
  <2>1. n \in 0..n
    OBVIOUS
  <2>2. after[0][c[n]] = 0
    <3>1. c[n] \in Bucket /\ c[n][1] = Terminal(d)
      BY <2>1 DEF Way
    <3> QED BY <1>3, <3>1
  <2>3. \A j \in 0..n : ~(p[j] <= 0)
    BY <1>1, <1>6
  <2> QED BY <2>2, <2>3
<1>9. ASSUME NEW i \in N PROVE i + 1 \in N
  <2> SUFFICES ASSUME i + 1 <= L PROVE Down(i + 1)
    OBVIOUS
  <2>1. i \in Nat /\ i + 1 \in 1..L /\ (i + 1) - 1 = i /\ i <= L
    BY <1>1
  <2>2. Down(i)
    BY <2>1
  <2> DEFINE k == i + 1
             f == after[i]
             g == after[k]
  <2>3. /\ f \in [Bucket -> Int] /\ g \in [Bucket -> Int]
        /\ \A b \in Bucket : g[b] <= f[b]
        /\ order[k] \in Bucket =>
             \A a \in have[d][order[k]] :
               f[Target[d][order[k]][a]] < Inf => g[order[k]] <= cost[a] + f[Target[d][order[k]][a]]
    BY <1>7, <2>1
  <2>4. k \in Nat /\ k = i + 1
    BY <2>1
  <2>5. f[c[n]] <= 0 /\ \A j \in 0..n : p[j] <= i => f[c[j]] <= rest[j]
    BY <2>2
  <2> HIDE DEF k, f, g, N
  <2>6. n \in 0..n /\ c[n] \in Bucket
    OBVIOUS
  <2>7. g[c[n]] <= 0
    <3>1. g[c[n]] <= f[c[n]] /\ g[c[n]] \in Int /\ f[c[n]] \in Int
      BY <2>3, <2>6
    <3> QED BY <2>5, <3>1
  <2>8. ASSUME NEW j \in 0..n, p[j] <= k
        PROVE  g[c[j]] <= rest[j]
    <3>1. /\ c[j] \in Bucket /\ rest[j] \in Int /\ p[j] \in Nat
          /\ g[c[j]] \in Int /\ f[c[j]] \in Int /\ g[c[j]] <= f[c[j]]
      <4>1. c[j] \in Bucket /\ rest[j] \in Int
        OBVIOUS
      <4>2. p[j] \in Nat
        BY <1>1, <1>6
      <4>3. g[c[j]] \in Int /\ f[c[j]] \in Int /\ g[c[j]] <= f[c[j]]
        BY <2>3, <4>1
      <4> QED BY <4>1, <4>2, <4>3
    <3>2. CASE p[j] <= i
      <4>1. f[c[j]] <= rest[j]
        BY <2>5, <3>2
      <4> QED BY <3>1, <4>1
    <3>3. CASE j = n
      <4>1. rest[j] = 0
        BY <3>3 DEF Way
      <4> QED BY <2>7, <3>3, <4>1
    <3>4. CASE ~(p[j] <= i) /\ j # n
      <4>1. p[j] = k
        <5>1. \A s, t \in Nat : ~(s <= t) /\ s <= t + 1 => s = t + 1
          OBVIOUS
        <5> QED BY <2>1, <2>4, <2>8, <3>1, <3>4, <5>1
      <4>2. j + 1 \in 1..n /\ j + 1 \in 0..n /\ (j + 1) - 1 = j
        BY <3>4
      <4>3. p[j + 1] < p[j] /\ p[j + 1] \in Nat
        <5>1. p[j + 1] < p[(j + 1) - 1] /\ p[j + 1] \in 1..L
          BY <1>6, <4>2
        <5> QED BY <1>1, <4>2, <5>1
      <4>4. f[c[j + 1]] <= rest[j + 1]
        BY <2>1, <2>4, <2>5, <4>1, <4>2, <4>3
      <4>5. /\ u[j + 1] \in have[d][c[j]] /\ c[j + 1] = Target[d][c[j]][u[j + 1]]
            /\ rest[j] = cost[u[j + 1]] + rest[j + 1] /\ rest[j + 1] < Inf
        BY <4>2 DEF Way
      <4>6. /\ c[j + 1] \in Bucket /\ f[c[j + 1]] \in Int /\ rest[j + 1] \in Int
            /\ cost[u[j + 1]] \in Int /\ Inf \in Int
        <5>1. c[j + 1] \in Bucket /\ rest[j + 1] \in Int /\ u[j + 1] \in Arc
          BY <4>2
        <5>2. f[c[j + 1]] \in Int /\ cost[u[j + 1]] \in Int
          BY <2>3, <5>1
        <5> QED BY <5>1, <5>2, ProblemAssumption
      <4>7. f[c[j + 1]] < Inf
        BY <4>4, <4>5, <4>6
      <4>8. order[k] = c[j]
        BY <1>6, <4>1
      <4>9. g[c[j]] <= cost[u[j + 1]] + f[c[j + 1]]
        BY <2>3, <3>1, <4>5, <4>7, <4>8
      <4> QED BY <3>1, <4>4, <4>5, <4>6, <4>9
    <3> QED BY <3>2, <3>3, <3>4
  <2>9. /\ g[c[n]] <= 0
        /\ \A j \in 0..n : p[j] <= k => g[c[j]] <= rest[j]
    BY <2>7, <2>8
  <2> QED BY <2>9 DEF g, k
<1> HIDE DEF N
<1>10. N = Nat
  <2>1. N \in SUBSET Nat
    BY DEF N
  <2> QED BY <1>8, <1>9, <2>1, InductOnNat
<1>11. after[L][c[0]] <= rest[0]
  <2>1. L \in N /\ L <= L /\ 0 \in 0..n
    BY <1>1, <1>10
  <2>3. Down(L)
    BY <2>1 DEF N
  <2>2. p[0] <= L
    BY <1>1, <1>6, <2>1
  <2> QED BY <2>1, <2>2, <2>3
<1>12. Propagate(d, after[L])[c[0]] <= after[L][c[0]]
  <2> DEFINE comp == after[L]
             b == c[0]
             S == {comp[e] : e \in {z \in BucketsAt(b[1]) : UpTo(d, b, z)}}
  <2>1. comp \in [Bucket -> Int] /\ b \in Bucket
    BY <1>1
  <2>2. BucketsAt(b[1]) \subseteq Bucket /\ b \in BucketsAt(b[1])
    BY <2>1, BucketType DEF Bucket, BucketsAt
  <2>3. UpTo(d, b, b)
    <3>1. \A r \in Res : b[2][r] \in Int
      BY <2>1, BucketType
    <3> QED BY <3>1 DEF UpTo
  <2> HIDE DEF comp, b
  <2>4. Propagate(d, comp)[b] = Least(S)
    BY <2>1 DEF Propagate
  <2>5. S \in SUBSET Int /\ comp[b] \in S
    BY <2>1, <2>2, <2>3
  <2>6. IsFiniteSet(S)
    <3> DEFINE Z == {z \in BucketsAt(b[1]) : UpTo(d, b, z)}
               f == [z \in Z |-> comp[z]]
    <3>1. Z \in SUBSET Bucket
      BY <2>2
    <3>2. IsFiniteSet(Z)
      BY <3>1, BucketsFinite, FS_Subset
    <3>3. f \in [Z -> S] /\ \A s \in S : \E z \in Z : f[z] = s
      OBVIOUS
    <3> HIDE DEF f, Z, S
    <3> QED BY <3>2, <3>3, ImageFinite
  <2> HIDE DEF S
  <2>7. \E y \in S : \A z \in S : y <= z
    BY <2>5, <2>6, FiniteHasLeast
  <2>8. Least(S) <= comp[b]
    BY <2>5, <2>7 DEF Least
  <2> QED BY <2>4, <2>8 DEF comp, b
<1>13. Propagate(d, after[L])[c[0]] \in Int /\ after[L][c[0]] \in Int /\ rest[0] \in Int
  <2>1. after[L] \in [Bucket -> Int] /\ c[0] \in Bucket /\ rest[0] \in Int
    BY <1>1
  <2>2. BucketsAt(c[0][1]) \subseteq Bucket
    BY <2>1, BucketType DEF Bucket
  <2>3. {after[L][e] : e \in {z \in BucketsAt(c[0][1]) : UpTo(d, c[0], z)}} \in SUBSET Int
    BY <2>1, <2>2
  <2>4. Propagate(d, after[L])[c[0]] \in Int
    BY <2>1, <2>3, LeastType DEF Propagate
  <2> QED BY <2>1, <2>4
<1> QED BY <1>3, <1>11, <1>12, <1>13

-----------------------------------------------------------------------------
\* A feasible walk arrives within its last vertex's window.
LEMMA ReachedWithin ==
  ASSUME NEW w \in PartialWalks
  PROVE  \A r \in Res : /\ Lb[EndOf(w)][r] <= ReachedWith(w)[r]
                        /\ ReachedWith(w)[r] <= Ub[EndOf(w)][r]
<1>1. w \in Seq(Arc) /\ Len(w) \in Nat
  BY Beginnings
<1>2. /\ EndOf(w) \in Vertex /\ ReachedWith(w) \in [Res -> Int]
      /\ \A r \in Res : ReachedWith(w)[r] >= Lb[EndOf(w)][r]
  BY <1>1, ReachedType
<1>3. \A r \in Res : Lb[EndOf(w)][r] <= ReachedWith(w)[r]
  BY <1>2, TableType
<1>4. CASE Len(w) = 0
  <2>1. w = <<>>
    BY <1>1, <1>4
  <2>2. /\ EndOf(w) = Source /\ Source \in Vertex
        /\ \A r \in Res : Lb[Source][r] <= Ub[Source][r] /\ Earliest(<<>>, 1, r) = Lb[Source][r]
    BY <1>1, <2>1, VisitedType, ProblemAssumption, EarliestAtStart
  <2>3. \A r \in Res : ReachedWith(w)[r] = Lb[Source][r]
    <3>1. ReachedWith(w) = [r \in Res |-> Earliest(w, Len(w) + 1, r)]
      BY DEF ReachedWith
    <3> QED BY <1>4, <2>1, <2>2, <3>1
  <2> QED BY <1>3, <2>2, <2>3
<1>5. CASE Len(w) # 0
  <2>1. Len(w) \in 1..Len(w) /\ SubSeq(w, 1, Len(w)) = w /\ Len(w) + 1 \in 1..Len(w) + 1
    BY <1>1, <1>5
  <2>2. Feasible(w)
    <3>1. Feasible(SubSeq(w, 1, Len(w)))
      BY <2>1, Beginnings
    <3> QED BY <2>1, <3>1
  <2>3. \A r \in Res : Earliest(w, Len(w) + 1, r) <= Ub[EndOf(w)][r]
    BY <2>1, <2>2 DEF Feasible, EndOf
  <2>4. \A r \in Res : ReachedWith(w)[r] = Earliest(w, Len(w) + 1, r)
    BY DEF ReachedWith
  <2> QED BY <1>3, <2>3, <2>4
<1> QED BY <1>4, <1>5

\* The bucket of a path after its k-th arc.
Passed(w, k) == BucketAfter[SubSeq(w, 1, k)]

LEMMA PassedType ==
  ASSUME NEW w \in PartialWalks, NEW k \in 0..Len(w)
  PROVE  LET u == SubSeq(w, 1, k)
         IN /\ u \in PartialWalks /\ u \in Seq(Arc) /\ EndOf(u) \in Vertex
            /\ ReachedWith(u) \in [Res -> Int]
            /\ Passed(w, k) = BucketOf(EndOf(u), ReachedWith(u))
            /\ Passed(w, k) \in Bucket /\ Passed(w, k)[1] = EndOf(u)
            /\ EndOf(u) = Visited(w)[k + 1]
<1> DEFINE u == SubSeq(w, 1, k)
<1>1. u \in PartialWalks /\ u \in Seq(Arc) /\ w \in Seq(Arc) /\ Len(w) \in Nat
  BY Beginnings, LayersAreWalks
<1>2. Len(u) = k /\ k \in Nat /\ k + 1 \in 1..k + 1 /\ k + 1 \in 1..Len(w) + 1
      /\ (k + 1) - 1 = k /\ (k + 1 = 1 <=> k = 0) /\ (k # 0 => u[k] = w[k])
  BY <1>1
<1>3. EndOf(u) = Visited(w)[k + 1]
  <2>1. EndOf(u) = Visited(u)[k + 1]
    BY <1>2 DEF EndOf
  <2>2. Visited(u)[k + 1] = IF k + 1 = 1 THEN Source ELSE To[u[k]]
    BY <1>2 DEF Visited
  <2>3. Visited(w)[k + 1] = IF k + 1 = 1 THEN Source ELSE To[w[k]]
    BY <1>2 DEF Visited
  <2> HIDE DEF u
  <2> QED BY <1>2, <2>1, <2>2, <2>3
<1> HIDE DEF u
<1>4. EndOf(u) \in Vertex /\ ReachedWith(u) \in [Res -> Int]
  BY <1>1, ReachedType
<1>5. Arrival[u].v = EndOf(u) /\ Arrival[u].q = ReachedWith(u)
  BY <1>1 DEF Arrival, ReachedWith
<1>6. BucketAfter[u] = BucketOf(EndOf(u), ReachedWith(u))
  BY <1>1, <1>5 DEF BucketAfter
<1> QED BY <1>1, <1>3, <1>4, <1>6, BucketOfType DEF Passed, u

-----------------------------------------------------------------------------
\* Of two buckets of a vertex the one before has the better corner.
LEMMA CornersDescend ==
  ASSUME NEW d \in Dir, NEW x \in Bucket, NEW b \in Bucket, UpTo(d, x, b)
  PROVE  AtLeastAsGood(d, Corner(d, x), Corner(d, b))
<1> DEFINE v == b[1]
<1>1. /\ x[1] = v /\ v \in Vertex
      /\ \A r \in Res : IF d = "fw" THEN x[2][r] <= b[2][r] ELSE x[2][r] >= b[2][r]
  BY BucketType DEF UpTo
<1> HIDE DEF v
<1>2. ASSUME NEW r \in Res
      PROVE  /\ d = "fw" => BucketLb(x)[r] <= BucketLb(b)[r]
             /\ d # "fw" => BucketUb(x)[r] >= BucketUb(b)[r]
  <2>1. /\ Step[v][r] \in Nat /\ Lb[v][r] \in Int /\ Ub[v][r] \in Int
        /\ x[2][r] \in Int /\ b[2][r] \in Int
    <3>1. Step[v] \in [Res -> Nat \ {0}]
      BY <1>1, StepAssumption
    <3> QED BY <1>1, <3>1, TableType, BucketType
  <2>2. /\ x[2][r] <= b[2][r] => x[2][r] * Step[v][r] <= b[2][r] * Step[v][r]
        /\ x[2][r] >= b[2][r] => x[2][r] * Step[v][r] >= b[2][r] * Step[v][r]
    <3>1. \A m, n \in Int : \A s \in Nat : m <= n => m * s <= n * s
      OBVIOUS
    <3> QED BY <2>1, <3>1
  <2>3. /\ x[2][r] * Step[v][r] \in Int /\ b[2][r] * Step[v][r] \in Int
    BY <2>1
  <2>4. /\ BucketLb(x)[r] = Lb[v][r] + x[2][r] * Step[v][r]
        /\ BucketLb(b)[r] = Lb[v][r] + b[2][r] * Step[v][r]
    BY <1>1 DEF BucketLb, v
  <2>5. /\ BucketUb(x)[r] = Smaller(BucketLb(x)[r] + Step[v][r], Ub[v][r])
        /\ BucketUb(b)[r] = Smaller(BucketLb(b)[r] + Step[v][r], Ub[v][r])
    BY <1>1 DEF BucketUb, v
  <2> DEFINE m == x[2][r] * Step[v][r]
             n == b[2][r] * Step[v][r]
  <2>6. IF d = "fw" THEN m <= n ELSE m >= n
    BY <1>1, <2>2
  <2> HIDE DEF m, n
  <2>7. d = "fw" => Lb[v][r] + m <= Lb[v][r] + n
    BY <2>1, <2>3, <2>6 DEF m, n
  <2>8. d # "fw" => Smaller((Lb[v][r] + m) + Step[v][r], Ub[v][r])
                      >= Smaller((Lb[v][r] + n) + Step[v][r], Ub[v][r])
    BY <2>1, <2>3, <2>6 DEF Smaller, m, n
  <2> QED BY <2>4, <2>5, <2>7, <2>8 DEF m, n
<1>3. /\ BucketLb(x) \in [Res -> Int] /\ BucketLb(b) \in [Res -> Int]
      /\ BucketUb(x) \in [Res -> Int] /\ BucketUb(b) \in [Res -> Int]
  BY CornerType
<1> QED BY <1>2, <1>3 DEF AtLeastAsGood, Corner

\* So the buckets before another one of the same vertex have all of its arcs.
LEMMA ArcsDescend ==
  ASSUME NEW d \in Dir, NEW x \in Bucket, NEW b \in Bucket, UpTo(d, x, b),
         NEW a \in BuiltArcs[d][b]
  PROVE  a \in BuiltArcs[d][x]
<1> DEFINE z == Ahead(d, a)
           best == Advance(d, Corner(d, x), a)
           mine == Advance(d, Corner(d, b), a)
<1>1. x[1] = b[1] /\ a \in ArcsAt(d, b[1]) /\ a \in Arc /\ InWindow(d, z, mine)
  BY DEF UpTo, BuiltArcs, ArcsAt
<1>2. z \in Vertex /\ Corner(d, x) \in [Res -> Int] /\ Corner(d, b) \in [Res -> Int]
  BY <1>1, AheadType, CornerType DEF Corner
<1>3. best \in [Res -> Int] /\ mine \in [Res -> Int] /\ AtLeastAsGood(d, best, mine)
  BY <1>1, <1>2, CornersDescend, AdvanceType, AdvanceMonotone
<1> HIDE DEF best, mine, z
<1>4. InWindow(d, z, best)
  <2>1. \A r \in Res : Lb[z][r] \in Int /\ Ub[z][r] \in Int
    BY <1>2, TableType
  <2> QED BY <1>1, <1>3, <2>1 DEF InWindow, AtLeastAsGood
<1> QED BY <1>1, <1>4 DEF BuiltArcs, best, z

\* The best corner of a bucket at or before that of a label takes every arc that
\* the label can take, and leads to a bucket at or before wherever the arc takes it.
LEMMA CornerTakesArc ==
  ASSUME NEW d \in Dir, NEW x \in Bucket, NEW v \in Vertex, NEW q \in [Res -> Int],
         \A r \in Res : IF d = "fw" THEN q[r] >= Lb[v][r] ELSE q[r] <= Ub[v][r],
         UpTo(d, x, BucketOf(v, q)), NEW a \in ArcsAt(d, v), NEW p \in [Res -> Int],
         AtLeastAsGood(d, Advance(d, q, a), p), InWindow(d, Ahead(d, a), p)
  PROVE  /\ a \in BuiltArcs[d][x] /\ Target[d][x][a] \in Bucket
         /\ UpTo(d, Target[d][x][a], BucketOf(Ahead(d, a), p))
<1> DEFINE b == BucketOf(v, q)
           best == Advance(d, Corner(d, x), a)
           mine == Advance(d, q, a)
           z == Ahead(d, a)
<1>1. /\ a \in Arc /\ b \in Bucket /\ b[1] = v /\ x[1] = v /\ z \in Vertex
      /\ \A r \in Res : IF d = "fw" THEN x[2][r] <= b[2][r] ELSE x[2][r] >= b[2][r]
  BY BucketOfType, AheadType DEF ArcsAt, UpTo
<1>2. AtLeastAsGood(d, Corner(d, x), q)
  <2>1. AtLeastAsGood(d, Corner(d, b), q)
    BY CornerIsBest
  <2>2. AtLeastAsGood(d, Corner(d, x), Corner(d, b))
    BY <1>1, CornersDescend
  <2>3. Corner(d, x) \in [Res -> Int] /\ Corner(d, b) \in [Res -> Int]
    BY <1>1, CornerType DEF Corner
  <2> HIDE DEF b
  <2> QED BY <2>1, <2>2, <2>3 DEF AtLeastAsGood
<1>3. Corner(d, x) \in [Res -> Int] /\ best \in [Res -> Int] /\ mine \in [Res -> Int]
  BY <1>1, CornerType, AdvanceType DEF Corner
<1>4. AtLeastAsGood(d, best, mine)
  BY <1>1, <1>2, <1>3, AdvanceMonotone
<1> HIDE DEF best, mine, b
<1>5. AtLeastAsGood(d, best, p)
  BY <1>3, <1>4 DEF AtLeastAsGood, mine
<1> HIDE DEF z
<1>6. InWindow(d, z, best)
  <2>1. \A r \in Res : Lb[z][r] \in Int /\ Ub[z][r] \in Int
    BY <1>1, TableType
  <2> QED BY <1>3, <1>5, <2>1 DEF InWindow, AtLeastAsGood, z
<1>7. a \in BuiltArcs[d][x]
  <2>1. a \in ArcsAt(d, x[1])
    BY <1>1
  <2> QED BY <1>6, <2>1 DEF BuiltArcs, best, z
<1>8. Target[d][x][a] = BucketOf(z, best)
  BY <1>7 DEF Target, best, z
<1>9. UpTo(d, BucketOf(z, best), BucketOf(z, p))
  BY <1>1, <1>3, <1>5, BucketOfMonotone
<1>10. Target[d][x][a] \in Bucket
  BY <1>7, TargetType
<1> QED BY <1>7, <1>8, <1>9, <1>10 DEF z

\* So does the corner of a bucket at or before that of a path along the path's next
\* arc, in the direction of the labels.
LEMMA CornerFollows ==
  ASSUME NEW d \in Dir, NEW w \in PartialWalks, NEW k \in 1..Len(w), NEW x \in Bucket,
         UpTo(d, x, Passed(w, IF d = "fw" THEN k - 1 ELSE k))
  PROVE  /\ w[k] \in BuiltArcs[d][x] /\ Target[d][x][w[k]] \in Bucket
         /\ UpTo(d, Target[d][x][w[k]], Passed(w, IF d = "fw" THEN k ELSE k - 1))
<1> DEFINE a == w[k]
           u == SubSeq(w, 1, k - 1)
           v == SubSeq(w, 1, k)
           p == ReachedWith(u)
           q == ReachedWith(v)
<1>1. k - 1 \in 0..Len(w) /\ k \in 0..Len(w)
  <2>1. Len(w) \in Nat
    BY Beginnings
  <2> QED BY <2>1
<1>2. /\ v = Append(u, a) /\ a \in Arc /\ From[a] = EndOf(u) /\ Feasible(Append(u, a))
  <2>1. SubSeq(w, 1, k) = Append(SubSeq(w, 1, k - 1), w[k]) /\ w[k] \in Arc
        /\ From[w[k]] = EndOf(SubSeq(w, 1, k - 1)) /\ Feasible(SubSeq(w, 1, k))
    BY Beginnings
  <2> QED BY <2>1
<1>3. /\ u \in PartialWalks /\ u \in Seq(Arc) /\ EndOf(u) \in Vertex /\ p \in [Res -> Int]
      /\ Passed(w, k - 1) = BucketOf(EndOf(u), p)
  BY <1>1, PassedType
<1>4. /\ v \in PartialWalks /\ v \in Seq(Arc) /\ EndOf(v) \in Vertex /\ q \in [Res -> Int]
      /\ Passed(w, k) = BucketOf(EndOf(v), q)
  BY <1>1, PassedType
<1> HIDE DEF a, u, v
<1>5. q = Advance("fw", p, a) /\ EndOf(v) = To[a]
  BY <1>2, <1>3, ReachedByArc
<1>6. /\ \A r \in Res : Lb[EndOf(u)][r] <= p[r] /\ p[r] <= Ub[EndOf(u)][r]
      /\ \A r \in Res : Lb[EndOf(v)][r] <= q[r] /\ q[r] <= Ub[EndOf(v)][r]
  BY <1>3, <1>4, ReachedWithin
<1> HIDE DEF p, q
<1>7. \A r \in Res : /\ Lb[EndOf(u)][r] \in Int /\ Ub[EndOf(u)][r] \in Int
                     /\ Lb[EndOf(v)][r] \in Int /\ Ub[EndOf(v)][r] \in Int
                     /\ Use[a][r] \in Int /\ p[r] \in Int /\ q[r] \in Int
  BY <1>2, <1>3, <1>4, TableType
<1>8. CASE d = "fw"
  <2>1. a \in ArcsAt("fw", EndOf(u)) /\ Ahead("fw", a) = EndOf(v) /\ "fw" \in Dir
    BY <1>2, <1>5, <1>8 DEF ArcsAt, Behind, Ahead
  <2>2. AtLeastAsGood("fw", Advance("fw", p, a), q) /\ InWindow("fw", EndOf(v), q)
    BY <1>5, <1>6, <1>7 DEF AtLeastAsGood, InWindow
  <2>3. UpTo("fw", x, BucketOf(EndOf(u), p))
    BY <1>3, <1>8
  <2>4. \A r \in Res : IF "fw" = "fw" THEN p[r] >= Lb[EndOf(u)][r] ELSE p[r] <= Ub[EndOf(u)][r]
    BY <1>6, <1>7
  <2>5. /\ a \in BuiltArcs["fw"][x] /\ Target["fw"][x][a] \in Bucket
        /\ UpTo("fw", Target["fw"][x][a], BucketOf(EndOf(v), q))
    BY <1>3, <1>4, <2>1, <2>2, <2>3, <2>4, CornerTakesArc
  <2> QED BY <1>4, <1>8, <2>5 DEF a
<1>9. CASE d = "bw"
  <2>1. a \in ArcsAt("bw", EndOf(v)) /\ Ahead("bw", a) = EndOf(u) /\ "bw" \in Dir
    BY <1>2, <1>5, <1>9 DEF ArcsAt, Behind, Ahead
  <2>2. AtLeastAsGood("bw", Advance("bw", q, a), p) /\ InWindow("bw", EndOf(u), p)
    <3>1. InWindow("bw", EndOf(u), p)
      BY <1>6, <1>7 DEF InWindow
    <3>2. ASSUME NEW r \in Res PROVE Advance("bw", q, a)[r] >= p[r]
      <4>1. Advance("bw", q, a)[r] = Smaller(q[r] - Use[a][r], Ub[EndOf(u)][r])
        BY <1>2 DEF Advance
      <4>2. q[r] = Larger(p[r] + Use[a][r], Lb[To[a]][r]) /\ Lb[To[a]][r] \in Int
        BY <1>5, <1>7 DEF Advance
      <4> QED BY <1>6, <1>7, <4>1, <4>2 DEF Larger, Smaller
    <3> QED BY <3>1, <3>2 DEF AtLeastAsGood
  <2>3. UpTo("bw", x, BucketOf(EndOf(v), q))
    BY <1>4, <1>9
  <2>4. \A r \in Res : IF "bw" = "fw" THEN q[r] >= Lb[EndOf(v)][r] ELSE q[r] <= Ub[EndOf(v)][r]
    BY <1>6, <1>7
  <2>5. /\ a \in BuiltArcs["bw"][x] /\ Target["bw"][x][a] \in Bucket
        /\ UpTo("bw", Target["bw"][x][a], BucketOf(EndOf(u), p))
    BY <1>3, <1>4, <2>1, <2>2, <2>3, <2>4, CornerTakesArc
  <2> QED BY <1>3, <1>9, <2>5 DEF a
<1> QED BY <1>8, <1>9 DEF Dir

-----------------------------------------------------------------------------
\* A label of direction d that stands after the i-th arc of path w makes so many steps
\* to the path's end, at its j-th step takes the arc of this number, and then
\* stands after the arc of that number.
Steps(d, w, i) == IF d = "fw" THEN Len(w) - i ELSE i
ArcNo(d, i, j) == IF d = "fw" THEN i + j ELSE (i - j) + 1
Spot(d, i, j) == IF d = "fw" THEN i + j ELSE i - j

LEMMA RestParts ==
  ASSUME NEW d \in Dir, NEW w \in PartialWalks, NEW i \in 0..Len(w)
  PROVE  LET u == AsTaken(d, w, i)
             n == Steps(d, w, i)
         IN /\ w \in Seq(Arc) /\ Len(w) \in Nat /\ i \in Nat
            /\ n \in Nat /\ u \in Seq(Arc) /\ Len(u) = n /\ Rest(d, w, i) \in Seq(Arc)
            /\ Spot(d, i, 0) = i /\ Spot(d, i, n) = IF d = "fw" THEN Len(w) ELSE 0
            /\ \A j \in 0..n : Spot(d, i, j) \in 0..Len(w)
            /\ \A j \in 1..n :
                 /\ u[j] = w[ArcNo(d, i, j)] /\ ArcNo(d, i, j) \in 1..Len(w)
                 /\ Spot(d, i, j - 1) = IF d = "fw" THEN ArcNo(d, i, j) - 1 ELSE ArcNo(d, i, j)
                 /\ Spot(d, i, j) = IF d = "fw" THEN ArcNo(d, i, j) ELSE ArcNo(d, i, j) - 1
                 /\ j - 1 \in 0..n /\ j \in 0..n /\ j \in Nat /\ j # 0
<1>1. w \in Seq(Arc) /\ Len(w) \in Nat /\ i \in Nat /\ i <= Len(w)
  <2>1. w \in Seq(Arc) /\ Len(w) \in Nat
    BY Beginnings
  <2> QED BY <2>1
<1>2. CASE d = "fw"
  <2> DEFINE u == SubSeq(w, i + 1, Len(w))
             n == Len(w) - i
  <2>1. /\ n \in Nat /\ u \in Seq(Arc) /\ Len(u) = n /\ \A j \in 1..n : u[j] = w[i + j]
    BY <1>1
  <2>2. /\ AsTaken(d, w, i) = u /\ Rest(d, w, i) = u /\ Steps(d, w, i) = n
        /\ \A j : ArcNo(d, i, j) = i + j /\ Spot(d, i, j) = i + j
    BY <1>2 DEF AsTaken, Rest, Steps, ArcNo, Spot
  <2> HIDE DEF u
  <2>3. i + 0 = i /\ i + n = Len(w) /\ \A j \in 0..n : i + j \in 0..Len(w)
    BY <1>1
  <2>4. \A j \in 1..n : /\ i + j \in 1..Len(w) /\ i + (j - 1) = (i + j) - 1
                        /\ j - 1 \in 0..n /\ j \in 0..n /\ j \in Nat /\ j # 0
    BY <1>1
  <2>5. /\ AsTaken(d, w, i) \in Seq(Arc) /\ Len(AsTaken(d, w, i)) = n /\ Rest(d, w, i) \in Seq(Arc)
        /\ Steps(d, w, i) = n /\ n \in Nat
        /\ Spot(d, i, 0) = i /\ Spot(d, i, n) = Len(w)
        /\ \A j \in 0..n : Spot(d, i, j) \in 0..Len(w)
    BY <2>1, <2>2, <2>3
  <2>6. ASSUME NEW j \in 1..n
        PROVE  /\ AsTaken(d, w, i)[j] = w[ArcNo(d, i, j)] /\ ArcNo(d, i, j) \in 1..Len(w)
               /\ Spot(d, i, j - 1) = ArcNo(d, i, j) - 1 /\ Spot(d, i, j) = ArcNo(d, i, j)
               /\ j - 1 \in 0..n /\ j \in 0..n /\ j \in Nat /\ j # 0
    BY <2>1, <2>2, <2>4
  <2> HIDE DEF n
  <2> QED BY <1>1, <1>2, <2>5, <2>6
<1>3. CASE d = "bw"
  <2> DEFINE s == SubSeq(w, 1, i)
             u == Backwards(s)
  <2>1. s \in Seq(Arc) /\ Len(s) = i /\ \A k \in 1..i : s[k] = w[k]
    BY <1>1
  <2> HIDE DEF s
  <2>2. u = [k \in 1..i |-> s[(i + 1) - k]]
    BY <2>1 DEF Backwards
  <2>3. \A k \in 1..i : (i + 1) - k \in 1..i /\ (i + 1) - k = (i - k) + 1 /\ (i - k) + 1 \in 1..Len(w)
    BY <1>1
  <2>4. u \in Seq(Arc) /\ Len(u) = i
    <3>1. \A k \in 1..i : s[(i + 1) - k] \in Arc
      BY <2>1, <2>3
    <3> HIDE DEF u
    <3>2. u \in [1..i -> Arc]
      BY <2>2, <3>1
    <3> QED BY <1>1, <3>2
  <2>5. \A j \in 1..i : u[j] = w[(i - j) + 1]
    <3> HIDE DEF u
    <3> QED BY <2>1, <2>2, <2>3
  <2>6. /\ AsTaken(d, w, i) = u /\ Rest(d, w, i) = s /\ Steps(d, w, i) = i
        /\ \A j : ArcNo(d, i, j) = (i - j) + 1 /\ Spot(d, i, j) = i - j
    BY <1>3 DEF AsTaken, Rest, Steps, ArcNo, Spot, s
  <2> HIDE DEF u
  <2>7. i - 0 = i /\ i - i = 0 /\ \A j \in 0..i : i - j \in 0..Len(w)
    BY <1>1
  <2>8. \A j \in 1..i : /\ i - (j - 1) = (i - j) + 1 /\ ((i - j) + 1) - 1 = i - j
                        /\ j - 1 \in 0..i /\ j \in 0..i /\ j \in Nat /\ j # 0
    BY <1>1
  <2> QED BY <1>1, <1>3, <2>1, <2>3, <2>4, <2>5, <2>6, <2>7, <2>8
<1> QED BY <1>2, <1>3 DEF Dir

\* Along what a path has before it the best corners lead from bucket to bucket, each
\* at or before the bucket of the path itself.
Leads(d, w, i, c) ==
  LET u == AsTaken(d, w, i)
  IN /\ c \in [0..Len(u) -> Bucket] /\ c[0] = Passed(w, i)
     /\ \A j \in 1..Len(u) : u[j] \in BuiltArcs[d][c[j - 1]]
                             /\ c[j] = Target[d][c[j - 1]][u[j]]
     /\ \A j \in 0..Len(u) : UpTo(d, c[j], Passed(w, Spot(d, i, j)))

\* By induction over the arcs: what a label can take, the best corner of a bucket at
\* or before its own can take.
LEMMA CornersLead ==
  ASSUME NEW d \in Dir, NEW w \in PartialWalks, NEW i \in 0..Len(w)
  PROVE  Leads(d, w, i, CornerWalk(d, Passed(w, i), AsTaken(d, w, i)))
<1> DEFINE n == Steps(d, w, i)
           u == AsTaken(d, w, i)
           B(j) == Passed(w, Spot(d, i, j))
<1>1. /\ w \in Seq(Arc) /\ Len(w) \in Nat /\ u \in Seq(Arc) /\ Len(u) = n /\ n \in Nat
      /\ B(0) = Passed(w, i)
      /\ \A j \in 0..n : Spot(d, i, j) \in 0..Len(w)
  BY RestParts
<1>2. \A j \in 1..n :
        /\ u[j] = w[ArcNo(d, i, j)] /\ ArcNo(d, i, j) \in 1..Len(w)
        /\ Spot(d, i, j - 1) = IF d = "fw" THEN ArcNo(d, i, j) - 1 ELSE ArcNo(d, i, j)
        /\ Spot(d, i, j) = IF d = "fw" THEN ArcNo(d, i, j) ELSE ArcNo(d, i, j) - 1
        /\ j - 1 \in 0..n /\ j \in 0..n /\ j \in Nat /\ j # 0
  BY RestParts
<1> HIDE DEF u, n
<1>3. \A j \in 0..n : B(j) \in Bucket
  BY <1>1, PassedType
<1>4. ASSUME NEW j \in 1..n, NEW x \in Bucket, UpTo(d, x, B(j - 1))
      PROVE  /\ u[j] \in BuiltArcs[d][x] /\ Target[d][x][u[j]] \in Bucket
             /\ UpTo(d, Target[d][x][u[j]], B(j))
  <2>1. PICK k \in 1..Len(w) : /\ u[j] = w[k]
                               /\ B(j - 1) = Passed(w, IF d = "fw" THEN k - 1 ELSE k)
                               /\ B(j) = Passed(w, IF d = "fw" THEN k ELSE k - 1)
    BY <1>2
  <2> HIDE DEF B
  <2> QED BY <1>4, <2>1, CornerFollows
<1>5. 0 \in 0..n /\ n \in 0..n
  BY <1>1
<1> HIDE DEF B
<1> DEFINE onward(k, x) == IF k \in 1..n /\ u[k] \in BuiltArcs[d][x] THEN Target[d][x][u[k]] ELSE x
           F == [k \in Nat |-> [x \in Bucket |-> onward(k, x)]]
<1>6. F \in [Nat -> [Bucket -> Bucket]]
  <2>1. \A k \in Nat, x \in Bucket : onward(k, x) \in Bucket
    BY TargetType
  <2> HIDE DEF onward
  <2> QED BY <2>1
<1>7. \A k \in 1..n : \A x \in Bucket :
        u[k] \in BuiltArcs[d][x] => F[k][x] = Target[d][x][u[k]]
  BY <1>2
<1> HIDE DEF F
<1>8. PICK g \in [Nat -> Bucket] : \A k \in Nat : g[k] = IF k = 0 THEN B(0) ELSE F[k][g[k - 1]]
  <2>1. Recursive(Bucket)
    BY RecursionIn
  <2>2. B(0) \in Bucket
    BY <1>3, <1>5
  <2> QED BY <1>6, <2>1, <2>2 DEF Recursive
<1>9. g[0] = B(0) /\ \A k \in 1..n : g[k] = F[k][g[k - 1]]
  BY <1>2, <1>8
<1>10. \A k \in 0..n : g[k] \in Bucket
  BY <1>1
<1>11. \A k \in 0..n : UpTo(d, g[k], B(k))
  <2> DEFINE M == {k \in Nat : k <= n => UpTo(d, g[k], B(k))}
  <2>1. 0 \in M
    <3>1. UpTo(d, B(0), B(0))
      <4>1. \A r \in Res : B(0)[2][r] \in Int
        BY <1>3, <1>5, BucketType
      <4> QED BY <4>1 DEF UpTo
    <3> QED BY <1>9, <3>1
  <2>2. ASSUME NEW k \in M PROVE k + 1 \in M
    <3>1. k \in Nat /\ (k + 1 <= n => k + 1 \in 1..n /\ k <= n) /\ (k + 1) - 1 = k
      BY <1>1
    <3>2. ASSUME k + 1 <= n PROVE UpTo(d, g[k + 1], B(k + 1))
      <4>1. UpTo(d, g[k], B(k)) /\ k \in 0..n /\ g[k] \in Bucket
        BY <1>1, <1>10, <3>1, <3>2
      <4>2. /\ u[k + 1] \in BuiltArcs[d][g[k]]
            /\ UpTo(d, Target[d][g[k]][u[k + 1]], B(k + 1))
        BY <1>4, <3>1, <3>2, <4>1
      <4>3. g[k + 1] = Target[d][g[k]][u[k + 1]]
        BY <1>7, <1>9, <3>1, <3>2, <4>1, <4>2
      <4> QED BY <4>2, <4>3
    <3> QED BY <3>1, <3>2
  <2> HIDE DEF M
  <2>3. M = Nat
    <3>1. M \in SUBSET Nat
      BY DEF M
    <3> QED BY <2>1, <2>2, <3>1, InductOnNat
  <2>4. \A k \in 0..n : k \in Nat /\ k <= n
    BY <1>1
  <2> QED BY <2>3, <2>4 DEF M
<1>12. ASSUME NEW k \in 1..n
       PROVE  u[k] \in BuiltArcs[d][g[k - 1]] /\ g[k] = Target[d][g[k - 1]][u[k]]
  <2>1. UpTo(d, g[k - 1], B(k - 1)) /\ g[k - 1] \in Bucket
    BY <1>2, <1>10, <1>11
  <2>2. u[k] \in BuiltArcs[d][g[k - 1]]
    BY <1>4, <2>1
  <2> QED BY <1>7, <1>9, <2>1, <2>2
<1> DEFINE b == Passed(w, i)
           Equation(c) == c = [j \in 0..n |-> IF j = 0 THEN b ELSE Target[d][c[j - 1]][u[j]]]
           h == [j \in 0..n |-> g[j]]
           s == CHOOSE c : Equation(c)
<1>13. b = B(0)
  BY <1>1
<1> HIDE DEF b
<1>14. Equation(h)
  <2>1. \A j \in 0..n : j # 0 => j \in 1..n
    BY <1>1
  <2>2. \A j \in 0..n : h[j] = g[j]
    OBVIOUS
  <2>3. ASSUME NEW j \in 0..n PROVE h[j] = IF j = 0 THEN b ELSE Target[d][h[j - 1]][u[j]]
    <3>1. CASE j = 0
      BY <1>9, <1>13, <2>2, <3>1
    <3>2. CASE j # 0
      <4>1. j \in 1..n /\ j - 1 \in 0..n
        BY <1>2, <2>1, <3>2
      <4> HIDE DEF h
      <4> QED BY <1>12, <2>2, <3>2, <4>1
    <3> QED BY <3>1, <3>2
  <2>4. h = [j \in 0..n |-> h[j]]
    OBVIOUS
  <2> HIDE DEF h
  <2> QED BY <2>3, <2>4
<1> HIDE DEF h
<1>15. Equation(s)
  BY <1>14
<1>16. CornerWalk(d, b, u) = s
  BY <1>1 DEF CornerWalk
<1> HIDE DEF s
<1>17. /\ s[0] = g[0] /\ \A j \in 1..n : s[j] = Target[d][s[j - 1]][u[j]]
  BY <1>2, <1>5, <1>9, <1>13, <1>15
<1>18. s = [j \in 0..n |-> s[j]]
  <2>1. s = [j \in 0..n |-> IF j = 0 THEN b ELSE Target[d][s[j - 1]][u[j]]]
    BY <1>15
  <2> QED BY <2>1
<1>19. \A j \in 0..n : s[j] = g[j]
  <2>1. SameUpto(n)
    BY <1>1, StepsDecide
  <2>2. \A j \in 1..n : s[j - 1] = g[j - 1] => s[j] = g[j]
    BY <1>12, <1>17
  <2>3. s[0] = g[0]
    BY <1>17
  <2> QED BY <2>1, <2>2, <2>3 DEF SameUpto
<1>20. s \in [0..n -> Bucket]
  BY <1>10, <1>18, <1>19
<1>21. \A j \in 1..n : u[j] \in BuiltArcs[d][s[j - 1]] /\ s[j] = Target[d][s[j - 1]][u[j]]
  BY <1>2, <1>12, <1>17, <1>19
<1>22. \A j \in 0..n : UpTo(d, s[j], B(j))
  BY <1>11, <1>19
<1>23. s[0] = b
  BY <1>9, <1>13, <1>17
<1>24. Leads(d, w, i, s)
  BY <1>1, <1>20, <1>21, <1>22, <1>23 DEF Leads, b, u, B
<1> QED BY <1>16, <1>24 DEF b, u

-----------------------------------------------------------------------------
\* What a path has before it costs an arc less after every step, and nothing at its end.
LEMMA RestSums ==
  ASSUME NEW f \in [Arc -> Int], NEW d \in Dir, NEW w \in PartialWalks, NEW i \in 0..Len(w)
  PROVE  LET n == Steps(d, w, i)
             rest(j) == SumOver(f, Rest(d, w, Spot(d, i, j)))
         IN /\ rest(n) = 0 /\ \A j \in 0..n : rest(j) \in Int
            /\ \A j \in 1..n : rest(j - 1) = f[AsTaken(d, w, i)[j]] + rest(j)
<1> DEFINE n == Steps(d, w, i)
           u == AsTaken(d, w, i)
<1>1. /\ w \in Seq(Arc) /\ Len(w) \in Nat /\ n \in Nat
      /\ Spot(d, i, n) = IF d = "fw" THEN Len(w) ELSE 0
      /\ \A j \in 0..n : Spot(d, i, j) \in 0..Len(w)
  BY RestParts
<1>2. \A j \in 1..n :
        /\ u[j] = w[ArcNo(d, i, j)] /\ ArcNo(d, i, j) \in 1..Len(w)
        /\ Spot(d, i, j - 1) = IF d = "fw" THEN ArcNo(d, i, j) - 1 ELSE ArcNo(d, i, j)
        /\ Spot(d, i, j) = IF d = "fw" THEN ArcNo(d, i, j) ELSE ArcNo(d, i, j) - 1
  BY RestParts
<1> HIDE DEF u, n
<1>3. \A k \in 0..Len(w) : SumOver(f, Rest(d, w, k)) \in Int
  <2>1. \A k \in 0..Len(w) : Rest(d, w, k) \in Seq(Arc)
    BY RestParts
  <2> QED BY <2>1, SumType
<1>4. CASE d = "fw"
  <2>1. SumOver(f, Rest(d, w, Len(w))) = 0
    BY <1>1, <1>4, SumOfRest DEF Rest
  <2>2. ASSUME NEW k \in 1..Len(w)
        PROVE  SumOver(f, Rest(d, w, k - 1)) = f[w[k]] + SumOver(f, Rest(d, w, k))
    <3>1. (k - 1) + 1 = k
      BY <1>1
    <3> QED BY <1>1, <1>4, <3>1, SumOfRest DEF Rest
  <2>3. \A j \in 1..n : SumOver(f, Rest(d, w, Spot(d, i, j - 1)))
                          = f[u[j]] + SumOver(f, Rest(d, w, Spot(d, i, j)))
    BY <1>2, <1>4, <2>2
  <2> QED BY <1>1, <1>3, <1>4, <2>1, <2>3 DEF n, u
<1>5. CASE d = "bw"
  <2>1. SumOver(f, Rest(d, w, 0)) = 0
    <3>1. Rest(d, w, 0) = <<>>
      BY <1>1, <1>5 DEF Rest
    <3> QED BY <3>1, SumEmpty
  <2>2. ASSUME NEW k \in 1..Len(w)
        PROVE  SumOver(f, Rest(d, w, k)) = f[w[k]] + SumOver(f, Rest(d, w, k - 1))
    <3>1. k - 1 \in 0..Len(w)
      BY <1>1
    <3>2. SubSeq(w, 1, k) = Append(SubSeq(w, 1, k - 1), w[k]) /\ w[k] \in Arc
      BY Beginnings
    <3>3. SubSeq(w, 1, k - 1) \in Seq(Arc)
      BY <3>1, PassedType
    <3>4. /\ SumOver(f, SubSeq(w, 1, k - 1)) \in Int /\ f[w[k]] \in Int
          /\ SumOver(f, SubSeq(w, 1, k)) = SumOver(f, SubSeq(w, 1, k - 1)) + f[w[k]]
      BY <3>2, <3>3, SumAppend
    <3>5. Rest(d, w, k) = SubSeq(w, 1, k) /\ Rest(d, w, k - 1) = SubSeq(w, 1, k - 1)
      BY <1>5 DEF Rest
    <3>6. \A x, y, z : x \in Int /\ y \in Int /\ z = x + y => z = y + x
      OBVIOUS
    <3> QED BY <3>4, <3>5, <3>6
  <2>3. \A j \in 1..n : SumOver(f, Rest(d, w, Spot(d, i, j - 1)))
                          = f[u[j]] + SumOver(f, Rest(d, w, Spot(d, i, j)))
    BY <1>2, <1>5, <2>2
  <2> QED BY <1>1, <1>3, <1>5, <2>1, <2>3 DEF n, u
<1> QED BY <1>4, <1>5 DEF Dir

\* What a path has before it costs no less than the completion bound of the bucket it
\* has reached.
LEMMA BoundOfRest ==
  ASSUME NEW d \in Dir, RoundsSuffice(d), CostsBelowInf(d), NEW f \in [Arc -> Int],
         f \in CostVectors, NEW w \in Paths, NEW i \in 0..Len(w)
  PROVE  CompletionBounds(d, BuiltArcs, f)[Passed(w, i)] <= SumOver(f, Rest(d, w, i))
<1> DEFINE u == AsTaken(d, w, i)
           n == Steps(d, w, i)
           c == CornerWalk(d, Passed(w, i), u)
           end == [j \in 1..n |-> u[j]]
           rest == [j \in 0..n |-> SumOver(f, Rest(d, w, Spot(d, i, j)))]
<1>1. w \in PartialWalks /\ EndOf(w) = Sink
  BY DEF Paths
<1>2. /\ w \in Seq(Arc) /\ Len(w) \in Nat /\ u \in Seq(Arc) /\ Len(u) = n /\ n \in Nat
      /\ Spot(d, i, 0) = i /\ Spot(d, i, n) = IF d = "fw" THEN Len(w) ELSE 0
      /\ \A j \in 0..n : Spot(d, i, j) \in 0..Len(w)
  BY <1>1, RestParts
<1>3. Leads(d, w, i, c)
  BY <1>1, CornersLead
<1>4. \A j \in 0..n : Cardinality(Rises(d, c, n, j)) < Rounds(Scc(d, c[j]))
  <2>1. \A j \in 0..Len(u) :
          Cardinality({k \in j + 1..Len(u) : /\ c[k] \in Scc(d, c[j])
                                             /\ ~Before(c[k], c[k - 1])})
            < Rounds(Scc(d, c[j]))
    BY DEF RoundsSuffice, Passed
  <2> HIDE DEF c, u, n
  <2> QED BY <1>2, <2>1 DEF Rises
<1> HIDE DEF c, u, n
<1>5. /\ SumOver(f, Rest(d, w, Spot(d, i, n))) = 0
      /\ \A j \in 0..n : SumOver(f, Rest(d, w, Spot(d, i, j))) \in Int
      /\ \A j \in 1..n : SumOver(f, Rest(d, w, Spot(d, i, j - 1)))
                           = f[u[j]] + SumOver(f, Rest(d, w, Spot(d, i, j)))
  BY <1>1, RestSums DEF n, u
<1>6. 0 \in 0..n /\ n \in 0..n /\ \A j \in 1..n : j - 1 \in 0..n /\ j \in 0..n
  BY <1>2
<1>7. rest[n] = 0 /\ rest[0] = SumOver(f, Rest(d, w, i))
      /\ \A j \in 1..n : rest[j - 1] = f[u[j]] + rest[j]
  BY <1>2, <1>5, <1>6
<1>8. rest \in [0..n -> Int] /\ \A j \in 0..n : rest[j] < Inf
  <2>1. \A j \in 0..n : SumOver(f, Rest(d, w, Spot(d, i, j))) < Inf
    BY <1>2 DEF CostsBelowInf
  <2> QED BY <1>5, <2>1
<1> HIDE DEF rest
<1>9. end \in [1..n -> Arc] /\ \A j \in 1..n : end[j] = u[j]
  BY <1>2
<1> HIDE DEF end
<1>10. /\ c \in [0..n -> Bucket] /\ c[0] = Passed(w, i)
       /\ UpTo(d, c[n], Passed(w, Spot(d, i, n)))
       /\ \A j \in 1..n : /\ u[j] \in BuiltArcs[d][c[j - 1]]
                          /\ c[j] = Target[d][c[j - 1]][u[j]]
  BY <1>2, <1>3, <1>6 DEF Leads, u
<1>11. c[n][1] = Terminal(d)
  <2>1. c[n][1] = Passed(w, Spot(d, i, n))[1]
    BY <1>10 DEF UpTo
  <2>2. Len(w) \in 0..Len(w) /\ 0 \in 0..Len(w) /\ SubSeq(w, 1, Len(w)) = w /\ SubSeq(w, 1, 0) = <<>>
    BY <1>2
  <2>3. Passed(w, Len(w))[1] = EndOf(w) /\ Passed(w, 0)[1] = EndOf(<<>>)
    BY <1>1, <2>2, PassedType
  <2>4. EndOf(<<>>) = Source
    BY <1>2, VisitedType
  <2> QED BY <1>1, <1>2, <2>1, <2>3, <2>4 DEF Terminal
<1>12. Way(d, BuiltArcs, f, n, c, end, rest)
  BY <1>4, <1>7, <1>8, <1>9, <1>10, <1>11 DEF Way
<1>13. ArcsOfBuckets(d, BuiltArcs)
  BY DEF ArcsOfBuckets
<1>14. CompletionBounds(d, BuiltArcs, f)[c[0]] <= rest[0]
  BY <1>2, <1>8, <1>9, <1>10, <1>12, <1>13, BoundOfWay
<1> QED BY <1>7, <1>10, <1>14

\* The completion bounds, once computed, are those of the costs in force, and only of
\* directions that are searched.
BoundsOfCosts ==
  /\ red \in CostVectors /\ red \in [Arc -> Int]
  /\ \A d \in Dir : \/ completion[d] = NoBounds
                    \/ d \in Directions /\ completion[d] = CompletionBounds(d, BuiltArcs, red)

\* Costs and bounds are only set together.
LEMMA BoundsStay ==
  ASSUME InOrder, BoundsOfCosts, [Next]_vars
  PROVE  BoundsOfCosts'
<1>1. GraphAsBuilt /\ GraphOK
  BY DEF InOrder, Inductive
<1>2. CASE BeginSolve
  <2>1. inl' = red /\ red' = red /\ arcs = BuiltArcs /\ opt' = opt
    <3>1. dirty
      BY <1>1, <1>2 DEF BeginSolve, GraphOK
    <3> QED BY <1>1, <1>2, <3>1 DEF BeginSolve, GraphAsBuilt
  <2>2. \A d \in Dir : \/ completion'[d] = completion[d]
                       \/ d \in Directions /\ completion'[d] = CompletionBounds(d, BuiltArcs, red)
    BY <1>2, <2>1 DEF BeginSolve
  <2>3. Directions' = Directions
    BY <2>1 DEF Directions
  <2> QED BY <2>1, <2>2, <2>3 DEF BoundsOfCosts
<1>3. CASE PostPass
  <2>1. inl = red /\ red' = red /\ arcs = BuiltArcs /\ opt' = opt
    BY <1>1, <1>3 DEF PostPass, GraphOK, GraphAsBuilt, graph
  <2>2. \A d \in Dir : \/ completion'[d] = completion[d]
                       \/ d \in Directions /\ completion'[d] = CompletionBounds(d, BuiltArcs, red)
    BY <1>3, <2>1 DEF PostPass
  <2>3. Directions' = Directions
    BY <2>1 DEF Directions
  <2> QED BY <2>1, <2>2, <2>3 DEF BoundsOfCosts
<1>4. CASE EndLabeling \/ Collect \/ Returned \/ UNCHANGED vars
  <2>1. UNCHANGED <<opt, red, completion>>
    BY <1>4 DEF EndLabeling, Collect, Returned, graph, vars
  <2> QED BY <2>1 DEF BoundsOfCosts, Directions
<1>5. ASSUME NEW d \in Dir, LabelStep(d)
      PROVE  BoundsOfCosts'
  <2>1. UNCHANGED <<opt, red, completion>>
    BY <1>5 DEF LabelStep, StartScc, DropDominated, PruneHopeless, OpenLabel, ExtendArc, FinishScc,
                graph
  <2> QED BY <2>1 DEF BoundsOfCosts, Directions
<1> QED BY <1>2, <1>3, <1>4, <1>5 DEF Next, MainStep

\* So this holds throughout a solve.
LEMMA BoundsAreOfCosts == Spec => []BoundsOfCosts
<1>1. Init => BoundsOfCosts
  <2> SUFFICES ASSUME Init PROVE BoundsOfCosts
    OBVIOUS
  <2>1. red \in CostVectors /\ CostVectors \subseteq [Arc -> Int]
        /\ \A d \in Dir : completion[d] = NoBounds
    BY OptionAssumption DEF Init
  <2> QED BY <2>1 DEF BoundsOfCosts
<1>2. InOrder /\ BoundsOfCosts /\ [Next]_vars => BoundsOfCosts'
  BY BoundsStay
<1> QED BY <1>1, <1>2, AlwaysInOrder, PTL DEF Spec

\* Until they are computed, and thereafter, they are below what any path that is
\* searched for has before it.
LEMMA BoundOfPath ==
  ASSUME BoundsReach, opt.mode \in Modes, BoundsOfCosts, NEW d \in Dir, completion[d] # NoBounds,
         NEW w \in Paths, NEW i \in 0..Len(w)
  PROVE  completion[d][Passed(w, i)] <= CostOf(Rest(d, w, i))
<1>1. /\ red \in CostVectors /\ red \in [Arc -> Int] /\ d \in Directions
      /\ completion[d] = CompletionBounds(d, BuiltArcs, red)
  BY DEF BoundsOfCosts
<1>2. d \in IF Modes \subseteq {"mono"} THEN {"fw"} ELSE Dir
  BY <1>1 DEF Directions
<1>3. RoundsSuffice(d) /\ CostsBelowInf(d)
  BY <1>2 DEF BoundsReach
<1> QED BY <1>1, <1>3, BoundOfRest DEF CostOf

\* The completion bounds stay lower bounds on what a path through a bucket has before
\* it in either direction, whatever the graph and the costs, as long as the rounds
\* of compute_completion_bounds suffice and no path costs as much as its INF.
THEOREM CompletionStaysBound ==
  ASSUME BoundsReach
  PROVE  Spec => []CompletionIsLowerBound
<1>1. InOrder /\ BoundsOfCosts => CompletionIsLowerBound
  <2> SUFFICES ASSUME InOrder, BoundsOfCosts, NEW d \in Dir, completion[d] # NoBounds,
                      NEW w \in Paths, NEW i \in 0..Len(w)
               PROVE  completion[d][BucketAfter[SubSeq(w, 1, i)]] <= CostOf(Rest(d, w, i))
    BY DEF CompletionIsLowerBound
  <2>1. opt.mode \in Modes
    BY DEF InOrder, Inductive, TypeOK, SolveType
  <2> QED BY <2>1, BoundOfPath DEF Passed
<1> QED BY <1>1, BoundsAreOfCosts, AlwaysInOrder, PTL

\* A bucket with no less resource left has no higher bound: Propagate sees to it.
LEMMA BoundsAscend ==
  ASSUME NEW d \in Dir, NEW have, ArcsOfBuckets(d, have), NEW cost \in [Arc -> Int],
         NEW b \in Bucket, NEW c \in Bucket, UpTo(d, b, c)
  PROVE  CompletionBounds(d, have, cost)[b] <= CompletionBounds(d, have, cost)[c]
<1> DEFINE L == Len(RelaxOrder[d])
<1>1. L \in Nat
  BY StepsHavePlaces
<1>2. PICK comp \in [Bucket -> Int] : CompletionBounds(d, have, cost) = Propagate(d, comp)
  <2>1. ByRelaxing(d, have, cost)
    BY CompletionChain
  <2>2. PICK after \in [0..L -> [Bucket -> Int]] :
          CompletionBounds(d, have, cost) = Propagate(d, after[L])
    BY <2>1 DEF ByRelaxing
  <2> QED BY <1>1, <2>2
<1> DEFINE Behindmost(y) == {x \in BucketsAt(y[1]) : UpTo(d, y, x)}
           S(y) == {comp[x] : x \in Behindmost(y)}
<1>3. \A y \in Bucket : y[2] \in [Res -> Int]
  BY BucketType
<1>4. \A y \in Bucket : Behindmost(y) \in SUBSET Bucket
  BY BucketType DEF Bucket
<1>5. b[1] = c[1] /\ Behindmost(c) \subseteq Behindmost(b)
  <2>1. b[1] = c[1]
    BY DEF UpTo
  <2>2. ASSUME NEW x \in Bucket, UpTo(d, c, x) PROVE UpTo(d, b, x)
    BY <1>3, <2>2 DEF UpTo
  <2> QED BY <1>4, <2>1, <2>2
<1>6. c \in Behindmost(c)
  <2>1. c \in BucketsAt(c[1])
    BY DEF Bucket, BucketsAt
  <2>2. UpTo(d, c, c)
    BY <1>3 DEF UpTo
  <2> QED BY <2>1, <2>2
<1> HIDE DEF Behindmost
<1>7. ASSUME NEW y \in Bucket
      PROVE  S(y) \in SUBSET Int /\ IsFiniteSet(S(y)) /\ Propagate(d, comp)[y] = Least(S(y))
  <2> DEFINE K == Behindmost(y)
             T == S(y)
             f == [x \in K |-> comp[x]]
  <2>1. T \in SUBSET Int
    BY <1>4
  <2>2. IsFiniteSet(K)
    BY <1>4, BucketsFinite, FS_Subset
  <2>3. f \in [K -> T] /\ \A t \in T : \E x \in K : f[x] = t
    OBVIOUS
  <2>4. Propagate(d, comp)[y] = Least(T)
    BY DEF Propagate, Behindmost
  <2> HIDE DEF f, T, K
  <2>5. IsFiniteSet(T)
    BY <2>2, <2>3, ImageFinite
  <2> QED BY <2>1, <2>4, <2>5 DEF T
<1>8. Least(S(c)) \in S(c)
  <2>1. comp[c] \in S(c) /\ S(c) \in SUBSET Int /\ IsFiniteSet(S(c))
    BY <1>6, <1>7
  <2> HIDE DEF S
  <2>2. \E y \in S(c) : \A z \in S(c) : y <= z
    BY <2>1, FiniteHasLeast
  <2> QED BY <2>2 DEF Least
<1>9. Least(S(c)) \in S(b)
  BY <1>5, <1>8
<1> HIDE DEF S
<1>10. Least(S(b)) <= Least(S(c))
  <2>1. \E y \in S(b) : \A z \in S(b) : y <= z
    BY <1>7, <1>9, FiniteHasLeast
  <2> QED BY <1>9, <2>1 DEF Least
<1> QED BY <1>2, <1>7, <1>10

-----------------------------------------------------------------------------
\* A path that comes to no vertex twice.
Elementary(w) == \A j, k \in 1..Len(w) + 1 : j # k => Visited(w)[j] # Visited(w)[k]

\* A set of steps that lead to different buckets of the component of bucket b, other
\* than b, is smaller than the number of rounds of the component.
LEMMA FewRises ==
  ASSUME NEW d \in Dir, NEW b \in Bucket, NEW R, NEW g \in [R -> Scc(d, b) \ {b}],
         \A j, k \in R : j # k => g[j] # g[k]
  PROVE  Cardinality(R) < Rounds(Scc(d, b))
<1> DEFINE S == Scc(d, b)
<1>1. S \in SUBSET Bucket /\ b \in S /\ IsFiniteSet(S)
  BY SccsPartition, BucketsFinite, FS_Subset
<1>2. IsFiniteSet(S \ {b}) /\ Cardinality(S \ {b}) = Cardinality(S) - 1
  BY <1>1, FS_RemoveElement
<1>3. Cardinality(S) \in Nat
  BY <1>1, FS_CardinalityType
<1> HIDE DEF S
<1>4. g \in Injection(R, S \ {b})
  BY DEF Injection, IsInjective, S
<1>5. IsFiniteSet(R) /\ Cardinality(R) <= Cardinality(S \ {b})
  BY <1>2, <1>4, FS_Injection
<1>6. Cardinality(R) \in Nat
  BY <1>5, FS_CardinalityType
<1>7. Cardinality(R) < Rounds(S)
  <2>1. Cardinality(R) <= Cardinality(S) - 1
    BY <1>2, <1>5
  <2> QED BY <1>3, <1>6, <2>1 DEF Rounds
<1> QED BY <1>7 DEF S

\* compute_completion_bounds makes as many rounds as paths need that come to no
\* vertex twice: such a path meets a bucket of a component at most once.
THEOREM ElementaryRoundsSuffice ==
  ASSUME \A w \in Paths : Elementary(w), NEW d \in Dir
  PROVE  RoundsSuffice(d)
<1> DEFINE Few(u, c) == \A j \in 0..Len(u) :
             Cardinality({k \in j + 1..Len(u) : /\ c[k] \in Scc(d, c[j])
                                                /\ ~Before(c[k], c[k - 1])})
               < Rounds(Scc(d, c[j]))
<1> SUFFICES ASSUME NEW w \in Paths, NEW i \in 0..Len(w)
             PROVE  LET u == AsTaken(d, w, i) IN Few(u, CornerWalk(d, Passed(w, i), u))
  BY DEF RoundsSuffice, Passed
<1> DEFINE u == AsTaken(d, w, i)
           n == Steps(d, w, i)
           c == CornerWalk(d, Passed(w, i), u)
<1>1. w \in PartialWalks /\ Elementary(w)
  BY DEF Paths
<1>2. /\ w \in Seq(Arc) /\ Len(w) \in Nat /\ u \in Seq(Arc) /\ Len(u) = n /\ n \in Nat
      /\ i \in Nat /\ \A j \in 0..n : Spot(d, i, j) \in 0..Len(w)
  BY <1>1, RestParts
<1>3. Leads(d, w, i, c)
  BY <1>1, CornersLead
<1> HIDE DEF c, u
<1>4. c \in [0..n -> Bucket] /\ \A j \in 0..n : UpTo(d, c[j], Passed(w, Spot(d, i, j)))
  BY <1>2, <1>3 DEF Leads, u
<1> HIDE DEF n
<1>5. ASSUME NEW j \in 0..n PROVE c[j][1] = Visited(w)[Spot(d, i, j) + 1]
  <2>1. Spot(d, i, j) \in 0..Len(w) /\ UpTo(d, c[j], Passed(w, Spot(d, i, j)))
    BY <1>2, <1>4
  <2>2. Passed(w, Spot(d, i, j))[1] = Visited(w)[Spot(d, i, j) + 1]
    BY <1>1, <2>1, PassedType
  <2> QED BY <2>1, <2>2 DEF UpTo
<1>6. \A j, k \in 0..n : j # k => c[j] # c[k]
  <2> SUFFICES ASSUME NEW j \in 0..n, NEW k \in 0..n, j # k PROVE c[j] # c[k]
    OBVIOUS
  <2>1. Spot(d, i, j) # Spot(d, i, k)
    BY <1>2 DEF Spot
  <2>2. Spot(d, i, j) \in 0..Len(w) /\ Spot(d, i, k) \in 0..Len(w)
    BY <1>2
  <2>3. /\ Spot(d, i, j) + 1 \in 1..Len(w) + 1 /\ Spot(d, i, k) + 1 \in 1..Len(w) + 1
        /\ Spot(d, i, j) + 1 # Spot(d, i, k) + 1
    BY <1>2, <2>1, <2>2
  <2>4. Visited(w)[Spot(d, i, j) + 1] # Visited(w)[Spot(d, i, k) + 1]
    BY <1>1, <2>3 DEF Elementary
  <2>5. c[j][1] # c[k][1]
    BY <1>5, <2>4
  <2> QED BY <2>5
<1>7. ASSUME NEW j \in 0..n
      PROVE  Cardinality({k \in j + 1..n : c[k] \in Scc(d, c[j]) /\ ~Before(c[k], c[k - 1])})
               < Rounds(Scc(d, c[j]))
  <2> DEFINE b == c[j]
             R == {k \in j + 1..n : c[k] \in Scc(d, b) /\ ~Before(c[k], c[k - 1])}
             g == [k \in R |-> c[k]]
  <2>1. \A k \in R : k \in 0..n /\ k # j /\ c[k] \in Scc(d, b)
    BY <1>2
  <2>2. b \in Bucket
    BY <1>4
  <2>3. \A k \in R : c[k] \in Scc(d, b) \ {b}
    BY <1>6, <2>1
  <2> HIDE DEF R, b
  <2>4. g \in [R -> Scc(d, b) \ {b}]
    BY <2>3
  <2>5. \A k, m \in R : k # m => g[k] # g[m]
    BY <1>6, <2>1
  <2> HIDE DEF g
  <2>6. Cardinality(R) < Rounds(Scc(d, b))
    BY <2>2, <2>4, <2>5, FewRises
  <2> QED BY <2>6 DEF R, b
<1>8. Few(u, c)
  BY <1>2, <1>7
<1> QED BY <1>8 DEF c, u

-----------------------------------------------------------------------------
\* Mono-directional enumeration: nothing is dominated, and a label is only left
\* out or not extended when no path below theta goes through it.
LoneEnum == opt.mode = "mono" /\ Enumerating

Listed(l, a) ==
  LET t == Taken("fw", This(l), a)
  IN \/ Hopeless("fw", t)
     \/ \E n \in Node : /\ Append(l, n) \in labels["fw"] /\ n.arc = a
                        /\ n.v = t.v /\ n.q = t.q /\ n.cost = t.cost /\ n.st = t.st

ChildrenListed ==
  \A l \in labels["fw"] : \A a \in Arc :
    CanTake("fw", This(l), a) /\ Tried("fw", l, a) => Hopeless("fw", This(l)) \/ Listed(l, a)

\* Unless a cap has stopped a component, no label waits in a finished one.
NoneWaits ==
  complete => \A l \in labels["fw"] : Settled("fw", Where(l)) => l \in extended["fw"]

EnumOK ==
  /\ InitialLabel("fw") \in labels["fw"] /\ dominated["fw"] = {}
  /\ ChildrenListed /\ NoneWaits /\ IsFiniteSet(labels["fw"])

EnumKept == LoneEnum /\ phase # "ready" => EnumOK

\* Steps that change no label, no flag, no bound and no component.
LEMMA EnumStable ==
  ASSUME EnumKept, phase # "ready", complete' => complete,
         UNCHANGED <<opt, red, labels, extended, dominated, finished, cur, todo>>,
         completion'["fw"] = completion["fw"]
  PROVE  EnumKept'
<1> SUFFICES ASSUME LoneEnum PROVE EnumOK'
  BY DEF EnumKept, LoneEnum, Enumerating
<1>1. EnumOK
  BY DEF EnumKept
<1>2. ChildrenListed'
  BY <1>1 DEF EnumOK, ChildrenListed, Listed, Tried, CanTake, Ahead, Taken, Hopeless
<1>3. NoneWaits'
  BY <1>1 DEF EnumOK, NoneWaits, Settled
<1> QED BY <1>1, <1>2, <1>3 DEF EnumOK

\* A solve begins with the origin's label alone.
LEMMA EnumBegin ==
  ASSUME BeginSolve
  PROVE  EnumKept'
<1> SUFFICES ASSUME LoneEnum' PROVE EnumOK'
  BY DEF EnumKept
<1> DEFINE o == InitialLabel("fw")
<1>1. "fw" \in Dir /\ "fw" \in Directions /\ o # <<>>
  BY DEF Dir, Directions, LoneEnum, BeginSolve, InitialLabel
<1>2. /\ labels'["fw"] = {o} /\ extended'["fw"] = {} /\ dominated'["fw"] = {}
      /\ finished'["fw"] = {} /\ cur'["fw"] = <<>>
  BY <1>1 DEF BeginSolve
<1> HIDE DEF o
<1>3. ChildrenListed'
  BY <1>1, <1>2 DEF ChildrenListed, Tried
<1>4. NoneWaits'
  BY <1>2 DEF NoneWaits, Settled
<1>5. IsFiniteSet(labels'["fw"])
  BY <1>2, FS_Singleton
<1>6. InitialLabel("fw") \in labels'["fw"] /\ dominated'["fw"] = {}
  BY <1>2 DEF o
<1> QED BY <1>3, <1>4, <1>5, <1>6 DEF EnumOK

\* A label that no path below theta goes through need not be extended.
LEMMA EnumPrune ==
  ASSUME InOrder, EnumKept, NEW l \in labels["fw"], PruneHopeless("fw", l)
  PROVE  EnumKept'
<1>1. /\ phase = "label" /\ "fw" \in Dir /\ Hopeless("fw", This(l))
      /\ extended \in [Dir -> SUBSET Label]
  BY DEF InOrder, Inductive, TypeOK, LabelType, PruneHopeless, Visit, Running, Dir
<1>2. /\ extended'["fw"] = extended["fw"] \cup {l}
      /\ UNCHANGED <<opt, red, labels, dominated, finished, cur, todo, completion, complete>>
  BY <1>1 DEF PruneHopeless, graph
<1> SUFFICES ASSUME LoneEnum PROVE EnumOK'
  BY <1>2 DEF EnumKept, LoneEnum, Enumerating
<1>3. EnumOK
  BY <1>1 DEF EnumKept
<1>4. ChildrenListed'
  <2> SUFFICES ASSUME NEW m \in labels["fw"], NEW a \in Arc, CanTake("fw", This(m), a), Tried("fw", m, a)'
               PROVE  Hopeless("fw", This(m)) \/ Listed(m, a)
    BY <1>2 DEF ChildrenListed, CanTake, Ahead, Taken, Listed, Hopeless
  <2>1. CASE m = l
    BY <1>1, <2>1
  <2>2. CASE m # l
    <3>1. Tried("fw", m, a)
      BY <1>2, <2>2 DEF Tried
    <3> QED BY <1>3, <3>1 DEF EnumOK, ChildrenListed
  <2> QED BY <2>1, <2>2
<1>5. NoneWaits'
  BY <1>2, <1>3 DEF EnumOK, NoneWaits, Settled
<1> QED BY <1>2, <1>3, <1>4, <1>5 DEF EnumOK

\* An arc that can be taken from where a label is, is an arc of the label's bucket.
LEMMA OpenHasArcs ==
  ASSUME InOrder, NEW l \in labels["fw"], NEW a \in Arc, CanTake("fw", This(l), a)
  PROVE  [arc |-> a, at |-> Where(l)] \in Extensions("fw", Where(l))
<1>1. l \in Label /\ SoundLabel("fw", l) /\ "fw" \in Dir
  BY DEF InOrder, Inductive, TypeOK, LabelType, LabelsAreSound, Dir
<1>2. /\ This(l).v \in Vertex /\ This(l).q \in [Res -> Int] /\ a \in ArcsAt("fw", This(l).v)
      /\ \A r \in Res : This(l).q[r] >= Lb[This(l).v][r]
      /\ InWindow("fw", Ahead("fw", a), Advance("fw", This(l).q, a))
  BY <1>1, LabelPlaced DEF CanTake, Ahead
<1>3. a \in BuiltArcs["fw"][Where(l)]
  BY <1>1, <1>2, ChildBehindTarget DEF Where
<1> QED BY <1>3 DEF Extensions, InOrder, GraphAsBuilt

\* Opening a label tries nothing yet; a label without arcs is done.
LEMMA EnumOpen ==
  ASSUME InOrder, EnumKept, NEW l \in labels["fw"], OpenLabel("fw", l)
  PROVE  EnumKept'
<1> DEFINE more == Extensions("fw", Where(l))
<1>1. /\ phase = "label" /\ "fw" \in Dir /\ labels \in [Dir -> SUBSET Label]
      /\ extended \in [Dir -> SUBSET Label] /\ cur \in [Dir -> Label \cup {<<>>}]
      /\ DOMAIN todo = Dir /\ todo \in [Dir -> SUBSET [arc : Arc, at : Bucket]]
  BY DEF InOrder, Inductive, TypeOK, LabelType, SearchType, OpenLabel, Visit, Running, Dir
<1>2. /\ cur'["fw"] = IF more = {} THEN <<>> ELSE l
      /\ todo'["fw"] = more
      /\ extended'["fw"] = IF more = {} THEN extended["fw"] \cup {l} ELSE extended["fw"]
      /\ cur["fw"] = <<>>
      /\ UNCHANGED <<opt, red, labels, dominated, finished, completion, complete>>
  BY <1>1 DEF OpenLabel, Visit, graph
<1> SUFFICES ASSUME LoneEnum PROVE EnumOK'
  BY <1>2 DEF EnumKept, LoneEnum, Enumerating
<1>3. EnumOK
  BY <1>1 DEF EnumKept
<1>4. ASSUME NEW a \in Arc, CanTake("fw", This(l), a)
      PROVE  [arc |-> a, at |-> Where(l)] \in more
  BY <1>4, OpenHasArcs
<1> HIDE DEF more
<1>5. ChildrenListed'
  <2> SUFFICES ASSUME NEW m \in labels["fw"], NEW a \in Arc, CanTake("fw", This(m), a), Tried("fw", m, a)'
               PROVE  Hopeless("fw", This(m)) \/ Listed(m, a)
    BY <1>2 DEF ChildrenListed, CanTake, Ahead, Taken, Listed, Hopeless
  <2>1. m # <<>>
    BY <1>1 DEF Label
  <2>2. CASE m = l
    BY <1>2, <1>3, <1>4, <2>1, <2>2 DEF Tried, EnumOK, ChildrenListed
  <2>3. CASE m # l
    <3>1. Tried("fw", m, a)
      BY <1>2, <2>1, <2>3 DEF Tried
    <3> QED BY <1>3, <3>1 DEF EnumOK, ChildrenListed
  <2> QED BY <2>2, <2>3
<1>6. NoneWaits'
  BY <1>2, <1>3 DEF EnumOK, NoneWaits, Settled
<1> QED BY <1>2, <1>3, <1>5, <1>6 DEF EnumOK

\* A component that no cap has stopped has no label left to visit.
LEMMA EnumFinishScc ==
  ASSUME InOrder, EnumKept, FinishScc("fw")
  PROVE  EnumKept'
<1>0. opt' = opt
  BY DEF FinishScc
<1> SUFFICES ASSUME LoneEnum PROVE EnumOK'
  BY <1>0 DEF EnumKept, LoneEnum, Enumerating
<1>1. /\ phase = "label" /\ "fw" \in Dir /\ labels \in [Dir -> SUBSET Label]
      /\ extended \in [Dir -> SUBSET Label] /\ dominated \in [Dir -> SUBSET Label]
      /\ finished \in [Dir -> SUBSET SUBSET Bucket]
  BY DEF InOrder, Inductive, TypeOK, LabelType, SearchType, FinishScc, Running, Dir
<1>2. EnumOK
  BY <1>1 DEF EnumKept
<1>3. /\ labels'["fw"] = labels["fw"] /\ dominated'["fw"] = {}
      /\ extended'["fw"] = extended["fw"]
  BY <1>1, <1>2 DEF FinishScc, EnumOK
<1>4. /\ finished'["fw"] = finished["fw"] \cup {scc["fw"]}
      /\ complete' => complete /\ Pending("fw") = {}
      /\ UNCHANGED <<opt, red, cur, todo, completion>>
  BY <1>1 DEF FinishScc, graph, LoneEnum
<1>5. ChildrenListed'
  <2>1. \A l, a : Tried("fw", l, a)' <=> Tried("fw", l, a)
    BY <1>3, <1>4 DEF Tried
  <2>2. \A l, a : Listed(l, a)' <=> Listed(l, a)
    BY <1>3, <1>4 DEF Listed, Taken, Ahead, Hopeless
  <2>3. \A n : Hopeless("fw", n)' <=> Hopeless("fw", n)
    BY <1>4 DEF Hopeless
  <2> QED BY <1>2, <1>3, <1>4, <2>1, <2>2, <2>3 DEF EnumOK, ChildrenListed, CanTake, Ahead
<1>6. NoneWaits'
  <2> SUFFICES ASSUME complete', NEW l \in labels["fw"],
                      Settled("fw", Where(l)) \/ Where(l) \in scc["fw"]
               PROVE  l \in extended["fw"]
    BY <1>3, <1>4 DEF NoneWaits, Settled
  <2>1. CASE Settled("fw", Where(l))
    BY <1>2, <1>4, <2>1 DEF EnumOK, NoneWaits
  <2>2. CASE Where(l) \in scc["fw"]
    <3>1. ~PastMid("fw", This(l)) /\ fixed = {} /\ l \in Live("fw")
      BY <1>2 DEF PastMid, LoneEnum, InOrder, GraphAsBuilt, Live, EnumOK
    <3> QED BY <1>4, <2>2, <3>1 DEF Pending
  <2> QED BY <2>1, <2>2
<1> QED BY <1>2, <1>3, <1>5, <1>6 DEF EnumOK

\* A child is stored unless no path below theta goes through it.
LEMMA EnumExtend ==
  ASSUME InOrder, EnumKept, NEW e \in todo["fw"], ExtendArc("fw", e)
  PROVE  EnumKept'
<1> DEFINE c == cur["fw"]
           m == This(c)
           n == Extend("fw", m, e)
           new == Append(c, n)
           last == todo["fw"] = {e}
           stored == ExtendFeasible("fw", m, e) /\ ~Hopeless("fw", n)
<1>1. /\ phase = "label" /\ labels \in [Dir -> SUBSET Label] /\ "fw" \in Dir
      /\ extended \in [Dir -> SUBSET Label] /\ dominated \in [Dir -> SUBSET Label]
      /\ cur \in [Dir -> Label \cup {<<>>}] /\ todo \in [Dir -> SUBSET [arc : Arc, at : Bucket]]
      /\ extended["fw"] \subseteq labels["fw"]
      /\ red \in [Arc -> Int] /\ SearchInOrder /\ GraphAsBuilt /\ Inductive
  BY DEF InOrder, Inductive, TypeOK, LabelType, SearchType, GraphType, ExtendArc, Running, Dir
<1> SUFFICES ASSUME LoneEnum PROVE EnumOK'
  BY <1>1 DEF EnumKept, LoneEnum, Enumerating, ExtendArc
<1>2. EnumOK /\ opt.mode = "mono" /\ Enumerating /\ dominated["fw"] = {}
  BY <1>1 DEF EnumKept, LoneEnum, EnumOK
<1>3. /\ c # <<>> /\ c \in Label /\ m \in Node /\ e \in [arc : Arc, at : Bucket]
      /\ e.arc \in ArcsAt("fw", m.v) /\ n \in Node /\ n.v = To[e.arc]
      /\ n.q = Advance("fw", m.q, e.arc)
      /\ n.cost = Taken("fw", m, e.arc).cost /\ n.st = Taken("fw", m, e.arc).st /\ n.arc = e.arc
      /\ This(new) = n /\ new \in Label /\ Len(new) = Len(c) + 1
  BY <1>1, ChildNode DEF Ahead, Taken
<1>4. /\ c \in labels["fw"] /\ c \notin extended["fw"] /\ e.at = Where(c)
      /\ Len(c) \in Nat \ {0}
  <2>1. c \in labels["fw"]
    BY <1>1, <1>3, OpenIsUnsettled
  <2>2. c \notin extended["fw"] /\ e.at = Where(c)
    BY <1>1, <1>3 DEF SearchInOrder
  <2> QED BY <1>3, <2>1, <2>2, LabelNodes
<1>5. e = [arc |-> e.arc, at |-> Where(c)]
  BY <1>3, <1>4
<1>6. Replaced("fw", n) = {} /\ Admitted("fw", n) /\ Victims("fw", n) = {}
      /\ (Stored("fw", n) <=> ~Hopeless("fw", n))
  BY <1>1, <1>2 DEF Replaced, Admitted, Stored, Victims, Enumerating, GraphAsBuilt
<1>7. /\ labels'["fw"] = IF stored THEN labels["fw"] \cup {new} ELSE labels["fw"]
      /\ dominated'["fw"] = {}
      /\ extended'["fw"] = IF last THEN extended["fw"] \cup {c} ELSE extended["fw"]
      /\ cur'["fw"] = IF last THEN <<>> ELSE c
      /\ todo'["fw"] = todo["fw"] \ {e}
      /\ UNCHANGED <<opt, red, finished, completion, complete>>
  <2>1. /\ todo' = [todo EXCEPT !["fw"] = @ \ {e}]
        /\ cur' = [cur EXCEPT !["fw"] = IF last THEN <<>> ELSE @]
        /\ UNCHANGED <<opt, red, finished, completion, complete>>
    BY DEF ExtendArc, graph
  <2>2. CASE stored
    <3>1. /\ labels' = [labels EXCEPT !["fw"] = (@ \ Replaced("fw", n)) \cup {new}]
          /\ dominated' = [dominated EXCEPT !["fw"] = (@ \ Replaced("fw", n)) \cup Victims("fw", n)]
          /\ extended' = [extended EXCEPT !["fw"] = (@ \ Replaced("fw", n))
                                                      \cup (IF last THEN {c} ELSE {})]
      BY <1>6, <2>2 DEF ExtendArc
    <3> HIDE DEF m, n, new, stored, last
    <3> QED BY <1>1, <1>2, <1>6, <2>1, <2>2, <3>1
  <2>3. CASE ~stored
    <3>1. /\ extended' = [extended EXCEPT !["fw"] = @ \cup (IF last THEN {c} ELSE {})]
          /\ UNCHANGED <<labels, dominated>>
      BY <1>6, <2>3 DEF ExtendArc
    <3> HIDE DEF m, n, new, stored, last
    <3> QED BY <1>1, <1>2, <2>1, <2>3, <3>1
  <2> QED BY <2>2, <2>3
<1>8. new # c /\ new # <<>>
  BY <1>3, <1>4 DEF Label
<1>9. stored => ~Settled("fw", Where(new))
  BY <1>1, ChildIsUnsettled
<1>10. ExtendFeasible("fw", m, e) => stored \/ Hopeless("fw", n)
  OBVIOUS
<1>11. ExtendFeasible("fw", m, e) <=> CanTake("fw", m, e.arc)
  <2>1. e.at = BucketOf(m.v, m.q)
    BY <1>4 DEF Where
  <2> QED BY <1>3, <2>1 DEF CanTake, ExtendFeasible, ExtendQ, Ahead
<1>12. /\ Taken("fw", m, e.arc).v = n.v /\ Taken("fw", m, e.arc).q = n.q
       /\ Taken("fw", m, e.arc).cost = n.cost /\ Taken("fw", m, e.arc).st = n.st
  BY <1>3 DEF Taken, Ahead
<1>13. Hopeless("fw", n) => Hopeless("fw", Taken("fw", m, e.arc))
  BY <1>12 DEF Hopeless
<1>14. labels["fw"] \subseteq labels'["fw"] /\ (stored => new \in labels'["fw"])
  BY <1>7
<1>15. \A l, a : Listed(l, a) => Listed(l, a)'
  <2>1. \A l, a : /\ Taken("fw", This(l), a)' = Taken("fw", This(l), a)
                  /\ Hopeless("fw", Taken("fw", This(l), a))' <=> Hopeless("fw", Taken("fw", This(l), a))
    BY <1>7 DEF Taken, Ahead, Hopeless
  <2> QED BY <1>14, <2>1 DEF Listed
<1>16. ASSUME NEW l, l = c, CanTake("fw", m, e.arc)
       PROVE  Listed(l, e.arc)'
  <2>1. PICK k \in Node : k = n
    BY <1>3
  <2>2. PICK x : x = Taken("fw", This(l), e.arc)
    OBVIOUS
  <2>3. Taken("fw", This(l), e.arc)' = x
    BY <1>7, <2>2 DEF Taken, Ahead
  <2>4. k.v = x.v /\ k.q = x.q /\ k.cost = x.cost /\ k.st = x.st /\ k.arc = e.arc
    BY <1>3, <1>12, <1>16, <2>1, <2>2
  <2>5. CASE Hopeless("fw", n)
    <3>1. Hopeless("fw", x)
      BY <1>13, <1>16, <2>2, <2>5
    <3>2. Hopeless("fw", x)'
      BY <1>7, <3>1 DEF Hopeless
    <3> QED BY <2>3, <3>2 DEF Listed
  <2>6. CASE ~Hopeless("fw", n)
    <3>1. Append(l, k) \in labels'["fw"]
      BY <1>10, <1>11, <1>14, <1>16, <2>1, <2>6
    <3> QED BY <2>3, <2>4, <3>1 DEF Listed
  <2> QED BY <2>5, <2>6
<1> HIDE DEF m, n, new, stored, last
<1>17. ASSUME NEW l, NEW a, l \in labels'["fw"], Tried("fw", l, a)'
       PROVE  l \in labels["fw"] /\ (Tried("fw", l, a) \/ (l = c /\ a = e.arc))
  <2>1. CASE l \in extended'["fw"]
    <3>1. CASE l \in extended["fw"]
      BY <1>1, <3>1 DEF Tried
    <3>2. CASE l \notin extended["fw"]
      <4>1. l = c /\ todo["fw"] = {e}
        BY <1>7, <2>1, <3>2 DEF last
      <4>2. a # e.arc => [arc |-> a, at |-> Where(c)] # e
        BY <1>5
      <4> QED BY <1>4, <4>1, <4>2 DEF Tried
    <3> QED BY <3>1, <3>2
  <2>2. CASE l \notin extended'["fw"]
    <3>1. l = cur'["fw"] /\ [arc |-> a, at |-> Where(l)] \notin todo'["fw"]
      BY <1>17, <2>2 DEF Tried
    <3>2. l \in Label /\ l # <<>>
      <4>1. new \in Label
        BY <1>3
      <4> QED BY <1>1, <1>7, <1>17, <4>1 DEF Label
    <3>3. l = c
      BY <1>7, <3>1, <3>2
    <3> QED BY <1>4, <1>5, <1>7, <3>1, <3>3 DEF Tried
  <2> QED BY <2>1, <2>2
<1>18. ChildrenListed'
  <2> SUFFICES ASSUME NEW l \in labels'["fw"], NEW a \in Arc, CanTake("fw", This(l), a), Tried("fw", l, a)'
               PROVE  Hopeless("fw", This(l))' \/ Listed(l, a)'
    BY <1>7 DEF ChildrenListed, CanTake, Ahead
  <2>1. l \in labels["fw"] /\ (Tried("fw", l, a) \/ (l = c /\ a = e.arc))
    BY <1>17
  <2>2. l = c => This(l) = m
    BY DEF m
  <2>3. CASE Tried("fw", l, a)
    <3>1. Hopeless("fw", This(l)) \/ Listed(l, a)
      BY <1>2, <2>1, <2>3 DEF EnumOK, ChildrenListed
    <3>2. Hopeless("fw", This(l)) => Hopeless("fw", This(l))'
      BY <1>7 DEF Hopeless
    <3> QED BY <1>15, <3>1, <3>2
  <2>4. CASE l = c /\ a = e.arc
    BY <1>16, <2>2, <2>4
  <2> QED BY <2>1, <2>3, <2>4
<1>19. NoneWaits'
  <2> SUFFICES ASSUME complete, NEW l \in labels'["fw"], Settled("fw", Where(l))
               PROVE  l \in extended'["fw"]
    BY <1>7 DEF NoneWaits, Settled
  <2>1. l \in labels["fw"]
    BY <1>7, <1>9
  <2> QED BY <1>2, <1>7, <2>1 DEF EnumOK, NoneWaits
<1>20. IsFiniteSet(labels'["fw"])
  BY <1>2, <1>7, FS_AddElement DEF EnumOK
<1>21. InitialLabel("fw") \in labels'["fw"]
  BY <1>2, <1>14 DEF EnumOK
<1> QED BY <1>7, <1>18, <1>19, <1>20, <1>21 DEF EnumOK

\* Every step of a mono-directional enumeration keeps its labels complete.
LEMMA EnumStays ==
  ASSUME InOrder, EnumKept, [Next]_vars
  PROVE  EnumKept'
<1>1. CASE BeginSolve
  BY <1>1, EnumBegin
<1>2. CASE phase = "ready" /\ ~BeginSolve
  <2>1. phase' = "ready" /\ opt' = opt
    BY <1>2 DEF Next, MainStep, EndLabeling, PostPass, Collect, Returned, LabelStep, StartScc,
                DropDominated, PruneHopeless, OpenLabel, ExtendArc, FinishScc, Visit, Running, vars
  <2> QED BY <2>1 DEF EnumKept
<1>3. CASE phase # "ready" /\ (EndLabeling \/ Collect \/ Returned \/ UNCHANGED vars)
  <2>1. UNCHANGED <<opt, red, labels, extended, dominated, finished, cur, todo, completion>>
    BY <1>3 DEF EndLabeling, Collect, Returned, search, graph, vars
  <2>2. complete' => complete
    <3>1. CASE Collect
      BY <3>1 DEF Collect
    <3>2. CASE EndLabeling \/ Returned \/ UNCHANGED vars
      BY <3>2 DEF EndLabeling, Returned, vars
    <3> QED BY <1>3, <3>1, <3>2
  <2> QED BY <1>3, <2>1, <2>2, EnumStable
<1>4. CASE phase # "ready" /\ PostPass
  <2>1. opt' = opt
    BY <1>4 DEF PostPass
  <2>2. CASE ~LoneEnum
    BY <2>1, <2>2 DEF EnumKept, LoneEnum, Enumerating
  <2>3. CASE LoneEnum
    <3>1. "fw" \in Dir
      BY DEF Dir
    <3>2. completion'["fw"] = completion["fw"]
      BY <1>4, <2>3, <3>1 DEF PostPass, LoneEnum
    <3>3. UNCHANGED <<opt, red, labels, extended, dominated, finished, cur, todo, complete>>
      BY <1>4, <2>3 DEF PostPass, LoneEnum, graph
    <3> QED BY <1>4, <3>2, <3>3, EnumStable
  <2> QED BY <2>2, <2>3
<1>5. ASSUME NEW d \in Dir, LabelStep(d)
      PROVE  EnumKept'
  <2>1. phase = "label" /\ phase' = "label" /\ opt' = opt /\ d \in Directions
    BY <1>5 DEF LabelStep, StartScc, DropDominated, PruneHopeless, OpenLabel, ExtendArc, FinishScc,
                Visit, Running
  <2>2. CASE ~LoneEnum
    BY <2>1, <2>2 DEF EnumKept, LoneEnum, Enumerating
  <2>3. CASE LoneEnum
    <3>1. d = "fw"
      BY <2>1, <2>3 DEF LoneEnum, Directions
    <3>2. \A l \in labels["fw"] : ~DropDominated("fw", l)
      BY <2>3 DEF DropDominated, LoneEnum
    <3>3. ASSUME NEW s \in Sccs["fw"], StartScc("fw", s) PROVE EnumKept'
      <4>1. UNCHANGED <<opt, red, labels, extended, dominated, finished, cur, todo, completion,
                        complete>>
        BY <3>3 DEF StartScc, graph
      <4> QED BY <2>1, <4>1, EnumStable
    <3> QED BY <1>5, <3>1, <3>2, <3>3, EnumPrune, EnumOpen, EnumExtend, EnumFinishScc DEF LabelStep
  <2> QED BY <2>2, <2>3
<1> QED BY <1>1, <1>2, <1>3, <1>4, <1>5 DEF Next, MainStep

\* A complete enumeration has returned every label at the sink that is below theta.
AllReturned ==
  (phase = "done" /\ LoneEnum /\ complete) => SinkCandidates \subseteq result

LEMMA AllReturnedStays ==
  ASSUME InOrder, EnumKept, AllReturned, [Next]_vars
  PROVE  AllReturned'
<1>1. CASE BeginSolve \/ EndLabeling \/ PostPass
  BY <1>1 DEF BeginSolve, EndLabeling, PostPass, AllReturned
<1>2. CASE Returned \/ UNCHANGED vars
  <2>1. UNCHANGED <<opt, labels, dominated, result, phase, complete>>
    BY <1>2 DEF Returned, vars, search
  <2> QED BY <2>1 DEF AllReturned, LoneEnum, Enumerating, SinkCandidates, Live
<1>3. CASE Collect
  <2>1. UNCHANGED <<opt, labels, dominated>> /\ phase # "ready"
    BY <1>3 DEF Collect, search
  <2> SUFFICES ASSUME LoneEnum, complete' PROVE SinkCandidates \subseteq result'
    BY <2>1 DEF AllReturned, LoneEnum, Enumerating, SinkCandidates, Live
  <2>2. PICK C \in Collected :
          /\ result' \in Selections(C \cup SinkCandidates)
          /\ complete' = (complete /\ ~(Enumerating /\ MaxPaths > 0
                                          /\ Cardinality(C \cup SinkCandidates) > MaxPaths))
    BY <1>3 DEF Collect
  <2>3. ConcatCandidates = {}
    BY DEF ConcatCandidates, LoneEnum
  <2>4. C = {}
    <3>1. Collected \subseteq {D \cup {c \in ConcatCandidates : Shielded(c)} :
                                 D \in SUBSET {c \in ConcatCandidates : ~Shielded(c)}}
      BY DEF Collected, LoneEnum
    <3>2. C \subseteq ConcatCandidates
      BY <3>1
    <3> QED BY <2>3, <3>2
  <2>5. C \cup SinkCandidates = SinkCandidates
    BY <2>4
  <2>6. Cardinality(SinkCandidates) \in Nat
    <3> DEFINE S == {x \in Live("fw") : This(x).v = Sink /\ This(x).cost < opt.theta}
               f == [l \in S |-> [fw |-> l, bw |-> <<>>, arc |-> NoArc, cost |-> This(l).cost,
                                  real |-> This(l).real]]
    <3>1. EnumOK
      BY <2>1 DEF EnumKept
    <3>2. S \in SUBSET labels["fw"] /\ IsFiniteSet(labels["fw"])
      BY <3>1 DEF EnumOK, Live
    <3>3. f \in [S -> SinkCandidates] /\ \A c \in SinkCandidates : \E l \in S : f[l] = c
      BY DEF SinkCandidates
    <3> HIDE DEF S, f
    <3>4. IsFiniteSet(S)
      BY <3>2, FS_Subset
    <3>5. IsFiniteSet(SinkCandidates)
      BY <3>3, <3>4, ImageFinite
    <3> QED BY <3>5, FS_CardinalityType
  <2>7. MaxPaths = 0 \/ Cardinality(SinkCandidates) <= MaxPaths
    <3>1. ~(MaxPaths > 0 /\ Cardinality(SinkCandidates) > MaxPaths)
      BY <2>2, <2>5 DEF LoneEnum
    <3> QED BY <2>6, <3>1, OptionAssumption
  <2>8. result' = SinkCandidates
    BY <2>2, <2>5, <2>7 DEF Selections
  <2> QED BY <2>8
<1>4. ASSUME NEW d \in Dir, LabelStep(d)
      PROVE  AllReturned'
  <2>1. phase = "label" /\ phase' = phase
    BY <1>4 DEF LabelStep, StartScc, DropDominated, PruneHopeless, OpenLabel, ExtendArc, FinishScc,
                Visit, Running
  <2> QED BY <2>1 DEF AllReturned
<1> QED BY <1>1, <1>2, <1>3, <1>4 DEF Next, MainStep

\* So all this holds throughout.
LEMMA AlwaysEnumerated == Spec => [](InOrder /\ EnumKept /\ AllReturned)
<1>1. Init => EnumKept /\ AllReturned
  BY DEF Init, EnumKept, AllReturned
<1>2. InOrder /\ EnumKept /\ AllReturned /\ [Next]_vars => (EnumKept /\ AllReturned)'
  BY EnumStays, AllReturnedStays
<1> QED BY <1>1, <1>2, AlwaysInOrder, PTL DEF Spec


-----------------------------------------------------------------------------
\* The node n is where the walk u arrives.
IsEnd(n, u) ==
  LET m == EndNode(u)
  IN n.v = m.v /\ n.q = m.q /\ n.cost = m.cost /\ n.st = m.st

\* No bound makes a label hopeless that a path below theta goes through.
LEMMA WorthyIsNotHopeless ==
  ASSUME BoundsReach, InOrder, BoundsOfCosts, NEW w \in Paths, Worth(w),
         NEW i \in 0..Len(w), NEW n, IsEnd(n, SubSeq(w, 1, i))
  PROVE  ~Hopeless("fw", n)
<1> DEFINE u == SubSeq(w, 1, i)
           rest == CostOf(Rest("fw", w, i))
           bound == completion["fw"][Passed(w, i)]
<1>1. opt.theta \in Int /\ red \in [Arc -> Int] /\ opt.mode \in Modes /\ "fw" \in Dir
  BY OptionAssumption DEF InOrder, Inductive, TypeOK, SolveType, BoundsOfCosts, Dir
<1>2. w \in PartialWalks /\ w \in Seq(Arc) /\ u \in PartialWalks /\ u \in Seq(Arc)
  BY Beginnings, LayersAreWalks DEF Paths
<1>3. /\ Passed(w, i) = BucketOf(EndNode(u).v, EndNode(u).q) /\ EndNode(u).cost = CostOf(u)
      /\ BucketOf(EndNode(u).v, EndNode(u).q) \in Bucket
  BY <1>1, <1>2, ArrivalIsEnd, EndNodeType DEF Passed
<1>4. CostOf(u) \in Int /\ rest \in Int /\ CostOf(u) + rest = CostOf(w) /\ CostOf(w) < opt.theta
  <2>1. rest \in Int /\ CostOf(u) + rest = CostOf(w)
    BY <1>1, <1>2, SumOfRest DEF CostOf, Rest
  <2>2. CostOf(u) \in Int
    BY <1>1, <1>2, SumType DEF CostOf
  <2> QED BY <2>1, <2>2 DEF Worth
<1>5. BucketOf(n.v, n.q) = Passed(w, i) /\ n.cost = CostOf(u)
  BY <1>3 DEF IsEnd
<1>6. bound \in Int /\ (bound < Inf => bound <= rest)
  <2>1. CASE completion["fw"] = NoBounds
    <3>1. bound = Inf
      BY <1>3, <2>1 DEF NoBounds
    <3> QED BY <3>1, ProblemAssumption
  <2>2. CASE completion["fw"] # NoBounds
    <3>1. ArcsOfBuckets("fw", BuiltArcs)
      BY DEF ArcsOfBuckets
    <3>2. bound <= rest
      BY <1>1, <2>2, BoundOfPath
    <3>3. completion["fw"] = CompletionBounds("fw", BuiltArcs, red)
      BY <1>1, <2>2 DEF BoundsOfCosts
    <3>4. bound \in Int
      BY <1>1, <1>3, <3>1, <3>3, CompletionBoundsType
    <3> QED BY <3>2, <3>4
  <2> QED BY <2>1, <2>2
<1> HIDE DEF u, rest, bound
<1>8. Hopeless("fw", n) => bound < Inf /\ CostOf(u) + bound >= opt.theta
  BY <1>5 DEF Hopeless, bound
<1>9. ~(bound < Inf /\ CostOf(u) + bound >= opt.theta)
  <2>1. CostOf(w) \in Int
    BY <1>4
  <2> QED BY <1>1, <1>4, <1>6, <2>1
<1> QED BY <1>8, <1>9

\* The arcs of a child are its parent's and its own.
LEMMA ArcsOfChild ==
  ASSUME NEW l \in Label, NEW n \in Node
  PROVE  ArcsOf(Append(l, n)) = Append(ArcsOf(l), n.arc) /\ This(Append(l, n)) = n
<1> DEFINE k == Append(l, n)
           L == Len(l)
<1>1. /\ L \in Nat \ {0} /\ Len(k) = L + 1 /\ k[L + 1] = n /\ \A i \in 1..L : k[i] = l[i]
  BY LabelNodes DEF Label
<1>2. This(k) = n
  BY <1>1 DEF This
<1>3. ArcsOf(k) = [i \in 1..L |-> k[i + 1].arc] /\ ArcsOf(l) = [i \in 1..L - 1 |-> l[i + 1].arc]
  BY <1>1 DEF ArcsOf
<1>4. L - 1 \in Nat /\ (L - 1) + 1 = L /\ \A i \in 1..L - 1 : i + 1 \in 1..L /\ i \in 1..L
  BY <1>1
<1> HIDE DEF k, L
<1>5. Append(ArcsOf(l), n.arc)
        = [i \in 1..L |-> IF i <= L - 1 THEN l[i + 1].arc ELSE n.arc]
  <2> DEFINE s == ArcsOf(l)
  <2>1. Len(s) = L - 1
    BY <1>3, <1>4
  <2>2. \A i \in 1..L - 1 : s[i] = l[i + 1].arc
    BY <1>3
  <2>3. Append(s, n.arc) = [i \in 1..Len(s) + 1 |-> IF i <= Len(s) THEN s[i] ELSE n.arc]
    BY <2>1
  <2> HIDE DEF s
  <2>4. \A i \in 1..L : i <= L - 1 => i \in 1..L - 1
    BY <1>1
  <2> QED BY <1>4, <2>1, <2>2, <2>3, <2>4 DEF s
<1>6. \A i \in 1..L : k[i + 1].arc = IF i <= L - 1 THEN l[i + 1].arc ELSE n.arc
  <2> SUFFICES ASSUME NEW i \in 1..L
               PROVE  k[i + 1].arc = IF i <= L - 1 THEN l[i + 1].arc ELSE n.arc
    OBVIOUS
  <2>1. CASE i <= L - 1
    <3>1. i + 1 \in 1..L
      BY <1>1, <2>1
    <3> QED BY <1>1, <2>1, <3>1
  <2>2. CASE ~(i <= L - 1)
    <3>1. i = L
      BY <1>1, <2>2
    <3> QED BY <1>1, <2>2, <3>1
  <2> QED BY <2>1, <2>2
<1> QED BY <1>2, <1>3, <1>5, <1>6 DEF k

\* A label that some path goes through, up to its k-th arc.
Carried(w, k) ==
  \E l \in labels["fw"] : ArcsOf(l) = SubSeq(w, 1, k) /\ IsEnd(This(l), SubSeq(w, 1, k))

\* One label is carried on to the next arc of a path below theta.
LEMMA CarriedOn ==
  ASSUME PackMeansAllowed, BoundsReach, InOrder, BoundsOfCosts, EnumOK,
         complete, finished["fw"] = Sccs["fw"], NEW w \in Paths, Worth(w),
         NEW k \in 1..Len(w), Carried(w, k - 1)
  PROVE  Carried(w, k)
<1> DEFINE u == SubSeq(w, 1, k - 1)
           v == SubSeq(w, 1, k)
           a == w[k]
<1>1. /\ "fw" \in Dir /\ labels["fw"] \subseteq Label /\ red \in [Arc -> Int]
      /\ LabelsAreSound
  BY DEF InOrder, Inductive, TypeOK, LabelType, GraphType, Dir
<1>2. /\ u \in PartialWalks /\ v = Append(u, a) /\ a \in Arc /\ From[a] = EndOf(u) /\ Feasible(v)
      /\ k \in 0..Len(w) /\ k - 1 \in 0..Len(w)
  <2>1. w \in PartialWalks /\ k \in 0..Len(w) /\ k - 1 \in 0..Len(w)
    BY DEF Paths
  <2> QED BY <2>1, Beginnings
<1>3. PICK l \in labels["fw"] : ArcsOf(l) = u /\ IsEnd(This(l), u)
  BY DEF Carried
<1> HIDE DEF u, v, a
<1>4. /\ CanTake("fw", EndNode(u), a) /\ Taken("fw", EndNode(u), a).v = EndNode(v).v
      /\ Taken("fw", EndNode(u), a).q = EndNode(v).q /\ Taken("fw", EndNode(u), a).cost = EndNode(v).cost
      /\ Taken("fw", EndNode(u), a).st = EndNode(v).st
  BY <1>1, <1>2, EndOfLonger
<1>5. CanTake("fw", This(l), a) /\ IsEnd(Taken("fw", This(l), a), v)
  <2>1. /\ This(l).v = EndNode(u).v /\ This(l).q = EndNode(u).q
        /\ This(l).cost = EndNode(u).cost /\ This(l).st = EndNode(u).st
    BY <1>3 DEF IsEnd
  <2>2. CanTake("fw", This(l), a)
    BY <1>4, <2>1 DEF CanTake, Ahead
  <2>3. Taken("fw", This(l), a) = Taken("fw", EndNode(u), a)
    BY <2>1 DEF Taken, Ahead
  <2> QED BY <1>4, <2>2, <2>3 DEF IsEnd
<1>6. ~Hopeless("fw", This(l))
  BY <1>2, <1>3, WorthyIsNotHopeless DEF u
<1>7. ~Hopeless("fw", Taken("fw", This(l), a))
  BY <1>2, <1>5, WorthyIsNotHopeless DEF v
<1>8. Tried("fw", l, a)
  <2>1. Where(l) \in Bucket
    BY <1>1, <1>3, WhereType DEF LabelsAreSound
  <2>2. Settled("fw", Where(l))
    BY <1>1, <2>1, SccsPartition DEF Settled
  <2> QED BY <1>3, <2>2 DEF EnumOK, NoneWaits, Tried
<1>9. PICK n \in Node :
        /\ Append(l, n) \in labels["fw"] /\ n.arc = a
        /\ n.v = Taken("fw", This(l), a).v /\ n.q = Taken("fw", This(l), a).q
        /\ n.cost = Taken("fw", This(l), a).cost /\ n.st = Taken("fw", This(l), a).st
  <2>1. Listed(l, a)
    BY <1>2, <1>3, <1>5, <1>6, <1>8 DEF EnumOK, ChildrenListed
  <2> QED BY <1>7, <2>1 DEF Listed
<1>10. ArcsOf(Append(l, n)) = Append(u, a) /\ This(Append(l, n)) = n
  BY <1>1, <1>3, <1>9, ArcsOfChild
<1>11. IsEnd(n, v)
  BY <1>5, <1>9 DEF IsEnd
<1> QED BY <1>2, <1>9, <1>10, <1>11 DEF Carried, v

\* So a label stands for every path below theta.
LEMMA PathIsCarried ==
  ASSUME PackMeansAllowed, BoundsReach, InOrder, BoundsOfCosts, EnumOK,
         complete, finished["fw"] = Sccs["fw"], NEW w \in Paths, Worth(w)
  PROVE  \E l \in labels["fw"] : ArcsOf(l) = w /\ IsEnd(This(l), w)
<1> DEFINE S == {k \in Nat : k <= Len(w) => Carried(w, k)}
<1>1. w \in PartialWalks /\ w \in Seq(Arc) /\ Len(w) \in Nat /\ red \in [Arc -> Int]
      /\ "fw" \in Dir /\ labels["fw"] \subseteq Label
  BY Beginnings DEF Paths, InOrder, Inductive, TypeOK, GraphType, LabelType, Dir
<1>2. 0 \in S
  <2>1. SubSeq(w, 1, 0) = <<>>
    BY <1>1
  <2>2. IsEnd(This(InitialLabel("fw")), <<>>)
    BY <1>1, EndOfEmpty DEF IsEnd
  <2>3. ArcsOf(InitialLabel("fw")) = <<>> /\ InitialLabel("fw") \in labels["fw"]
    BY DEF ArcsOf, InitialLabel, EnumOK
  <2>4. Carried(w, 0)
    BY <2>1, <2>2, <2>3 DEF Carried
  <2> QED BY <2>4
<1>3. ASSUME NEW k \in S PROVE k + 1 \in S
  <2> SUFFICES ASSUME k + 1 <= Len(w) PROVE Carried(w, k + 1)
    OBVIOUS
  <2>1. k + 1 \in 1..Len(w) /\ (k + 1) - 1 = k /\ Carried(w, k)
    BY <1>1
  <2> QED BY <2>1, CarriedOn
<1> HIDE DEF S
<1>4. S = Nat
  <2>1. S \in SUBSET Nat
    BY DEF S
  <2> QED BY <1>2, <1>3, <2>1, InductOnNat
<1>5. Carried(w, Len(w))
  BY <1>1, <1>4 DEF S
<1>6. SubSeq(w, 1, Len(w)) = w
  BY <1>1
<1> QED BY <1>5, <1>6 DEF Carried

\* Enumeration misses nothing: when a mono-directional one reports itself complete,
\* it has returned every path below theta, although labels are left out for which
\* the completion bounds see no such path.  Caps need not be ruled out, because
\* complete says whether one was hit.
THEOREM EnumerationMissesNothing ==
  ASSUME PackMeansAllowed, BoundsReach, Modes = {"mono"}
  PROVE  Spec => []EnumerationIsComplete
<1>1. InOrder /\ EnumKept /\ AllReturned /\ Searched /\ BoundsOfCosts => EnumerationIsComplete
  <2> SUFFICES ASSUME InOrder, EnumKept, AllReturned, Searched, BoundsOfCosts,
                      Done, Enumerating, complete, NEW w \in Paths, Worth(w)
               PROVE  Found(w)
    BY DEF EnumerationIsComplete
  <2>1. opt.mode = "mono"
    BY OptionAssumption DEF InOrder, Inductive, TypeOK, SolveType
  <2>2. LoneEnum /\ phase = "done" /\ "fw" \in Directions
    BY <2>1 DEF LoneEnum, Done, Directions
  <2>3. EnumOK /\ finished["fw"] = Sccs["fw"] /\ SinkCandidates \subseteq result
    BY <2>2 DEF EnumKept, Searched, AllReturned
  <2>4. PICK l \in labels["fw"] : ArcsOf(l) = w /\ IsEnd(This(l), w)
    BY <2>3, PathIsCarried
  <2>5. w \in PartialWalks /\ EndOf(w) = Sink /\ CostOf(w) < opt.theta
    BY DEF Paths, Worth
  <2>6. This(l).v = Sink /\ This(l).cost < opt.theta
    <3>1. This(l).v = EndNode(w).v /\ This(l).cost = EndNode(w).cost
      BY <2>4 DEF IsEnd
    <3> QED BY <2>5, <3>1, ArrivalIsEnd
  <2>7. l \in Live("fw")
    BY <2>3 DEF EnumOK, Live
  <2> DEFINE y == [fw |-> l, bw |-> <<>>, arc |-> NoArc, cost |-> This(l).cost,
                   real |-> This(l).real]
  <2>8. y \in SinkCandidates /\ PathOf(y) = w
    BY <2>4, <2>6, <2>7 DEF SinkCandidates, PathOf
  <2> QED BY <2>3, <2>8 DEF Found
<1> QED BY <1>1, AlwaysEnumerated, AlwaysDelivered, BoundsAreOfCosts, PTL

-----------------------------------------------------------------------------
\* Where a path is after its first k arcs.
Stop(w, k) == EndNode(SubSeq(w, 1, k))

\* The stops of a path are what taking its arcs one after the other leads to.
LEMMA FirstStop ==
  ASSUME PackMeansAllowed, red \in [Arc -> Int], NEW w
  PROVE  LET o == This(InitialLabel("fw"))
             n == Stop(w, 0)
         IN /\ o.v = n.v /\ o.q = n.q /\ o.cost = n.cost /\ o.st = n.st
            /\ n.v = Source /\ n.q = [r \in Res |-> Lb[Source][r]] /\ n.cost = 0
<1> DEFINE o == This(InitialLabel("fw"))
           n == Stop(w, 0)
<1>1. n = EndNode(<<>>)
  <2>1. SubSeq(w, 1, 0) = <<>>
    OBVIOUS
  <2> QED BY <2>1 DEF Stop
<1>2. o.v = n.v /\ o.q = n.q /\ o.cost = n.cost /\ o.st = n.st
  BY <1>1, EndOfEmpty
<1>3. o.v = Source /\ o.q = [r \in Res |-> Lb[Source][r]]
      /\ o.cost = ToVertex("fw", InitState("fw"), Source).cost
  BY DEF This, InitialLabel, Origin
<1>4. ToVertex("fw", InitState("fw"), Source).cost = 0
  BY DEF PackMeansAllowed
<1> QED BY <1>2, <1>3, <1>4

LEMMA StopType ==
  ASSUME PackMeansAllowed, red \in [Arc -> Int], NEW w \in PartialWalks, NEW k \in 0..Len(w)
  PROVE  /\ Mark(Stop(w, k)) /\ SubSeq(w, 1, k) \in PartialWalks
         /\ \A r \in Res : /\ Stop(w, k).q[r] >= Lb[Stop(w, k).v][r]
                           /\ Stop(w, k).q[r] <= Ub[Stop(w, k).v][r]
         /\ Stop(w, k).cost = CostOf(SubSeq(w, 1, k)) /\ Stop(w, k).st = StateAfter(SubSeq(w, 1, k))
         /\ Stop(w, k).v = EndOf(SubSeq(w, 1, k))
<1> DEFINE u == SubSeq(w, 1, k)
           n == Stop(w, k)
<1>1. u \in PartialWalks /\ w \in Seq(Arc) /\ Len(w) \in Nat
  BY Beginnings
<1>2. u \in Seq(Arc) /\ n = EndNode(u) /\ Feasible(u)
  BY <1>1, LayersAreWalks, WalksAreFeasible DEF Stop
<1>3. /\ n.v = EndOf(u) /\ n.q = [r \in Res |-> Earliest(u, Len(u) + 1, r)]
      /\ n.cost = CostOf(u) /\ n.st = StateAfter(u)
  BY <1>2 DEF EndNode
<1>4. Mark(n) /\ \A r \in Res : n.q[r] >= Lb[n.v][r]
  BY <1>2, EndNodeType
<1>5. \A r \in Res : n.q[r] <= Ub[n.v][r]
  <2>1. Len(u) + 1 \in 1..Len(u) + 1
    BY <1>2
  <2>2. \A r \in Res : Earliest(u, Len(u) + 1, r) <= Ub[Visited(u)[Len(u) + 1]][r]
    BY <1>2, <2>1 DEF Feasible
  <2> HIDE DEF n, u
  <2> QED BY <1>3, <2>2 DEF EndOf
<1> QED BY <1>1, <1>3, <1>4, <1>5

LEMMA NextStop ==
  ASSUME PackMeansAllowed, red \in [Arc -> Int], NEW w \in PartialWalks, NEW k \in 1..Len(w)
  PROVE  LET m == Stop(w, k - 1)
             n == Stop(w, k)
             t == Taken("fw", m, w[k])
         IN /\ w[k] \in Arc /\ From[w[k]] = m.v /\ To[w[k]] = n.v
            /\ CanTake("fw", m, w[k])
            /\ t.v = n.v /\ t.q = n.q /\ t.cost = n.cost /\ t.st = n.st
            /\ n.q = Advance("fw", m.q, w[k])
            /\ AlongArc("fw", m.st, w[k]).cost = 0 /\ AlongArc("fw", m.st, w[k]).cost < Inf
            /\ ToVertex("fw", AlongArc("fw", m.st, w[k]).st, n.v).cost = 0
            /\ ToVertex("fw", AlongArc("fw", m.st, w[k]).st, n.v).cost < Inf
            /\ n.st = ToVertex("fw", AlongArc("fw", m.st, w[k]).st, n.v).st
<1> DEFINE a == w[k]
           u == SubSeq(w, 1, k - 1)
           m == Stop(w, k - 1)
           n == Stop(w, k)
           t == Taken("fw", m, a)
           along == AlongArc("fw", m.st, a)
<1>1. k - 1 \in 0..Len(w) /\ k \in 0..Len(w) /\ k \in Nat
  <2>1. Len(w) \in Nat
    BY Beginnings
  <2> QED BY <2>1
<1>2. /\ u \in PartialWalks /\ a \in Arc /\ From[a] = EndOf(u)
      /\ SubSeq(w, 1, k) = Append(u, a) /\ Feasible(Append(u, a))
  <2>1. SubSeq(w, 1, k) = Append(u, a) /\ a \in Arc /\ From[a] = EndOf(u) /\ Feasible(SubSeq(w, 1, k))
    BY Beginnings
  <2> QED BY <1>1, <2>1, Beginnings
<1>3. m = EndNode(u) /\ n = EndNode(Append(u, a)) /\ m.v = EndOf(u) /\ m.st = StateAfter(u)
  BY <1>2 DEF Stop, EndNode
<1>4. CanTake("fw", m, a) /\ t.v = n.v /\ t.q = n.q /\ t.cost = n.cost /\ t.st = n.st
  BY <1>2, <1>3, EndOfLonger
<1>5. t.v = To[a] /\ t.q = Advance("fw", m.q, a) /\ t.st = ToVertex("fw", along.st, To[a]).st
  BY DEF Taken, Ahead
<1>6. /\ along.cost < Inf /\ ToVertex("fw", along.st, To[a]).cost < Inf
      /\ along.cost = 0 /\ ToVertex("fw", along.st, To[a]).cost = 0
  <2>1. a \in ArcsAt("fw", EndOf(u))
    BY <1>2 DEF ArcsAt, Behind
  <2>2. along.cost < Inf /\ ToVertex("fw", along.st, To[a]).cost < Inf
    BY <1>4 DEF CanTake, Ahead
  <2> QED BY <1>2, <1>3, <2>1, <2>2 DEF PackMeansAllowed
<1> HIDE DEF m, n, t, along, a
<1> QED BY <1>2, <1>3, <1>4, <1>5, <1>6 DEF m, n, t, along, a

\* The costs behind and ahead of a stop make up the costs of the path.
RestCost(w, k) == CostOf(SubSeq(w, k + 1, Len(w)))

LEMMA RestCosts ==
  ASSUME PackMeansAllowed, red \in [Arc -> Int], NEW w \in PartialWalks
  PROVE  /\ RestCost(w, Len(w)) = 0 /\ CostOf(w) \in Int
         /\ \A k \in 0..Len(w) : RestCost(w, k) \in Int /\ Stop(w, k).cost + RestCost(w, k) = CostOf(w)
         /\ \A k \in 1..Len(w) : RestCost(w, k - 1) = red[w[k]] + RestCost(w, k)
         /\ Stop(w, Len(w)) = EndNode(w)
<1>1. w \in Seq(Arc) /\ Len(w) \in Nat
  BY Beginnings
<1>2. /\ RestCost(w, Len(w)) = 0
      /\ \A k \in 0..Len(w) : RestCost(w, k) \in Int
      /\ \A k \in 0..Len(w) : CostOf(SubSeq(w, 1, k)) + RestCost(w, k) = CostOf(w)
  BY <1>1, SumOfRest DEF RestCost, CostOf
<1>3. \A k \in 1..Len(w) : RestCost(w, k - 1) = red[w[k]] + RestCost(w, k)
  <2> SUFFICES ASSUME NEW k \in 1..Len(w) PROVE RestCost(w, k - 1) = red[w[k]] + RestCost(w, k)
    OBVIOUS
  <2>1. (k - 1) + 1 = k
    BY <1>1
  <2> QED BY <1>1, <2>1, SumOfRest DEF RestCost, CostOf
<1>4. \A k \in 0..Len(w) : Stop(w, k).cost = CostOf(SubSeq(w, 1, k))
  BY StopType
<1>5. CostOf(w) \in Int
  BY <1>1, SumType DEF CostOf
<1>6. Stop(w, Len(w)) = EndNode(w)
  <2>1. SubSeq(w, 1, Len(w)) = w
    BY <1>1
  <2> QED BY <2>1 DEF Stop
<1> QED BY <1>2, <1>3, <1>4, <1>5, <1>6

-----------------------------------------------------------------------------
\* A path may be cut at every arc: In[v] are the states with which forward labels
\* arrive at v, Out[v] those of backward labels that have left v behind.
PackCuts(In, Out) == Cuttable(In, Out, InitState, AlongArc, ToVertex, ConcatCost)

\* The state in which a walk arrives, before its last vertex is counted.
LEMMA ArrivesIn ==
  ASSUME PackMeansAllowed, red \in [Arc -> Int], NEW In, NEW Out, PackCuts(In, Out), NEW w \in PartialWalks
  PROVE  \E s \in In[EndOf(w)] : /\ ToVertex("fw", s, EndOf(w)).st = StateAfter(w)
                                 /\ ToVertex("fw", s, EndOf(w)).cost < Inf
<1> DEFINE P == {u \in PartialWalks :
                   \E s \in In[EndOf(u)] : /\ ToVertex("fw", s, EndOf(u)).st = StateAfter(u)
                                           /\ ToVertex("fw", s, EndOf(u)).cost < Inf}
<1>1. <<>> \in P
  <2>1. <<>> \in PartialWalks
    <3>1. 0 \in 0..MaxWalk
      BY LayersAreWalks
    <3> QED BY <3>1, LayersAreWalks, UptoDef
  <2>2. EndOf(<<>>) = Source /\ StateAfter(<<>>) = ToVertex("fw", InitState("fw"), Source).st
    <3>1. <<>> \in Seq(Arc)
      OBVIOUS
    <3> QED BY <3>1, VisitedType, StateType DEF StateAtStart
  <2>3. InitState("fw") \in In[Source] /\ ToVertex("fw", InitState("fw"), Source).cost < Inf
    BY DEF PackCuts, Cuttable
  <2> QED BY <2>1, <2>2, <2>3
<1>2. ASSUME NEW u \in PartialWalks, u \in P, NEW a \in Arc,
             From[a] = EndOf(u), Feasible(Append(u, a)), Append(u, a) \in PartialWalks
      PROVE  Append(u, a) \in P
  <2> DEFINE v == EndOf(u)
             m == EndNode(u)
             along == AlongArc("fw", StateAfter(u), a)
             at == ToVertex("fw", along.st, To[a])
  <2>1. PICK s \in In[v] : ToVertex("fw", s, v).st = StateAfter(u) /\ ToVertex("fw", s, v).cost < Inf
    BY <1>2
  <2>2. u \in Seq(Arc) /\ v \in Vertex /\ EndOf(Append(u, a)) = To[a]
    BY <1>2, LayersAreWalks, VisitedAppend
  <2>3. along.cost < Inf /\ at.cost < Inf
    <3>1. CanTake("fw", m, a) /\ m.st = StateAfter(u)
      BY <1>2, EndOfLonger DEF EndNode
    <3> QED BY <3>1 DEF CanTake, Ahead
  <2>4. a \in ArcsAt("fw", v)
    BY <1>2 DEF ArcsAt, Behind
  <2>5. along.st \in In[To[a]]
    <3> HIDE DEF v
    <3> QED BY <2>1, <2>2, <2>3, <2>4 DEF PackCuts, Cuttable
  <2>6. at.st = StateAfter(Append(u, a))
    BY <2>2, StateAppend DEF Onto
  <2> QED BY <1>2, <2>2, <2>3, <2>5, <2>6
<1>3. \A u \in PartialWalks \cap P : \A a \in Arc :
        From[a] = EndOf(u) /\ Feasible(Append(u, a)) /\ Append(u, a) \in PartialWalks
          => Append(u, a) \in P
  BY <1>2
<1>4. w \in P
  <2> HIDE DEF P
  <2> QED BY <1>1, <1>3, WalkInduction
<1> QED BY <1>4

\* The state with which the k-th arc of a path arrives.
Arriving(w, k) == AlongArc("fw", Stop(w, k - 1).st, w[k]).st

LEMMA ArrivingIn ==
  ASSUME PackMeansAllowed, red \in [Arc -> Int], NEW In, NEW Out, PackCuts(In, Out),
         NEW w \in PartialWalks, NEW k \in 1..Len(w)
  PROVE  /\ Arriving(w, k) \in In[Stop(w, k).v] /\ Arriving(w, k) \in PackState
         /\ ToVertex("fw", Arriving(w, k), Stop(w, k).v).st = Stop(w, k).st
         /\ ToVertex("fw", Arriving(w, k), Stop(w, k).v).cost = 0
         /\ ToVertex("fw", Arriving(w, k), Stop(w, k).v).cost < Inf
<1> DEFINE m == Stop(w, k - 1)
           n == Stop(w, k)
           a == w[k]
<1>1. k - 1 \in 0..Len(w)
  <2>1. Len(w) \in Nat
    BY Beginnings
  <2> QED BY <2>1
<1>2. /\ a \in Arc /\ From[a] = m.v /\ To[a] = n.v /\ AlongArc("fw", m.st, a).cost < Inf
      /\ ToVertex("fw", Arriving(w, k), n.v).cost = 0
      /\ ToVertex("fw", Arriving(w, k), n.v).cost < Inf
      /\ n.st = ToVertex("fw", Arriving(w, k), n.v).st
  BY NextStop DEF Arriving
<1>3. /\ SubSeq(w, 1, k - 1) \in PartialWalks /\ m.v = EndOf(SubSeq(w, 1, k - 1))
      /\ m.st = StateAfter(SubSeq(w, 1, k - 1)) /\ Mark(m)
  BY <1>1, StopType
<1>4. PICK s \in In[m.v] : ToVertex("fw", s, m.v).st = m.st /\ ToVertex("fw", s, m.v).cost < Inf
  BY <1>3, ArrivesIn
<1>5. a \in ArcsAt("fw", m.v) /\ m.v \in Vertex /\ m.st \in PackState
  BY <1>2, <1>3 DEF ArcsAt, Behind, Mark
<1>6. Arriving(w, k) \in In[To[a]]
  <2> HIDE DEF m, a
  <2>1. AlongArc("fw", m.st, a).st \in In[To[a]]
    BY <1>2, <1>4, <1>5 DEF PackCuts, Cuttable
  <2> QED BY <2>1 DEF Arriving, m, a
<1>7. Arriving(w, k) \in PackState
  <2>1. "fw" \in Dir
    BY DEF Dir
  <2> HIDE DEF m, a
  <2>2. AlongArc("fw", m.st, a) \in [st : PackState, cost : Int]
    BY <1>2, <1>5, <2>1, PackAssumption
  <2> QED BY <2>2 DEF Arriving, m, a
<1> QED BY <1>2, <1>6, <1>7

\* x is where backward labeling would be after it took the arcs of the path from the
\* last to the one after the i-th: it has resources enough for the beginning of
\* the path, and what the two have paid makes up the costs of the rest.
HalfWay(Out, w, i, x) ==
  /\ Mark(x) /\ x.v = Stop(w, i).v /\ x.st \in Out[x.v]
  /\ \A r \in Res : Stop(w, i).q[r] <= x.q[r]
  /\ ConcatCost(x.v, Arriving(w, i), x.st) < Inf
  /\ x.cost + ConcatCost(x.v, Arriving(w, i), x.st) = RestCost(w, i)

\* It starts at the sink.
LEMMA BackStart ==
  ASSUME PackMeansAllowed, red \in [Arc -> Int], NEW In, NEW Out, PackCuts(In, Out),
         NEW w \in Paths, Len(w) # 0
  PROVE  HalfWay(Out, w, Len(w), This(InitialLabel("bw")))
<1> DEFINE n == Len(w)
           o == This(InitialLabel("bw"))
           last == ToVertex("bw", InitState("bw"), Sink)
           s == Arriving(w, n)
<1>1. w \in PartialWalks /\ EndOf(w) = Sink /\ n \in Nat /\ n \in 1..n /\ n \in 0..n
  <2>1. w \in PartialWalks /\ EndOf(w) = Sink
    BY DEF Paths
  <2>2. n \in Nat
    BY <2>1, Beginnings
  <2> QED BY <2>1, <2>2
<1>2. o.v = Sink /\ o.q = [r \in Res |-> Ub[Sink][r]] /\ o.cost = last.cost /\ o.st = last.st
  BY DEF This, InitialLabel, Origin
<1>3. Mark(o)
  BY InitialLabelType, LabelMarks DEF Dir
<1>4. Stop(w, n).v = Sink /\ \A r \in Res : Stop(w, n).q[r] <= Ub[Sink][r]
  <2>1. Stop(w, n) = EndNode(w) /\ EndNode(w).v = EndOf(w)
    BY <1>1, RestCosts DEF EndNode
  <2> QED BY <1>1, <2>1, StopType
<1>5. s \in In[Sink] /\ ToVertex("fw", s, Sink).cost < Inf /\ ToVertex("fw", s, Sink).cost = 0
  BY <1>1, <1>4, ArrivingIn
<1>6. /\ ConcatCost(Sink, s, last.st) < Inf
      /\ ConcatCost(Sink, s, last.st) + last.cost = 0 /\ last.st \in Out[Sink]
      /\ ConcatCost(Sink, s, last.st) \in Int /\ last.cost \in Int
  <2>1. Sink \in Vertex
    BY ProblemAssumption
  <2> HIDE DEF s
  <2> QED BY <1>5, <2>1 DEF PackCuts, Cuttable
<1>7. RestCost(w, n) = 0
  BY <1>1, RestCosts
<1> HIDE DEF o, s, last
<1>8. \A r \in Res : Stop(w, n).q[r] <= o.q[r]
  BY <1>2, <1>4
<1>9. o.cost + ConcatCost(o.v, s, o.st) = RestCost(w, n)
  BY <1>2, <1>6, <1>7
<1> QED BY <1>2, <1>3, <1>4, <1>6, <1>8, <1>9 DEF HalfWay, o, s

\* And takes one arc after the other.
LEMMA BackStep ==
  ASSUME PackMeansAllowed, red \in [Arc -> Int], NEW In, NEW Out, PackCuts(In, Out),
         NEW w \in PartialWalks, NEW i \in 1..Len(w), i + 1 <= Len(w), NEW x, HalfWay(Out, w, i + 1, x)
  PROVE  CanTake("bw", x, w[i + 1]) /\ HalfWay(Out, w, i, Taken("bw", x, w[i + 1]))
<1> DEFINE a == w[i + 1]
           m == Stop(w, i)
           n == Stop(w, i + 1)
           s == Arriving(w, i)
           t == Taken("bw", x, a)
           back == AlongArc("bw", x.st, a)
           here == ToVertex("bw", back.st, From[a])
           c == ConcatCost(From[a], s, here.st)
           e == ConcatCost(To[a], Arriving(w, i + 1), x.st)
<1>1. Len(w) \in Nat /\ i \in Nat /\ i \in 0..Len(w) /\ i + 1 \in 1..Len(w) /\ (i + 1) - 1 = i
  <2>1. Len(w) \in Nat
    BY Beginnings
  <2> QED BY <2>1
<1>2. /\ a \in Arc /\ From[a] = m.v /\ To[a] = n.v /\ n.q = Advance("fw", m.q, a)
      /\ AlongArc("fw", m.st, a).cost = 0 /\ AlongArc("fw", m.st, a).cost < Inf
  BY <1>1, NextStop
<1>3. /\ s \in In[m.v] /\ s \in PackState /\ ToVertex("fw", s, m.v).st = m.st
      /\ ToVertex("fw", s, m.v).cost = 0 /\ ToVertex("fw", s, m.v).cost < Inf
  BY ArrivingIn
<1>4. Arriving(w, i + 1) = AlongArc("fw", m.st, a).st
  BY <1>1 DEF Arriving
<1>5. /\ Mark(x) /\ x.v = n.v /\ x.st \in Out[n.v] /\ e < Inf /\ x.cost + e = RestCost(w, i + 1)
      /\ \A r \in Res : n.q[r] <= x.q[r]
  BY <1>2 DEF HalfWay
<1>6. /\ Mark(m) /\ \A r \in Res : m.q[r] >= Lb[m.v][r] /\ m.q[r] <= Ub[m.v][r]
  BY <1>1, StopType
<1>7. RestCost(w, i) = red[a] + RestCost(w, i + 1) /\ RestCost(w, i + 1) \in Int /\ red[a] \in Int
  BY <1>1, <1>2, RestCosts
<1>8. /\ back.cost < Inf /\ here.cost < Inf /\ c < Inf
      /\ c + back.cost + here.cost = e
      /\ back.cost \in Int /\ here.cost \in Int /\ c \in Int /\ e \in Int
      /\ here.st \in Out[From[a]]
  <2>1. m.v \in Vertex /\ a \in ArcsAt("fw", m.v) /\ x.st \in Out[To[a]]
    BY <1>2, <1>5, <1>6 DEF Mark, ArcsAt, Behind
  <2>2. e = ConcatCost(To[a], AlongArc("fw", ToVertex("fw", s, m.v).st, a).st, x.st)
    BY <1>3, <1>4
  <2> DEFINE at == ToVertex("fw", s, m.v)
             along == AlongArc("fw", at.st, a)
  <2>3. at.cost = 0 /\ at.cost < Inf /\ along.cost = 0 /\ along.cost < Inf
    BY <1>2, <1>3
  <2>4. here = ToVertex("bw", back.st, m.v) /\ c = ConcatCost(m.v, s, here.st)
    BY <1>2
  <2>5. /\ back.cost \in Int /\ here.cost \in Int
        /\ back.cost < Inf /\ here.cost < Inf => here.st \in Out[From[a]]
    BY <1>2, <2>1 DEF PackCuts, Cuttable
  <2>6. /\ back.cost < Inf /\ here.cost < Inf /\ c < Inf
             <=> at.cost < Inf /\ along.cost < Inf /\ e < Inf
        /\ at.cost < Inf /\ along.cost < Inf /\ e < Inf =>
             /\ c \in Int /\ e \in Int
             /\ c + back.cost + here.cost = at.cost + along.cost + e
    <3> HIDE DEF m, n, s, a, at, along, back, here, c, e
    <3>1. \A s1 \in In[m.v] : \A x1 \in Out[To[a]] :
            LET at1 == ToVertex("fw", s1, m.v)
                along1 == AlongArc("fw", at1.st, a)
                back1 == AlongArc("bw", x1, a)
                here1 == ToVertex("bw", back1.st, m.v)
                c1 == ConcatCost(m.v, s1, here1.st)
                d1 == ConcatCost(To[a], along1.st, x1)
            IN /\ back1.cost < Inf /\ here1.cost < Inf /\ c1 < Inf
                     <=> at1.cost < Inf /\ along1.cost < Inf /\ d1 < Inf
               /\ at1.cost < Inf /\ along1.cost < Inf /\ d1 < Inf =>
                    /\ c1 \in Int /\ d1 \in Int
                    /\ c1 + back1.cost + here1.cost = at1.cost + along1.cost + d1
      BY <2>1 DEF PackCuts, Cuttable
    <3> QED BY <1>3, <2>1, <2>2, <2>4, <3>1 DEF at, along, back
  <2>7. back.cost < Inf /\ here.cost < Inf /\ c < Inf /\ c \in Int /\ e \in Int
        /\ c + back.cost + here.cost = at.cost + along.cost + e
    <3> HIDE DEF at, along, back, here, c, e
    <3> QED BY <1>5, <2>3, <2>6
  <2> HIDE DEF at, along, back, here, c, e
  <2> QED BY <2>3, <2>5, <2>7
<1>9. /\ t.v = From[a] /\ t.q = Advance("bw", x.q, a) /\ t.st = here.st
      /\ t.cost = x.cost + red[a] + back.cost + here.cost
  BY DEF Taken, Ahead
<1>10. Mark(t)
  BY <1>2, <1>5, TakenType DEF Dir
<1>11. \A r \in Res : m.q[r] <= Advance("bw", x.q, a)[r]
  <2> SUFFICES ASSUME NEW r \in Res PROVE m.q[r] <= Advance("bw", x.q, a)[r]
    OBVIOUS
  <2>1. /\ m.q[r] \in Int /\ x.q[r] \in Int /\ Use[a][r] \in Int
        /\ Lb[To[a]][r] \in Int /\ Ub[From[a]][r] \in Int
    BY <1>2, <1>5, <1>6, TableType DEF Mark
  <2>2. Larger(m.q[r] + Use[a][r], Lb[To[a]][r]) <= x.q[r]
    BY <1>2, <1>5 DEF Advance
  <2>3. m.q[r] <= Ub[From[a]][r]
    BY <1>2, <1>6
  <2>4. Advance("bw", x.q, a)[r] = Smaller(x.q[r] - Use[a][r], Ub[From[a]][r])
    BY DEF Advance
  <2> HIDE DEF m, a
  <2> QED BY <2>1, <2>2, <2>3, <2>4 DEF Larger, Smaller
<1>12. CanTake("bw", x, a)
  <2>1. a \in ArcsAt("bw", x.v)
    BY <1>2, <1>5 DEF ArcsAt, Behind
  <2>2. InWindow("bw", From[a], Advance("bw", x.q, a))
    <3> SUFFICES ASSUME NEW r \in Res PROVE Advance("bw", x.q, a)[r] >= Lb[From[a]][r]
      BY DEF InWindow
    <3>1. m.q[r] \in Int /\ Lb[From[a]][r] \in Int /\ m.q[r] >= Lb[From[a]][r]
      BY <1>2, <1>6, TableType DEF Mark
    <3>2. Advance("bw", x.q, a)[r] \in Int
      BY <1>9, <1>10 DEF Mark
    <3> QED BY <1>11, <3>1, <3>2
  <2> QED BY <1>8, <2>1, <2>2 DEF CanTake, Ahead
<1>13. t.cost + ConcatCost(t.v, s, t.st) = RestCost(w, i)
  <2> DEFINE rest == RestCost(w, i + 1)
             r == red[a]
             b == back.cost
             h == here.cost
             k == x.cost
             g == t.cost
  <2>1. k \in Int /\ g \in Int /\ r \in Int /\ b \in Int /\ h \in Int /\ c \in Int /\ e \in Int /\ rest \in Int
    BY <1>5, <1>7, <1>8, <1>10 DEF Mark
  <2>2. ConcatCost(t.v, s, t.st) = c
    BY <1>9
  <2>3. g = k + r + b + h
    BY <1>9
  <2>4. c + b + h = e
    BY <1>8
  <2>5. k + e = rest
    BY <1>5
  <2>6. RestCost(w, i) = r + rest
    BY <1>7
  <2>7. g + c = r + rest
    <3> HIDE DEF k, g, r, b, h, c, e, rest
    <3> QED BY <2>1, <2>3, <2>4, <2>5
  <2> HIDE DEF t, c, s, rest, r
  <2> QED BY <2>2, <2>6, <2>7 DEF g
<1>14. ConcatCost(t.v, s, t.st) < Inf /\ t.st \in Out[t.v] /\ t.v = m.v
  BY <1>2, <1>8, <1>9
<1>15. \A r \in Res : m.q[r] <= t.q[r]
  BY <1>9, <1>11
<1>16. HalfWay(Out, w, i, t)
  <2> HIDE DEF t, s, m
  <2> QED BY <1>10, <1>13, <1>14, <1>15 DEF HalfWay, s, m
<1> QED BY <1>12, <1>16

-----------------------------------------------------------------------------
\* The first resource is never given back, and a solve starts before its midpoint.
LEMMA StopsAdvance ==
  ASSUME PackMeansAllowed, red \in [Arc -> Int], NothingIsGivenBack, NEW w \in PartialWalks
  PROVE  \A j \in 0..Len(w) : \A k \in j..Len(w) : Stop(w, j).q[1] <= Stop(w, k).q[1]
<1> DEFINE N == Len(w)
<1>1. N \in Nat /\ 1 \in Res
  BY Beginnings, ResType
<1>2. \A k \in 0..N : Stop(w, k).q[1] \in Int
  BY <1>1, StopType DEF Mark
<1>3. \A k \in 1..N : Stop(w, k - 1).q[1] <= Stop(w, k).q[1]
  <2> SUFFICES ASSUME NEW k \in 1..N PROVE Stop(w, k - 1).q[1] <= Stop(w, k).q[1]
    OBVIOUS
  <2>1. w[k] \in Arc /\ Stop(w, k).q = Advance("fw", Stop(w, k - 1).q, w[k])
    BY NextStop
  <2>2. Stop(w, k).q[1] = Larger(Stop(w, k - 1).q[1] + Use[w[k]][1], Lb[To[w[k]]][1])
    BY <1>1, <2>1 DEF Advance
  <2>3. Use[w[k]][1] \in Int /\ Use[w[k]][1] >= 0 /\ Lb[To[w[k]]][1] \in Int
    BY <1>1, <2>1, TableType DEF NothingIsGivenBack
  <2>4. k - 1 \in 0..N
    BY <1>1
  <2>5. Stop(w, k - 1).q[1] \in Int
    BY <1>2, <2>4
  <2> QED BY <2>2, <2>3, <2>5 DEF Larger
<1> SUFFICES ASSUME NEW j \in 0..N
             PROVE  \A k \in j..N : Stop(w, j).q[1] <= Stop(w, k).q[1]
  OBVIOUS
<1> DEFINE P == {i \in Nat : j + i <= N => Stop(w, j).q[1] <= Stop(w, j + i).q[1]}
<1>4. 0 \in P
  <2>1. j + 0 = j
    OBVIOUS
  <2>2. Stop(w, j).q[1] \in Int
    BY <1>2
  <2> QED BY <2>1, <2>2
<1>5. \A i \in P : i + 1 \in P
  <2> SUFFICES ASSUME NEW i \in Nat, i \in P, j + (i + 1) <= N
               PROVE  Stop(w, j).q[1] <= Stop(w, j + (i + 1)).q[1]
    OBVIOUS
  <2>1. /\ j + i <= N /\ j + i \in 0..N /\ j + (i + 1) \in 1..N /\ (j + (i + 1)) - 1 = j + i
        /\ j + (i + 1) \in 0..N
    BY <1>1
  <2>2. Stop(w, j).q[1] <= Stop(w, j + i).q[1]
    BY <2>1
  <2>3. Stop(w, j + i).q[1] <= Stop(w, j + (i + 1)).q[1]
    BY <1>3, <2>1
  <2>4. /\ Stop(w, j).q[1] \in Int /\ Stop(w, j + i).q[1] \in Int
        /\ Stop(w, j + (i + 1)).q[1] \in Int
    BY <1>2, <2>1
  <2> HIDE DEF P
  <2> QED BY <2>2, <2>3, <2>4
<1>6. P = Nat
  <2> HIDE DEF P
  <2>1. P \in SUBSET Nat
    BY DEF P
  <2> QED BY <1>4, <1>5, <2>1, InductOnNat
<1>7. ASSUME NEW k \in j..N PROVE Stop(w, j).q[1] <= Stop(w, k).q[1]
  <2>1. k - j \in Nat /\ j + (k - j) = k /\ k <= N
    BY <1>1
  <2>2. k - j \in P
    BY <1>6, <2>1
  <2> QED BY <2>1, <2>2
<1> QED BY <1>7

-----------------------------------------------------------------------------
\* Parallel labeling leaves out what the completion bounds see no path through: it may,
\* if they reach every path and meeting pays nothing back.
PruningAllowed == "par" \in Modes => BoundsReach /\ NothingPaidBack

\* Labeling in both directions has ended.
Halves ==
  /\ InOrder /\ KeptOK("fw") /\ KeptOK("bw") /\ BoundsOfCosts
  /\ opt.mode # "mono" /\ opt.stage = "Exact"
  /\ finished["fw"] = Sccs["fw"] /\ finished["bw"] = Sccs["bw"]

\* No label is given up that stands no further than some path and makes a path below
\* theta together with the rest of it.
LEMMA NotGivenUp ==
  ASSUME PruningAllowed, InOrder, BoundsOfCosts, NEW d \in Dir,
         NEW w \in Paths, Worth(w), NEW i \in 0..Len(w),
         NEW n, Mark(n), UpTo(d, BucketOf(n.v, n.q), Passed(w, i)),
         n.cost + CostOf(Rest(d, w, i)) <= CostOf(w)
  PROVE  ~GivenUp(d, n)
<1> DEFINE bound == completion[d]
           b == BucketOf(n.v, n.q)
           c == Passed(w, i)
           rest == CostOf(Rest(d, w, i))
<1> SUFFICES ASSUME GivenUp(d, n) PROVE FALSE
  OBVIOUS
<1>1. bound[b] < Inf /\ n.cost + bound[b] >= opt.theta /\ opt.mode = "par"
  BY DEF GivenUp, Hopeless
<1>2. /\ red \in [Arc -> Int] /\ opt.theta \in Int /\ opt.mode \in Modes
      /\ w \in PartialWalks
  BY OptionAssumption DEF InOrder, Inductive, TypeOK, SolveType, GraphType, Paths
<1>3. BoundsReach
  BY <1>1, <1>2 DEF PruningAllowed
<1>4. b \in Bucket /\ c \in Bucket
  <2>1. b \in Bucket
    BY BucketOfType DEF Mark
  <2> QED BY <1>2, <2>1, PassedType
<1>5. bound # NoBounds
  <2>1. NoBounds[b] = Inf /\ Inf \in Int
    BY <1>4, ProblemAssumption DEF NoBounds
  <2> HIDE DEF b
  <2> QED BY <1>1, <2>1
<1>6. bound = CompletionBounds(d, BuiltArcs, red) /\ ArcsOfBuckets(d, BuiltArcs)
  BY <1>5 DEF BoundsOfCosts, ArcsOfBuckets
<1>7. bound[b] <= bound[c] /\ bound[b] \in Int /\ bound[c] \in Int
  BY <1>2, <1>4, <1>6, BoundsAscend, CompletionBoundsType
<1>8. bound[c] <= rest
  BY <1>2, <1>3, <1>5, BoundOfPath
<1>9. rest \in Int /\ CostOf(w) \in Int /\ n.cost \in Int
  <2>1. w \in Seq(Arc) /\ Rest(d, w, i) \in Seq(Arc)
    BY <1>2, RestParts
  <2> QED BY <1>2, <2>1, SumType DEF CostOf, Mark
<1>10. n.cost + rest <= CostOf(w) /\ CostOf(w) < opt.theta
  BY DEF Worth
<1> DEFINE x == bound[b]
           y == bound[c]
           e == n.cost
<1>11. /\ x \in Int /\ y \in Int /\ e \in Int /\ rest \in Int /\ CostOf(w) \in Int /\ opt.theta \in Int
       /\ x <= y /\ y <= rest /\ e + rest <= CostOf(w) /\ CostOf(w) < opt.theta /\ e + x >= opt.theta
  BY <1>1, <1>2, <1>7, <1>8, <1>9, <1>10
<1> HIDE DEF x, y, e, rest
<1> QED BY <1>11

\* In particular none that covers a path's stop ...
LEMMA ForwardIsKept ==
  ASSUME PackLawful, PruningAllowed, Halves, NEW w \in Paths, Worth(w), NEW k \in 0..Len(w),
         NEW n, Mark(n), Covers("fw", n, Stop(w, k))
  PROVE  ~GivenUp("fw", n)
<1> DEFINE m == Stop(w, k)
<1>1. /\ PackMeansAllowed /\ red \in [Arc -> Int] /\ w \in PartialWalks /\ "fw" \in Dir
      /\ InOrder /\ BoundsOfCosts
  BY DEF PackLawful, Halves, InOrder, Inductive, TypeOK, GraphType, Paths, Dir
<1>2. Mark(m) /\ SubSeq(w, 1, k) \in PartialWalks
  BY <1>1, StopType
<1>3. Passed(w, k) = BucketOf(m.v, m.q)
  BY <1>2, ArrivalIsEnd DEF Passed, Stop
<1>4. n.v = m.v /\ AtLeastAsGood("fw", n.q, m.q)
  BY DEF Covers
<1>5. UpTo("fw", BucketOf(n.v, n.q), Passed(w, k))
  <2>1. m.v \in Vertex /\ n.q \in [Res -> Int] /\ m.q \in [Res -> Int]
    BY <1>2 DEF Mark
  <2> HIDE DEF m
  <2> QED BY <1>1, <1>3, <1>4, <2>1, BucketOfMonotone
<1>6. n.cost <= m.cost
  BY <1>1, <1>2, CoverIsCheaper
<1>7. n.cost + CostOf(Rest("fw", w, k)) <= CostOf(w)
  <2>1. CostOf(Rest("fw", w, k)) = RestCost(w, k)
    BY DEF Rest, RestCost
  <2>2. RestCost(w, k) \in Int /\ m.cost + RestCost(w, k) = CostOf(w)
    BY <1>1, RestCosts
  <2>3. n.cost \in Int /\ m.cost \in Int
    BY <1>2 DEF Mark
  <2> HIDE DEF m
  <2> QED BY <1>6, <2>1, <2>2, <2>3
<1> QED BY <1>1, <1>5, <1>7, NotGivenUp

\* ... or stands for the other half of a path.
LEMMA BackwardIsKept ==
  ASSUME PackLawful, PruningAllowed, Halves, NEW In, NEW Out, PackCuts(In, Out),
         NEW w \in Paths, Worth(w), NEW i \in 1..Len(w), NEW x, HalfWay(Out, w, i, x),
         NEW n, Mark(n), Covers("bw", n, x)
  PROVE  ~GivenUp("bw", n)
<1> SUFFICES ASSUME opt.mode = "par" PROVE ~GivenUp("bw", n)
  BY DEF GivenUp
<1> DEFINE m == Stop(w, i)
           e == ConcatCost(x.v, Arriving(w, i), x.st)
<1>1. /\ PackMeansAllowed /\ red \in [Arc -> Int] /\ w \in PartialWalks /\ "bw" \in Dir
      /\ InOrder /\ BoundsOfCosts /\ NothingPaidBack
  <2>1. opt.mode \in Modes
    BY DEF Halves, InOrder, Inductive, TypeOK, SolveType
  <2> QED BY <2>1 DEF PruningAllowed, PackLawful, Halves, InOrder, Inductive, TypeOK, GraphType, Paths, Dir
<1>2. i \in 0..Len(w)
  <2>1. Len(w) \in Nat
    BY <1>1, Beginnings
  <2> QED BY <2>1
<1>3. Mark(m) /\ SubSeq(w, 1, i) \in PartialWalks /\ m.cost = CostOf(SubSeq(w, 1, i))
  BY <1>1, <1>2, StopType
<1>4. Passed(w, i) = BucketOf(m.v, m.q)
  BY <1>3, ArrivalIsEnd DEF Passed, Stop
<1>5. /\ Mark(x) /\ x.v = m.v /\ x.cost + e = RestCost(w, i)
      /\ \A r \in Res : m.q[r] <= x.q[r]
  BY DEF HalfWay
<1>6. n.v = x.v /\ AtLeastAsGood("bw", n.q, x.q)
  BY DEF Covers
<1>7. n.q \in [Res -> Int] /\ x.q \in [Res -> Int] /\ m.q \in [Res -> Int] /\ m.v \in Vertex
  BY <1>3, <1>5 DEF Mark
<1>8. UpTo("bw", BucketOf(n.v, n.q), Passed(w, i))
  <2> HIDE DEF m
  <2>1. AtLeastAsGood("bw", n.q, m.q)
    BY <1>5, <1>6, <1>7 DEF AtLeastAsGood
  <2> QED BY <1>1, <1>4, <1>5, <1>6, <1>7, <2>1, BucketOfMonotone
<1>9. e >= 0 /\ e \in Int
  <2>1. Arriving(w, i) \in PackState
    BY <1>1, ArrivingIn
  <2>2. x.v \in Vertex /\ x.st \in PackState
    BY <1>5 DEF Mark
  <2> QED BY <1>1, <2>1, <2>2, PackAssumption DEF NothingPaidBack
<1>10. n.cost <= x.cost
  BY <1>1, <1>5, CoverIsCheaper
<1>11. n.cost + CostOf(Rest("bw", w, i)) <= CostOf(w)
  <2>1. CostOf(Rest("bw", w, i)) = m.cost
    BY <1>3 DEF Rest
  <2>2. RestCost(w, i) \in Int /\ m.cost + RestCost(w, i) = CostOf(w)
    BY <1>1, <1>2, RestCosts
  <2>3. n.cost \in Int /\ m.cost \in Int /\ x.cost \in Int
    BY <1>3, <1>5 DEF Mark
  <2> HIDE DEF m, e
  <2> QED BY <1>5, <1>9, <1>10, <2>1, <2>2, <2>3
<1> QED BY <1>1, <1>2, <1>8, <1>11, NotGivenUp

LEMMA HalvesEnded ==
  ASSUME Halves, NEW d \in Dir, NEW l \in Live(d)
  PROVE  /\ l \in Label /\ l \in labels[d] /\ SoundLabel(d, l) /\ Mark(This(l))
         /\ Where(l) \in Bucket /\ Settled(d, Where(l))
         /\ l \in extended[d] \/ PastMid(d, This(l))
         /\ red \in [Arc -> Int] /\ opt.theta \in Int
<1>1. l \in Label /\ l \in labels[d] /\ SoundLabel(d, l)
  BY DEF Halves, InOrder, Inductive, TypeOK, LabelType, LabelsAreSound, Live
<1>2. Mark(This(l)) /\ Where(l) \in Bucket
  BY <1>1, LabelMarks, WhereType
<1>3. Settled(d, Where(l))
  <2>1. finished[d] = Sccs[d]
    BY DEF Halves, Dir
  <2> QED BY <1>2, <2>1, SccsPartition DEF Settled
<1>4. SettledAreExtended(d)
  BY DEF Halves, KeptOK, Dir
<1>5. red \in [Arc -> Int] /\ opt.theta \in Int
  BY OptionAssumption DEF Halves, InOrder, Inductive, TypeOK, SolveType, GraphType
<1> QED BY <1>1, <1>2, <1>3, <1>4, <1>5 DEF SettledAreExtended

\* What a label has a representative for, it goes on representing.
LEMMA GoesOn ==
  ASSUME PackLawful, Halves, NEW d \in Dir, NEW l \in Live(d), l \in extended[d],
         NEW y, Mark(y), Covers(d, This(l), y), NEW a \in Arc, CanTake(d, y, a)
  PROVE  LET t == Taken(d, This(l), a)
         IN /\ Mark(t) /\ Covers(d, t, Taken(d, y, a)) /\ CanTake(d, This(l), a)
            /\ \/ Represented(d, Taken(d, y, a))
               \/ GivenUp(d, This(l)) \/ GivenUp(d, t)
               \/ d = "fw" /\ PastMid(d, t) /\ ~CompatibleOpposite(t)
<1> DEFINE t == Taken(d, This(l), a)
           u == Taken(d, y, a)
<1>1. l \in labels[d] /\ Mark(This(l)) /\ red \in [Arc -> Int]
  BY HalvesEnded
<1>2. CanTake(d, This(l), a) /\ Covers(d, t, u)
  BY <1>1, CoversPersists
<1>3. Mark(t) /\ Mark(u)
  BY <1>1, TakenType
<1>4. Tried(d, l, a) /\ ChildrenRepresented(d)
  BY DEF Tried, Halves, KeptOK, Dir
<1>5. Represented(d, t) \/ TurnedAway(d, t) \/ GivenUp(d, This(l))
  BY <1>1, <1>2, <1>4 DEF ChildrenRepresented
<1>6. CASE GivenUp(d, This(l))
  <2> HIDE DEF t, u
  <2> QED BY <1>2, <1>3, <1>6 DEF t, u
<1>7. CASE Represented(d, t)
  <2>1. PICK k \in Live(d) : Covers(d, This(k), t)
    BY <1>7 DEF Represented
  <2>2. Mark(This(k))
    BY <2>1, HalvesEnded
  <2> HIDE DEF t, u
  <2>3. Covers(d, This(k), u)
    BY <1>2, <1>3, <2>1, <2>2, CoversTransitive
  <2> QED BY <1>2, <1>3, <2>3 DEF Represented, t, u
<1>8. CASE TurnedAway(d, t)
  <2> HIDE DEF t, u
  <2>1. GivenUp(d, t) \/ (d = "fw" /\ PastMid(d, t) /\ ~CompatibleOpposite(t))
    BY <1>8 DEF TurnedAway
  <2> QED BY <1>2, <1>3, <2>1 DEF t, u
<1> QED BY <1>5, <1>6, <1>7, <1>8

\* Backward labeling covers a path from the sink as far as the midpoint.
Behindhand(Out, w, i) == \E x : HalfWay(Out, w, i, x) /\ Represented("bw", x)

LEMMA BackFrom ==
  ASSUME PackLawful, Halves, NEW In, NEW Out, PackCuts(In, Out), NEW w \in Paths, Len(w) # 0
  PROVE  Behindhand(Out, w, Len(w))
<1>1. PackMeansAllowed /\ red \in [Arc -> Int]
  BY DEF PackLawful, Halves, InOrder, Inductive, TypeOK, GraphType
<1>2. Represented("bw", This(InitialLabel("bw")))
  BY DEF Halves, KeptOK, OriginRepresented
<1>3. HalfWay(Out, w, Len(w), This(InitialLabel("bw")))
  BY <1>1, BackStart
<1> QED BY <1>2, <1>3 DEF Behindhand

LEMMA BackOn ==
  ASSUME PackLawful, PruningAllowed, Halves, NEW In, NEW Out, PackCuts(In, Out),
         NEW w \in Paths, Worth(w), NEW i \in 1..Len(w), i + 1 <= Len(w), Behindhand(Out, w, i + 1),
         MidScale * Stop(w, i + 1).q[1] >= mid
  PROVE  Behindhand(Out, w, i)
<1> DEFINE a == w[i + 1]
<1>1. /\ PackMeansAllowed /\ red \in [Arc -> Int] /\ w \in PartialWalks /\ "bw" \in Dir
      /\ 1 \in Res /\ mid \in Int
  BY ResType DEF PackLawful, Halves, InOrder, Inductive, TypeOK, GraphType, SolveType, Paths, Dir
<1>2. PICK x : HalfWay(Out, w, i + 1, x) /\ Represented("bw", x)
  BY DEF Behindhand
<1>3. PICK g \in Live("bw") : Covers("bw", This(g), x)
  BY <1>2 DEF Represented
<1>4. CanTake("bw", x, a) /\ HalfWay(Out, w, i, Taken("bw", x, a))
  BY <1>1, <1>2, BackStep
<1>5. Len(w) \in Nat /\ i + 1 \in 1..Len(w) /\ i + 1 \in 0..Len(w)
  <2>1. Len(w) \in Nat
    BY <1>1, Beginnings
  <2> QED BY <2>1
<1>6. a \in Arc
  BY <1>1, <1>5, Beginnings
<1>7. Mark(x) /\ Mark(This(g)) /\ Mark(Stop(w, i + 1))
  BY <1>1, <1>2, <1>3, <1>5, HalvesEnded, StopType DEF HalfWay
<1>8. g \in extended["bw"]
  <2>1. This(g).q[1] >= x.q[1] /\ x.q[1] >= Stop(w, i + 1).q[1]
    BY <1>1, <1>2, <1>3 DEF Covers, AtLeastAsGood, HalfWay
  <2>2. This(g).q[1] \in Int /\ x.q[1] \in Int /\ Stop(w, i + 1).q[1] \in Int
    BY <1>1, <1>7 DEF Mark
  <2>3. ~(MidScale * This(g).q[1] < mid)
    BY <1>1, <2>1, <2>2 DEF MidScale
  <2>4. ~PastMid("bw", This(g))
    BY <2>3 DEF PastMid
  <2> QED BY <1>1, <1>3, <2>4, HalvesEnded
<1> DEFINE t == Taken("bw", This(g), a)
<1>9. /\ Mark(t) /\ Covers("bw", t, Taken("bw", x, a))
      /\ \/ Represented("bw", Taken("bw", x, a))
         \/ GivenUp("bw", This(g)) \/ GivenUp("bw", t)
  <2> HIDE DEF a
  <2> QED BY <1>1, <1>3, <1>4, <1>6, <1>7, <1>8, GoesOn
<1>10. ~GivenUp("bw", This(g))
  BY <1>2, <1>3, <1>5, <1>7, BackwardIsKept
<1>11. ~GivenUp("bw", t)
  <2> HIDE DEF t, a
  <2> QED BY <1>4, <1>9, BackwardIsKept
<1> QED BY <1>4, <1>9, <1>10, <1>11 DEF Behindhand

LEMMA BackTo ==
  ASSUME PackLawful, PruningAllowed, NothingIsGivenBack, Halves, NEW In, NEW Out,
         PackCuts(In, Out), NEW w \in Paths, Worth(w), NEW i \in 1..Len(w),
         i < Len(w) => MidScale * Stop(w, i + 1).q[1] >= mid
  PROVE  Behindhand(Out, w, i)
<1> DEFINE N == Len(w)
<1>1. N \in Nat /\ N # 0 /\ w \in PartialWalks /\ 1 \in Res /\ mid \in Int
      /\ PackMeansAllowed /\ red \in [Arc -> Int]
  <2>1. N \in Nat /\ w \in PartialWalks
    BY Beginnings DEF Paths
  <2> QED BY <2>1, ResType DEF PackLawful, Halves, InOrder, Inductive, TypeOK, GraphType, SolveType
<1> DEFINE P == {k \in Nat : N - k >= i => Behindhand(Out, w, N - k)}
<1>2. 0 \in P
  <2>1. N - 0 = N
    BY <1>1
  <2>2. Behindhand(Out, w, N)
    BY <1>1, BackFrom
  <2> QED BY <2>1, <2>2
<1>3. \A k \in P : k + 1 \in P
  <2> SUFFICES ASSUME NEW k \in Nat, k \in P, N - (k + 1) >= i
               PROVE  Behindhand(Out, w, N - (k + 1))
    OBVIOUS
  <2> DEFINE j == N - (k + 1)
  <2>1. /\ j + 1 = N - k /\ N - k >= i /\ j \in 1..N /\ j + 1 <= N /\ i < N /\ i \in Nat
        /\ i + 1 \in 0..N /\ j + 1 \in i + 1..N /\ j + 1 \in 0..N
    BY <1>1
  <2>2. Behindhand(Out, w, j + 1)
    BY <2>1
  <2>3. MidScale * Stop(w, i + 1).q[1] >= mid
    BY <2>1
  <2>4. Stop(w, i + 1).q[1] <= Stop(w, j + 1).q[1]
    BY <1>1, <2>1, StopsAdvance
  <2>5. Stop(w, i + 1).q[1] \in Int /\ Stop(w, j + 1).q[1] \in Int
    BY <1>1, <2>1, StopType DEF Mark
  <2>6. MidScale * Stop(w, j + 1).q[1] >= mid
    BY <1>1, <2>3, <2>4, <2>5 DEF MidScale
  <2> HIDE DEF j, P
  <2>7. Behindhand(Out, w, j)
    BY <2>1, <2>2, <2>6, BackOn
  <2> QED BY <2>7 DEF j
<1>4. P = Nat
  <2> HIDE DEF P
  <2>1. P \in SUBSET Nat
    BY DEF P
  <2> QED BY <1>2, <1>3, <2>1, InductOnNat
<1>5. N - i \in Nat /\ N - (N - i) = i /\ i >= i
  BY <1>1
<1>6. N - i \in P
  BY <1>4, <1>5
<1> QED BY <1>5, <1>6

-----------------------------------------------------------------------------
\* The least of finitely many costs is not above any of them.
LEMMA LeastIsBelow ==
  ASSUME NEW S \in SUBSET Int, IsFiniteSet(S), NEW x \in S
  PROVE  Least(S) \in Int /\ Least(S) <= x
<1>1. \E y \in S : \A z \in S : y <= z
  BY FiniteHasLeast
<1>2. Least(S) \in S /\ \A z \in S : Least(S) <= z
  BY <1>1 DEF Least
<1> QED BY <1>2

\* A vertex's bound is not above the bounds of its buckets, whatever they are.
LEMMA BoundsOfVertex ==
  ASSUME NEW bound \in [Bucket -> Int], NEW b \in Bucket
  PROVE  /\ Least({bound[c] : c \in BucketsAt(b[1])}) \in Int
         /\ Least({bound[c] : c \in BucketsAt(b[1])}) <= bound[b]
<1> DEFINE B == BucketsAt(b[1])
           S == {bound[c] : c \in B}
           f == [c \in B |-> bound[c]]
<1>1. b \in B /\ b[1] \in Vertex /\ B \subseteq Bucket
  <2>1. PICK v \in Vertex : b \in BucketsAt(v)
    BY DEF Bucket
  <2>2. b[1] = v
    BY <2>1 DEF BucketsAt
  <2> QED BY <2>1, <2>2 DEF Bucket
<1>2. IsFiniteSet(B)
  BY <1>1, BucketsFinite, FS_Subset
<1>3. S \in SUBSET Int /\ bound[b] \in S
  BY <1>1
<1>4. IsFiniteSet(S)
  <2>1. f \in [B -> S] /\ \A t \in S : \E c \in B : f[c] = t
    OBVIOUS
  <2> HIDE DEF f, S, B
  <2> QED BY <1>2, <2>1, ImageFinite
<1> HIDE DEF S
<1> QED BY <1>3, <1>4, LeastIsBelow DEF S

\* c_best of a finished bucket is not above the labels in it, in whatever stage.
OwnIsBounded(d) ==
  \A l \in Live(d) : Settled(d, Where(l)) => cbest[d][Where(l)] <= This(l).cost

\* Both labelings have ended.
BothEnded ==
  /\ InOrder /\ opt.mode # "mono" /\ ~Enumerating
  /\ \A d \in Dir : finished[d] = Sccs[d] /\ IsFiniteSet(labels[d]) /\ OwnIsBounded(d)

LEMMA HalvesBothEnded == Halves => BothEnded
<1> SUFFICES ASSUME Halves, NEW d \in Dir
             PROVE  finished[d] = Sccs[d] /\ IsFiniteSet(labels[d]) /\ OwnIsBounded(d)
  BY DEF Halves, BothEnded, Enumerating
<1>1. finished[d] = Sccs[d] /\ KeptOK(d)
  BY DEF Halves, Dir
<1>2. OwnIsBounded(d)
  <2> SUFFICES ASSUME NEW l \in Live(d), Settled(d, Where(l))
               PROVE  cbest[d][Where(l)] <= This(l).cost
    BY DEF OwnIsBounded
  <2>1. Where(l) \in Bucket
    BY HalvesEnded
  <2>2. UpTo(d, Where(l), Where(l))
    BY <2>1, BucketType DEF UpTo
  <2> QED BY <1>1, <2>1, <2>2 DEF KeptOK, BestIsBound
<1> QED BY <1>1, <1>2 DEF KeptOK

\* So no label is below the bounds of its bucket and its vertex, once all is finished.
LEMMA BoundsOfEnded ==
  ASSUME BothEnded, NEW d \in Dir, NEW l \in Live(d)
  PROVE  /\ l \in Label /\ l \in labels[d] /\ Mark(This(l))
         /\ Where(l) \in Bucket /\ Where(l)[1] = This(l).v
         /\ red \in [Arc -> Int] /\ opt.theta \in Int
         /\ cbest[d][Where(l)] \in Int /\ cbest[d][Where(l)] <= This(l).cost
         /\ VertexMin(d, This(l).v) \in Int /\ VertexMin(d, This(l).v) <= This(l).cost
<1>1. l \in Label /\ l \in labels[d] /\ SoundLabel(d, l)
  BY DEF BothEnded, InOrder, Inductive, TypeOK, LabelType, LabelsAreSound, Live
<1>2. /\ Where(l) \in Bucket /\ Where(l)[1] = This(l).v /\ Mark(This(l))
      /\ This(l).cost \in Int
  BY <1>1, WhereType, LabelMarks DEF Mark
<1>3. cbest[d] \in [Bucket -> Int] /\ red \in [Arc -> Int] /\ opt.theta \in Int
  BY OptionAssumption
  DEF BothEnded, InOrder, Inductive, TypeOK, SolveType, GraphType, SearchType
<1>4. cbest[d][Where(l)] <= This(l).cost /\ cbest[d][Where(l)] \in Int
  <2>1. Settled(d, Where(l))
    BY <1>2, SccsPartition DEF BothEnded, Settled
  <2> QED BY <1>2, <1>3, <2>1 DEF BothEnded, OwnIsBounded
<1>5. VertexMin(d, This(l).v) \in Int /\ VertexMin(d, This(l).v) <= cbest[d][Where(l)]
  BY <1>2, <1>3, BoundsOfVertex DEF VertexMin
<1> QED BY <1>1, <1>2, <1>3, <1>4, <1>5

LEMMA BoundsOfHalves ==
  ASSUME Halves, NEW d \in Dir, NEW l \in Live(d)
  PROVE  /\ cbest[d][Where(l)] \in Int /\ cbest[d][Where(l)] <= This(l).cost
         /\ VertexMin(d, This(l).v) \in Int /\ VertexMin(d, This(l).v) <= This(l).cost
BY HalvesBothEnded, BoundsOfEnded

\* What stands for the two halves of a path can be joined below the path's costs.
LEMMA JoinBelow ==
  ASSUME PackLawful, PackReplaceable, red \in [Arc -> Int], NEW Out, NEW w \in PartialWalks,
         NEW j \in 1..Len(w), NEW n, Mark(n), Covers("fw", n, Stop(w, j - 1)),
         NEW x, HalfWay(Out, w, j, x), NEW y, Mark(y), Covers("bw", y, x)
  PROVE  LET a == w[j]
             along == AlongArc("fw", n.st, a)
             both == ConcatCost(To[a], along.st, y.st)
         IN /\ a \in Arc /\ n.v = From[a] /\ y.v = To[a]
            /\ AtLeastAsGood("fw", Advance("fw", n.q, a), y.q)
            /\ along.cost < Inf /\ both < Inf /\ along.cost \in Int /\ both \in Int
            /\ n.cost + red[a] + y.cost + along.cost + both <= CostOf(w)
            /\ n.cost + red[a] + y.cost + MinDomCost <= CostOf(w)
<1> DEFINE a == w[j]
           m == Stop(w, j - 1)
           k == Stop(w, j)
           along == AlongArc("fw", n.st, a)
           both == ConcatCost(To[a], along.st, y.st)
           there == AlongArc("fw", m.st, a)
           e == ConcatCost(To[a], there.st, x.st)
           D == DomCost("fw", From[a], n.st, m.st)
           E == DomCost("bw", To[a], y.st, x.st)
<1>1. Len(w) \in Nat /\ j - 1 \in 0..Len(w) /\ j \in 0..Len(w) /\ PackMeansAllowed
      /\ "fw" \in Dir /\ "bw" \in Dir
  <2>1. Len(w) \in Nat
    BY Beginnings
  <2> QED BY <2>1 DEF PackLawful, Dir
<1>2. /\ a \in Arc /\ From[a] = m.v /\ To[a] = k.v /\ k.q = Advance("fw", m.q, a)
      /\ there.cost = 0 /\ there.cost < Inf
  BY <1>1, NextStop
<1>3. Mark(m) /\ Mark(k) /\ m.cost \in Int
  BY <1>1, StopType DEF Mark
<1>4. /\ Mark(x) /\ x.v = k.v /\ e < Inf /\ x.cost + e = RestCost(w, j)
      /\ \A r \in Res : k.q[r] <= x.q[r]
  BY <1>2 DEF HalfWay, Arriving
<1>5. /\ n.v = m.v /\ AtLeastAsGood("fw", n.q, m.q) /\ D < Inf /\ n.cost + D <= m.cost
  BY <1>2 DEF Covers
<1>6. /\ y.v = x.v /\ AtLeastAsGood("bw", y.q, x.q) /\ E < Inf /\ y.cost + E <= x.cost
  BY <1>2, <1>4 DEF Covers
<1>7. /\ n.st \in PackState /\ m.st \in PackState /\ x.st \in PackState /\ y.st \in PackState
      /\ n.cost \in Int /\ y.cost \in Int /\ x.cost \in Int /\ From[a] \in Vertex /\ To[a] \in Vertex
  BY <1>2, <1>3, <1>4 DEF Mark
<1>8. along \in [st : PackState, cost : Int] /\ there \in [st : PackState, cost : Int]
  BY <1>1, <1>2, <1>7, PackAssumption
<1>9. /\ along.st \in PackState /\ along.cost \in Int /\ there.st \in PackState
      /\ both \in Int /\ e \in Int
  <2>1. along.st \in PackState /\ along.cost \in Int /\ there.st \in PackState
    BY <1>8
  <2> QED BY <1>7, <2>1, PackAssumption
<1>10. D \in Int /\ E \in Int
  BY <1>1, <1>7 DEF PackLawful, Closed
<1>11. /\ along.cost < Inf /\ both < Inf /\ MinDomCost <= along.cost + both
       /\ along.cost + both <= there.cost + e + D + E
  <2> HIDE DEF a, m
  <2> QED BY <1>2, <1>4, <1>5, <1>6, <1>7 DEF PackReplaceable, Replaceable
<1>12. /\ RestCost(w, j) \in Int /\ RestCost(w, j - 1) = red[a] + RestCost(w, j)
       /\ m.cost + RestCost(w, j - 1) = CostOf(w) /\ CostOf(w) \in Int /\ red[a] \in Int
       /\ MinDomCost \in Int
  BY <1>1, <1>2, RestCosts, PackAssumption
<1>13. /\ n.cost + red[a] + y.cost + along.cost + both <= CostOf(w)
       /\ n.cost + red[a] + y.cost + MinDomCost <= CostOf(w)
  <2> DEFINE nc == n.cost
             yc == y.cost
             xc == x.cost
             mc == m.cost
             ac == along.cost
             r == red[a]
             R == RestCost(w, j)
             C == CostOf(w)
  <2>1. /\ nc \in Int /\ yc \in Int /\ xc \in Int /\ mc \in Int /\ ac \in Int /\ r \in Int
        /\ R \in Int /\ C \in Int /\ both \in Int /\ e \in Int /\ D \in Int /\ E \in Int
        /\ MinDomCost \in Int
    BY <1>3, <1>7, <1>9, <1>10, <1>12
  <2>2. mc + (r + R) = C /\ xc + e = R
    BY <1>4, <1>12
  <2>3. nc + D <= mc /\ yc + E <= xc
    BY <1>5, <1>6
  <2>4. ac + both <= 0 + e + D + E /\ MinDomCost <= ac + both
    BY <1>2, <1>11
  <2> HIDE DEF nc, yc, xc, mc, ac, r, R, C, both, e, D, E
  <2>5. nc + r + yc + ac + both <= C /\ nc + r + yc + MinDomCost <= C
    BY <2>1, <2>2, <2>3, <2>4
  <2> QED BY <2>5 DEF nc, yc, ac, r, C
<1>14. AtLeastAsGood("fw", Advance("fw", n.q, a), y.q)
  <2>1. /\ n.q \in [Res -> Int] /\ m.q \in [Res -> Int] /\ k.q \in [Res -> Int]
        /\ x.q \in [Res -> Int] /\ y.q \in [Res -> Int]
    BY <1>3, <1>4 DEF Mark
  <2>2. AtLeastAsGood("fw", Advance("fw", n.q, a), k.q)
    BY <1>1, <1>2, <1>5, <2>1, AdvanceMonotone
  <2>3. Advance("fw", n.q, a) \in [Res -> Int]
    BY <1>1, <1>2, <2>1, AdvanceType
  <2> HIDE DEF a, k
  <2> QED BY <1>4, <1>6, <2>1, <2>2, <2>3 DEF AtLeastAsGood
<1> HIDE DEF a, m, along, both
<1> QED BY <1>2, <1>4, <1>5, <1>6, <1>9, <1>11, <1>13, <1>14 DEF a, along, both

-----------------------------------------------------------------------------
\* Forward labeling covers a path worth finding from the source until a label beyond
\* the midpoint is not extended: until then no filter turns it away.
LEMMA Forth ==
  ASSUME PackLawful, PackReplaceable, PruningAllowed, NothingIsGivenBack, Halves,
         NEW In, NEW Out, PackCuts(In, Out), NEW w \in Paths, Worth(w),
         NEW j \in 1..Len(w), NEW f \in Live("fw"), f \in extended["fw"],
         Covers("fw", This(f), Stop(w, j - 1))
  PROVE  Represented("fw", Stop(w, j))
<1> DEFINE a == w[j]
           m == Stop(w, j - 1)
           n == Stop(w, j)
           u == Taken("fw", m, a)
           t == Taken("fw", This(f), a)
<1>1. /\ w \in PartialWalks /\ Len(w) \in Nat /\ j - 1 \in 0..Len(w) /\ j \in 0..Len(w)
      /\ "fw" \in Dir /\ "bw" \in Dir /\ 1 \in Res
  <2>1. w \in PartialWalks /\ Len(w) \in Nat
    BY Beginnings DEF Paths
  <2> QED BY <2>1, ResType DEF Dir
<1>2. /\ PackMeansAllowed /\ red \in [Arc -> Int] /\ mid \in Int /\ opt.theta \in Int
  BY OptionAssumption DEF PackLawful, Halves, InOrder, Inductive, TypeOK, GraphType, SolveType
<1>3. /\ CanTake("fw", m, a) /\ a \in Arc
      /\ u.v = n.v /\ u.q = n.q /\ u.cost = n.cost /\ u.st = n.st
  BY <1>1, <1>2, NextStop
<1>4. Mark(m) /\ Mark(n)
  BY <1>1, <1>2, StopType
<1>5. /\ Mark(t) /\ Covers("fw", t, u)
      /\ \/ Represented("fw", u)
         \/ GivenUp("fw", This(f)) \/ GivenUp("fw", t)
         \/ PastMid("fw", t) /\ ~CompatibleOpposite(t)
  <2> HIDE DEF m, a
  <2> QED BY <1>1, <1>3, <1>4, GoesOn DEF m, a
<1>6. Covers("fw", t, n)
  BY <1>3, <1>5, CoversByFields
<1>9. ~GivenUp("fw", This(f)) /\ ~GivenUp("fw", t)
  <2>1. Mark(This(f))
    BY <1>1, HalvesEnded
  <2>2. ~GivenUp("fw", This(f))
    BY <1>1, <2>1, ForwardIsKept
  <2> HIDE DEF t
  <2> QED BY <1>1, <1>5, <1>6, <2>2, ForwardIsKept
<1>7. CASE Represented("fw", u)
  <2>1. PICK k \in Live("fw") : Covers("fw", This(k), u)
    BY <1>7 DEF Represented
  <2>2. Covers("fw", This(k), n)
    BY <1>3, <2>1, CoversByFields
  <2> QED BY <2>2 DEF Represented
<1>8. ASSUME PastMid("fw", t) PROVE CompatibleOpposite(t)
  <2>1. MidScale * t.q[1] > mid /\ t.q[1] <= n.q[1] /\ t.q[1] \in Int /\ n.q[1] \in Int
    BY <1>1, <1>4, <1>5, <1>6, <1>8 DEF PastMid, Covers, AtLeastAsGood, Mark
  <2>2. MidScale * n.q[1] >= mid
    BY <1>2, <2>1 DEF MidScale
  <2>3. CASE j = Len(w)
    <3>1. n.v = Sink
      BY <1>1, <1>2, <2>3, RestCosts DEF EndNode, Paths
    <3> QED BY <1>6, <3>1 DEF Covers, CompatibleOpposite
  <2>4. CASE j # Len(w)
    <3> DEFINE b == w[j + 1]
    <3>1. /\ j + 1 \in 1..Len(w) /\ (j + 1) - 1 = j /\ j + 1 \in 0..Len(w)
          /\ j + 1 < Len(w) => j + 2 \in j..Len(w) /\ j + 2 \in 0..Len(w) /\ (j + 1) + 1 = j + 2
      BY <1>1, <2>4
    <3>2. j + 1 < Len(w) => MidScale * Stop(w, (j + 1) + 1).q[1] >= mid
      <4> SUFFICES ASSUME j + 1 < Len(w) PROVE MidScale * Stop(w, j + 2).q[1] >= mid
        BY <3>1
      <4>1. n.q[1] <= Stop(w, j + 2).q[1]
        BY <1>1, <1>2, <3>1, StopsAdvance
      <4>2. Stop(w, j + 2).q[1] \in Int
        BY <1>1, <1>2, <3>1, StopType DEF Mark
      <4> QED BY <1>2, <2>1, <2>2, <4>1, <4>2 DEF MidScale
    <3>3. Behindhand(Out, w, j + 1)
      BY <3>1, <3>2, BackTo
    <3>4. PICK x : HalfWay(Out, w, j + 1, x) /\ Represented("bw", x)
      BY <3>3 DEF Behindhand
    <3>5. PICK g \in Live("bw") : Covers("bw", This(g), x)
      BY <3>4 DEF Represented
    <3>6. Mark(This(g)) /\ VertexMin("bw", This(g).v) \in Int /\ VertexMin("bw", This(g).v) <= This(g).cost
      BY <1>1, <3>5, HalvesEnded, BoundsOfHalves
    <3>7. /\ b \in Arc /\ t.v = From[b] /\ This(g).v = To[b]
          /\ t.cost + red[b] + This(g).cost + MinDomCost <= CostOf(w)
      <4>1. PICK i \in 1..Len(w) : i = j + 1 /\ i - 1 = j
        BY <3>1
      <4>2. /\ w \in PartialWalks /\ red \in [Arc -> Int] /\ Mark(t) /\ Covers("fw", t, Stop(w, i - 1))
            /\ HalfWay(Out, w, i, x) /\ Mark(This(g)) /\ Covers("bw", This(g), x)
        BY <1>1, <1>2, <1>5, <1>6, <3>4, <3>5, <3>6, <4>1
      <4>3. /\ w[i] \in Arc /\ t.v = From[w[i]] /\ This(g).v = To[w[i]]
            /\ t.cost + red[w[i]] + This(g).cost + MinDomCost <= CostOf(w)
        <5> HIDE DEF a, b, m, n, u, t
        <5> QED BY <4>2, JoinBelow
      <4> HIDE DEF t
      <4> QED BY <4>1, <4>3
    <3>8. /\ t.cost \in Int /\ red[b] \in Int /\ This(g).cost \in Int /\ MinDomCost \in Int
          /\ CostOf(w) \in Int /\ CostOf(w) < opt.theta
      <4>1. CostOf(w) \in Int
        BY <1>1, <1>2, RestCosts
      <4> HIDE DEF t
      <4> QED BY <1>2, <1>5, <3>6, <3>7, <4>1, PackAssumption DEF Mark, Worth
    <3>9. t.cost + red[b] + VertexMin("bw", To[b]) + MinDomCost < opt.theta
      <4> HIDE DEF t, b
      <4> QED BY <1>2, <3>6, <3>7, <3>8
    <3>10. b \in ArcsAt("fw", t.v)
      BY <3>7 DEF ArcsAt, Behind
    <3> HIDE DEF t, b
    <3> QED BY <3>9, <3>10 DEF CompatibleOpposite
  <2> QED BY <2>3, <2>4
<1> QED BY <1>5, <1>7, <1>8, <1>9

\* It goes on so until the path's end, or until beyond the midpoint.
LEMMA ForthTo ==
  ASSUME PackLawful, PackReplaceable, PruningAllowed, NothingIsGivenBack, SourceBeforeMid, Halves,
         mid = (MidScale \div 2) * (MinLb + MaxUb),
         NEW In, NEW Out, PackCuts(In, Out), NEW w \in Paths, Worth(w)
  PROVE  \E j \in 0..Len(w) :
           /\ \A k \in 0..j : Represented("fw", Stop(w, k))
           /\ \/ j = Len(w)
              \/ /\ j # 0 /\ MidScale * Stop(w, j).q[1] > mid
                 /\ \E f \in Live("fw") \ extended["fw"] : Covers("fw", This(f), Stop(w, j))
<1> DEFINE N == Len(w)
           Upto(j) == \A k \in 0..j : Represented("fw", Stop(w, k))
           Stuck(j) == /\ j # 0 /\ MidScale * Stop(w, j).q[1] > mid
                       /\ \E f \in Live("fw") \ extended["fw"] : Covers("fw", This(f), Stop(w, j))
<1>1. /\ w \in PartialWalks /\ N \in Nat /\ "fw" \in Dir /\ 1 \in Res /\ Source \in Vertex
  <2>1. w \in PartialWalks /\ N \in Nat
    BY Beginnings DEF Paths
  <2> QED BY <2>1, ResType, ProblemAssumption DEF Dir
<1>2. /\ PackMeansAllowed /\ red \in [Arc -> Int] /\ mid \in Int
  BY DEF PackLawful, Halves, InOrder, Inductive, TypeOK, GraphType, SolveType
<1>3. Upto(0)
  <2>1. Represented("fw", This(InitialLabel("fw")))
    BY DEF Halves, KeptOK, OriginRepresented
  <2>2. PICK k \in Live("fw") : Covers("fw", This(k), This(InitialLabel("fw")))
    BY <2>1 DEF Represented
  <2>3. Covers("fw", This(k), Stop(w, 0))
    BY <1>2, <2>2, FirstStop, CoversByFields
  <2> QED BY <2>3 DEF Represented
<1>4. ASSUME NEW j \in 0..N, Represented("fw", Stop(w, j))
      PROVE  \/ Stuck(j)
             \/ j < N => Represented("fw", Stop(w, j + 1))
  <2>1. PICK f \in Live("fw") : Covers("fw", This(f), Stop(w, j))
    BY <1>4 DEF Represented
  <2>2. CASE f \in extended["fw"]
    <3> SUFFICES ASSUME j < N PROVE Represented("fw", Stop(w, j + 1))
      OBVIOUS
    <3>1. j + 1 \in 1..N /\ (j + 1) - 1 = j
      BY <1>1
    <3>2. Covers("fw", This(f), Stop(w, (j + 1) - 1))
      BY <2>1, <3>1
    <3> QED BY <2>1, <2>2, <3>1, <3>2, Forth
  <2>3. CASE f \notin extended["fw"]
    <3>1. PastMid("fw", This(f)) /\ Mark(This(f))
      BY <1>1, <2>1, <2>3, HalvesEnded
    <3>2. MidScale * This(f).q[1] > mid /\ This(f).q[1] <= Stop(w, j).q[1]
      BY <1>1, <2>1, <3>1 DEF PastMid, Covers, AtLeastAsGood
    <3>3. This(f).q[1] \in Int /\ Stop(w, j).q[1] \in Int
      BY <1>1, <1>2, <3>1, StopType DEF Mark
    <3>4. MidScale * Stop(w, j).q[1] > mid
      BY <1>2, <3>2, <3>3 DEF MidScale
    <3>5. j # 0
      <4> SUFFICES ASSUME j = 0 PROVE FALSE
        OBVIOUS
      <4>1. Stop(w, 0).q = [r \in Res |-> Lb[Source][r]]
        BY <1>2, FirstStop
      <4>2. Stop(w, j).q[1] = Lb[Source][1]
        BY <1>1, <4>1
      <4> QED BY <1>2, <3>3, <3>4, <4>2 DEF SourceBeforeMid, MidScale
    <3> QED BY <2>1, <2>3, <3>4, <3>5
  <2> QED BY <2>2, <2>3
<1> DEFINE P == {j \in Nat : j <= N => Upto(j) \/ \E i \in 0..j : Upto(i) /\ Stuck(i)}
<1> HIDE DEF Stuck
<1>5. 0 \in P
  BY <1>3
<1>6. ASSUME NEW j \in P PROVE j + 1 \in P
  <2> SUFFICES ASSUME j + 1 <= N
               PROVE  Upto(j + 1) \/ \E i \in 0..j + 1 : Upto(i) /\ Stuck(i)
    OBVIOUS
  <2>1. j \in Nat /\ j <= N /\ j \in 0..N /\ j < N /\ j \in 0..j /\ \A i \in 0..j : i \in 0..j + 1
    BY <1>1
  <2>2. Upto(j) \/ \E i \in 0..j : Upto(i) /\ Stuck(i)
    BY <2>1
  <2>3. CASE \E i \in 0..j : Upto(i) /\ Stuck(i)
    BY <2>1, <2>3
  <2>4. CASE Upto(j)
    <3>1. Represented("fw", Stop(w, j))
      BY <2>1, <2>4
    <3>2. CASE Stuck(j)
      BY <2>1, <2>4, <3>2
    <3>3. CASE Represented("fw", Stop(w, j + 1))
      <4>1. \A k \in 0..j + 1 : k \in 0..j \/ k = j + 1
        BY <2>1
      <4>2. Upto(j + 1)
        BY <2>4, <3>3, <4>1
      <4> QED BY <4>2
    <3> QED BY <1>4, <2>1, <3>1, <3>2, <3>3
  <2> QED BY <2>2, <2>3, <2>4
<1>7. P = Nat
  <2> HIDE DEF P
  <2>1. P \in SUBSET Nat
    BY DEF P
  <2> QED BY <1>5, <1>6, <2>1, InductOnNat
<1>8. N \in P /\ N <= N
  BY <1>1, <1>7
<1>9. Upto(N) \/ \E i \in 0..N : Upto(i) /\ Stuck(i)
  BY <1>8
<1>10. CASE Upto(N)
  <2>1. N \in 0..N
    BY <1>1
  <2> QED BY <1>10, <2>1
<1>11. CASE \E i \in 0..N : Upto(i) /\ Stuck(i)
  BY <1>11 DEF Stuck
<1> QED BY <1>9, <1>10, <1>11

-----------------------------------------------------------------------------
\* f and g can be joined along arc a for no more than C, and no bound on half of a
\* path can be above C.
Pairs(f, a, g, C) ==
  LET along == AlongArc("fw", This(f).st, a)
  IN /\ f \in Live("fw") /\ g \in Live("bw") /\ a \in InnerArcs
     /\ This(f).v = From[a] /\ This(g).v = To[a]
     /\ AtLeastAsGood("fw", Advance("fw", This(f).q, a), This(g).q)
     /\ along.cost < Inf /\ ConcatCost(To[a], along.st, This(g).st) < Inf
     /\ Join(f, a, g).cost \in Int /\ Join(f, a, g).cost <= C
     /\ This(f).cost + red[a] + This(g).cost + MinDomCost <= C

\* What labeling has to offer for a path: a label at the sink or two that can be joined.
Offered(C) ==
  \/ \E l \in Live("fw") : This(l).v = Sink /\ This(l).cost <= C
  \/ \E f, a, g : Pairs(f, a, g, C)

\* A path's inner stops are neither source nor sink.
LEMMA StopInside ==
  ASSUME PackMeansAllowed, red \in [Arc -> Int], EndsAreEnds, NEW w \in PartialWalks
  PROVE  /\ \A k \in 1..Len(w) : Stop(w, k).v # Source
         /\ \A k \in 0..Len(w) : k < Len(w) => Stop(w, k).v # Sink
<1>1. Len(w) \in Nat
  BY Beginnings
<1>2. ASSUME NEW k \in 1..Len(w) PROVE Stop(w, k).v # Source
  <2>1. w[k] \in Arc /\ To[w[k]] = Stop(w, k).v
    BY NextStop
  <2> QED BY <2>1 DEF EndsAreEnds
<1>3. ASSUME NEW k \in 0..Len(w), k < Len(w) PROVE Stop(w, k).v # Sink
  <2>1. k + 1 \in 1..Len(w) /\ (k + 1) - 1 = k
    BY <1>1, <1>3
  <2>2. w[k + 1] \in Arc /\ From[w[k + 1]] = Stop(w, (k + 1) - 1).v
    BY <2>1, NextStop
  <2>3. w[k + 1] \in Arc /\ From[w[k + 1]] = Stop(w, k).v
    BY <2>1, <2>2
  <2> QED BY <2>3 DEF EndsAreEnds
<1> QED BY <1>2, <1>3

\* The halves of a path meet on the last of its inner arcs before the midpoint.
LEMMA MeetAt ==
  ASSUME PackLawful, PackReplaceable, PruningAllowed, NothingIsGivenBack, EndsAreEnds, Halves,
         NEW In, NEW Out, PackCuts(In, Out), NEW w \in Paths, Worth(w),
         NEW i \in 1..Len(w), i + 2 <= Len(w), Represented("fw", Stop(w, i)),
         MidScale * Stop(w, i + 2).q[1] >= mid
  PROVE  Offered(CostOf(w))
<1> DEFINE a == w[i + 1]
           C == CostOf(w)
<1>1. /\ w \in PartialWalks /\ Len(w) \in Nat /\ i + 1 \in 1..Len(w) /\ i + 1 < Len(w)
      /\ (i + 1) - 1 = i /\ (i + 1) + 1 = i + 2 /\ i \in 0..Len(w) /\ i < Len(w)
      /\ i + 1 \in 0..Len(w)
  <2>1. w \in PartialWalks /\ Len(w) \in Nat
    BY Beginnings DEF Paths
  <2> QED BY <2>1
<1>2. PackMeansAllowed /\ red \in [Arc -> Int] /\ "fw" \in Dir /\ "bw" \in Dir
  BY DEF PackLawful, Halves, InOrder, Inductive, TypeOK, GraphType, Dir
<1>3. MidScale * Stop(w, (i + 1) + 1).q[1] >= mid
  BY <1>1
<1>4. Behindhand(Out, w, i + 1)
  BY <1>1, <1>3, BackTo
<1>5. PICK x : HalfWay(Out, w, i + 1, x) /\ Represented("bw", x)
  BY <1>4 DEF Behindhand
<1>6. PICK g \in Live("bw") : Covers("bw", This(g), x)
  BY <1>5 DEF Represented
<1>7. PICK f \in Live("fw") : Covers("fw", This(f), Stop(w, i))
  BY DEF Represented
<1>8. Mark(This(f)) /\ Mark(This(g))
  BY <1>2, <1>6, <1>7, HalvesEnded
<1> DEFINE along == AlongArc("fw", This(f).st, a)
           both == ConcatCost(To[a], along.st, This(g).st)
<1>9. /\ a \in Arc /\ This(f).v = From[a] /\ This(g).v = To[a]
      /\ AtLeastAsGood("fw", Advance("fw", This(f).q, a), This(g).q)
      /\ along.cost < Inf /\ both < Inf /\ along.cost \in Int /\ both \in Int
      /\ This(f).cost + red[a] + This(g).cost + along.cost + both <= C
      /\ This(f).cost + red[a] + This(g).cost + MinDomCost <= C
  <2>1. Covers("fw", This(f), Stop(w, (i + 1) - 1))
    BY <1>1, <1>7
  <2> QED BY <1>1, <1>2, <1>5, <1>6, <1>8, <2>1, JoinBelow
<1>10. a \in InnerArcs
  <2>1. From[a] = Stop(w, i).v /\ To[a] = Stop(w, i + 1).v
    <3>1. From[a] = Stop(w, (i + 1) - 1).v /\ To[a] = Stop(w, i + 1).v
      BY <1>1, <1>2, NextStop
    <3> QED BY <1>1, <3>1
  <2>2. /\ Stop(w, i).v # Source /\ Stop(w, i).v # Sink
        /\ Stop(w, i + 1).v # Source /\ Stop(w, i + 1).v # Sink
    BY <1>1, <1>2, StopInside
  <2> QED BY <1>9, <2>1, <2>2 DEF InnerArcs
<1>11. Join(f, a, g).cost = This(f).cost + red[a] + This(g).cost + along.cost + both
  BY DEF Join
<1>12. Join(f, a, g).cost \in Int
  <2>1. red[a] \in Int /\ This(f).cost \in Int /\ This(g).cost \in Int
    BY <1>2, <1>8, <1>9 DEF Mark
  <2> HIDE DEF a, along, both
  <2> QED BY <1>9, <1>11, <2>1
<1>13. Pairs(f, a, g, C)
  <2> HIDE DEF C, a
  <2> QED BY <1>6, <1>7, <1>9, <1>10, <1>11, <1>12 DEF Pairs
<1> QED BY <1>13 DEF Offered

\* Every path that is worth finding, unless it has two arcs.
LEMMA LongIsOffered ==
  ASSUME PackLawful, PackReplaceable, PruningAllowed, NothingIsGivenBack, SourceBeforeMid,
         EndsAreEnds, Halves,
         mid = (MidScale \div 2) * (MinLb + MaxUb),
         NEW In, NEW Out, PackCuts(In, Out), NEW w \in Paths, Worth(w)
  PROVE  \/ Offered(CostOf(w))
         \/ /\ Len(w) = 2
            /\ \E f \in Live("fw") \ extended["fw"] : Covers("fw", This(f), Stop(w, 1))
<1> DEFINE N == Len(w)
<1>1. w \in PartialWalks /\ N \in Nat /\ "fw" \in Dir /\ 1 \in Res /\ EndOf(w) = Sink
  <2>1. w \in PartialWalks /\ N \in Nat
    BY Beginnings DEF Paths
  <2> QED BY <2>1, ResType DEF Dir, Paths
<1>2. PackMeansAllowed /\ red \in [Arc -> Int] /\ mid \in Int
  BY DEF PackLawful, Halves, InOrder, Inductive, TypeOK, GraphType, SolveType
<1>3. PICK j \in 0..N :
        /\ \A k \in 0..j : Represented("fw", Stop(w, k))
        /\ \/ j = N
           \/ /\ j # 0 /\ MidScale * Stop(w, j).q[1] > mid
              /\ \E f \in Live("fw") \ extended["fw"] : Covers("fw", This(f), Stop(w, j))
  BY ForthTo
<1>4. CASE j = N
  <2>1. N \in 0..j
    BY <1>1, <1>4
  <2>2. PICK l \in Live("fw") : Covers("fw", This(l), Stop(w, N))
    BY <1>3, <2>1 DEF Represented
  <2>3. Stop(w, N) = EndNode(w) /\ EndNode(w).v = Sink /\ EndNode(w).cost = CostOf(w)
    BY <1>1, <1>2, RestCosts DEF EndNode
  <2>4. N \in 0..N
    BY <1>1
  <2>5. Mark(Stop(w, N)) /\ Mark(This(l))
    BY <1>1, <1>2, <2>2, <2>4, StopType, HalvesEnded
  <2>6. This(l).v = Sink
    BY <2>2, <2>3 DEF Covers
  <2>7. This(l).cost <= Stop(w, N).cost
    BY <1>1, <2>2, <2>5, CoverIsCheaper
  <2> QED BY <2>2, <2>3, <2>6, <2>7 DEF Offered
<1>5. CASE j # N
  <2>1. j \in 1..N /\ j + 1 <= N /\ N >= 2 /\ MidScale * Stop(w, j).q[1] > mid
    BY <1>1, <1>3, <1>5
  <2>2. CASE N = 2
    <3>1. j = 1
      BY <2>1, <2>2
    <3> QED BY <1>3, <1>5, <2>2, <3>1
  <2>3. CASE N # 2
    <3>1. PICK i \in 1..N : i <= j /\ i + 2 <= N /\ j <= i + 2
      <4>1. CASE j + 2 <= N
        BY <1>1, <2>1, <4>1
      <4>2. CASE j + 2 > N
        <5>0. j \in Nat /\ N \in Nat /\ j + 1 <= N /\ N >= 2 /\ j + 2 > N /\ N # 2
          BY <1>1, <2>1, <2>3, <4>2
        <5>1. j - 1 \in 1..N /\ j - 1 <= j /\ (j - 1) + 2 <= N /\ j <= (j - 1) + 2
          <6> HIDE DEF N
          <6> QED BY <5>0
        <5> QED BY <5>1
      <4> QED BY <1>1, <2>1, <4>1, <4>2
    <3>2. i \in 0..j /\ i + 2 \in j..N /\ i + 2 \in 0..N /\ j \in 0..N
      BY <1>1, <2>1, <3>1
    <3>3. Represented("fw", Stop(w, i))
      BY <1>3, <3>2
    <3>4. MidScale * Stop(w, i + 2).q[1] >= mid
      <4>1. Stop(w, j).q[1] <= Stop(w, i + 2).q[1]
        BY <1>1, <1>2, <3>2, StopsAdvance
      <4>2. Stop(w, j).q[1] \in Int /\ Stop(w, i + 2).q[1] \in Int
        BY <1>1, <1>2, <3>2, StopType DEF Mark
      <4> QED BY <1>2, <2>1, <4>1, <4>2 DEF MidScale
    <3> QED BY <3>1, <3>3, <3>4, MeetAt
  <2> QED BY <2>2, <2>3
<1> QED BY <1>4, <1>5

\* And of those with two arcs all but the lonely ones: the label beyond the midpoint is
\* another path's, which may be followed instead.
LEMMA AllIsOffered ==
  ASSUME PackLawful, PackReplaceable, PruningAllowed, NothingIsGivenBack, SourceBeforeMid,
         EndsAreEnds, Halves,
         mid = (MidScale \div 2) * (MinLb + MaxUb),
         NEW In, NEW Out, PackCuts(In, Out), NEW w \in Paths, Worth(w)
  PROVE  Offered(CostOf(w)) \/ LonelyBeyondMid(w)
<1>1. /\ w \in PartialWalks /\ Len(w) \in Nat /\ "fw" \in Dir /\ PackMeansAllowed
      /\ red \in [Arc -> Int] /\ opt.theta \in Int
  <2>1. w \in PartialWalks /\ Len(w) \in Nat
    BY Beginnings DEF Paths
  <2> QED BY <2>1, OptionAssumption
      DEF Dir, PackLawful, Halves, InOrder, Inductive, TypeOK, GraphType, SolveType
<1> SUFFICES ASSUME Len(w) = 2,
                    NEW f \in Live("fw") \ extended["fw"], Covers("fw", This(f), Stop(w, 1))
             PROVE  Offered(CostOf(w)) \/ LonelyBeyondMid(w)
  BY LongIsOffered
<1> DEFINE a == w[2]
           m == Stop(w, 1)
           p == ArcsOf(f)
<1>2. 1 \in 1..Len(w) /\ 2 \in 1..Len(w) /\ 2 - 1 = 1 /\ 1 \in 0..Len(w) /\ 1 - 1 = 0
  BY <1>1
<1>3. f \in Label /\ f \in labels["fw"] /\ SoundLabel("fw", f) /\ Mark(This(f)) /\ Len(f) \in Nat \ {0}
  BY <1>1, HalvesEnded, LabelNodes
<1>4. To[w[1]] = m.v /\ m.v # Source /\ This(f).v = m.v /\ Mark(m)
  BY <1>1, <1>2, NextStop, StopInside, StopType DEF Covers
<1>5. CASE Len(f) = 1
  <2>1. <<f[1]>> = InitialLabel("fw") /\ This(f) = f[1]
    BY <1>3, <1>5 DEF SoundLabel, This
  <2>2. f[1] = This(InitialLabel("fw"))
    <3>1. This(<<f[1]>>) = f[1]
      BY DEF This
    <3> QED BY <2>1, <3>1
  <2>3. f[1].v = Source
    BY <2>2 DEF This, InitialLabel, Origin
  <2> QED BY <1>4, <2>1, <2>3
<1>6. CASE Len(f) = 2
  BY <1>3, <1>4, <1>6 DEF LonelyBeyondMid
<1>7. CASE Len(f) > 2
  <2>1. a \in Arc /\ CanTake("fw", m, a) /\ To[a] = Stop(w, 2).v
    BY <1>1, <1>2, NextStop
  <2>2. CanTake("fw", This(f), a)
    BY <1>1, <1>3, <1>4, <2>1, CoversPersists
  <2>3. Follows(p, This(f)) /\ p \in Seq(Arc) /\ Len(p) = Len(f) - 1
    BY <1>1, <1>3, LabelIsWalk
  <2> DEFINE q == Advance("fw", This(f).q, a)
             v == Append(p, a)
  <2>4. /\ p \in PartialWalks /\ EndOf(p) = This(f).v /\ StateAfter(p) = This(f).st
        /\ CostOf(p) = This(f).cost /\ AtLeastAsGood("fw", EndNode(p).q, This(f).q)
    BY <2>3 DEF Follows
  <2>5. /\ a \in ArcsAt("fw", EndOf(p)) /\ InWindow("fw", To[a], q)
        /\ AlongArc("fw", StateAfter(p), a).cost < Inf
        /\ ToVertex("fw", AlongArc("fw", StateAfter(p), a).st, To[a]).cost < Inf
    BY <2>2, <2>4 DEF CanTake, Ahead
  <2>6. AtLeastAsGood("fw", Advance("fw", EndNode(p).q, a), q) /\ q \in [Res -> Int]
    <3>1. EndNode(p).q \in [Res -> Int] /\ This(f).q \in [Res -> Int]
      BY <1>1, <1>3, <2>3, EndNodeType DEF Mark
    <3> HIDE DEF p, a
    <3> QED BY <1>1, <2>1, <2>4, <3>1, AdvanceMonotone, AdvanceType
  <2>7. v \in PartialWalks /\ EndOf(v) = To[a] /\ CostOf(v) = CostOf(p) + red[a]
    <3> HIDE DEF p, a, q
    <3> QED BY <1>1, <2>4, <2>5, <2>6, WalkContinues
  <2>8. Stop(w, 2).v = Sink
    <3>1. Stop(w, Len(w)) = EndNode(w)
      BY <1>1, RestCosts
    <3>2. EndNode(w).v = EndOf(w) /\ EndOf(w) = Sink
      BY DEF EndNode, Paths
    <3> QED BY <3>1, <3>2
  <2>9. v \in Paths /\ Len(v) # 2
    <3>1. Len(v) = Len(p) + 1
      BY <2>1, <2>3
    <3>2. v \in Paths
      <4> HIDE DEF v, a
      <4> QED BY <2>1, <2>7, <2>8 DEF Paths
    <3>3. Len(v) # 2
      <4>1. \A k \in Nat : k > 2 => (k - 1) + 1 # 2
        OBVIOUS
      <4>2. Len(f) \in Nat /\ Len(f) > 2 /\ Len(v) = (Len(f) - 1) + 1
        BY <1>3, <1>7, <2>3, <3>1
      <4> HIDE DEF v
      <4> QED BY <4>1, <4>2
    <3> QED BY <3>2, <3>3
  <2>10. CostOf(v) <= CostOf(w) /\ CostOf(v) \in Int /\ CostOf(w) \in Int
    <3>1. /\ RestCost(w, 2) = 0 /\ CostOf(w) \in Int
          /\ RestCost(w, 1) = red[a] + RestCost(w, 2) /\ m.cost + RestCost(w, 1) = CostOf(w)
      <4>1. RestCost(w, 2 - 1) = red[a] + RestCost(w, 2)
        BY <1>1, <1>2, RestCosts
      <4> QED BY <1>1, <1>2, <4>1, RestCosts
    <3>2. This(f).cost <= m.cost /\ This(f).cost \in Int /\ m.cost \in Int /\ red[a] \in Int
      BY <1>1, <1>3, <1>4, <2>1, CoverIsCheaper DEF Mark
    <3> HIDE DEF a, m, p, v
    <3> QED BY <2>4, <2>7, <3>1, <3>2
  <2>11. Worth(v)
    <3> HIDE DEF v
    <3> QED BY <1>1, <2>10 DEF Worth
  <2>12. Offered(CostOf(v))
    <3> HIDE DEF v
    <3> QED BY <2>9, <2>11, LongIsOffered
  <2>13. CASE \E l \in Live("fw") : This(l).v = Sink /\ This(l).cost <= CostOf(v)
    <3>1. PICK l \in Live("fw") : This(l).v = Sink /\ This(l).cost <= CostOf(v)
      BY <2>13
    <3>2. This(l).cost \in Int
      BY <1>1, <3>1, HalvesEnded DEF Mark
    <3> HIDE DEF v
    <3>3. This(l).cost <= CostOf(w)
      BY <2>10, <3>1, <3>2
    <3> QED BY <3>1, <3>3 DEF Offered
  <2>14. CASE \E h, b, g : Pairs(h, b, g, CostOf(v))
    <3>1. PICK h, b, g : Pairs(h, b, g, CostOf(v))
      BY <2>14
    <3>2. /\ This(h).cost \in Int /\ This(g).cost \in Int /\ b \in Arc /\ red[b] \in Int
          /\ MinDomCost \in Int /\ Join(h, b, g).cost \in Int
      <4>1. h \in Live("fw") /\ g \in Live("bw") /\ b \in Arc /\ Join(h, b, g).cost \in Int
        BY <3>1 DEF Pairs, InnerArcs
      <4>2. Mark(This(h)) /\ Mark(This(g))
        BY <1>1, <4>1, HalvesEnded DEF Dir
      <4> QED BY <1>1, <4>1, <4>2, PackAssumption DEF Mark
    <3>3. /\ Join(h, b, g).cost <= CostOf(v)
          /\ This(h).cost + red[b] + This(g).cost + MinDomCost <= CostOf(v)
      BY <3>1 DEF Pairs
    <3> HIDE DEF v
    <3>4. /\ Join(h, b, g).cost <= CostOf(w)
          /\ This(h).cost + red[b] + This(g).cost + MinDomCost <= CostOf(w)
      BY <2>10, <3>2, <3>3
    <3>5. Pairs(h, b, g, CostOf(w))
      BY <3>1, <3>4 DEF Pairs
    <3> QED BY <3>5 DEF Offered
  <2> QED BY <2>12, <2>13, <2>14 DEF Offered
<1>8. Len(f) = 1 \/ Len(f) = 2 \/ Len(f) > 2
  <2>1. \A k \in Nat \ {0} : k = 1 \/ k = 2 \/ k > 2
    OBVIOUS
  <2>2. Len(f) \in Nat \ {0}
    BY <1>3
  <2> QED BY <2>1, <2>2
<1> QED BY <1>5, <1>6, <1>7, <1>8

-----------------------------------------------------------------------------
\* The post-pass and the concatenation.
\* A bucket's bound after the post-pass is not above the labels that it has left there.
LEMMA BestOfKept ==
  ASSUME NEW kept \in SUBSET Label, IsFiniteSet(kept), NEW g \in kept, Where(g) \in Bucket
  PROVE  BwBestOf(kept)[Where(g)] <= This(g).cost
<1> DEFINE K == {x \in kept : UpTo("bw", Where(x), Where(g))}
           S == {This(l).cost : l \in K}
           f == [l \in K |-> This(l).cost]
<1>1. \A r \in Res : Where(g)[2][r] \in Int
  BY BucketType
<1>2. g \in K /\ IsFiniteSet(K)
  <2>1. UpTo("bw", Where(g), Where(g))
    BY <1>1 DEF UpTo
  <2> QED BY <2>1, FS_Subset
<1>3. S \in SUBSET Int /\ This(g).cost \in S
  BY <1>2, LabelMarks DEF Mark
<1>4. IsFiniteSet(S)
  <2>1. f \in [K -> S] /\ \A t \in S : \E l \in K : f[l] = t
    OBVIOUS
  <2> HIDE DEF f, S, K
  <2> QED BY <1>2, <2>1, ImageFinite
<1>5. BwBestOf(kept)[Where(g)] = Least(S)
  BY DEF BwBestOf
<1> HIDE DEF S
<1> QED BY <1>3, <1>4, <1>5, LeastIsBelow

\* No backward label that can be joined is pruned.
LEMMA JoinedIsCompatible ==
  ASSUME BothEnded, NEW C \in Int, C < opt.theta, NEW f, NEW a, NEW g, Pairs(f, a, g, C)
  PROVE  ~BwIncompatible(g)
<1> DEFINE v == To[a]
           S == {VertexMin("fw", From[b]) + red[b] : b \in ArcsAt("bw", v)}
           h == [b \in ArcsAt("bw", v) |-> VertexMin("fw", From[b]) + red[b]]
           x == VertexMin("fw", From[a]) + red[a]
<1>1. /\ f \in Live("fw") /\ g \in Live("bw") /\ a \in Arc
      /\ This(f).v = From[a] /\ This(g).v = v
      /\ This(f).cost + red[a] + This(g).cost + MinDomCost <= C
  BY DEF Pairs, InnerArcs
<1>2. /\ Mark(This(f)) /\ Mark(This(g)) /\ red \in [Arc -> Int] /\ opt.theta \in Int
      /\ VertexMin("fw", From[a]) \in Int /\ VertexMin("fw", From[a]) <= This(f).cost
  <2>1. "fw" \in Dir /\ "bw" \in Dir
    BY DEF Dir
  <2>2. VertexMin("fw", This(f).v) \in Int /\ VertexMin("fw", This(f).v) <= This(f).cost
    BY <1>1, <2>1, BoundsOfEnded
  <2>3. Mark(This(f)) /\ Mark(This(g)) /\ red \in [Arc -> Int] /\ opt.theta \in Int
    BY <1>1, <2>1, BoundsOfEnded
  <2> QED BY <1>1, <2>2, <2>3
<1>3. \A u \in Vertex : VertexMin("fw", u) \in Int
  <2> SUFFICES ASSUME NEW u \in Vertex PROVE VertexMin("fw", u) \in Int
    OBVIOUS
  <2>1. cbest["fw"] \in [Bucket -> Int] /\ BucketsAt(u) \subseteq Bucket
    BY DEF BothEnded, InOrder, Inductive, TypeOK, SearchType, Bucket, Dir
  <2>2. {cbest["fw"][b] : b \in BucketsAt(u)} \subseteq Int
    BY <2>1
  <2> QED BY <2>2, LeastType DEF VertexMin
<1>4. S \in SUBSET Int /\ x \in S
  <2>1. \A b \in ArcsAt("bw", v) : b \in Arc /\ From[b] \in Vertex /\ red[b] \in Int
    BY <1>2, TableType DEF ArcsAt
  <2>2. a \in ArcsAt("bw", v)
    BY <1>1 DEF ArcsAt, Behind
  <2>3. \A b \in ArcsAt("bw", v) : VertexMin("fw", From[b]) + red[b] \in Int
    BY <1>3, <2>1
  <2> QED BY <2>2, <2>3
<1>5. IsFiniteSet(S)
  <2>1. IsFiniteSet(ArcsAt("bw", v))
    BY ProblemAssumption, FS_Subset DEF ArcsAt
  <2>2. h \in [ArcsAt("bw", v) -> S] /\ \A t \in S : \E b \in ArcsAt("bw", v) : h[b] = t
    OBVIOUS
  <2> HIDE DEF h, S
  <2> QED BY <2>1, <2>2, ImageFinite
<1>6. CheapestArrival(v) = Least(S)
  BY DEF CheapestArrival
<1>7. CheapestArrival(v) \in Int /\ CheapestArrival(v) <= x
  <2> HIDE DEF S, x
  <2> QED BY <1>4, <1>5, <1>6, LeastIsBelow
<1>8. CheapestArrival(v) + This(g).cost + MinDomCost < opt.theta
  <2>1. This(f).cost \in Int /\ This(g).cost \in Int /\ red[a] \in Int /\ MinDomCost \in Int
    BY <1>1, <1>2, PackAssumption DEF Mark
  <2> QED BY <1>1, <1>2, <1>7, <2>1
<1>9. CheapestArrival(v) + This(g).cost + MinDomCost \in Int
  BY <1>2, <1>7, PackAssumption DEF Mark
<1> QED BY <1>1, <1>2, <1>8, <1>9 DEF BwIncompatible

\* No filter of the concatenation drops two labels that make a path below theta.
LEMMA PairsAreJoined ==
  ASSUME BothEnded, PostPass, EmptyPack = FALSE, NEW C \in Int, C < opt.theta,
         NEW f, NEW a, NEW g, Pairs(f, a, g, C)
  PROVE  Join(f, a, g) \in ConcatCandidates'
<1> DEFINE kept == {l \in Live("bw") : ~BwIncompatible(l)}
           along == AlongArc("fw", This(f).st, a)
           low == VertexMin("bw", To[a])'
<1>1. /\ f \in Live("fw") /\ g \in Live("bw") /\ a \in InnerArcs /\ a \in Arc
      /\ This(f).v = From[a] /\ This(g).v = To[a]
      /\ AtLeastAsGood("fw", Advance("fw", This(f).q, a), This(g).q)
      /\ along.cost < Inf /\ ConcatCost(To[a], along.st, This(g).st) < Inf
      /\ Join(f, a, g).cost \in Int /\ Join(f, a, g).cost <= C
      /\ This(f).cost + red[a] + This(g).cost + MinDomCost <= C
  BY DEF Pairs, InnerArcs
<1>2. /\ "fw" \in Dir /\ "bw" \in Dir /\ labels \in [Dir -> SUBSET Label]
      /\ dominated \in [Dir -> SUBSET Label] /\ cbest \in [Dir -> [Bucket -> Int]]
      /\ red \in [Arc -> Int] /\ opt.theta \in Int /\ IsFiniteSet(labels["bw"])
  BY OptionAssumption
  DEF BothEnded, InOrder, Inductive, TypeOK, SolveType, GraphType, LabelType, SearchType, Dir
<1>3. /\ opt' = opt /\ red' = red
      /\ labels' = [labels EXCEPT !["bw"] = kept]
      /\ dominated' = [dominated EXCEPT !["bw"] = {}]
      /\ cbest' = [cbest EXCEPT !["bw"] = BwBestOf(kept)]
  <2>1. opt.mode # "mono" /\ ~Enumerating
    BY DEF BothEnded
  <2> QED BY <2>1 DEF PostPass, graph
<1>4. /\ Live("fw")' = Live("fw") /\ Live("bw")' = kept
      /\ cbest'["fw"] = cbest["fw"] /\ cbest'["bw"] = BwBestOf(kept)
  <2> HIDE DEF kept
  <2>1. labels'["fw"] = labels["fw"] /\ labels'["bw"] = kept
    BY <1>2, <1>3
  <2>2. dominated'["fw"] = dominated["fw"] /\ dominated'["bw"] = {}
    BY <1>2, <1>3
  <2>3. cbest'["fw"] = cbest["fw"] /\ cbest'["bw"] = BwBestOf(kept)
    BY <1>2, <1>3
  <2> QED BY <2>1, <2>2, <2>3 DEF Live
<1>5. /\ Mark(This(f)) /\ Mark(This(g)) /\ Where(g) \in Bucket /\ Where(g)[1] = To[a]
      /\ cbest["fw"][Where(f)] \in Int /\ cbest["fw"][Where(f)] <= This(f).cost
  BY <1>1, <1>2, BoundsOfEnded
<1>6. g \in kept /\ kept \in SUBSET Label /\ IsFiniteSet(kept)
  <2>1. ~BwIncompatible(g)
    BY JoinedIsCompatible
  <2>2. kept \in SUBSET Label /\ kept \subseteq labels["bw"]
    BY <1>2 DEF Live
  <2> QED BY <1>1, <1>2, <2>1, <2>2, FS_Subset
<1>7. /\ BwBestOf(kept) \in [Bucket -> Int]
      /\ BwBestOf(kept)[Where(g)] <= This(g).cost /\ BwBestOf(kept)[Where(g)] \in Int
  <2> HIDE DEF kept
  <2>1. BwBestOf(kept) \in [Bucket -> Int]
    BY <1>2, <1>6, BestType
  <2>2. BwBestOf(kept)[Where(g)] <= This(g).cost
    BY <1>5, <1>6, BestOfKept
  <2> QED BY <1>5, <2>1, <2>2
<1>8. low \in Int /\ low <= This(g).cost
  <2> DEFINE bound == BwBestOf(kept)
  <2>1. low = Least({bound[c] : c \in BucketsAt(Where(g)[1])})
    BY <1>4, <1>5 DEF VertexMin
  <2>2. This(g).cost \in Int
    BY <1>5 DEF Mark
  <2> HIDE DEF bound, low
  <2>3. bound \in [Bucket -> Int] /\ bound[Where(g)] <= This(g).cost /\ bound[Where(g)] \in Int
    BY <1>7 DEF bound
  <2>4. low \in Int /\ low <= bound[Where(g)]
    BY <1>5, <2>1, <2>3, BoundsOfVertex
  <2> QED BY <2>2, <2>3, <2>4
<1>9. /\ This(f).cost \in Int /\ This(g).cost \in Int /\ red[a] \in Int /\ MinDomCost \in Int
  BY <1>1, <1>2, <1>5, PackAssumption DEF Mark
<1>10. FwWorth(f, a)'
  <2>1. /\ cbest["fw"][Where(f)] + (red[a] + low + MinDomCost) < opt.theta
        /\ This(f).cost + (red[a] + low + MinDomCost) < opt.theta
    <3> HIDE DEF low
    <3> QED BY <1>1, <1>2, <1>5, <1>8, <1>9
  <2> QED BY <1>3, <1>4, <2>1 DEF FwWorth
<1>11. BwWorth(f, a, g)'
  <2> DEFINE bg == BwBestOf(kept)[Where(g)]
  <2>1. /\ (This(f).cost + red[a] + MinDomCost) + bg < opt.theta
        /\ (This(f).cost + red[a] + MinDomCost) + This(g).cost < opt.theta
    <3>1. bg \in Int /\ bg <= This(g).cost
      BY <1>7
    <3> HIDE DEF bg
    <3> QED BY <1>1, <1>2, <1>9, <3>1
  <2> QED BY <1>3, <1>4, <2>1 DEF BwWorth
<1>12. Join(f, a, g)' = Join(f, a, g)
  BY <1>3 DEF Join
<1>13. Join(f, a, g).cost < opt.theta
  BY <1>1, <1>2
<1>14. Joinable(f, a, g)'
  BY <1>1, <1>3, <1>10, <1>11, <1>12, <1>13 DEF Joinable
<1> DEFINE G == {h \in Live("bw")' : Joinable(f, a, h)'}
<1>15. g \in G /\ f \in {h \in Live("fw")' : This(h).v = From[a]}
  BY <1>1, <1>4, <1>6, <1>14
<1>16. opt'.mode # "mono"
  BY <1>3 DEF BothEnded
<1>17. ConcatCandidates' =
         UNION {UNION {{Join(x, b, y)' : y \in {h \in Live("bw")' : Joinable(x, b, h)'}} :
                        x \in {h \in Live("fw")' : This(h).v = From[b]}} : b \in InnerArcs}
  BY <1>16 DEF ConcatCandidates
<1>18. Join(f, a, g)' \in ConcatCandidates'
  <2>1. Join(f, a, g)' \in {Join(f, a, y)' : y \in {h \in Live("bw")' : Joinable(f, a, h)'}}
    BY <1>15
  <2>2. Join(f, a, g)' \in UNION {{Join(x, a, y)' : y \in {h \in Live("bw")' : Joinable(x, a, h)'}} :
                        x \in {h \in Live("fw")' : This(h).v = From[a]}}
    BY <1>15, <2>1
  <2> QED BY <1>1, <1>17, <2>2
<1> QED BY <1>12, <1>18

-----------------------------------------------------------------------------
\* While components are processed, in whatever stage: labels are finitely many and
\* those of finished buckets are bounded.
EndedBounded ==
  phase \in {"label", "post"} => \A d \in Dir : IsFiniteSet(labels[d]) /\ OwnIsBounded(d)

\* The bound that update_c_best sets is not above the labels of its bucket.
LEMMA BestOfOwnBucket ==
  ASSUME SearchType, NEW d \in Dir, NEW kept \in SUBSET Label, IsFiniteSet(kept),
         NEW l \in kept, Where(l) \in Bucket, Where(l) \in scc[d]
  PROVE  BestOf(d, kept)[Where(l)] <= This(l).cost
<1> DEFINE b == Where(l)
           K == {x \in kept : UpTo(d, Where(x), b) /\ Where(x) \in scc[d]}
           B == {x \in BucketsAt(b[1]) \ scc[d] : UpTo(d, x, b)}
           own == {This(x).cost : x \in K}
           other == {cbest[d][c] : c \in B}
           f == [x \in K |-> This(x).cost]
           g == [c \in B |-> cbest[d][c]]
<1>1. l \in K /\ IsFiniteSet(K)
  <2>1. UpTo(d, b, b)
    BY BucketType DEF UpTo
  <2> QED BY <2>1, FS_Subset
<1>2. B \subseteq Bucket /\ IsFiniteSet(B)
  <2>1. b[1] \in Vertex
    BY BucketType
  <2>2. B \subseteq Bucket
    BY <2>1 DEF Bucket
  <2> HIDE DEF B
  <2> QED BY <2>2, BucketsFinite, FS_Subset
<1>3. own \in SUBSET Int /\ This(l).cost \in own
  BY <1>1, LabelMarks DEF Mark
<1>4. other \in SUBSET Int
  <2>1. \A c \in Bucket : cbest[d][c] \in Int
    BY DEF SearchType
  <2> HIDE DEF B
  <2> QED BY <1>2, <2>1
<1>5. IsFiniteSet(own)
  <2>1. f \in [K -> own] /\ \A t \in own : \E x \in K : f[x] = t
    OBVIOUS
  <2> HIDE DEF f, own, K
  <2> QED BY <1>1, <2>1, ImageFinite
<1>6. IsFiniteSet(other)
  <2>1. g \in [B -> other] /\ \A t \in other : \E c \in B : g[c] = t
    OBVIOUS
  <2> HIDE DEF g, other, B
  <2> QED BY <1>2, <2>1, ImageFinite
<1>7. BestOf(d, kept)[b] = Least(own \cup other)
  BY DEF BestOf
<1> HIDE DEF own, other
<1>8. own \cup other \in SUBSET Int /\ IsFiniteSet(own \cup other) /\ This(l).cost \in own \cup other
  BY <1>3, <1>4, <1>5, <1>6, FS_Union
<1> QED BY <1>7, <1>8, LeastIsBelow

\* A component that ends bounds what it keeps.
LEMMA BoundedFinish ==
  ASSUME InOrder, EndedBounded, NEW d \in Dir, FinishScc(d)
  PROVE  EndedBounded'
<1> DEFINE gone == {l \in dominated[d] : Where(l) \in scc[d]}
           kept == labels[d] \ gone
<1>1. /\ phase = "label" /\ phase' = "label" /\ LabelType /\ SearchType
      /\ labels' = [labels EXCEPT ![d] = kept]
      /\ dominated' = [dominated EXCEPT ![d] = @ \ gone]
      /\ cbest' = [cbest EXCEPT ![d] = BestOf(d, kept)]
      /\ finished' = [finished EXCEPT ![d] = @ \cup {scc[d]}]
  BY DEF FinishScc, Running, InOrder, Inductive, TypeOK
<1>2. \A c \in Dir : IsFiniteSet(labels[c]) /\ OwnIsBounded(c)
  BY <1>1 DEF EndedBounded
<1>3. /\ labels'[d] = kept /\ dominated'[d] = dominated[d] \ gone
      /\ cbest'[d] = BestOf(d, kept) /\ finished'[d] = finished[d] \cup {scc[d]}
      /\ kept \in SUBSET Label /\ IsFiniteSet(kept)
  <2>1. kept \in SUBSET labels[d]
    OBVIOUS
  <2> HIDE DEF gone, kept
  <2> QED BY <1>1, <1>2, <2>1, FS_Subset DEF LabelType, SearchType
<1>4. Live(d)' = Live(d) /\ Live(d) \subseteq kept
  BY <1>3 DEF Live
<1>5. OwnIsBounded(d)'
  <2> SUFFICES ASSUME NEW l \in Live(d), Settled(d, Where(l)) \/ Where(l) \in scc[d]
               PROVE  BestOf(d, kept)[Where(l)] <= This(l).cost
    BY <1>3, <1>4 DEF OwnIsBounded, Settled
  <2>1. l \in kept /\ Where(l) \in Bucket
    <3>1. l \in Label /\ l \in labels[d] /\ SoundLabel(d, l)
      BY <1>1 DEF Live, LabelType, InOrder, Inductive, LabelsAreSound
    <3> QED BY <1>4, <3>1, WhereType
  <2>2. CASE Where(l) \in scc[d]
    BY <1>1, <1>3, <2>1, <2>2, BestOfOwnBucket
  <2>3. CASE Where(l) \notin scc[d]
    <3>1. BestOf(d, kept)[Where(l)] = cbest[d][Where(l)]
      BY <2>1, <2>3 DEF BestOf
    <3> QED BY <1>2, <2>3, <3>1 DEF OwnIsBounded
  <2> QED BY <2>2, <2>3
<1>6. ASSUME NEW c \in Dir, c # d
      PROVE  IsFiniteSet(labels'[c]) /\ OwnIsBounded(c)'
  <2>1. /\ labels'[c] = labels[c] /\ dominated'[c] = dominated[c]
        /\ cbest'[c] = cbest[c] /\ finished'[c] = finished[c]
    BY <1>1, <1>6
  <2> QED BY <1>2, <2>1 DEF OwnIsBounded, Live, Settled
<1> QED BY <1>1, <1>3, <1>5, <1>6 DEF EndedBounded

\* A child is stored in a component that is not finished; other labels only lose.
LEMMA BoundedExtend ==
  ASSUME InOrder, EndedBounded, NEW d \in Dir, NEW e \in todo[d], ExtendArc(d, e)
  PROVE  EndedBounded'
<1> DEFINE n == Extend(d, This(cur[d]), e)
           k == Append(cur[d], n)
<1>1. /\ phase = "label" /\ phase' = "label" /\ LabelType
      /\ cbest' = cbest /\ finished' = finished
  BY DEF ExtendArc, Running, InOrder, Inductive, TypeOK
<1>2. \A c \in Dir : IsFiniteSet(labels[c]) /\ OwnIsBounded(c)
  BY <1>1 DEF EndedBounded
<1>3. CASE labels' = labels /\ dominated' = dominated
  BY <1>1, <1>2, <1>3 DEF EndedBounded, OwnIsBounded, Live, Settled
<1>4. CASE /\ ExtendFeasible(d, This(cur[d]), e)
           /\ labels' = [labels EXCEPT ![d] = (@ \ Replaced(d, n)) \cup {k}]
           /\ dominated' = [dominated EXCEPT ![d] = (@ \ Replaced(d, n)) \cup Victims(d, n)]
  <2>1. ~Settled(d, Where(k))
    BY <1>4, ChildIsUnsettled DEF InOrder
  <2> HIDE DEF k, n
  <2>2. /\ labels'[d] = (labels[d] \ Replaced(d, n)) \cup {k}
        /\ dominated'[d] = (dominated[d] \ Replaced(d, n)) \cup Victims(d, n)
        /\ \A c \in Dir : c # d => labels'[c] = labels[c] /\ dominated'[c] = dominated[c]
    BY <1>1, <1>4 DEF LabelType
  <2>3. Live(d)' \subseteq Live(d) \cup {k}
    BY <2>2 DEF Live
  <2>4. OwnIsBounded(d)'
    BY <1>1, <1>2, <2>1, <2>3 DEF OwnIsBounded, Settled
  <2>5. IsFiniteSet(labels'[d])
    <3>1. labels[d] \ Replaced(d, n) \in SUBSET labels[d]
      OBVIOUS
    <3>2. IsFiniteSet(labels[d] \ Replaced(d, n))
      BY <1>2, <3>1, FS_Subset
    <3> QED BY <2>2, <3>2, FS_AddElement
  <2> QED BY <1>1, <1>2, <2>2, <2>4, <2>5 DEF EndedBounded, OwnIsBounded, Live, Settled
<1> QED BY <1>3, <1>4 DEF ExtendArc

LEMMA BoundedStays ==
  ASSUME InOrder, EndedBounded, [Next]_vars
  PROVE  EndedBounded'
<1>1. CASE BeginSolve
  <2>1. /\ labels' = [d \in Dir |-> IF d \in Directions THEN {InitialLabel(d)} ELSE {}]
        /\ finished' = [d \in Dir |-> {}]
    BY <1>1 DEF BeginSolve
  <2>2. \A d \in Dir : IsFiniteSet(labels'[d]) /\ finished'[d] = {}
    BY <2>1, FS_Singleton, FS_EmptySet
  <2> QED BY <2>2 DEF EndedBounded, OwnIsBounded, Settled
<1>2. CASE EndLabeling
  BY <1>2 DEF EndLabeling, search, EndedBounded, OwnIsBounded, Live, Settled
<1>3. CASE PostPass \/ Collect
  BY <1>3 DEF PostPass, Collect, EndedBounded
<1>4. CASE Returned \/ UNCHANGED vars
  BY <1>4 DEF Returned, vars, search, EndedBounded, OwnIsBounded, Live, Settled
<1>5. ASSUME NEW d \in Dir, LabelStep(d)
      PROVE  EndedBounded'
  <2>1. CASE FinishScc(d)
    BY <2>1, BoundedFinish
  <2>2. CASE \E e \in todo[d] : ExtendArc(d, e)
    BY <2>2, BoundedExtend
  <2>3. CASE \/ \E t \in Sccs[d] : StartScc(d, t)
             \/ \E l \in labels[d] : PruneHopeless(d, l) \/ OpenLabel(d, l)
    <3>1. /\ phase = "label" /\ phase' = phase
          /\ UNCHANGED <<labels, dominated, cbest, finished>>
      BY <2>3 DEF StartScc, PruneHopeless, OpenLabel, Visit, Running
    <3> QED BY <3>1 DEF EndedBounded, OwnIsBounded, Live, Settled
  <2>4. CASE \E l \in labels[d] : DropDominated(d, l)
    <3>1. /\ phase = "label" /\ phase' = phase
          /\ UNCHANGED <<labels, cbest, finished>>
          /\ \A c \in Dir : dominated[c] \subseteq dominated'[c]
      BY <2>4 DEF DropDominated, Visit, Running, InOrder, Inductive, TypeOK, LabelType
    <3> QED BY <3>1 DEF EndedBounded, OwnIsBounded, Live, Settled
  <2> QED BY <1>5, <2>1, <2>2, <2>3, <2>4 DEF LabelStep
<1> QED BY <1>1, <1>2, <1>3, <1>4, <1>5 DEF Next, MainStep

\* Whatever two halves the labelings have found that an arc joins to a path below
\* theta are joined: neither the arrival bounds of the post-pass nor the bounds by
\* which the concatenation skips, set by two labelings component by component and for
\* the backward one set again after the post-pass, lose them, in any stage that does
\* not enumerate and in both bidirectional modes. It takes no law of the pack
\* but that meeting costs no less than the filters reckon with.
THEOREM PairsSurviveTheFilters ==
  ASSUME EmptyPack = FALSE, MeetingCostsLeast
  PROVE  Spec => PairsBecomeCandidates
<1>1. Init => EndedBounded
  BY DEF Init, EndedBounded
<1>2. InOrder /\ EndedBounded /\ Searched /\ [Next]_vars =>
        [(PostPass /\ opt.mode # "mono" /\ ~Enumerating) =>
           \A a \in InnerArcs : \A f \in Live("fw"), g \in Live("bw") :
             MakePath(f, a, g) => Join(f, a, g) \in ConcatCandidates']_vars
  <2> SUFFICES ASSUME InOrder, EndedBounded, Searched, PostPass, opt.mode # "mono", ~Enumerating,
                      NEW a \in InnerArcs, NEW f \in Live("fw"), NEW g \in Live("bw"),
                      MakePath(f, a, g)
               PROVE  Join(f, a, g) \in ConcatCandidates'
    OBVIOUS
  <2> DEFINE along == AlongArc("fw", This(f).st, a)
             meet == ConcatCost(To[a], along.st, This(g).st)
             C == Join(f, a, g).cost
  <2>1. BothEnded
    <3>1. phase = "post" /\ Directions = Dir
      BY DEF PostPass, Directions
    <3> QED BY <3>1 DEF BothEnded, EndedBounded, Searched
  <2>2. /\ Mark(This(f)) /\ Mark(This(g)) /\ red \in [Arc -> Int] /\ opt.theta \in Int
        /\ "fw" \in Dir /\ "bw" \in Dir /\ a \in Arc /\ To[a] \in Vertex
    BY <2>1, BoundsOfEnded, ProblemAssumption DEF Dir, InnerArcs
  <2>3. /\ along \in [st : PackState, cost : Int] /\ meet \in Int /\ red[a] \in Int
        /\ This(f).cost \in Int /\ This(g).cost \in Int /\ MinDomCost \in Int
    BY <2>2, PackAssumption DEF Mark
  <2>4. along.cost < Inf /\ meet < Inf /\ C < opt.theta
    BY DEF MakePath
  <2>5. MinDomCost <= along.cost + meet
    BY <2>2, <2>4 DEF MeetingCostsLeast, Mark
  <2>6. C = This(f).cost + red[a] + This(g).cost + along.cost + meet
    BY DEF Join
  <2>7. C \in Int /\ This(f).cost + red[a] + This(g).cost + MinDomCost <= C
    <3>1. along.cost \in Int
      BY <2>3
    <3> HIDE DEF along, meet, C
    <3> QED BY <2>3, <2>5, <2>6, <3>1
  <2>8. Pairs(f, a, g, C)
    BY <2>7 DEF Pairs, MakePath
  <2> HIDE DEF C
  <2> QED BY <2>1, <2>4, <2>7, <2>8, PairsAreJoined
<1>3. InOrder /\ EndedBounded /\ [Next]_vars => EndedBounded'
  BY BoundedStays
<1> QED BY <1>1, <1>2, <1>3, AlwaysInOrder, AlwaysDelivered, PTL DEF Spec, PairsBecomeCandidates

-----------------------------------------------------------------------------
\* The midpoint lies in the middle until the post-pass moves it.
MidInTheMiddle ==
  /\ phase = "ready" => ~midSet
  /\ phase \in {"label", "post"} /\ opt.mode # "mono" => mid = (MidScale \div 2) * (MinLb + MaxUb)

LEMMA MidStays ==
  ASSUME MidInTheMiddle, [Next]_vars
  PROVE  MidInTheMiddle'
<1>1. CASE BeginSolve
  BY <1>1 DEF BeginSolve, MidInTheMiddle
<1>2. CASE EndLabeling
  BY <1>2 DEF EndLabeling, MidInTheMiddle
<1>3. CASE PostPass \/ Collect
  BY <1>3 DEF PostPass, Collect, MidInTheMiddle
<1>4. CASE Returned \/ UNCHANGED vars
  BY <1>4 DEF Returned, vars, MidInTheMiddle
<1>5. ASSUME NEW d \in Dir, LabelStep(d)
      PROVE  MidInTheMiddle'
  <2>1. phase = "label" /\ phase' = phase /\ UNCHANGED <<opt, mid, midSet>>
    BY <1>5 DEF LabelStep, StartScc, DropDominated, PruneHopeless, OpenLabel, ExtendArc, FinishScc,
                Visit, Running
  <2> QED BY <2>1 DEF MidInTheMiddle
<1> QED BY <1>1, <1>2, <1>3, <1>4, <1>5 DEF Next, MainStep

\* What an exact solve in both directions collects, and returns.
BothWays == opt.mode # "mono" /\ opt.stage = "Exact"
Answers(R) ==
  \A w \in Paths : Worth(w) => (\E c \in R : c.cost <= CostOf(w)) \/ LonelyBeyondMid(w)
Promised ==
  BothWays => /\ phase = "collect" => Answers(SinkCandidates \cup ConcatCandidates)
              /\ phase = "done" => Answers(result)

\* What the two labelings have to offer is collected.
LEMMA PostPassPromises ==
  ASSUME PackLawful, PackReplaceable, PruningAllowed, NothingIsGivenBack, SourceBeforeMid,
         EndsAreEnds, EmptyPack = FALSE, NEW In, NEW Out, PackCuts(In, Out),
         InOrder, Kept, Searched, BoundsOfCosts, MidInTheMiddle, BothWays, PostPass
  PROVE  Answers(SinkCandidates \cup ConcatCandidates)'
<1>1. phase = "post" /\ "fw" \in Directions /\ "bw" \in Directions
  BY DEF PostPass, Directions, BothWays, Dir
<1>2. Halves
  BY <1>1 DEF Halves, Kept, ExactRun, Searched, BothWays
<1>3. mid = (MidScale \div 2) * (MinLb + MaxUb)
  BY <1>1 DEF MidInTheMiddle, BothWays
<1>4. /\ opt' = opt /\ red' = red /\ labels'["fw"] = labels["fw"]
      /\ extended'["fw"] = extended["fw"] /\ dominated'["fw"] = dominated["fw"]
  <2>1. /\ labels \in [Dir -> SUBSET Label] /\ extended \in [Dir -> SUBSET Label]
        /\ dominated \in [Dir -> SUBSET Label] /\ opt.mode # "mono" /\ ~Enumerating
    BY DEF InOrder, Inductive, TypeOK, LabelType, BothWays, Enumerating
  <2>2. /\ opt' = opt /\ red' = red
        /\ \E kept : /\ labels' = [labels EXCEPT !["bw"] = kept]
                     /\ extended' = [extended EXCEPT !["bw"] = @ \cap kept]
                     /\ dominated' = [dominated EXCEPT !["bw"] = {}]
    BY <2>1 DEF PostPass, graph
  <2> QED BY <2>1, <2>2 DEF Dir
<1> SUFFICES ASSUME NEW w \in Paths, Worth(w)
             PROVE  \/ \E c \in (SinkCandidates \cup ConcatCandidates)' : c.cost <= CostOf(w)
                    \/ LonelyBeyondMid(w)'
  <2>1. \A w \in Paths : /\ Worth(w)' <=> Worth(w)
                         /\ CostOf(w)' = CostOf(w)
    BY <1>4 DEF Worth, CostOf
  <2> QED BY <2>1 DEF Answers
<1>5. LonelyBeyondMid(w)' <=> LonelyBeyondMid(w)
  BY <1>4 DEF LonelyBeyondMid
<1>6. /\ CostOf(w) \in Int /\ CostOf(w) < opt.theta /\ opt.theta \in Int
  <2>1. /\ PackMeansAllowed /\ red \in [Arc -> Int] /\ w \in PartialWalks /\ opt.theta \in Int
    BY OptionAssumption
    DEF PackLawful, InOrder, Inductive, TypeOK, GraphType, SolveType, Paths
  <2> QED BY <2>1, RestCosts DEF Worth
<1>7. Offered(CostOf(w)) \/ LonelyBeyondMid(w)
  BY <1>2, <1>3, AllIsOffered
<1>8. CASE \E l \in Live("fw") : This(l).v = Sink /\ This(l).cost <= CostOf(w)
  <2>1. PICK l \in Live("fw") : This(l).v = Sink /\ This(l).cost <= CostOf(w)
    BY <1>8
  <2>2. This(l).cost \in Int
    BY <1>2, <2>1, HalvesEnded DEF Mark, Dir
  <2> DEFINE y == [fw |-> l, bw |-> <<>>, arc |-> NoArc, cost |-> This(l).cost,
                   real |-> This(l).real]
  <2>3. l \in Live("fw")' /\ This(l).cost < opt'.theta
    <3>1. This(l).cost < opt.theta
      BY <1>6, <2>1, <2>2
    <3> QED BY <1>4, <2>1, <3>1 DEF Live
  <2>4. y \in SinkCandidates' /\ y.cost = This(l).cost
    BY <2>1, <2>3 DEF SinkCandidates
  <2> HIDE DEF y
  <2>5. y \in (SinkCandidates \cup ConcatCandidates)' /\ y.cost <= CostOf(w)
    BY <2>1, <2>4
  <2> QED BY <2>5
<1>9. CASE \E f, a, g : Pairs(f, a, g, CostOf(w))
  <2>1. PICK f, a, g : Pairs(f, a, g, CostOf(w))
    BY <1>9
  <2>2. Join(f, a, g) \in ConcatCandidates'
    BY <1>2, <1>6, <2>1, HalvesBothEnded, PairsAreJoined
  <2>3. Join(f, a, g).cost <= CostOf(w)
    BY <2>1 DEF Pairs
  <2>4. Join(f, a, g) \in (SinkCandidates \cup ConcatCandidates)'
    BY <2>2
  <2> QED BY <2>3, <2>4
<1> QED BY <1>5, <1>7, <1>8, <1>9 DEF Offered

\* And the cheapest of it is returned.
LEMMA PromiseKept ==
  ASSUME PackLawful, Inductive, Promised, BothWays, Collect
  PROVE  Answers(result')
<1>1. phase = "collect" /\ Answers(SinkCandidates \cup ConcatCandidates)
  BY DEF Collect, Promised
<1> DEFINE A == ConcatCandidates \cup SinkCandidates
<1>2. result' \in Selections(A)
  <2>1. Collected = {ConcatCandidates}
    BY DEF Collected, Enumerating, BothWays
  <2>2. PICK C \in Collected : result' \in Selections(C \cup SinkCandidates)
    BY DEF Collect
  <2>3. C = ConcatCandidates
    BY <2>1, <2>2
  <2> QED BY <2>2, <2>3
<1>3. /\ LabelType /\ LabelsAreSound /\ red \in [Arc -> Int] /\ PackMeansAllowed
      /\ result' \subseteq Candidate
  <2>1. Inductive'
    BY NextIsInductive DEF Next, MainStep
  <2> QED BY <2>1 DEF Inductive, TypeOK, GraphType, PackLawful
<1>4. \A y \in A : y.cost \in Int
  <2>1. \A y \in A : y \in Candidate
    BY <1>3, SinkCandidatesAreSound, ConcatCandidatesAreSound
  <2> HIDE DEF A
  <2> QED BY <2>1 DEF Candidate
<1> SUFFICES ASSUME NEW w \in Paths, Worth(w), ~LonelyBeyondMid(w)
             PROVE  \E c \in result' : c.cost <= CostOf(w)
  BY DEF Answers
<1>5. PICK y \in A : y.cost <= CostOf(w)
  BY <1>1 DEF Answers
<1> HIDE DEF A
<1>6. PICK c \in result' : c.cost <= y.cost
  BY <1>2, <1>4, <1>5, SelectionIsCheapest
<1>7. c.cost \in Int /\ y.cost \in Int /\ CostOf(w) \in Int
  <2>1. c.cost \in Int /\ y.cost \in Int
    BY <1>3, <1>4, <1>5, <1>6 DEF Candidate
  <2>2. CostOf(w) \in Int
    BY <1>3, RestCosts DEF Paths
  <2> QED BY <2>1, <2>2
<1>8. c.cost <= CostOf(w)
  BY <1>5, <1>6, <1>7
<1> QED BY <1>6, <1>8

LEMMA PromiseStays ==
  ASSUME PackLawful, PackReplaceable, PruningAllowed, NothingIsGivenBack, SourceBeforeMid,
         EndsAreEnds, EmptyPack = FALSE, NEW In, NEW Out, PackCuts(In, Out),
         InOrder, Kept, Searched, BoundsOfCosts, MidInTheMiddle, Promised, [Next]_vars
  PROVE  Promised'
<1>1. CASE BeginSolve \/ EndLabeling
  BY <1>1 DEF BeginSolve, EndLabeling, Promised
<1>2. CASE PostPass
  <2>1. phase' = "collect" /\ opt' = opt
    BY <1>2 DEF PostPass
  <2>2. BothWays' => Answers(SinkCandidates \cup ConcatCandidates)'
    BY <1>2, <2>1, PostPassPromises DEF BothWays
  <2> QED BY <2>1, <2>2 DEF Promised
<1>3. CASE Collect
  <2>1. /\ phase' = "done" /\ UNCHANGED <<opt, red, labels, extended>>
    BY <1>3 DEF Collect, graph, search
  <2>2. BothWays => Answers(result')
    BY <1>3, PromiseKept DEF InOrder
  <2>3. BothWays' => Answers(result)'
    <3>1. \A w \in Paths : /\ Worth(w)' <=> Worth(w)
                           /\ CostOf(w)' = CostOf(w)
                           /\ LonelyBeyondMid(w)' <=> LonelyBeyondMid(w)
      BY <2>1 DEF Worth, CostOf, LonelyBeyondMid
    <3> QED BY <2>1, <2>2, <3>1 DEF Answers, BothWays
  <2> QED BY <2>1, <2>3 DEF Promised
<1>4. CASE Returned \/ UNCHANGED vars
  <2>1. UNCHANGED vars
    BY <1>4 DEF Returned
  <2>2. UNCHANGED <<phase, opt, red, labels, extended, dominated, cbest, result>>
    BY <2>1 DEF vars, graph, search
  <2>3. BothWays' <=> BothWays
    BY <2>2 DEF BothWays
  <2>4. /\ Live("fw")' = Live("fw") /\ Live("bw")' = Live("bw")
        /\ SinkCandidates' = SinkCandidates
    BY <2>2 DEF SinkCandidates, Live
  <2>5. ConcatCandidates' = ConcatCandidates
    BY <2>2 DEF ConcatCandidates, Live, Joinable, FwWorth, BwWorth, Join, VertexMin
  <2>6. \A w \in Paths : /\ Worth(w)' <=> Worth(w)
                         /\ CostOf(w)' = CostOf(w)
                         /\ LonelyBeyondMid(w)' <=> LonelyBeyondMid(w)
    BY <2>2 DEF Worth, CostOf, LonelyBeyondMid
  <2>7. Answers(result)' <=> Answers(result)
    BY <2>2, <2>6 DEF Answers
  <2>8. Answers(SinkCandidates \cup ConcatCandidates)'
          <=> Answers(SinkCandidates \cup ConcatCandidates)
    <3>1. (SinkCandidates \cup ConcatCandidates)' = SinkCandidates \cup ConcatCandidates
      BY <2>4, <2>5
    <3> QED BY <2>6, <3>1 DEF Answers
  <2> QED BY <2>2, <2>3, <2>7, <2>8 DEF Promised
<1>5. ASSUME NEW d \in Dir, LabelStep(d)
      PROVE  Promised'
  <2>1. phase = "label" /\ phase' = phase
    BY <1>5 DEF LabelStep, StartScc, DropDominated, PruneHopeless, OpenLabel, ExtendArc, FinishScc,
                Visit, Running
  <2> QED BY <2>1 DEF Promised
<1> QED BY <1>1, <1>2, <1>3, <1>4, <1>5 DEF Next, MainStep

\* An exact solve returns a path of least reduced cost when there is one below theta,
\* lonely paths apart, in whichever directions it labels: paths survive the midpoint,
\* the filter of forward labels beyond it or, in parallel labeling, the completion
\* bounds, the post-pass and the filters of the concatenation.
THEOREM EveryModeFindsOptimum ==
  ASSUME PackLawful, PackReplaceable, PruningAllowed, NothingIsGivenBack, SourceBeforeMid,
         EndsAreEnds, EmptyPack = FALSE, NEW In, NEW Out, PackCuts(In, Out)
  PROVE  Spec /\ []Uncapped => []BidirFindsOptimum
<1>1. Init => MidInTheMiddle /\ Promised
  BY DEF Init, MidInTheMiddle, Promised
<1>2. InOrder /\ Kept /\ Searched /\ BoundsOfCosts /\ MidInTheMiddle /\ Promised /\ [Next]_vars
        => (MidInTheMiddle /\ Promised)'
  BY MidStays, PromiseStays
<1>3. InOrder /\ Kept /\ Fresh /\ Searched /\ Delivered /\ Promised => BidirFindsOptimum
  <2> SUFFICES ASSUME InOrder, Kept, Fresh, Searched, Delivered, Promised,
                      Done, opt.stage = "Exact"
               PROVE  Answers(result)
    BY DEF BidirFindsOptimum, Answers
  <2>1. CASE opt.mode = "mono"
    BY <2>1, LoneSolveFinds DEF LoneExact, Answers
  <2>2. CASE opt.mode # "mono"
    BY <2>2 DEF Promised, BothWays, Done
  <2> QED BY <2>1, <2>2
<1> QED BY <1>1, <1>2, <1>3, AlwaysKept, AlwaysDelivered, BoundsAreOfCosts, PTL DEF Spec

-----------------------------------------------------------------------------
\* Labels may be replaced with the pack because they may with the ng-path resource.
LEMMA NgPackReplaces ==
  ASSUME PackIsNg, 0 < Inf, MinDomCost <= 0
  PROVE  PackReplaceable
<1>1. /\ PackState = NgState /\ "fw" \in Dir /\ "bw" \in Dir /\ MinDomCost \in Int
      /\ \A a \in Arc : From[a] \in Vertex /\ To[a] \in Vertex
      /\ \A t \in NgState : \A a \in Arc : NgAlongArc("fw", t, a).st \in NgState
  BY ProblemAssumption, PackAssumption, NgPersists DEF PackIsNg, PackIs, Dir, Closed
<1>2. /\ \A t \in NgState : \A a \in Arc : AlongArc("fw", t, a) = NgAlongArc("fw", t, a)
      /\ \A d \in Dir, v \in Vertex, t, u \in NgState : DomCost(d, v, t, u) = NgDomCost(d, v, t, u)
      /\ \A v \in Vertex, t, u \in NgState : ConcatCost(v, t, u) = NgConcatCost(v, t, u)
  BY <1>1 DEF PackIsNg, PackIs
<1> SUFFICES ASSUME NEW a \in Arc, NEW s \in NgState, NEW t \in NgState, NEW x \in NgState, NEW y \in NgState
             PROVE  LET s1 == NgAlongArc("fw", s, a)
                        t1 == NgAlongArc("fw", t, a)
                    IN (/\ DomCost("fw", From[a], s, t) < Inf /\ DomCost("bw", To[a], x, y) < Inf
                        /\ t1.cost < Inf /\ ConcatCost(To[a], t1.st, y) < Inf)
                       => /\ s1.cost < Inf /\ ConcatCost(To[a], s1.st, x) < Inf
                          /\ MinDomCost <= s1.cost + ConcatCost(To[a], s1.st, x)
                          /\ s1.cost + ConcatCost(To[a], s1.st, x)
                               <= t1.cost + ConcatCost(To[a], t1.st, y)
                                    + DomCost("fw", From[a], s, t) + DomCost("bw", To[a], x, y)
  BY <1>1, <1>2 DEF PackReplaceable, Replaceable
<1>3. /\ DomCost("fw", From[a], s, t) = NgDomCost("fw", From[a], s, t)
      /\ DomCost("bw", To[a], x, y) = NgDomCost("bw", To[a], x, y)
      /\ ConcatCost(To[a], NgAlongArc("fw", s, a).st, x) = NgConcatCost(To[a], NgAlongArc("fw", s, a).st, x)
      /\ ConcatCost(To[a], NgAlongArc("fw", t, a).st, y) = NgConcatCost(To[a], NgAlongArc("fw", t, a).st, y)
  BY <1>1, <1>2
<1>4. Replaceable(NgState, NgAlongArc, NgDomCost, NgConcatCost, MinDomCost)
  BY <1>1, NgReplaces
<1> QED BY <1>3, <1>4 DEF Replaceable

\* Paths may be cut with the pack because they may with the ng-path resource.
LEMMA NgPackCuts ==
  ASSUME PackIsNg, 0 < Inf
  PROVE  PackCuts(NgIn, NgOut)
<1>1. /\ \A d \in Dir :
           /\ InitState(d) = NgInit(d)
           /\ \A t \in NgState : /\ \A a \in Arc : AlongArc(d, t, a) = NgAlongArc(d, t, a)
                                 /\ \A v \in Vertex : ToVertex(d, t, v) = NgToVertex(d, t, v)
      /\ \A v \in Vertex, t, u \in NgState : ConcatCost(v, t, u) = NgConcatCost(v, t, u)
  BY DEF PackIsNg, PackIs
<1>2. \A d \in Dir :
        /\ NgInit(d) \in NgState
        /\ \A t \in NgState : /\ \A a \in Arc : NgAlongArc(d, t, a).st \in NgState
                              /\ \A v \in Vertex : NgToVertex(d, t, v).st \in NgState
  BY NgPersists DEF Closed
<1>3. /\ "fw" \in Dir /\ "bw" \in Dir /\ Source \in Vertex /\ Sink \in Vertex
      /\ \A a \in Arc : From[a] \in Vertex /\ To[a] \in Vertex
      /\ \A v \in Vertex : \A a \in ArcsAt("fw", v) : a \in Arc
      /\ \A v \in Vertex : NgIn[v] \subseteq NgState /\ NgOut[v] \subseteq NgState
  BY ProblemAssumption DEF Dir, ArcsAt, NgIn, NgOut
<1>4. Cuttable(NgIn, NgOut, NgInit, NgAlongArc, NgToVertex, NgConcatCost)
  BY NgCuts
<1> DEFINE first == NgToVertex("fw", NgInit("fw"), Source)
           last == NgToVertex("bw", NgInit("bw"), Sink)
<1>5. /\ InitState("fw") = NgInit("fw") /\ ToVertex("fw", InitState("fw"), Source) = first
      /\ ToVertex("bw", InitState("bw"), Sink) = last /\ last.st \in NgState
  BY <1>1, <1>2, <1>3
<1>6. /\ InitState("fw") \in NgIn[Source] /\ first.cost \in Int /\ first.cost < Inf
      /\ last.st \in NgOut[Sink] /\ last.cost \in Int
  BY <1>4, <1>5 DEF Cuttable
<1>7. ASSUME NEW a \in Arc, NEW x \in NgOut[To[a]]
      PROVE  LET back == AlongArc("bw", x, a)
                 here == ToVertex("bw", back.st, From[a])
             IN /\ back.cost \in Int /\ here.cost \in Int
                /\ back.cost < Inf /\ here.cost < Inf => here.st \in NgOut[From[a]]
  <2> DEFINE back == NgAlongArc("bw", x, a)
             here == NgToVertex("bw", back.st, From[a])
  <2>1. back.cost \in Int /\ here.cost \in Int /\ (back.cost < Inf /\ here.cost < Inf => here.st \in NgOut[From[a]])
    BY <1>4 DEF Cuttable
  <2>2. AlongArc("bw", x, a) = back /\ back.st \in NgState
    BY <1>1, <1>2, <1>3
  <2>3. ToVertex("bw", back.st, From[a]) = here
    BY <1>1, <1>3, <2>2
  <2> HIDE DEF back, here
  <2> QED BY <2>1, <2>2, <2>3
<1>8. ASSUME NEW v \in Vertex, NEW s \in NgIn[v]
      PROVE  LET at == ToVertex("fw", s, v)
             IN /\ at.cost \in Int
                /\ at.cost < Inf =>
                     \A a \in ArcsAt("fw", v) :
                       LET along == AlongArc("fw", at.st, a)
                       IN /\ along.cost \in Int
                          /\ along.cost < Inf => along.st \in NgIn[To[a]]
                /\ v = Sink =>
                     LET c == ConcatCost(v, s, last.st)
                     IN /\ c < Inf <=> at.cost < Inf
                        /\ c < Inf => c \in Int /\ c + last.cost = at.cost
  <2> DEFINE at == NgToVertex("fw", s, v)
  <2>1. ToVertex("fw", s, v) = at /\ at.st \in NgState /\ at.cost \in Int
    BY <1>1, <1>2, <1>3, <1>4 DEF Cuttable
  <2>2. ASSUME at.cost < Inf, NEW a \in ArcsAt("fw", v)
        PROVE  LET along == AlongArc("fw", at.st, a)
               IN /\ along.cost \in Int
                  /\ along.cost < Inf => along.st \in NgIn[To[a]]
    <3>1. LET along == NgAlongArc("fw", at.st, a)
          IN /\ along.cost \in Int
             /\ along.cost < Inf => along.st \in NgIn[To[a]]
      BY <1>4, <2>2 DEF Cuttable
    <3>2. AlongArc("fw", at.st, a) = NgAlongArc("fw", at.st, a)
      BY <1>1, <1>3, <2>1
    <3> HIDE DEF at
    <3> QED BY <3>1, <3>2
  <2>3. ASSUME v = Sink
        PROVE  LET c == ConcatCost(v, s, last.st)
               IN /\ c < Inf <=> at.cost < Inf
                  /\ c < Inf => c \in Int /\ c + last.cost = at.cost
    <3>1. LET c == NgConcatCost(v, s, last.st)
          IN /\ c < Inf <=> at.cost < Inf
             /\ c < Inf => c \in Int /\ c + last.cost = at.cost
      BY <1>4, <2>3 DEF Cuttable
    <3>2. ConcatCost(v, s, last.st) = NgConcatCost(v, s, last.st)
      BY <1>1, <1>3, <1>5
    <3> HIDE DEF at, last
    <3> QED BY <3>1, <3>2
  <2> HIDE DEF at, last
  <2> QED BY <2>1, <2>2, <2>3
<1>9. ASSUME NEW v \in Vertex, NEW s \in NgIn[v], NEW a \in ArcsAt("fw", v), NEW x \in NgOut[To[a]]
      PROVE  LET at == ToVertex("fw", s, v)
                 along == AlongArc("fw", at.st, a)
                 back == AlongArc("bw", x, a)
                 here == ToVertex("bw", back.st, v)
                 c == ConcatCost(v, s, here.st)
                 d == ConcatCost(To[a], along.st, x)
             IN /\ back.cost < Inf /\ here.cost < Inf /\ c < Inf
                     <=> at.cost < Inf /\ along.cost < Inf /\ d < Inf
                /\ at.cost < Inf /\ along.cost < Inf /\ d < Inf =>
                     /\ c \in Int /\ d \in Int
                     /\ c + back.cost + here.cost = at.cost + along.cost + d
  <2> DEFINE at == NgToVertex("fw", s, v)
             along == NgAlongArc("fw", at.st, a)
             back == NgAlongArc("bw", x, a)
             here == NgToVertex("bw", back.st, v)
             c == NgConcatCost(v, s, here.st)
             d == NgConcatCost(To[a], along.st, x)
  <2>1. /\ back.cost < Inf /\ here.cost < Inf /\ c < Inf
             <=> at.cost < Inf /\ along.cost < Inf /\ d < Inf
        /\ at.cost < Inf /\ along.cost < Inf /\ d < Inf =>
             /\ c \in Int /\ d \in Int
             /\ c + back.cost + here.cost = at.cost + along.cost + d
    BY <1>4 DEF Cuttable
  <2>2. /\ a \in Arc /\ To[a] \in Vertex /\ s \in NgState /\ x \in NgState
        /\ at.st \in NgState /\ along.st \in NgState /\ back.st \in NgState /\ here.st \in NgState
    BY <1>2, <1>3
  <2>3. /\ ToVertex("fw", s, v) = at /\ AlongArc("fw", at.st, a) = along
        /\ AlongArc("bw", x, a) = back /\ ToVertex("bw", back.st, v) = here
    BY <1>1, <1>3, <2>2
  <2>4. ConcatCost(v, s, here.st) = c /\ ConcatCost(To[a], along.st, x) = d
    BY <1>1, <2>2
  <2> HIDE DEF at, along, back, here, c, d
  <2> QED BY <2>1, <2>3, <2>4
<1> HIDE DEF first, last
<1> QED BY <1>5, <1>6, <1>7, <1>8, <1>9 DEF PackCuts, Cuttable

\* No pack at all has nothing to replace and nothing to cut.
LEMMA NoneReplacesAndCuts ==
  ASSUME PackIsNone, 0 < Inf, MinDomCost <= 0
  PROVE  PackReplaceable /\ PackCuts(Anywhere(NoState), Anywhere(NoState))
<1>1. /\ PackState = {"none"} /\ "fw" \in Dir /\ "bw" \in Dir /\ Inf \in Nat /\ MinDomCost \in Int
      /\ Source \in Vertex /\ Sink \in Vertex
      /\ \A a \in Arc : From[a] \in Vertex /\ To[a] \in Vertex
      /\ \A v \in Vertex : ArcsAt("fw", v) \subseteq Arc
      /\ \A v \in Vertex : Anywhere(NoState)[v] = {"none"}
  BY ProblemAssumption, PackAssumption DEF PackIsNone, PackIs, NoState, Dir, ArcsAt, Anywhere
<1>2. /\ \A d \in Dir :
           /\ InitState(d) = "none"
           /\ \A a \in Arc : AlongArc(d, "none", a) = [st |-> "none", cost |-> 0]
           /\ \A v \in Vertex : /\ ToVertex(d, "none", v) = [st |-> "none", cost |-> 0]
                                /\ DomCost(d, v, "none", "none") = 0
      /\ \A v \in Vertex : ConcatCost(v, "none", "none") = 0
  BY <1>1 DEF PackIsNone, PackIs, NoState, NoInit, NoAlongArc, NoToVertex, NoDomCost, NoConcatCost
<1>3. PackReplaceable
  BY <1>1, <1>2 DEF PackReplaceable, Replaceable
<1>4. PackCuts(Anywhere(NoState), Anywhere(NoState))
  BY <1>1, <1>2 DEF PackCuts, Cuttable
<1> QED BY <1>3, <1>4

\* Neither charges anything for meeting, or else forbids it.
LEMMA LibraryPacksPayNothingBack ==
  ASSUME PackIsNg \/ PackIsNone, 0 < Inf
  PROVE  NothingPaidBack
<1>1. CASE PackIsNg
  <2>1. PackState = NgState
        /\ \A v \in Vertex : \A s, t \in NgState : ConcatCost(v, s, t) = NgConcatCost(v, s, t)
    BY <1>1 DEF PackIsNg, PackIs
  <2>2. \A v \in Vertex : \A s, t \in NgState : NgConcatCost(v, s, t) >= 0
    BY ProblemAssumption DEF NgConcatCost
  <2> QED BY <2>1, <2>2 DEF NothingPaidBack
<1>2. CASE PackIsNone
  <2>1. PackState = NoState
        /\ \A v \in Vertex : \A s, t \in NoState : ConcatCost(v, s, t) = NoConcatCost(v, s, t)
    BY <1>2 DEF PackIsNone, PackIs
  <2> QED BY <2>1 DEF NothingPaidBack, NoConcatCost
<1> QED BY <1>1, <1>2

\* With these packs nothing is left to suppose of the pack.
THEOREM LibraryPacksAreSolvedInEveryMode ==
  ASSUME PackIsNg \/ PackIsNone, MinDomCost <= 0, EmptyPack = FALSE,
         "par" \in Modes => BoundsReach,
         NothingIsGivenBack, SourceBeforeMid, EndsAreEnds
  PROVE  Spec /\ []Uncapped => []BidirFindsOptimum
<1>1. PackLawful /\ 0 < Inf
  <2>1. PackLawful /\ PackMeansAllowed
    BY LibraryPacksQualify
  <2>2. ToVertex("fw", InitState("fw"), Source).cost = 0
    BY <2>1 DEF PackMeansAllowed
  <2>3. ToVertex("fw", InitState("fw"), Origin("fw")).cost < Inf /\ Origin("fw") = Source
    BY PackAssumption DEF Dir, Origin
  <2>4. 0 < Inf
    BY <2>2, <2>3
  <2> QED BY <2>1, <2>4
<1>2. PruningAllowed
  BY <1>1, LibraryPacksPayNothingBack DEF PruningAllowed
<1>3. CASE PackIsNg
  BY <1>1, <1>2, <1>3, NgPackReplaces, NgPackCuts, EveryModeFindsOptimum
<1>4. CASE PackIsNone
  BY <1>1, <1>2, <1>4, NoneReplacesAndCuts, EveryModeFindsOptimum
<1> QED BY <1>3, <1>4
=============================================================================
