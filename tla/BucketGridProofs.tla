-------------------------- MODULE BucketGridProofs --------------------------
(***************************************************************************)
(* Proofs about the bucket graph, for every problem instance and all bucket *)
(* widths: labels never leave the grid, a child falls into a bucket at or   *)
(* behind the one its bucket arc leads to, and the breadth-first search      *)
(* finds everything that can be reached, whence no component can get a label *)
(* from one that comes after it.                                            *)
(*                                                                         *)
(* Induction and recursion come first, as facts about sets and functions:   *)
(* the library's theorems speak of operators, which the provers cannot      *)
(* instantiate.  An induction is the claim that a set of natural numbers is *)
(* all of them, and a recursive definition is justified by a function from  *)
(* numbers to the functions that make the steps.                           *)
(***************************************************************************)
EXTENDS BucketGrid, FiniteSetTheorems, WellFoundedInduction, TLAPS

-----------------------------------------------------------------------------
\* A nonempty set of natural numbers has a least element.
LEMMA LeastNatural ==
  ASSUME NEW S \in SUBSET Nat, S # {}
  PROVE  \E n \in S : \A m \in S : n <= m
<1> DEFINE R == {p \in Nat \X Nat : p[1] < p[2]}
<1>1. IsWellFoundedOn(R, Nat)
  BY NatLessThanWellFounded DEF OpToRel
<1>2. \A m, n \in Nat : m < n => <<m, n>> \in R
  OBVIOUS
<1> HIDE DEF R
<1>3. PICK n \in S : \A m \in S : ~(<<m, n>> \in R)
  BY <1>1, WFMin
<1>4. \A m \in S : ~(m < n)
  BY <1>2, <1>3
<1> QED BY <1>4

\* A set of natural numbers that holds 0 and every successor holds them all.
LEMMA InductOnNat ==
  ASSUME NEW S \in SUBSET Nat, 0 \in S, \A n \in S : n + 1 \in S
  PROVE  S = Nat
<1> SUFFICES ASSUME Nat \ S # {} PROVE FALSE
  OBVIOUS
<1>1. PICK n \in Nat \ S : \A m \in Nat \ S : n <= m
  BY LeastNatural
<1>2. n - 1 \in S
  BY <1>1
<1> QED BY <1>1, <1>2

\* A function may be defined by what it is at 0 and by how each of its values is
\* made from the one before.
LEMMA RecursionOnNat ==
  ASSUME NEW S, NEW s0 \in S, NEW F \in [Nat -> [S -> S]]
  PROVE  \E f \in [Nat -> S] : \A n \in Nat : f[n] = IF n = 0 THEN s0 ELSE F[n][f[n - 1]]
<1> DEFINE Begins(n) == {g \in [0..n -> S] : /\ g[0] = s0
                                             /\ \A i \in 1..n : g[i] = F[i][g[i - 1]]}
<1>1. \A n \in Nat : Begins(n) # {}
  <2> DEFINE N == {n \in Nat : Begins(n) # {}}
  <2>1. [i \in 0..0 |-> s0] \in Begins(0)
    OBVIOUS
  <2>2. ASSUME NEW n \in N PROVE n + 1 \in N
    <3>1. PICK g \in [0..n -> S] : g[0] = s0 /\ \A i \in 1..n : g[i] = F[i][g[i - 1]]
      BY <2>2
    <3> DEFINE h == [i \in 0..n + 1 |-> IF i <= n THEN g[i] ELSE F[n + 1][g[n]]]
    <3>2. h \in [0..n + 1 -> S]
      BY <3>1
    <3>3. h[0] = s0 /\ \A i \in 1..n + 1 : h[i] = F[i][h[i - 1]]
      BY <3>1
    <3> HIDE DEF h
    <3>4. h \in Begins(n + 1) /\ n + 1 \in Nat
      BY <3>2, <3>3
    <3> QED BY <3>4
  <2> HIDE DEF N
  <2>3. N = Nat
    <3>1. 0 \in N /\ N \subseteq Nat
      BY <2>1 DEF N
    <3> QED BY <2>2, <3>1, InductOnNat
  <2> QED BY <2>3 DEF N
<1>2. \A i \in Nat : \A m, n \in Nat : i <= m /\ i <= n =>
         \A g \in Begins(m), h \in Begins(n) : g[i] = h[i]
  <2> DEFINE Same == {i \in Nat : \A m, n \in Nat : i <= m /\ i <= n =>
                        \A g \in Begins(m), h \in Begins(n) : g[i] = h[i]}
  <2>1. 0 \in Same
    OBVIOUS
  <2>2. ASSUME NEW i \in Same PROVE i + 1 \in Same
    <3> SUFFICES ASSUME NEW m \in Nat, NEW n \in Nat, i + 1 <= m, i + 1 <= n,
                        NEW g \in Begins(m), NEW h \in Begins(n)
                 PROVE  g[i + 1] = h[i + 1]
      OBVIOUS
    <3>1. g[i] = h[i]
      <4>1. \A j, k \in Nat : i <= j /\ i <= k =>
              \A x \in Begins(j), y \in Begins(k) : x[i] = y[i]
        BY <2>2
      <4>2. i <= m /\ i <= n
        OBVIOUS
      <4> HIDE DEF Begins
      <4> QED BY <4>1, <4>2
    <3>2. g[i + 1] = F[i + 1][g[i]] /\ h[i + 1] = F[i + 1][h[i]]
      <4>1. i + 1 \in 1..m /\ i + 1 \in 1..n /\ (i + 1) - 1 = i
        OBVIOUS
      <4>2. /\ \A j \in 1..m : g[j] = F[j][g[j - 1]]
            /\ \A j \in 1..n : h[j] = F[j][h[j - 1]]
        OBVIOUS
      <4> QED BY <4>1, <4>2
    <3> QED BY <3>1, <3>2
  <2> HIDE DEF Same
  <2>3. Same = Nat
    <3>1. Same \subseteq Nat
      BY DEF Same
    <3> QED BY <2>1, <2>2, <3>1, InductOnNat
  <2> QED BY <2>3 DEF Same
<1> DEFINE At(n) == CHOOSE g \in Begins(n) : TRUE
           f == [n \in Nat |-> At(n)[n]]
<1>3. \A n \in Nat : At(n) \in Begins(n)
  BY <1>1
<1> HIDE DEF At
<1>4. ASSUME NEW n \in Nat
      PROVE  At(n)[n] \in S /\ At(n)[n] = IF n = 0 THEN s0 ELSE F[n][At(n - 1)[n - 1]]
  <2>1. At(n) \in Begins(n) /\ n \in 0..n
    BY <1>3
  <2>2. CASE n = 0
    BY <2>1, <2>2
  <2>3. CASE n # 0
    <3>1. n - 1 \in Nat /\ n \in 1..n /\ n - 1 <= n
      BY <2>3
    <3>2. At(n - 1) \in Begins(n - 1)
      BY <1>3, <3>1
    <3> HIDE DEF Begins
    <3>3. At(n)[n - 1] = At(n - 1)[n - 1]
      BY <1>2, <2>1, <3>1, <3>2
    <3> USE DEF Begins
    <3> QED BY <2>1, <2>3, <3>1, <3>3
  <2> QED BY <2>2, <2>3
<1>5. f \in [Nat -> S]
  BY <1>4
<1>6. \A n \in Nat : f[n] = IF n = 0 THEN s0 ELSE F[n][f[n - 1]]
  BY <1>4
<1> HIDE DEF f
<1> QED BY <1>5, <1>6

\* The same as a property of the set of values, which can be taken for any set.
Recursive(S) ==
  \A s0 \in S : \A F \in [Nat -> [S -> S]] :
    \E f \in [Nat -> S] : \A n \in Nat : f[n] = IF n = 0 THEN s0 ELSE F[n][f[n - 1]]

\* Every set of values admits recursion over the natural numbers.
LEMMA RecursionIn ==
  ASSUME NEW S
  PROVE  Recursive(S)
BY RecursionOnNat DEF Recursive

\* Two functions that begin alike and make the same steps up to m are equal there.
SameUpto(m) ==
  \A g, h : g[0] = h[0] /\ (\A i \in 1..m : g[i - 1] = h[i - 1] => g[i] = h[i])
             => \A i \in 0..m : g[i] = h[i]

\* The first value and the steps decide a recursively defined function.
LEMMA StepsDecide ==
  ASSUME NEW m \in Nat
  PROVE  SameUpto(m)
<1> SUFFICES ASSUME NEW g, NEW h, g[0] = h[0],
                    \A i \in 1..m : g[i - 1] = h[i - 1] => g[i] = h[i]
             PROVE  \A i \in 0..m : g[i] = h[i]
  BY DEF SameUpto
<1> DEFINE N == {n \in Nat : n <= m => g[n] = h[n]}
<1>1. 0 \in N
  OBVIOUS
<1>2. ASSUME NEW n \in N PROVE n + 1 \in N
  <2>1. n \in Nat /\ (n + 1 <= m => n + 1 \in 1..m /\ n <= m) /\ (n + 1) - 1 = n
    BY <1>2
  <2> QED BY <2>1
<1> HIDE DEF N
<1>3. N = Nat
  <2>1. N \in SUBSET Nat
    BY DEF N
  <2> QED BY <1>1, <1>2, <2>1, InductOnNat
<1> QED BY <1>3 DEF N

\* A nonempty finite set of integers has a least element.
LEMMA FiniteHasLeast ==
  ASSUME NEW S \in SUBSET Int, IsFiniteSet(S), S # {}
  PROVE  \E x \in S : \A y \in S : x <= y
<1> DEFINE HasLeast(T) == \E x \in T : \A y \in T : x <= y
           N == {n \in Nat : \A T \in SUBSET Int :
                   IsFiniteSet(T) /\ Cardinality(T) = n /\ T # {} => HasLeast(T)}
<1>1. 0 \in N
  BY FS_EmptySet
<1>2. ASSUME NEW n \in N PROVE n + 1 \in N
  <2> SUFFICES ASSUME NEW T \in SUBSET Int, IsFiniteSet(T), Cardinality(T) = n + 1, T # {}
               PROVE  HasLeast(T)
    OBVIOUS
  <2>1. PICK x \in T : TRUE
    OBVIOUS
  <2>2. IsFiniteSet(T \ {x}) /\ Cardinality(T \ {x}) = n
    <3>1. Cardinality(T \ {x}) = Cardinality(T) - 1 /\ IsFiniteSet(T \ {x})
      BY <2>1, FS_RemoveElement
    <3> QED BY <3>1
  <2>3. CASE T \ {x} = {}
    BY <2>1, <2>3
  <2>4. CASE T \ {x} # {}
    <3>1. HasLeast(T \ {x})
      BY <2>2, <2>4
    <3>2. PICK y \in T \ {x} : \A z \in T \ {x} : y <= z
      BY <3>1
    <3>3. CASE x <= y
      <4>1. \A z \in T : x <= z
        BY <3>2, <3>3
      <4> QED BY <2>1, <4>1
    <3>4. CASE ~(x <= y)
      <4>1. \A z \in T : y <= z
        BY <3>2, <3>4
      <4> QED BY <3>2, <4>1
    <3> QED BY <3>3, <3>4
  <2> QED BY <2>3, <2>4
<1> HIDE DEF N
<1>3. N = Nat
  <2>1. N \subseteq Nat
    BY DEF N
  <2> QED BY <1>1, <1>2, <2>1, InductOnNat
<1>4. Cardinality(S) \in N
  BY <1>3, FS_CardinalityType
<1> QED BY <1>4 DEF N

\* The image of a finite set is finite.
LEMMA ImageFinite ==
  ASSUME NEW S, NEW T, IsFiniteSet(S), NEW f \in [S -> T], \A t \in T : \E s \in S : f[s] = t
  PROVE  IsFiniteSet(T)
<1>1. f \in Surjection(S, T)
  BY DEF Surjection
<1> QED BY <1>1, FS_Surjection

-----------------------------------------------------------------------------
\* The helpers on numbers stay within the integers.
LEMMA LargerSmallerType ==
  ASSUME NEW m \in Int, NEW n \in Int
  PROVE  Larger(m, n) \in Int /\ Smaller(m, n) \in Int
BY DEF Larger, Smaller

\* The least element of a set of integers is an integer, Inf included.
LEMMA LeastType ==
  ASSUME NEW S \in SUBSET Int
  PROVE  Least(S) \in Int
<1>1. CASE \E x \in S : \A y \in S : x <= y
  <2>1. (CHOOSE x \in S : \A y \in S : x <= y) \in S
    BY <1>1
  <2> QED BY <1>1, <2>1 DEF Least
<1>2. CASE ~ \E x \in S : \A y \in S : x <= y
  <2>1. Inf \in Int
    BY ProblemAssumption
  <2> QED BY <1>2, <2>1 DEF Least
<1> QED BY <1>1, <1>2

\* The main resources are 1 and NMain.
LEMMA ResType == /\ Res \subseteq Int /\ 1 \in Res /\ NMain \in Res
                 /\ \A r \in Res : r = 1 \/ r = NMain
BY ProblemAssumption DEF Res

\* The end points of an arc are two different vertices, in either direction.
LEMMA AheadType ==
  ASSUME NEW d \in Dir, NEW a \in Arc
  PROVE  /\ Ahead(d, a) \in Vertex /\ Behind(d, a) \in Vertex
         /\ Ahead(d, a) # Behind(d, a)
BY ProblemAssumption DEF Ahead, Behind

\* The tables of the problem hold integers.
LEMMA TableType ==
  /\ \A v \in Vertex, r \in Res : /\ Lb[v][r] \in Int /\ Ub[v][r] \in Int
                                   /\ Step[v][r] \in Int
  /\ \A a \in Arc, r \in Res : Use[a][r] \in Int
  /\ \A a \in Arc : From[a] \in Vertex /\ To[a] \in Vertex /\ BaseCost[a] \in Int
<1>1. /\ Lb \in [Vertex -> [Res -> Int]] /\ Ub \in [Vertex -> [Res -> Int]]
      /\ Step \in [Vertex -> [Res -> Nat \ {0}]] /\ Use \in [Arc -> [Res -> Int]]
  BY ProblemAssumption, StepAssumption
<1>2. ASSUME NEW v \in Vertex, NEW r \in Res
      PROVE  Lb[v][r] \in Int /\ Ub[v][r] \in Int /\ Step[v][r] \in Int
  <2>1. /\ Lb[v] \in [Res -> Int] /\ Ub[v] \in [Res -> Int]
        /\ Step[v] \in [Res -> Nat \ {0}]
    BY <1>1
  <2> QED BY <2>1
<1>3. ASSUME NEW a \in Arc, NEW r \in Res
      PROVE  Use[a][r] \in Int
  <2>1. Use[a] \in [Res -> Int]
    BY <1>1
  <2> QED BY <2>1
<1>4. \A a \in Arc : From[a] \in Vertex /\ To[a] \in Vertex /\ BaseCost[a] \in Int
  BY ProblemAssumption
<1> QED BY <1>2, <1>3, <1>4

\* Buckets and their corners.
LEMMA BucketType ==
  ASSUME NEW b \in Bucket
  PROVE  b[1] \in Vertex /\ b[2] \in [Res -> Int]
<1>1. PICK v \in Vertex : b \in BucketsAt(v)
  BY DEF Bucket
<1>2. PICK k \in Grid(v) : b = <<v, k>>
  BY <1>1 DEF BucketsAt
<1>3. k \in [Res -> Int]
  BY <1>2 DEF Grid
<1> QED BY <1>1, <1>2, <1>3

\* The corners of a bucket are vectors of integers.
LEMMA CornerType ==
  ASSUME NEW b \in Bucket
  PROVE  BucketLb(b) \in [Res -> Int] /\ BucketUb(b) \in [Res -> Int]
<1>1. b[1] \in Vertex /\ b[2] \in [Res -> Int]
  BY BucketType
<1>2. \A r \in Res : /\ Lb[b[1]][r] \in Int /\ Ub[b[1]][r] \in Int
                     /\ Step[b[1]][r] \in Int
  BY <1>1, TableType
<1>3. \A r \in Res : Lb[b[1]][r] + b[2][r] * Step[b[1]][r] \in Int
  BY <1>1, <1>2
<1>4. BucketLb(b) \in [Res -> Int]
  BY <1>3 DEF BucketLb
<1> QED BY <1>2, <1>4 DEF BucketUb, Smaller

\* build() gives a bucket only arcs that leave from the bucket's own vertex.
LEMMA BuiltArcsType ==
  /\ BuiltArcs \in [Dir -> [Bucket -> SUBSET Arc]]
  /\ \A d \in Dir, b \in Bucket : BuiltArcs[d][b] \subseteq ArcsAt(d, b[1])
BY DEF BuiltArcs, ArcsAt

-----------------------------------------------------------------------------
\* Resource propagation: its type, and that it is monotone, so that a label
\* raised to a jump bucket has no more left than the arc alone would leave.
LEMMA AdvanceType ==
  ASSUME NEW d \in Dir, NEW q \in [Res -> Int], NEW a \in Arc
  PROVE  Advance(d, q, a) \in [Res -> Int]
BY TableType DEF Advance, Larger, Smaller

\* Who has no less left before an arc has no less left after it.
LEMMA AdvanceMonotone ==
  ASSUME NEW d \in Dir, NEW p \in [Res -> Int], NEW q \in [Res -> Int], NEW a \in Arc,
         AtLeastAsGood(d, p, q)
  PROVE  AtLeastAsGood(d, Advance(d, p, a), Advance(d, q, a))
BY TableType DEF Advance, AtLeastAsGood, Larger, Smaller
-----------------------------------------------------------------------------
\* A vertex has at least one bucket in each resource.
LEMMA NBucketsType ==
  ASSUME NEW v \in Vertex, NEW r \in Res
  PROVE  NBuckets(v, r) \in Nat \ {0}
<1>1. Lb[v][r] \in Int /\ Ub[v][r] \in Int /\ Step[v][r] \in Nat \ {0}
  <2>1. Step[v] \in [Res -> Nat \ {0}]
    BY StepAssumption
  <2> QED BY <2>1, TableType
<1>2. (Ub[v][r] - Lb[v][r] + Step[v][r] - 1) \div Step[v][r] \in Int
  BY <1>1
<1> QED BY <1>2 DEF NBuckets, Larger

\* A vertex has finitely many buckets.
LEMMA GridFinite ==
  ASSUME NEW v \in Vertex
  PROVE  IsFiniteSet(Grid(v))
<1> DEFINE K == Larger(NBuckets(v, 1), NBuckets(v, NMain)) - 1
           P == (0..K) \X (0..K)
           All == [Res -> 0..K]
           f == [p \in P |-> [r \in Res |-> IF r = 1 THEN p[1] ELSE p[2]]]
<1>1. K \in Int
  BY NBucketsType, ResType DEF Larger
<1> HIDE DEF K
<1>2. IsFiniteSet(P)
  <2>1. IsFiniteSet(0..K)
    BY <1>1, FS_Interval
  <2> QED BY <2>1, FS_Product
<1>3. f \in [P -> All]
  OBVIOUS
<1>4. ASSUME NEW k \in All
      PROVE  \E p \in P : f[p] = k
  <2> DEFINE p == <<k[1], k[NMain]>>
  <2>1. p \in P /\ p[1] = k[1] /\ p[2] = k[NMain]
    BY ResType
  <2>2. f[p] = [r \in Res |-> IF r = 1 THEN k[1] ELSE k[NMain]]
    BY <2>1
  <2>3. [r \in Res |-> IF r = 1 THEN k[1] ELSE k[NMain]] = k
    BY ResType
  <2> QED BY <2>1, <2>2, <2>3
<1> HIDE DEF f
<1>5. IsFiniteSet(All)
  BY <1>2, <1>3, <1>4, ImageFinite
<1>6. Grid(v) \in SUBSET All
  BY DEF Grid, K
<1> QED BY <1>5, <1>6, FS_Subset

\* There are finitely many buckets.
LEMMA BucketsFinite == IsFiniteSet(Bucket)
<1>1. ASSUME NEW v \in Vertex
      PROVE  IsFiniteSet(BucketsAt(v))
  <2> DEFINE f == [k \in Grid(v) |-> <<v, k>>]
  <2>1. f \in [Grid(v) -> BucketsAt(v)] /\ \A b \in BucketsAt(v) : \E k \in Grid(v) : f[k] = b
    BY DEF BucketsAt
  <2> HIDE DEF f
  <2> QED BY <2>1, GridFinite, ImageFinite
<1> DEFINE All == {BucketsAt(v) : v \in Vertex}
           g == [v \in Vertex |-> BucketsAt(v)]
<1>2. IsFiniteSet(All)
  <2>1. g \in [Vertex -> All] /\ \A b \in All : \E v \in Vertex : g[v] = b
    OBVIOUS
  <2>2. IsFiniteSet(Vertex)
    BY ProblemAssumption
  <2> HIDE DEF g, All
  <2> QED BY <2>1, <2>2, ImageFinite
<1>3. \A B \in All : IsFiniteSet(B)
  BY <1>1
<1> HIDE DEF All
<1>4. IsFiniteSet(UNION All)
  BY <1>2, <1>3, FS_UNION
<1> QED BY <1>4 DEF Bucket, All

-----------------------------------------------------------------------------
\* No label leaves the grid: below the windows and above them the outermost
\* buckets take what there is.
LEMMA BucketOfType ==
  ASSUME NEW v \in Vertex, NEW q \in [Res -> Int]
  PROVE  /\ BucketOf(v, q) \in Bucket /\ BucketOf(v, q) \in BucketsAt(v)
         /\ BucketOf(v, q)[1] = v
<1> DEFINE k == [r \in Res |-> Larger(0, Smaller((q[r] - Lb[v][r]) \div Step[v][r],
                                                 NBuckets(v, r) - 1))]
<1>1. ASSUME NEW r \in Res
      PROVE  k[r] \in Nat /\ k[r] < NBuckets(v, r)
  <2>1. (q[r] - Lb[v][r]) \div Step[v][r] \in Int
    <3>1. Step[v] \in [Res -> Nat \ {0}]
      BY StepAssumption
    <3> QED BY <3>1, TableType
  <2> QED BY <2>1, NBucketsType DEF Larger, Smaller
<1>2. BucketOf(v, q) = <<v, k>>
  BY DEF BucketOf
<1>3. k \in Grid(v)
  <2>1. ASSUME NEW r \in Res
        PROVE  k[r] \in 0..Larger(NBuckets(v, 1), NBuckets(v, NMain)) - 1
    <3>1. NBuckets(v, 1) \in Int /\ NBuckets(v, NMain) \in Int
      BY NBucketsType, ResType
    <3>2. r = 1 \/ r = NMain
      BY ResType
    <3> HIDE DEF k
    <3> QED BY <1>1, <3>1, <3>2 DEF Larger
  <2> QED BY <1>1, <2>1 DEF Grid
<1> HIDE DEF k
<1>4. BucketOf(v, q) \in BucketsAt(v)
  BY <1>2, <1>3 DEF BucketsAt
<1> QED BY <1>2, <1>4 DEF Bucket

\* Division by a bucket's width keeps the order.
LEMMA DivMonotone ==
  ASSUME NEW x \in Int, NEW y \in Int, NEW s \in Nat \ {0}, x <= y
  PROVE  x \div s \in Int /\ y \div s \in Int /\ x \div s <= y \div s
<1>1. x \div s \in Int /\ y \div s \in Int
  OBVIOUS
<1>2. s * (x \div s) <= x /\ y < s * (y \div s) + s
  OBVIOUS
<1>3. ASSUME NEW i \in Int, NEW j \in Int, s * i <= x, y < s * j + s
      PROVE  i <= j
  <2>1. s * i < s * j + s
    BY <1>3
  <2>2. SUFFICES ASSUME j + 1 <= i PROVE FALSE
    OBVIOUS
  <2>3. s * (j + 1) <= s * i
    BY <2>2
  <2> QED BY <2>1, <2>3
<1> QED BY <1>1, <1>2, <1>3

\* A label with no less left falls into a bucket at or before that of the other.
LEMMA BucketOfMonotone ==
  ASSUME NEW d \in Dir, NEW v \in Vertex, NEW p \in [Res -> Int], NEW q \in [Res -> Int],
         AtLeastAsGood(d, p, q)
  PROVE  UpTo(d, BucketOf(v, p), BucketOf(v, q))
<1>1. ASSUME NEW r \in Res, NEW x \in Int, NEW y \in Int, x <= y
      PROVE  Larger(0, Smaller((x - Lb[v][r]) \div Step[v][r], NBuckets(v, r) - 1))
               <= Larger(0, Smaller((y - Lb[v][r]) \div Step[v][r], NBuckets(v, r) - 1))
  <2>1. Lb[v][r] \in Int /\ Step[v][r] \in Nat \ {0} /\ NBuckets(v, r) \in Int
    <3>1. Step[v] \in [Res -> Nat \ {0}]
      BY StepAssumption
    <3> QED BY <3>1, TableType, NBucketsType
  <2>2. x - Lb[v][r] \in Int /\ y - Lb[v][r] \in Int /\ x - Lb[v][r] <= y - Lb[v][r]
    BY <1>1, <2>1
  <2>3. /\ (x - Lb[v][r]) \div Step[v][r] \in Int /\ (y - Lb[v][r]) \div Step[v][r] \in Int
        /\ (x - Lb[v][r]) \div Step[v][r] <= (y - Lb[v][r]) \div Step[v][r]
    BY <2>1, <2>2, DivMonotone
  <2> QED BY <2>1, <2>3 DEF Larger, Smaller
<1>2. ASSUME NEW r \in Res
      PROVE  IF d = "fw" THEN p[r] <= q[r] ELSE q[r] <= p[r]
  BY DEF AtLeastAsGood
<1>3. \A r \in Res : p[r] \in Int /\ q[r] \in Int
  OBVIOUS
<1>4. ASSUME NEW r \in Res
      PROVE  IF d = "fw" THEN BucketOf(v, p)[2][r] <= BucketOf(v, q)[2][r]
                         ELSE BucketOf(v, p)[2][r] >= BucketOf(v, q)[2][r]
  <2>1. BucketOf(v, p)[2][r] = Larger(0, Smaller((p[r] - Lb[v][r]) \div Step[v][r], NBuckets(v, r) - 1))
    BY DEF BucketOf
  <2>2. BucketOf(v, q)[2][r] = Larger(0, Smaller((q[r] - Lb[v][r]) \div Step[v][r], NBuckets(v, r) - 1))
    BY DEF BucketOf
  <2>3. CASE d = "fw"
    <3>1. BucketOf(v, p)[2][r] <= BucketOf(v, q)[2][r]
      BY <1>1, <1>2, <1>3, <2>1, <2>2, <2>3
    <3> QED BY <2>3, <3>1
  <2>4. CASE d # "fw"
    <3>1. BucketOf(v, q)[2][r] <= BucketOf(v, p)[2][r]
      BY <1>1, <1>2, <1>3, <2>1, <2>2, <2>4
    <3>2. BucketOf(v, q)[2][r] \in Int /\ BucketOf(v, p)[2][r] \in Int
      BY BucketOfType, BucketType
    <3> QED BY <2>4, <3>1, <3>2
  <2> QED BY <2>3, <2>4
<1>5. BucketOf(v, p)[1] = BucketOf(v, q)[1]
  BY DEF BucketOf
<1> QED BY <1>4, <1>5 DEF UpTo

\* A label within its window is inside its bucket as seen from the bucket's best
\* corner: the corner has no less left.
LEMMA CornerIsBest ==
  ASSUME NEW d \in Dir, NEW v \in Vertex, NEW q \in [Res -> Int],
         \A r \in Res : IF d = "fw" THEN q[r] >= Lb[v][r] ELSE q[r] <= Ub[v][r]
  PROVE  AtLeastAsGood(d, Corner(d, BucketOf(v, q)), q)
<1> DEFINE b == BucketOf(v, q)
           range(r) == Ub[v][r] - Lb[v][r] + Step[v][r] - 1
<1>1. b[1] = v /\ b \in Bucket
  BY BucketOfType
<1>2. SUFFICES ASSUME NEW r \in Res
               PROVE  IF d = "fw" THEN Corner(d, b)[r] <= q[r] ELSE Corner(d, b)[r] >= q[r]
  BY DEF AtLeastAsGood
<1>3. /\ Lb[v][r] \in Int /\ Ub[v][r] \in Int /\ Step[v][r] \in Nat \ {0}
      /\ q[r] \in Int /\ Lb[v][r] <= Ub[v][r]
  <2>1. Step[v] \in [Res -> Nat \ {0}] /\ \A u \in Vertex, s \in Res : Lb[u][s] <= Ub[u][s]
    BY StepAssumption, ProblemAssumption
  <2> QED BY <2>1, TableType
<1> DEFINE s == Step[v][r]
           x == q[r] - Lb[v][r]
           n == NBuckets(v, r)
           k == Larger(0, Smaller(x \div s, n - 1))
<1>4. /\ x \in Int /\ s \in Nat \ {0} /\ x \div s \in Int /\ n \in Nat \ {0}
      /\ range(r) \in Int /\ range(r) \div s \in Int
  BY <1>3, NBucketsType
<1>5. s * (x \div s) <= x /\ x < s * (x \div s) + s
  BY <1>4
<1>6. n = Larger(1, range(r) \div s) /\ range(r) < s * (range(r) \div s) + s
  BY <1>4 DEF NBuckets
<1>7. b[2][r] = k /\ BucketLb(b)[r] = Lb[v][r] + k * s
  BY <1>1 DEF BucketOf, BucketLb
<1>8. BucketUb(b)[r] = Smaller(Lb[v][r] + k * s + s, Ub[v][r])
  BY <1>1, <1>7 DEF BucketUb
<1> HIDE DEF b
<1>9. CASE d = "fw"
  <2>1. x \in Nat /\ Corner(d, b)[r] = Lb[v][r] + k * s
    BY <1>2, <1>3, <1>7, <1>9 DEF Corner
  <2> HIDE DEF s, x, n
  <2>2. k \in Nat /\ (k = 0 \/ k <= x \div s)
    BY <1>4 DEF Larger, Smaller
  <2> HIDE DEF k
  <2>3. k * s <= x
    <3>1. CASE k = 0
      BY <1>4, <2>1, <3>1
    <3>2. CASE k <= x \div s
      <4>1. k * s <= s * (x \div s)
        BY <1>4, <2>2, <3>2
      <4> QED BY <1>4, <1>5, <2>2, <4>1
    <3> QED BY <2>2, <3>1, <3>2
  <2>4. k * s \in Int
    BY <1>4, <2>2
  <2> USE DEF x
  <2> QED BY <1>3, <1>9, <2>1, <2>3, <2>4
<1>10. CASE d # "fw"
  <2>1. q[r] <= Ub[v][r] /\ Corner(d, b)[r] = Smaller(Lb[v][r] + k * s + s, Ub[v][r])
    BY <1>2, <1>8, <1>10 DEF Corner
  <2>2. k \in Nat /\ (k >= x \div s \/ k = n - 1)
    BY <1>4 DEF Larger, Smaller
  <2>3. x <= k * s + s
    <3> HIDE DEF s, n, k, x
    <3>1. CASE k >= x \div s
      <4>1. s * (x \div s) <= k * s
        BY <1>4, <2>2, <3>1
      <4> QED BY <1>4, <1>5, <2>2, <4>1
    <3>2. CASE k = n - 1
      <4>1. k + 1 >= range(r) \div s
        BY <1>4, <1>6, <2>2, <3>2 DEF Larger
      <4>2. s * (range(r) \div s) <= s * (k + 1)
        BY <1>4, <2>2, <4>1
      <4>3. s * (k + 1) = k * s + s /\ k * s \in Int
        BY <1>4, <2>2
      <4>4. range(r) - s < k * s + s
        <5> HIDE DEF range
        <5>1. s * (range(r) \div s) \in Int
          BY <1>4
        <5> QED BY <1>4, <1>6, <4>2, <4>3, <5>1
      <4>5. x <= range(r) - s + 1
        BY <1>3, <2>1 DEF x, s
      <4> QED BY <1>4, <4>3, <4>4, <4>5
    <3> QED BY <2>2, <3>1, <3>2
  <2>4. k * s \in Int
    <3> HIDE DEF k, s
    <3> QED BY <1>4, <2>2
  <2> HIDE DEF k, s
  <2> QED BY <1>3, <1>4, <1>10, <2>1, <2>3, <2>4 DEF Smaller
<1> QED BY <1>9, <1>10

\* The bucket arcs lead into the grid.
LEMMA TargetType ==
  ASSUME NEW d \in Dir, NEW b \in Bucket, NEW a \in BuiltArcs[d][b]
  PROVE  Target[d][b][a] \in Bucket
<1>1. a \in Arc
  BY BuiltArcsType DEF ArcsAt
<1>2. Corner(d, b) \in [Res -> Int]
  BY CornerType DEF Corner
<1>3. BucketOf(Ahead(d, a), Advance(d, Corner(d, b), a)) \in Bucket
  BY <1>1, <1>2, AheadType, AdvanceType, BucketOfType
<1> QED BY <1>3 DEF Target

\* The edges of the bucket graph lead to buckets.
LEMMA SuccessorsType ==
  Successors \in [Dir -> [Bucket -> SUBSET Bucket]]
<1>1. ASSUME NEW d \in Dir, NEW b \in Bucket
      PROVE  {Target[d][b][a] : a \in BuiltArcs[d][b]}
               \cup {c \in BucketsAt(b[1]) : Adjacent(d, b, c)} \in SUBSET Bucket
  <2>1. BucketsAt(b[1]) \subseteq Bucket
    BY BucketType DEF Bucket
  <2> QED BY <2>1, TargetType
<1> QED BY <1>1 DEF Successors

\* A label that takes a feasible arc finds it among the arcs of its bucket, and
\* its child lands at or behind the bucket to which the bucket arc leads.
LEMMA ChildBehindTarget ==
  ASSUME NEW d \in Dir, NEW v \in Vertex, NEW q \in [Res -> Int], NEW a \in ArcsAt(d, v),
         \A r \in Res : IF d = "fw" THEN q[r] >= Lb[v][r] ELSE q[r] <= Ub[v][r],
         InWindow(d, Ahead(d, a), Advance(d, q, a))
  PROVE  /\ a \in BuiltArcs[d][BucketOf(v, q)]
         /\ UpTo(d, Target[d][BucketOf(v, q)][a], BucketOf(Ahead(d, a), Advance(d, q, a)))
<1> DEFINE b == BucketOf(v, q)
<1>1. b \in Bucket /\ b[1] = v /\ a \in Arc
  BY BucketOfType DEF ArcsAt
<1>2. Corner(d, b) \in [Res -> Int] /\ AtLeastAsGood(d, Corner(d, b), q)
  BY <1>1, CornerType, CornerIsBest DEF Corner
<1> HIDE DEF b
<1> DEFINE best == Advance(d, Corner(d, b), a)
           mine == Advance(d, q, a)
<1>3. best \in [Res -> Int] /\ mine \in [Res -> Int] /\ AtLeastAsGood(d, best, mine)
  BY <1>1, <1>2, AdvanceType, AdvanceMonotone
<1>4. InWindow(d, Ahead(d, a), mine) /\ Ahead(d, a) \in Vertex
  BY <1>1, AheadType
<1> HIDE DEF best, mine
<1>5. InWindow(d, Ahead(d, a), best)
  BY <1>3, <1>4, TableType DEF InWindow, AtLeastAsGood
<1>6. a \in BuiltArcs[d][b]
  BY <1>1, <1>5 DEF BuiltArcs, best
<1>7. Target[d][b][a] = BucketOf(Ahead(d, a), best)
  BY <1>1, <1>6 DEF Target, best
<1>8. UpTo(d, Target[d][b][a], BucketOf(Ahead(d, a), mine))
  BY <1>3, <1>4, <1>7, BucketOfMonotone
<1> QED BY <1>6, <1>8 DEF b, mine

-----------------------------------------------------------------------------
\* Breadth-first search.  The definition by recursion is one: there is a function
\* that satisfies it.
BallType == [Dir -> [Bucket -> SUBSET Bucket]]

\* The recursive definition of Ball has a solution: Ball itself.
LEMMA BallDef ==
  /\ Ball \in [Nat -> BallType]
  /\ Ball[0] = [d \in Dir |-> [b \in Bucket |-> {b}]]
  /\ \A n \in Nat : Ball[n + 1] = [d \in Dir |-> [b \in Bucket |->
       Ball[n][d][b] \cup UNION {Successors[d][c] : c \in Ball[n][d][b]}]]
<1> DEFINE s0 == [d \in Dir |-> [b \in Bucket |-> {b}]]
           Wider(x) == [d \in Dir |-> [b \in Bucket |->
                          x[d][b] \cup UNION {Successors[d][c] : c \in x[d][b]}]]
           Equation(f) == f = [n \in Nat |-> IF n = 0 THEN s0 ELSE Wider(f[n - 1])]
<1>1. s0 \in BallType
  BY DEF BallType
<1>2. ASSUME NEW x \in BallType
      PROVE  Wider(x) \in BallType
  BY SuccessorsType DEF BallType
<1> HIDE DEF s0, Wider
<1>3. PICK F \in [Nat -> [BallType -> BallType]] : \A n \in Nat : \A x \in BallType : F[n][x] = Wider(x)
  <2>1. [n \in Nat |-> [x \in BallType |-> Wider(x)]] \in [Nat -> [BallType -> BallType]]
    BY <1>2
  <2> QED BY <2>1
<1>4. PICK f \in [Nat -> BallType] : \A n \in Nat : f[n] = IF n = 0 THEN s0 ELSE F[n][f[n - 1]]
  BY <1>1, RecursionOnNat
<1>5. \A n \in Nat : f[n] = IF n = 0 THEN s0 ELSE Wider(f[n - 1])
  <2>1. ASSUME NEW n \in Nat, n # 0
        PROVE  f[n] = Wider(f[n - 1])
    <3>1. n - 1 \in Nat
      BY <2>1
    <3>2. f[n - 1] \in BallType
      BY <3>1
    <3> QED BY <1>3, <1>4, <2>1, <3>2
  <2> QED BY <1>4, <2>1
<1>6. Equation(f)
  BY <1>5
<1>7. Ball = CHOOSE g : Equation(g)
  BY DEF Ball, s0, Wider
<1>8. Equation(Ball)
  BY <1>6, <1>7
<1>9. \A n \in Nat : Ball[n] = IF n = 0 THEN s0 ELSE Wider(Ball[n - 1])
  BY <1>8
<1>10. Ball \in [Nat -> BallType]
  <2> DEFINE N == {n \in Nat : Ball[n] \in BallType}
  <2>1. 0 \in N
    BY <1>1, <1>9
  <2>2. ASSUME NEW n \in N PROVE n + 1 \in N
    <3>1. n + 1 \in Nat /\ n + 1 # 0 /\ (n + 1) - 1 = n
      OBVIOUS
    <3>2. Ball[n + 1] = Wider(Ball[n])
      BY <1>9, <3>1
    <3> QED BY <1>2, <3>1, <3>2
  <2> HIDE DEF N
  <2>3. N = Nat
    <3>1. N \in SUBSET Nat
      BY DEF N
    <3> QED BY <2>1, <2>2, <3>1, InductOnNat
  <2>4. \A n \in Nat : Ball[n] \in BallType
    BY <2>3 DEF N
  <2>5. Ball = [n \in Nat |-> Ball[n]]
    BY <1>8
  <2> HIDE DEF Equation
  <2> QED BY <2>4, <2>5
<1>11. \A n \in Nat : Ball[n + 1] = Wider(Ball[n])
  <2>1. ASSUME NEW n \in Nat PROVE Ball[n + 1] = Wider(Ball[n])
    <3>1. n + 1 \in Nat /\ n + 1 # 0 /\ (n + 1) - 1 = n
      OBVIOUS
    <3> QED BY <1>9, <3>1
  <2> QED BY <2>1
<1> QED BY <1>9, <1>10, <1>11 DEF s0, Wider

\* Ball of one bucket, one round of compute_sccs's search after the other.
LEMMA BallStep ==
  ASSUME NEW d \in Dir, NEW b \in Bucket
  PROVE  /\ Ball[0][d][b] = {b}
         /\ \A n \in Nat : /\ Ball[n][d][b] \in SUBSET Bucket
                           /\ Ball[n + 1][d][b] = Ball[n][d][b] \cup
                                UNION {Successors[d][c] : c \in Ball[n][d][b]}
<1>1. Ball[0][d][b] = {b}
  BY BallDef
<1>2. ASSUME NEW n \in Nat
      PROVE  /\ Ball[n][d][b] \in SUBSET Bucket
             /\ Ball[n + 1][d][b] = Ball[n][d][b] \cup
                  UNION {Successors[d][c] : c \in Ball[n][d][b]}
  <2>1. Ball[n] \in BallType
    BY BallDef
  <2>2. Ball[n + 1] = [e \in Dir |-> [x \in Bucket |->
          Ball[n][e][x] \cup UNION {Successors[e][c] : c \in Ball[n][e][x]}]]
    BY BallDef
  <2>3. Ball[n][d][b] \in SUBSET Bucket
    BY <2>1 DEF BallType
  <2> QED BY <2>2, <2>3
<1> QED BY <1>1, <1>2

\* After as many rounds as there are buckets the search has ended: a round that
\* is not the last adds a bucket.
LEMMA SearchEnds ==
  ASSUME NEW d \in Dir, NEW b \in Bucket
  PROVE  /\ b \in Reachable[d][b] /\ Reachable[d][b] \subseteq Bucket
         /\ \A c \in Reachable[d][b] : Successors[d][c] \subseteq Reachable[d][b]
<1> DEFINE B(n) == Ball[n][d][b]
           Closed(X) == \A c \in X : Successors[d][c] \subseteq X
           N == {n \in Nat : /\ b \in B(n) /\ B(n) \in SUBSET Bucket
                             /\ Closed(B(n)) \/ Cardinality(B(n)) > n}
<1>1. B(0) = {b} /\ \A n \in Nat : B(n + 1) = B(n) \cup UNION {Successors[d][c] : c \in B(n)}
  BY BallStep
<1>2. \A n \in Nat : B(n) \in SUBSET Bucket
  BY BallStep
<1> HIDE DEF B
<1>3. 0 \in N
  <2>1. Cardinality({b}) = 1
    BY FS_Singleton
  <2>2. Cardinality(B(0)) = 1 /\ b \in B(0) /\ B(0) \in SUBSET Bucket
    BY <1>1, <1>2, <2>1
  <2> QED BY <2>2
<1>4. ASSUME NEW n \in N PROVE n + 1 \in N
  <2>1. /\ n \in Nat /\ n + 1 \in Nat /\ B(n + 1) \in SUBSET Bucket /\ B(n) \in SUBSET Bucket
        /\ B(n + 1) = B(n) \cup UNION {Successors[d][c] : c \in B(n)}
        /\ b \in B(n + 1) /\ B(n) \subseteq B(n + 1)
    BY <1>1, <1>2
  <2>2. CASE Closed(B(n))
    <3>1. B(n + 1) = B(n)
      BY <2>1, <2>2
    <3> QED BY <2>1, <2>2, <3>1
  <2>3. CASE ~Closed(B(n))
    <3>1. PICK c \in B(n + 1) : c \notin B(n)
      BY <2>1, <2>3
    <3>2. IsFiniteSet(B(n + 1)) /\ IsFiniteSet(B(n))
      BY <2>1, BucketsFinite, FS_Subset
    <3>3. Cardinality(B(n)) <= Cardinality(B(n + 1)) /\ Cardinality(B(n + 1)) # Cardinality(B(n))
      <4>1. B(n) \in SUBSET B(n + 1) /\ B(n + 1) # B(n)
        BY <2>1, <3>1
      <4> QED BY <3>2, <4>1, FS_Subset
    <3>4. Cardinality(B(n)) \in Nat /\ Cardinality(B(n + 1)) \in Nat
      BY <3>2, FS_CardinalityType
    <3>5. Cardinality(B(n)) > n
      BY <2>3
    <3>6. Cardinality(B(n + 1)) > n + 1
      BY <2>1, <3>3, <3>4, <3>5
    <3> QED BY <2>1, <3>6
  <2> QED BY <2>2, <2>3
<1> DEFINE m == Cardinality(Bucket)
<1>5. m \in Nat
  BY BucketsFinite, FS_CardinalityType
<1>6. N = Nat
  <2> HIDE DEF N
  <2>1. N \in SUBSET Nat
    BY DEF N
  <2> QED BY <1>3, <1>4, <2>1, InductOnNat
<1>7. b \in B(m) /\ B(m) \in SUBSET Bucket /\ (Closed(B(m)) \/ Cardinality(B(m)) > m)
  <2>1. m \in N
    BY <1>5, <1>6
  <2> HIDE DEF m
  <2> QED BY <2>1
<1>8. ~(Cardinality(B(m)) > m)
  <2>1. Cardinality(B(m)) <= m /\ Cardinality(B(m)) \in Nat
    BY <1>7, BucketsFinite, FS_Subset, FS_CardinalityType
  <2> QED BY <1>5, <2>1
<1> QED BY <1>7, <1>8 DEF Reachable, B

\* Nothing else is reachable: it is in every set of buckets that holds the start
\* and is closed under successors.
LEMMA SearchIsLeast ==
  ASSUME NEW d \in Dir, NEW b \in Bucket, NEW R \in SUBSET Bucket, b \in R,
         \A c \in R : Successors[d][c] \subseteq R
  PROVE  Reachable[d][b] \subseteq R
<1> DEFINE N == {n \in Nat : Ball[n][d][b] \subseteq R}
<1>1. 0 \in N
  BY BallStep
<1>2. ASSUME NEW n \in N PROVE n + 1 \in N
  <2>1. Ball[n + 1][d][b] = Ball[n][d][b] \cup UNION {Successors[d][c] : c \in Ball[n][d][b]}
    BY BallStep
  <2> QED BY <2>1
<1> HIDE DEF N
<1>3. N = Nat
  <2>1. N \in SUBSET Nat
    BY DEF N
  <2> QED BY <1>1, <1>2, <2>1, InductOnNat
<1>4. Cardinality(Bucket) \in Nat
  BY BucketsFinite, FS_CardinalityType
<1>5. Cardinality(Bucket) \in N
  BY <1>3, <1>4
<1> QED BY <1>5 DEF N, Reachable

\* Reachability is transitive.
LEMMA ReachableTransitive ==
  ASSUME NEW d \in Dir, NEW x \in Bucket, NEW y \in Reachable[d][x], NEW z \in Reachable[d][y]
  PROVE  z \in Reachable[d][x]
<1>1. /\ Reachable[d][x] \in SUBSET Bucket
      /\ \A c \in Reachable[d][x] : Successors[d][c] \subseteq Reachable[d][x]
  BY SearchEnds
<1>2. y \in Bucket
  BY <1>1
<1>3. Reachable[d][y] \subseteq Reachable[d][x]
  BY <1>1, <1>2, SearchIsLeast
<1> QED BY <1>3

\* A bucket reaches all the buckets of its vertex that come after it.
LEMMA UpToIsReachable ==
  ASSUME NEW d \in Dir, NEW b \in Bucket, NEW c \in Bucket, UpTo(d, b, c)
  PROVE  c \in Reachable[d][b]
<1> DEFINE Gap(x, y) == Larger(x, y) - Smaller(x, y)
           Dist(y) == Gap(b[2][1], y[2][1]) + Gap(b[2][NMain], y[2][NMain])
           N == {n \in Nat : \A y \in Bucket : UpTo(d, b, y) /\ Dist(y) <= n => y \in Reachable[d][b]}
<1>1. /\ b[2][1] \in Int /\ b[2][NMain] \in Int
      /\ \A y \in Bucket : /\ y[2][1] \in Int /\ y[2][NMain] \in Int
                           /\ Gap(b[2][1], y[2][1]) \in Nat /\ Gap(b[2][NMain], y[2][NMain]) \in Nat
  BY BucketType, ResType DEF Larger, Smaller
<1>2. ASSUME NEW y \in Bucket
      PROVE  \E v \in Vertex : y = <<v, y[2]>> /\ y[2] \in Grid(v) /\ y[1] = v
  BY DEF Bucket, BucketsAt
<1>3. ASSUME NEW y \in Bucket, UpTo(d, b, y), y # b
      PROVE  \E z \in Bucket : UpTo(d, b, z) /\ Dist(z) < Dist(y) /\ Adjacent(d, z, y)
  <2>1. PICK v \in Vertex : y = <<v, y[2]>> /\ y[2] \in Grid(v) /\ b = <<v, b[2]>> /\ b[2] \in Grid(v)
    BY <1>2, <1>3 DEF UpTo
  <2>2. y[2] \in [Res -> Nat] /\ b[2] \in [Res -> Nat]
    BY <2>1 DEF Grid
  <2>3. PICK r \in Res : b[2][r] # y[2][r]
    BY <1>3, <2>1, <2>2
  <2> DEFINE k == [y[2] EXCEPT ![r] = IF d = "fw" THEN @ - 1 ELSE @ + 1]
             z == <<v, k>>
  <2>4. /\ k[r] = IF d = "fw" THEN y[2][r] - 1 ELSE y[2][r] + 1
        /\ \A s \in Res : s # r => k[s] = y[2][s]
        /\ \A s \in Res : /\ b[2][s] \in Nat /\ y[2][s] \in Nat
                          /\ IF d = "fw" THEN b[2][s] <= y[2][s] ELSE b[2][s] >= y[2][s]
    BY <1>3, <2>2 DEF UpTo
  <2>5. k \in Grid(v)
    <3> DEFINE K == Larger(NBuckets(v, 1), NBuckets(v, NMain)) - 1
    <3>1. K \in Int /\ \A s \in Res : NBuckets(v, s) \in Nat
      BY NBucketsType, ResType DEF Larger
    <3>2. \A s \in Res : b[2][s] \in 0..K /\ y[2][s] \in 0..K /\ b[2][s] < NBuckets(v, s) /\ y[2][s] < NBuckets(v, s)
      BY <2>1 DEF Grid
    <3> HIDE DEF K
    <3>3. k[r] \in 0..K /\ k[r] < NBuckets(v, r)
      <4>1. CASE d = "fw"
        BY <2>3, <2>4, <3>1, <3>2, <4>1
      <4>2. CASE d # "fw"
        BY <2>3, <2>4, <3>1, <3>2, <4>2
      <4> QED BY <4>1, <4>2
    <3>4. DOMAIN k = Res /\ k = [s \in Res |-> k[s]]
      BY <2>2
    <3>5. \A s \in Res : k[s] \in 0..K /\ k[s] < NBuckets(v, s)
      BY <2>4, <3>2, <3>3
    <3> HIDE DEF k
    <3> QED BY <3>4, <3>5 DEF Grid, K
  <2>6. z \in Bucket
    BY <2>5 DEF Bucket, BucketsAt
  <2>7. UpTo(d, b, z)
    <3>1. \A s \in Res : IF d = "fw" THEN b[2][s] <= k[s] ELSE b[2][s] >= k[s]
      BY <2>3, <2>4
    <3> QED BY <2>1, <3>1 DEF UpTo
  <2>8. UpTo(d, z, y)
    <3>1. \A s \in Res : IF d = "fw" THEN k[s] <= y[2][s] ELSE k[s] >= y[2][s]
      BY <2>4
    <3> QED BY <2>1, <3>1 DEF UpTo
  <2>9. y[2] = [k EXCEPT ![r] = IF d = "fw" THEN @ + 1 ELSE @ - 1]
    BY <2>2, <2>4
  <2>10. Adjacent(d, z, y)
    BY <2>3, <2>4, <2>8, <2>9 DEF Adjacent
  <2>11. Dist(z) < Dist(y)
    <3>1. r = 1 \/ r = NMain
      BY ResType
    <3>2. z[2][1] = k[1] /\ z[2][NMain] = k[NMain]
      OBVIOUS
    <3> HIDE DEF k, z
    <3>3. Gap(b[2][r], k[r]) = Gap(b[2][r], y[2][r]) - 1
      BY <2>3, <2>4 DEF Larger, Smaller
    <3>4. \A s \in Res : s # r => Gap(b[2][s], k[s]) = Gap(b[2][s], y[2][s])
      BY <2>4
    <3> HIDE DEF Gap
    <3>5. Gap(b[2][1], y[2][1]) \in Nat /\ Gap(b[2][NMain], y[2][NMain]) \in Nat
      BY <1>1
    <3> QED BY <3>1, <3>2, <3>3, <3>4, <3>5, ResType
  <2> QED BY <2>6, <2>7, <2>10, <2>11
<1> HIDE DEF Dist
<1>4. \A y \in Bucket : Dist(y) \in Nat
  BY <1>1 DEF Dist
<1>5. ASSUME NEW n \in Nat, \A y \in Bucket : UpTo(d, b, y) /\ Dist(y) < n => y \in Reachable[d][b],
             NEW y \in Bucket, UpTo(d, b, y), Dist(y) <= n
      PROVE  y \in Reachable[d][b]
  <2>1. CASE y = b
    BY <2>1, SearchEnds
  <2>2. CASE y # b
    <3>1. PICK z \in Bucket : UpTo(d, b, z) /\ Dist(z) < Dist(y) /\ Adjacent(d, z, y)
      BY <1>3, <1>5, <2>2
    <3>2. z \in Reachable[d][b]
      <4>1. Dist(z) < n
        BY <1>4, <1>5, <3>1
      <4> QED BY <1>5, <3>1, <4>1
    <3>3. y \in Successors[d][z]
      <4>1. y \in BucketsAt(z[1])
        BY <1>2, <3>1 DEF Adjacent, UpTo, BucketsAt
      <4> QED BY <3>1, <4>1 DEF Successors
    <3> QED BY <3>2, <3>3, SearchEnds
  <2> QED BY <2>1, <2>2
<1>6. 0 \in N
  <2>1. \A y \in Bucket : ~(Dist(y) < 0)
    BY <1>4
  <2> QED BY <1>5, <2>1
<1>7. ASSUME NEW n \in N PROVE n + 1 \in N
  <2>1. \A y \in Bucket : Dist(y) < n + 1 => Dist(y) <= n
    BY <1>4
  <2>2. n \in Nat /\ \A y \in Bucket : UpTo(d, b, y) /\ Dist(y) < n + 1 => y \in Reachable[d][b]
    BY <2>1
  <2>3. \A y \in Bucket : UpTo(d, b, y) /\ Dist(y) <= n + 1 => y \in Reachable[d][b]
    BY <1>5, <2>2
  <2> QED BY <2>2, <2>3
<1> HIDE DEF N
<1>8. N = Nat
  <2>1. N \in SUBSET Nat
    BY DEF N
  <2> QED BY <1>6, <1>7, <2>1, InductOnNat
<1>9. Dist(c) \in N
  BY <1>4, <1>8
<1>10. Dist(c) <= Dist(c)
  BY <1>4
<1> QED BY <1>9, <1>10 DEF N

\* The bucket of a child is reachable from the bucket of its parent.
LEMMA ChildIsReachable ==
  ASSUME NEW d \in Dir, NEW v \in Vertex, NEW q \in [Res -> Int], NEW a \in ArcsAt(d, v),
         \A r \in Res : IF d = "fw" THEN q[r] >= Lb[v][r] ELSE q[r] <= Ub[v][r],
         InWindow(d, Ahead(d, a), Advance(d, q, a))
  PROVE  BucketOf(Ahead(d, a), Advance(d, q, a)) \in Reachable[d][BucketOf(v, q)]
<1> DEFINE b == BucketOf(v, q)
           c == BucketOf(Ahead(d, a), Advance(d, q, a))
<1>1. a \in BuiltArcs[d][b] /\ UpTo(d, Target[d][b][a], c)
  BY ChildBehindTarget
<1>2. b \in Bucket /\ c \in Bucket
  BY AheadType, AdvanceType, BucketOfType DEF ArcsAt
<1> HIDE DEF b, c
<1>3. Target[d][b][a] \in Bucket /\ Target[d][b][a] \in Successors[d][b]
  BY <1>1, <1>2, TargetType DEF Successors
<1>4. Target[d][b][a] \in Reachable[d][b]
  BY <1>2, <1>3, SearchEnds
<1>5. c \in Reachable[d][Target[d][b][a]]
  BY <1>1, <1>2, <1>3, UpToIsReachable
<1>6. c \in Reachable[d][b]
  BY <1>2, <1>4, <1>5, ReachableTransitive
<1> QED BY <1>6 DEF b, c

-----------------------------------------------------------------------------
\* Every bucket is in a component, and only in that one.
LEMMA SccsPartition ==
  ASSUME NEW d \in Dir, NEW b \in Bucket
  PROVE  /\ Scc(d, b) \in Sccs[d] /\ b \in Scc(d, b)
         /\ \A s \in Sccs[d] : s \subseteq Bucket /\ (b \in s => s = Scc(d, b))
<1>1. Scc(d, b) \in Sccs[d] /\ b \in Scc(d, b)
  BY SearchEnds DEF Sccs, Scc
<1>2. ASSUME NEW s \in Sccs[d]
      PROVE  s \subseteq Bucket /\ (b \in s => s = Scc(d, b))
  <2>1. PICK c \in Bucket : s = Scc(d, c)
    BY DEF Sccs
  <2>2. s \subseteq Bucket
    BY <2>1 DEF Scc
  <2>3. ASSUME b \in s PROVE s = Scc(d, b)
    <3>1. b \in Reachable[d][c] /\ c \in Reachable[d][b]
      BY <2>1, <2>3 DEF Scc
    <3>2. ASSUME NEW x \in Bucket
          PROVE  /\ x \in Reachable[d][c] <=> x \in Reachable[d][b]
                 /\ c \in Reachable[d][x] <=> b \in Reachable[d][x]
      BY <3>1, ReachableTransitive
    <3> QED BY <2>1, <3>2 DEF Scc
  <2> QED BY <2>2, <2>3
<1> QED BY <1>1, <1>2

\* A set of components that holds their predecessors holds the component of every
\* bucket from which one of its buckets can be reached.
LEMMA ClosedUnderPredecessors ==
  ASSUME NEW d \in Dir, NEW F \in SUBSET Sccs[d], \A t \in F : Predecessors[d][t] \subseteq F,
         NEW b \in Bucket, NEW c \in Reachable[d][b], NEW t \in F, c \in t
  PROVE  Scc(d, b) \in F
<1>1. Scc(d, b) \in Sccs[d] /\ b \in Scc(d, b)
  BY SccsPartition
<1>2. CASE Scc(d, b) = t
  BY <1>2
<1>3. CASE Scc(d, b) # t
  <2>1. Precedes(d, Scc(d, b), t)
    BY <1>1, <1>3 DEF Precedes
  <2>2. Scc(d, b) \in Predecessors[d][t]
    BY <1>1, <2>1 DEF Predecessors
  <2> QED BY <2>2
<1> QED BY <1>2, <1>3
=============================================================================
