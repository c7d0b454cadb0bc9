----------------------------- MODULE PackProofs -----------------------------
(***************************************************************************)
(* The library's resources keep the laws of module PackLaws, whatever the  *)
(* graph and their data: their comparisons persist and compose, a path may *)
(* be cut anywhere, joined halves may be replaced by better ones, and whom *)
(* the ng-path resource lets join could have gone on. CumulativeCost and   *)
(* RankOneCuts are left to TLC.                                            *)
(***************************************************************************)
EXTENDS PackLaws, StandardRes, PickupDelivery, NgPath, NoPack, TLAPS

-----------------------------------------------------------------------------
\* An arc at a vertex leads from it to another one.
LEMMA EndsOfArcs ==
  \A d \in Dir : \A v \in Vertex : \A a \in ArcsAt(d, v) :
    a \in Arc /\ Ahead(d, a) \in Vertex /\ Behind(d, a) = v
BY ProblemAssumption DEF ArcsAt, Ahead, Behind

\* A forward label may be earlier, a backward label later.
LEMMA StandardPersists ==
  /\ Closed(Int, SrInit, SrAlongArc, SrToVertex, SrDomCost)
  /\ Persists(Int, SrAlongArc, SrToVertex, SrDomCost)
<1>1. Closed(Int, SrInit, SrAlongArc, SrToVertex, SrDomCost)
  BY ProblemAssumption, StandardAssumption
  DEF Closed, Dir, SrInit, SrAlongArc, SrToVertex, SrDomCost, Larger, Smaller
<1>2. ASSUME NEW d \in Dir, NEW v \in Vertex, NEW s \in Int, NEW t \in Int,
             SrDomCost(d, v, s, t) < Inf
      PROVE  /\ SrDomCost(d, v, s, t) = 0
             /\ IF d = "fw" THEN s <= t ELSE t <= s
  BY <1>2, ProblemAssumption DEF SrDomCost
<1>3. ASSUME NEW d \in Dir, NEW w \in Vertex, NEW a \in Arc, NEW s \in Int, NEW t \in Int,
             IF d = "fw" THEN s <= t ELSE t <= s,
             SrToVertex(d, SrAlongArc(d, t, a).st, w).cost < Inf
      PROVE  LET s2 == SrToVertex(d, SrAlongArc(d, s, a).st, w)
                 t2 == SrToVertex(d, SrAlongArc(d, t, a).st, w)
             IN s2.cost = 0 /\ t2.cost = 0 /\ SrDomCost(d, w, s2.st, t2.st) = 0
  <2>1. Consumption[a] \in Int /\ SrLb[w] \in Int /\ SrUb[w] \in Int /\ Inf \in Nat
    BY StandardAssumption, ProblemAssumption
  <2>2. CASE d = "fw"
    BY <1>3, <2>1, <2>2 DEF SrAlongArc, SrToVertex, SrDomCost, Larger
  <2>3. CASE d # "fw"
    BY <1>3, <2>1, <2>3 DEF SrAlongArc, SrToVertex, SrDomCost, Smaller
  <2> QED BY <2>2, <2>3
<1>4. \A d \in Dir : \A s \in Int : \A a \in Arc : SrAlongArc(d, s, a).cost = 0
  BY DEF SrAlongArc
<1>5. ASSUME NEW d \in Dir, NEW v \in Vertex, NEW s \in Int, NEW t \in Int,
             SrDomCost(d, v, s, t) < Inf, NEW a \in ArcsAt(d, v),
             SrToVertex(d, SrAlongArc(d, t, a).st, Ahead(d, a)).cost < Inf
      PROVE  LET s2 == SrToVertex(d, SrAlongArc(d, s, a).st, Ahead(d, a))
                 t2 == SrToVertex(d, SrAlongArc(d, t, a).st, Ahead(d, a))
             IN s2.cost = 0 /\ t2.cost = 0 /\ SrDomCost(d, Ahead(d, a), s2.st, t2.st) = 0
  BY <1>2, <1>3, <1>5, EndsOfArcs
<1>6. 0 < Inf \/ \A d \in Dir : \A v \in Vertex : \A s, t \in Int : ~(SrDomCost(d, v, s, t) < Inf)
  BY <1>2, ProblemAssumption
<1>7. Persists(Int, SrAlongArc, SrToVertex, SrDomCost)
  BY <1>2, <1>4, <1>5, <1>6, EndsOfArcs DEF Persists
<1> QED BY <1>1, <1>7

\* Both what a label carries and the room it leaves have to be compared.
PdState == [P : Int, D : Int]

\* Loads picked up and delivered: less of both is never worse on a common way.
LEMMA PickupPersists ==
  /\ Closed(PdState, PdInit, PdAlongArc, PdToVertex, PdDomCost)
  /\ Persists(PdState, PdAlongArc, PdToVertex, PdDomCost)
<1>0. Q \in Nat /\ Inf \in Nat /\ \A v \in Vertex : Pickup[v] \in Nat /\ Delivery[v] \in Nat
  BY PickupAssumption, ProblemAssumption
<1>1. Closed(PdState, PdInit, PdAlongArc, PdToVertex, PdDomCost)
  BY <1>0 DEF Closed, Dir, PdState, PdInit, PdAlongArc, PdToVertex, PdDomCost, Smaller
<1>2. ASSUME NEW d \in Dir, NEW v \in Vertex, NEW s \in PdState, NEW t \in PdState,
             PdDomCost(d, v, s, t) < Inf
      PROVE  /\ PdDomCost(d, v, s, t) = 0 /\ 0 < Inf
             /\ IF d = "fw" THEN s.P <= t.P /\ t.D <= s.D ELSE s.D <= t.D /\ t.P <= s.P
  BY <1>0, <1>2 DEF PdDomCost, PdState
<1>3. ASSUME NEW d \in Dir, NEW w \in Vertex, NEW s \in PdState, NEW t \in PdState,
             IF d = "fw" THEN s.P <= t.P /\ t.D <= s.D ELSE s.D <= t.D /\ t.P <= s.P,
             PdToVertex(d, t, w).cost < Inf
      PROVE  /\ PdToVertex(d, s, w).cost = 0 /\ PdToVertex(d, t, w).cost = 0
             /\ PdDomCost(d, w, PdToVertex(d, s, w).st, PdToVertex(d, t, w).st) = 0
  <2>1. s.P \in Int /\ s.D \in Int /\ t.P \in Int /\ t.D \in Int
    BY DEF PdState
  <2>2. CASE d = "fw"
    BY <1>0, <1>3, <2>1, <2>2 DEF PdToVertex, PdDomCost, Smaller
  <2>3. CASE d # "fw"
    BY <1>0, <1>3, <2>1, <2>3 DEF PdToVertex, PdDomCost, Smaller
  <2> QED BY <2>2, <2>3
<1>4. \A d \in Dir : \A s \in PdState : \A a \in Arc :
        PdAlongArc(d, s, a).cost = 0 /\ PdAlongArc(d, s, a).st = s
  BY DEF PdAlongArc
<1>5. Persists(PdState, PdAlongArc, PdToVertex, PdDomCost)
  BY <1>0, <1>2, <1>3, <1>4, EndsOfArcs DEF Persists
<1> QED BY <1>1, <1>5

\* A label that remembers less is barred from less.
LEMMA NgPersists ==
  /\ Closed(NgState, NgInit, NgAlongArc, NgToVertex, NgDomCost)
  /\ Persists(NgState, NgAlongArc, NgToVertex, NgDomCost)
<1>0. Inf \in Nat /\ \A v \in Vertex : Neighbors[v] \in SUBSET Vertex
  BY ProblemAssumption, NeighborsAssumption
<1>1. ASSUME NEW d \in Dir, NEW s \in NgState
      PROVE  /\ \A a \in Arc : NgAlongArc(d, s, a).st \in NgState
                               /\ NgAlongArc(d, s, a).cost \in {0, Inf}
             /\ \A v \in Vertex : NgToVertex(d, s, v).st \in NgState
                                  /\ NgToVertex(d, s, v).cost = 0
  BY DEF NgState, NgAlongArc, NgToVertex
<1>2. Closed(NgState, NgInit, NgAlongArc, NgToVertex, NgDomCost)
  <2>1. \A d \in Dir : NgInit(d) \in NgState
    BY DEF NgInit, NgState
  <2>2. \A d \in Dir : \A v \in Vertex : \A s, t \in NgState : NgDomCost(d, v, s, t) \in {0, Inf}
    BY DEF NgDomCost
  <2> QED BY <1>0, <1>1, <2>1, <2>2 DEF Closed
<1>3. ASSUME NEW d \in Dir, NEW v \in Vertex, NEW s \in NgState, NEW t \in NgState,
             NgDomCost(d, v, s, t) < Inf
      PROVE  NgDomCost(d, v, s, t) = 0 /\ s \subseteq t /\ 0 < Inf
  BY <1>0, <1>3 DEF NgDomCost
<1>4. ASSUME NEW d \in Dir, NEW a \in Arc, NEW s \in NgState, NEW t \in NgState,
             s \subseteq t, NgAlongArc(d, t, a).cost < Inf
      PROVE  /\ NgAlongArc(d, t, a).cost = 0 /\ NgAlongArc(d, s, a).cost = 0
             /\ NgAlongArc(d, s, a).st \subseteq NgAlongArc(d, t, a).st
  BY <1>0, <1>4 DEF NgAlongArc
<1>5. ASSUME NEW d \in Dir, NEW w \in Vertex, NEW s \in NgState, NEW t \in NgState, s \subseteq t
      PROVE  NgDomCost(d, w, NgToVertex(d, s, w).st, NgToVertex(d, t, w).st) = 0
  BY <1>5 DEF NgToVertex, NgDomCost
<1>6. Persists(NgState, NgAlongArc, NgToVertex, NgDomCost)
  <2> SUFFICES ASSUME NEW d \in Dir, NEW v \in Vertex, NEW s \in NgState, NEW t \in NgState,
                      NgDomCost(d, v, s, t) < Inf, NEW a \in ArcsAt(d, v),
                      NgAlongArc(d, t, a).cost < Inf
               PROVE  LET w == Ahead(d, a)
                          s1 == NgAlongArc(d, s, a)  t1 == NgAlongArc(d, t, a)
                      IN /\ s1.cost = 0 /\ t1.cost = 0
                         /\ NgToVertex(d, s1.st, w).cost = 0 /\ NgToVertex(d, t1.st, w).cost = 0
                         /\ NgDomCost(d, w, NgToVertex(d, s1.st, w).st, NgToVertex(d, t1.st, w).st) = 0
    BY <1>0, <1>3 DEF Persists
  <2>1. s \subseteq t /\ a \in Arc /\ Ahead(d, a) \in Vertex
    BY <1>3, EndsOfArcs
  <2>2. /\ NgAlongArc(d, t, a).cost = 0 /\ NgAlongArc(d, s, a).cost = 0
        /\ NgAlongArc(d, s, a).st \subseteq NgAlongArc(d, t, a).st
    BY <1>4, <2>1
  <2>3. NgAlongArc(d, s, a).st \in NgState /\ NgAlongArc(d, t, a).st \in NgState
    BY <1>1, <2>1
  <2> QED BY <1>1, <1>5, <2>1, <2>2, <2>3
<1> QED BY <1>2, <1>6

-----------------------------------------------------------------------------
\* The comparisons of the library's resources may be chained, as dominance
\* chains them when the label that won loses in its turn.
LEMMA StandardComposes == ASSUME 0 < Inf PROVE Composes(Int, SrDomCost)
BY ProblemAssumption DEF Composes, SrDomCost

\* Beating a label that beats a third one beats the third one.
LEMMA PickupComposes == ASSUME 0 < Inf PROVE Composes(PdState, PdDomCost)
BY ProblemAssumption DEF Composes, PdDomCost, PdState

\* Memories are compared by inclusion, which may be chained.
LEMMA NgComposes == ASSUME 0 < Inf PROVE Composes(NgState, NgDomCost)
<1>1. \A s \in NgState : \A d, v : NgDomCost(d, v, s, s) = 0
  BY DEF NgDomCost
<1>2. \A s, t, u \in NgState : \A d, v :
        NgDomCost(d, v, s, t) < Inf /\ NgDomCost(d, v, t, u) < Inf =>
          NgDomCost(d, v, s, t) = 0 /\ NgDomCost(d, v, t, u) = 0 /\ NgDomCost(d, v, s, u) = 0
  BY ProblemAssumption DEF NgDomCost
<1> HIDE DEF NgDomCost
<1> QED BY <1>1, <1>2 DEF Composes

\* The ng-path resource: where concatenation lets a backward label continue a
\* forward one, the forward label could have visited the same vertices itself.
LEMMA NgJoins == ASSUME 0 < Inf PROVE Joins(NgState, NgInit, NgAlongArc, NgToVertex, NgConcatCost)
<1>0. Inf \in Nat /\ \A v \in Vertex : Neighbors[v] \in SUBSET Vertex
  BY ProblemAssumption, NeighborsAssumption
<1>1. ASSUME NEW s \in NgState, NEW v \in Vertex, NEW t \in NgState
      PROVE  /\ NgToVertex("fw", s, v).cost = 0 /\ NgToVertex("bw", t, v).cost = 0
             /\ NgConcatCost(v, s, t) < Inf => NgConcatCost(v, s, t) = 0 /\ s \cap t = {}
  BY <1>0 DEF NgToVertex, NgConcatCost
<1> SUFFICES ASSUME NEW y \in NgState, NEW b \in Arc, NgAlongArc("fw", y, b).cost < Inf
             PROVE  LET s == NgAlongArc("fw", y, b).st
                        v == To[b]
                        at == NgToVertex("fw", s, v)
                        last == NgToVertex("bw", NgInit("bw"), Sink)
                    IN /\ v = Sink /\ NgConcatCost(v, s, last.st) < Inf =>
                            at.cost < Inf /\ NgConcatCost(v, s, last.st) + last.cost = at.cost
                       /\ \A x \in NgState : \A a \in ArcsAt("fw", v) :
                            LET t == NgToVertex("bw", x, To[a]).st
                                back == NgAlongArc("bw", t, a)
                                here == NgToVertex("bw", back.st, v)
                                along == NgAlongArc("fw", at.st, a)
                            IN back.cost < Inf /\ here.cost < Inf /\ NgConcatCost(v, s, here.st) < Inf =>
                                 /\ at.cost < Inf /\ along.cost < Inf
                                 /\ NgConcatCost(To[a], along.st, t) < Inf
                                 /\ NgConcatCost(v, s, here.st) + back.cost + here.cost
                                      = at.cost + along.cost + NgConcatCost(To[a], along.st, t)
  BY DEF Joins
<1> DEFINE s == NgAlongArc("fw", y, b).st
           v == To[b]
<1>2. v \in Vertex /\ s = y \cap Neighbors[v] /\ s \in NgState
  <2>1. v \in Vertex /\ y \in SUBSET Vertex /\ Ahead("fw", b) = v
    BY ProblemAssumption DEF NgState, Ahead
  <2>2. NgAlongArc("fw", y, b).cost # Inf
    BY <1>0
  <2>3. s = y \cap Neighbors[Ahead("fw", b)]
    BY <2>2 DEF NgAlongArc
  <2> HIDE DEF s, v
  <2> QED BY <2>1, <2>3 DEF NgState
<1>3. v = Sink /\ NgConcatCost(v, s, NgToVertex("bw", NgInit("bw"), Sink).st) < Inf =>
        /\ NgToVertex("fw", s, v).cost = 0 /\ NgToVertex("bw", NgInit("bw"), Sink).cost = 0
        /\ NgConcatCost(v, s, NgToVertex("bw", NgInit("bw"), Sink).st) = 0
  BY <1>0 DEF NgToVertex, NgConcatCost
<1>4. ASSUME NEW x \in NgState, NEW a \in ArcsAt("fw", v)
      PROVE  LET t == NgToVertex("bw", x, To[a]).st
                 back == NgAlongArc("bw", t, a)
                 here == NgToVertex("bw", back.st, v)
                 along == NgAlongArc("fw", NgToVertex("fw", s, v).st, a)
             IN back.cost < Inf /\ NgConcatCost(v, s, here.st) < Inf =>
                  /\ back.cost = 0 /\ along.cost = 0
                  /\ NgConcatCost(v, s, here.st) = 0 /\ NgConcatCost(To[a], along.st, t) = 0
  <2> DEFINE t == x \cup {To[a]}
  <2>1. a \in Arc /\ From[a] = v /\ To[a] # v
    BY ProblemAssumption DEF ArcsAt, Behind
  <2>2. NgToVertex("bw", x, To[a]).st = t /\ NgToVertex("fw", s, v).st = s \cup {v}
    BY DEF NgToVertex
  <2>3. SUFFICES ASSUME NgAlongArc("bw", t, a).cost < Inf,
                        NgConcatCost(v, s, NgToVertex("bw", NgAlongArc("bw", t, a).st, v).st) < Inf
                 PROVE  /\ NgAlongArc("bw", t, a).cost = 0
                        /\ NgAlongArc("fw", s \cup {v}, a).cost = 0
                        /\ NgConcatCost(v, s, NgToVertex("bw", NgAlongArc("bw", t, a).st, v).st) = 0
                        /\ NgConcatCost(To[a], NgAlongArc("fw", s \cup {v}, a).st, t) = 0
    BY <2>2
  <2>4. /\ ~(v \in Neighbors[To[a]] /\ v \in t) /\ NgAlongArc("bw", t, a).cost = 0
        /\ NgAlongArc("bw", t, a).st = t \cap Neighbors[v]
    BY <1>0, <2>1, <2>3 DEF NgAlongArc, Ahead, Behind
  <2>5. NgToVertex("bw", NgAlongArc("bw", t, a).st, v).st = (t \cap Neighbors[v]) \cup {v}
    BY <2>4 DEF NgToVertex
  <2>6. /\ s \cap ((t \cap Neighbors[v]) \cup {v}) = {}
        /\ NgConcatCost(v, s, NgToVertex("bw", NgAlongArc("bw", t, a).st, v).st) = 0
    <3> HIDE DEF s, t, v
    <3> DEFINE u == (t \cap Neighbors[v]) \cup {v}
    <3>1. NgConcatCost(v, s, u) < Inf
      BY <2>3, <2>5
    <3>2. NgConcatCost(v, s, u) = 0 /\ s \cap u = {}
      <4> HIDE DEF u
      <4> QED BY <1>0, <3>1 DEF NgConcatCost
    <3> QED BY <2>5, <3>2
  <2>7. ~(To[a] \in Neighbors[v] /\ To[a] \in s \cup {v})
    BY <2>1, <2>6
  <2>8. /\ NgAlongArc("fw", s \cup {v}, a).cost = 0
        /\ NgAlongArc("fw", s \cup {v}, a).st = (s \cup {v}) \cap Neighbors[To[a]]
    BY <2>1, <2>7 DEF NgAlongArc, Ahead, Behind
  <2>9. ((s \cup {v}) \cap Neighbors[To[a]]) \cap t = {}
    <3>1. s \subseteq Neighbors[v]
      BY <1>2
    <3> HIDE DEF s, v, t
    <3> QED BY <2>4, <2>6, <3>1
  <2>10. NgConcatCost(To[a], NgAlongArc("fw", s \cup {v}, a).st, t) = 0
    BY <2>8, <2>9 DEF NgConcatCost
  <2> QED BY <2>4, <2>6, <2>8, <2>10
<1>5. \A x \in NgState : \A a \in ArcsAt("fw", v) :
        NgToVertex("fw", s, v).cost = 0 /\ NgToVertex("bw", NgAlongArc("bw", NgToVertex("bw", x, To[a]).st, a).st, v).cost = 0
  BY DEF NgToVertex
<1> HIDE DEF s, v
<1> QED BY <1>0, <1>3, <1>4, <1>5 DEF s, v

-----------------------------------------------------------------------------
\* No pack at all keeps every law.
LEMMA NoneIsLawful ==
  ASSUME 0 < Inf
  PROVE  /\ Closed(NoState, NoInit, NoAlongArc, NoToVertex, NoDomCost)
         /\ Persists(NoState, NoAlongArc, NoToVertex, NoDomCost)
         /\ Composes(NoState, NoDomCost)
         /\ Joins(NoState, NoInit, NoAlongArc, NoToVertex, NoConcatCost)
<1> USE DEF NoState, NoInit, NoAlongArc, NoToVertex, NoDomCost, NoConcatCost
<1>1. Closed(NoState, NoInit, NoAlongArc, NoToVertex, NoDomCost)
  BY DEF Closed
<1>2. Persists(NoState, NoAlongArc, NoToVertex, NoDomCost)
  BY DEF Persists
<1>3. Composes(NoState, NoDomCost)
  BY DEF Composes
<1>4. Joins(NoState, NoInit, NoAlongArc, NoToVertex, NoConcatCost)
  BY DEF Joins
<1> QED BY <1>1, <1>2, <1>3, <1>4

-----------------------------------------------------------------------------
(***************************************************************************)
(* Where a path is cut does not matter to the library's resources.          *)
(***************************************************************************)
Anywhere(S) == [v \in Vertex |-> S]

\* The window of a resource may be applied from either side.
LEMMA StandardCuts ==
  ASSUME 0 < Inf, \A v \in Vertex : SrLb[v] <= SrUb[v]
  PROVE  Cuttable(Anywhere(Int), Anywhere(Int), SrInit, SrAlongArc, SrToVertex, SrConcatCost)
<1>1. /\ Inf \in Nat /\ Source \in Vertex /\ Sink \in Vertex
      /\ \A v \in Vertex : SrLb[v] \in Int /\ SrUb[v] \in Int
      /\ \A a \in Arc : From[a] \in Vertex /\ To[a] \in Vertex /\ Consumption[a] \in Int
      /\ \A v \in Vertex : Anywhere(Int)[v] = Int
  BY ProblemAssumption, StandardAssumption DEF Anywhere
<1>2. ASSUME NEW d \in Dir, NEW s \in Int
      PROVE  /\ \A a \in Arc : SrAlongArc(d, s, a).st \in Int /\ SrAlongArc(d, s, a).cost = 0
             /\ \A v \in Vertex : SrToVertex(d, s, v).st \in Int /\ SrToVertex(d, s, v).cost \in {0, Inf}
             /\ \A v \in Vertex : \A t \in Int : SrConcatCost(v, s, t) \in {0, Inf}
  BY <1>1 DEF SrAlongArc, SrToVertex, SrConcatCost, Larger, Smaller
<1>3. ASSUME NEW s \in Int
      PROVE  LET last == SrToVertex("bw", SrInit("bw"), Sink)
                 c == SrConcatCost(Sink, s, last.st)
             IN last.cost = 0 /\ (c < Inf <=> SrToVertex("fw", s, Sink).cost < Inf)
  BY <1>1 DEF SrInit, SrToVertex, SrConcatCost, Larger, Smaller
<1>4. SrInit("fw") \in Int /\ SrInit("bw") \in Int /\ SrToVertex("fw", SrInit("fw"), Source).cost = 0
  BY <1>1 DEF SrInit, SrToVertex, Larger
<1>5. ASSUME NEW v \in Vertex, NEW s \in Int, NEW a \in ArcsAt("fw", v), NEW x \in Int
      PROVE  LET at == SrToVertex("fw", s, v)
                 along == SrAlongArc("fw", at.st, a)
                 here == SrToVertex("bw", SrAlongArc("bw", x, a).st, v)
             IN /\ here.cost < Inf /\ SrConcatCost(v, s, here.st) < Inf
                   <=> at.cost < Inf /\ SrConcatCost(To[a], along.st, x) < Inf
  <2>1. Consumption[a] \in Int /\ SrLb[v] \in Int /\ SrUb[v] \in Int /\ Inf \in Nat
    BY <1>1 DEF ArcsAt
  <2> QED BY <2>1 DEF SrAlongArc, SrToVertex, SrConcatCost, Larger, Smaller
<1>6. "fw" \in Dir /\ "bw" \in Dir /\ \A v \in Vertex : ArcsAt("fw", v) \subseteq Arc
  BY DEF Dir, ArcsAt
<1>7. ASSUME NEW v \in Vertex, NEW s \in Int, NEW a \in ArcsAt("fw", v), NEW x \in Int
      PROVE  LET at == SrToVertex("fw", s, v)
                 along == SrAlongArc("fw", at.st, a)
                 back == SrAlongArc("bw", x, a)
                 here == SrToVertex("bw", back.st, v)
                 c == SrConcatCost(v, s, here.st)
                 d == SrConcatCost(To[a], along.st, x)
             IN /\ back.cost < Inf /\ here.cost < Inf /\ c < Inf
                     <=> at.cost < Inf /\ along.cost < Inf /\ d < Inf
                /\ at.cost < Inf /\ along.cost < Inf /\ d < Inf =>
                     /\ c \in Int /\ d \in Int
                     /\ c + back.cost + here.cost = at.cost + along.cost + d
  <2> DEFINE at == SrToVertex("fw", s, v)
             along == SrAlongArc("fw", at.st, a)
             back == SrAlongArc("bw", x, a)
             here == SrToVertex("bw", back.st, v)
             c == SrConcatCost(v, s, here.st)
             d == SrConcatCost(To[a], along.st, x)
  <2>1. at.st \in Int /\ at.cost \in {0, Inf} /\ back.st \in Int /\ back.cost = 0
    BY <1>2, <1>6
  <2>2. along.st \in Int /\ along.cost = 0 /\ here.st \in Int /\ here.cost \in {0, Inf}
    BY <1>2, <1>6, <2>1
  <2>3. c \in {0, Inf} /\ d \in {0, Inf}
    BY <1>1, <1>2, <1>6, <2>2
  <2>4. here.cost < Inf /\ c < Inf <=> at.cost < Inf /\ d < Inf
    BY <1>5
  <2> HIDE DEF at, along, back, here, c, d
  <2> QED BY <1>1, <2>1, <2>2, <2>3, <2>4 DEF at, along, back, here, c, d
<1>8. ASSUME NEW s \in Int
      PROVE  LET last == SrToVertex("bw", SrInit("bw"), Sink)
                 at == SrToVertex("fw", s, Sink)
                 c == SrConcatCost(Sink, s, last.st)
             IN /\ c < Inf <=> at.cost < Inf
                /\ c < Inf => c \in Int /\ c + last.cost = at.cost
  <2>1. SrToVertex("bw", SrInit("bw"), Sink).st \in Int
    BY <1>1, <1>2, <1>4, <1>6
  <2> QED BY <1>1, <1>2, <1>3, <1>6, <2>1
<1>9. ASSUME NEW v \in Vertex, NEW s \in Int
      PROVE  LET at == SrToVertex("fw", s, v)
             IN /\ at.cost \in Int
                /\ \A a \in ArcsAt("fw", v) :
                     LET along == SrAlongArc("fw", at.st, a)
                     IN along.cost \in Int /\ along.st \in Int
  <2> DEFINE at == SrToVertex("fw", s, v)
  <2>1. at.cost \in {0, Inf} /\ at.st \in Int
    BY <1>2, <1>6
  <2> HIDE DEF at
  <2>2. \A a \in ArcsAt("fw", v) : SrAlongArc("fw", at.st, a).cost = 0 /\ SrAlongArc("fw", at.st, a).st \in Int
    BY <1>2, <1>6, <2>1
  <2> QED BY <1>1, <2>1, <2>2 DEF at
<1>10. ASSUME NEW a \in Arc, NEW x \in Int
       PROVE  LET back == SrAlongArc("bw", x, a)
                  here == SrToVertex("bw", back.st, From[a])
              IN back.cost \in Int /\ here.cost \in Int /\ here.st \in Int
  <2> DEFINE back == SrAlongArc("bw", x, a)
  <2>1. back.cost = 0 /\ back.st \in Int
    BY <1>2, <1>6
  <2> HIDE DEF back
  <2>2. /\ SrToVertex("bw", back.st, From[a]).cost \in {0, Inf}
        /\ SrToVertex("bw", back.st, From[a]).st \in Int
    BY <1>1, <1>2, <1>6, <2>1
  <2> QED BY <1>1, <2>1, <2>2 DEF back
<1>11. /\ SrToVertex("bw", SrInit("bw"), Sink).st \in Int /\ SrToVertex("bw", SrInit("bw"), Sink).cost = 0
       /\ SrToVertex("fw", SrInit("fw"), Source).cost \in Int
       /\ SrToVertex("fw", SrInit("fw"), Source).cost < Inf
  BY <1>1, <1>2, <1>3, <1>4, <1>6
<1> DEFINE J == Anywhere(Int)
<1>12. /\ \A v \in Vertex : J[v] = Int
       /\ \A a \in Arc : J[To[a]] = Int /\ J[From[a]] = Int
       /\ J[Source] = Int /\ J[Sink] = Int
       /\ \A v \in Vertex : \A a \in ArcsAt("fw", v) : J[To[a]] = Int
  BY <1>1, <1>6
<1> HIDE DEF J
<1>13. Cuttable(J, J, SrInit, SrAlongArc, SrToVertex, SrConcatCost)
  <2>1. \A a \in Arc : \A x \in J[To[a]] :
          LET back == SrAlongArc("bw", x, a)
              here == SrToVertex("bw", back.st, From[a])
          IN /\ back.cost \in Int /\ here.cost \in Int
             /\ back.cost < Inf /\ here.cost < Inf => here.st \in J[From[a]]
    BY <1>10, <1>12
  <2>2. \A v \in Vertex : \A s \in J[v] :
          LET at == SrToVertex("fw", s, v)
          IN /\ at.cost \in Int
             /\ at.cost < Inf =>
                  \A a \in ArcsAt("fw", v) :
                    LET along == SrAlongArc("fw", at.st, a)
                    IN along.cost \in Int /\ (along.cost < Inf => along.st \in J[To[a]])
    BY <1>9, <1>12
  <2>3. \A v \in Vertex : \A s \in J[v] :
          v = Sink =>
            LET at == SrToVertex("fw", s, v)
                last == SrToVertex("bw", SrInit("bw"), Sink)
                c == SrConcatCost(v, s, last.st)
            IN /\ c < Inf <=> at.cost < Inf
               /\ c < Inf => c \in Int /\ c + last.cost = at.cost
    BY <1>8, <1>12
  <2>4. \A v \in Vertex : \A s \in J[v] : \A a \in ArcsAt("fw", v) : \A x \in J[To[a]] :
          LET at == SrToVertex("fw", s, v)
              along == SrAlongArc("fw", at.st, a)
              back == SrAlongArc("bw", x, a)
              here == SrToVertex("bw", back.st, v)
              c == SrConcatCost(v, s, here.st)
              d == SrConcatCost(To[a], along.st, x)
          IN /\ back.cost < Inf /\ here.cost < Inf /\ c < Inf
                  <=> at.cost < Inf /\ along.cost < Inf /\ d < Inf
             /\ at.cost < Inf /\ along.cost < Inf /\ d < Inf =>
                  /\ c \in Int /\ d \in Int
                  /\ c + back.cost + here.cost = at.cost + along.cost + d
    BY <1>7, <1>12
  <2>5. /\ SrInit("fw") \in J[Source] /\ SrToVertex("bw", SrInit("bw"), Sink).st \in J[Sink]
        /\ SrToVertex("bw", SrInit("bw"), Sink).cost \in Int
    BY <1>4, <1>11, <1>12
  <2> QED BY <1>11, <2>1, <2>2, <2>3, <2>4, <2>5 DEF Cuttable
<1> QED BY <1>13 DEF J

\* What may still be picked up and delivered leaves room for either half.
PdIn == {s \in [P : Int, D : Int] : s.P >= 0 /\ s.D >= 0 /\ s.P + s.D <= Q}
PdOut == {s \in [P : Int, D : Int] : s.D >= 0 /\ s.P + s.D <= Q}

LEMMA PickupCuts ==
  ASSUME 0 < Inf, Pickup[Source] <= Q, Delivery[Source] <= Q
  PROVE  Cuttable(Anywhere(PdIn), Anywhere(PdOut), PdInit, PdAlongArc, PdToVertex, PdConcatCost)
<1>1. /\ Inf \in Nat /\ Source \in Vertex /\ Sink \in Vertex /\ Q \in Nat
      /\ \A v \in Vertex : Pickup[v] \in Nat /\ Delivery[v] \in Nat
      /\ \A a \in Arc : From[a] \in Vertex /\ To[a] \in Vertex
      /\ \A v \in Vertex : ArcsAt("fw", v) \subseteq Arc
      /\ \A v \in Vertex : Anywhere(PdIn)[v] = PdIn /\ Anywhere(PdOut)[v] = PdOut
  BY ProblemAssumption, PickupAssumption DEF Anywhere, ArcsAt
<1>2. \A d, s, a : PdAlongArc(d, s, a).st = s /\ PdAlongArc(d, s, a).cost = 0
  BY DEF PdAlongArc
<1>3. ASSUME NEW s \in PdIn, NEW v \in Vertex
      PROVE  /\ PdToVertex("fw", s, v).cost \in {0, Inf}
             /\ PdToVertex("fw", s, v).cost < Inf => PdToVertex("fw", s, v).st \in PdIn
  BY <1>1 DEF PdIn, PdToVertex, Smaller
<1>4. ASSUME NEW x \in PdOut, NEW v \in Vertex
      PROVE  /\ PdToVertex("bw", x, v).cost \in {0, Inf}
             /\ PdToVertex("bw", x, v).st \in PdOut
  BY <1>1 DEF PdOut, PdToVertex, Smaller
<1>5. \A v, s, t : PdConcatCost(v, s, t) \in {0, Inf}
  BY DEF PdConcatCost
<1>6. PdInit("fw") \in PdIn /\ PdInit("bw") \in PdOut /\ PdToVertex("fw", PdInit("fw"), Source).cost = 0
  BY <1>1 DEF PdInit, PdIn, PdOut, PdToVertex
<1>7. ASSUME NEW s \in PdIn
      PROVE  LET last == PdToVertex("bw", PdInit("bw"), Sink)
                 c == PdConcatCost(Sink, s, last.st)
             IN /\ c < Inf <=> PdToVertex("fw", s, Sink).cost < Inf
                /\ c < Inf => last.cost = 0
  BY <1>1 DEF PdIn, PdInit, PdToVertex, PdConcatCost, Smaller
<1>8. ASSUME NEW v \in Vertex, NEW w \in Vertex, NEW s \in PdIn, NEW x \in PdOut
      PROVE  LET at == PdToVertex("fw", s, v)
                 here == PdToVertex("bw", x, v)
             IN /\ here.cost < Inf /\ PdConcatCost(v, s, here.st) < Inf
                   <=> at.cost < Inf /\ PdConcatCost(w, at.st, x) < Inf
  BY <1>1 DEF PdIn, PdOut, PdToVertex, PdConcatCost, Smaller
<1> HIDE DEF PdIn, PdOut
<1> DEFINE J == Anywhere(PdIn)
           K == Anywhere(PdOut)
<1>9. /\ \A v \in Vertex : J[v] = PdIn /\ K[v] = PdOut
      /\ \A a \in Arc : J[To[a]] = PdIn /\ K[To[a]] = PdOut /\ K[From[a]] = PdOut
      /\ J[Source] = PdIn /\ K[Sink] = PdOut /\ 0 < Inf
  BY <1>1
<1> HIDE DEF J, K
<1>10. \A a \in Arc : \A x \in K[To[a]] :
         LET back == PdAlongArc("bw", x, a)
             here == PdToVertex("bw", back.st, From[a])
         IN /\ back.cost \in Int /\ here.cost \in Int
            /\ back.cost < Inf /\ here.cost < Inf => here.st \in K[From[a]]
  BY <1>1, <1>2, <1>4, <1>9
<1>11. ASSUME NEW v \in Vertex, NEW s \in J[v]
       PROVE  LET at == PdToVertex("fw", s, v)
              IN /\ at.cost \in Int
                 /\ at.cost < Inf =>
                      \A a \in ArcsAt("fw", v) :
                        LET along == PdAlongArc("fw", at.st, a)
                        IN along.cost \in Int /\ (along.cost < Inf => along.st \in J[To[a]])
  BY <1>1, <1>2, <1>3, <1>9
<1>12. ASSUME NEW v \in Vertex, NEW s \in J[v], v = Sink
       PROVE  LET at == PdToVertex("fw", s, v)
                  last == PdToVertex("bw", PdInit("bw"), Sink)
                  c == PdConcatCost(v, s, last.st)
              IN /\ c < Inf <=> at.cost < Inf
                 /\ c < Inf => c \in Int /\ c + last.cost = at.cost
  <2> DEFINE last == PdToVertex("bw", PdInit("bw"), Sink)
             at == PdToVertex("fw", s, v)
             c == PdConcatCost(v, s, last.st)
  <2>1. (c < Inf <=> at.cost < Inf) /\ (c < Inf => last.cost = 0)
    BY <1>7, <1>9, <1>12
  <2>2. at.cost \in {0, Inf} /\ c \in {0, Inf}
    BY <1>3, <1>5, <1>9
  <2> HIDE DEF last, at, c
  <2>3. c < Inf => c \in Int /\ c + last.cost = at.cost
    BY <1>1, <2>1, <2>2
  <2> QED BY <2>1, <2>3 DEF last, at, c
<1>13. ASSUME NEW v \in Vertex, NEW s \in J[v], NEW a \in ArcsAt("fw", v), NEW x \in K[To[a]]
       PROVE  LET at == PdToVertex("fw", s, v)
                  along == PdAlongArc("fw", at.st, a)
                  back == PdAlongArc("bw", x, a)
                  here == PdToVertex("bw", back.st, v)
                  c == PdConcatCost(v, s, here.st)
                  d == PdConcatCost(To[a], along.st, x)
              IN /\ back.cost < Inf /\ here.cost < Inf /\ c < Inf
                      <=> at.cost < Inf /\ along.cost < Inf /\ d < Inf
                 /\ at.cost < Inf /\ along.cost < Inf /\ d < Inf =>
                      /\ c \in Int /\ d \in Int
                      /\ c + back.cost + here.cost = at.cost + along.cost + d
  <2> DEFINE at == PdToVertex("fw", s, v)
             along == PdAlongArc("fw", at.st, a)
             back == PdAlongArc("bw", x, a)
             here == PdToVertex("bw", back.st, v)
             c == PdConcatCost(v, s, here.st)
             d == PdConcatCost(To[a], along.st, x)
  <2>1. a \in Arc /\ To[a] \in Vertex /\ s \in PdIn /\ x \in PdOut
    BY <1>1, <1>9
  <2>2. along.st = at.st /\ along.cost = 0 /\ back.st = x /\ back.cost = 0
    BY <1>2
  <2>3. at.cost \in {0, Inf} /\ here.cost \in {0, Inf} /\ c \in {0, Inf} /\ d \in {0, Inf}
    BY <1>3, <1>4, <1>5, <2>1, <2>2
  <2>4. here.cost < Inf /\ c < Inf <=> at.cost < Inf /\ d < Inf
    BY <1>8, <2>1, <2>2
  <2> HIDE DEF at, along, back, here, c, d
  <2>5. /\ back.cost < Inf /\ here.cost < Inf /\ c < Inf
             <=> at.cost < Inf /\ along.cost < Inf /\ d < Inf
        /\ at.cost < Inf /\ along.cost < Inf /\ d < Inf =>
             /\ c \in Int /\ d \in Int
             /\ c + back.cost + here.cost = at.cost + along.cost + d
    BY <1>1, <1>9, <2>2, <2>3, <2>4
  <2> QED BY <2>5 DEF at, along, back, here, c, d
<1>14. /\ PdInit("fw") \in J[Source] /\ PdToVertex("fw", PdInit("fw"), Source).cost \in Int
       /\ PdToVertex("fw", PdInit("fw"), Source).cost < Inf
       /\ PdToVertex("bw", PdInit("bw"), Sink).st \in K[Sink]
       /\ PdToVertex("bw", PdInit("bw"), Sink).cost \in Int
  BY <1>1, <1>4, <1>6, <1>9
<1>15. Cuttable(J, K, PdInit, PdAlongArc, PdToVertex, PdConcatCost)
  BY <1>10, <1>11, <1>12, <1>13, <1>14 DEF Cuttable
<1> QED BY <1>15 DEF J, K

\* Forward labels arrive knowing neighbours only, backward ones know their vertex.
NgIn == [v \in Vertex |-> {s \in NgState : s \subseteq Neighbors[v] /\ v \notin s}]
NgOut == [v \in Vertex |-> {s \in NgState : s \subseteq Neighbors[v] \cup {v} /\ v \in s}]

LEMMA NgCuts ==
  ASSUME 0 < Inf
  PROVE  Cuttable(NgIn, NgOut, NgInit, NgAlongArc, NgToVertex, NgConcatCost)
<1>1. /\ Inf \in Nat /\ Source \in Vertex /\ Sink \in Vertex
      /\ \A v \in Vertex : Neighbors[v] \in SUBSET Vertex
      /\ \A a \in Arc : From[a] \in Vertex /\ To[a] \in Vertex /\ From[a] # To[a]
      /\ \A v \in Vertex : \A a \in ArcsAt("fw", v) : a \in Arc /\ From[a] = v
  BY ProblemAssumption, NeighborsAssumption DEF ArcsAt, Behind
<1>2. /\ \A d, s, a : NgAlongArc(d, s, a).cost \in {0, Inf}
      /\ \A d, s, v : NgToVertex(d, s, v).cost = 0 /\ NgToVertex(d, s, v).st = s \cup {v}
      /\ \A v, s, t : NgConcatCost(v, s, t) \in {0, Inf}
  BY DEF NgAlongArc, NgToVertex, NgConcatCost
<1>3. NgInit("fw") \in NgIn[Source] /\ NgToVertex("bw", NgInit("bw"), Sink).st \in NgOut[Sink]
  BY <1>1, <1>2 DEF NgInit, NgIn, NgOut, NgState
<1>4. ASSUME NEW a \in Arc, NEW x \in NgOut[To[a]], NgAlongArc("bw", x, a).cost < Inf
      PROVE  NgToVertex("bw", NgAlongArc("bw", x, a).st, From[a]).st \in NgOut[From[a]]
  <2>1. NgAlongArc("bw", x, a).st = x \cap Neighbors[From[a]]
    BY <1>1, <1>4 DEF NgAlongArc, Ahead
  <2> QED BY <1>1, <1>2, <2>1 DEF NgOut, NgState
<1>5. ASSUME NEW v \in Vertex, NEW s \in NgIn[v], NEW a \in ArcsAt("fw", v),
             NgAlongArc("fw", s \cup {v}, a).cost < Inf
      PROVE  NgAlongArc("fw", s \cup {v}, a).st \in NgIn[To[a]]
  <2>1. /\ NgAlongArc("fw", s \cup {v}, a).st = (s \cup {v}) \cap Neighbors[To[a]]
        /\ ~(To[a] \in Neighbors[v] /\ To[a] \in s \cup {v})
    BY <1>1, <1>5 DEF NgAlongArc, Ahead, Behind
  <2>2. s \subseteq Neighbors[v] /\ s \in SUBSET Vertex
    BY DEF NgIn, NgState
  <2> QED BY <1>1, <2>1, <2>2 DEF NgIn, NgState
<1>6. ASSUME NEW s \in NgIn[Sink]
      PROVE  NgConcatCost(Sink, s, NgInit("bw") \cup {Sink}) = 0
  BY <1>1 DEF NgConcatCost, NgIn, NgInit
<1>7. ASSUME NEW v \in Vertex, NEW s \in NgIn[v], NEW a \in ArcsAt("fw", v), NEW x \in NgOut[To[a]]
      PROVE  LET back == NgAlongArc("bw", x, a)
                 along == NgAlongArc("fw", s \cup {v}, a)
             IN /\ back.cost < Inf /\ NgConcatCost(v, s, back.st \cup {v}) < Inf
                   <=> along.cost < Inf /\ NgConcatCost(To[a], along.st, x) < Inf
  <2> DEFINE w == To[a]
             back == NgAlongArc("bw", x, a)
             along == NgAlongArc("fw", s \cup {v}, a)
  <2>1. /\ back.cost < Inf <=> ~(v \in Neighbors[w] /\ v \in x)
        /\ back.cost < Inf => back.st = x \cap Neighbors[v]
        /\ along.cost < Inf <=> ~(w \in Neighbors[v] /\ w \in s \cup {v})
        /\ along.cost < Inf => along.st = (s \cup {v}) \cap Neighbors[w]
    BY <1>1 DEF NgAlongArc, Ahead, Behind
  <2>2. \A u, r, t : NgConcatCost(u, r, t) < Inf <=> r \cap t = {}
    BY <1>1 DEF NgConcatCost
  <2>3. s \subseteq Neighbors[v] /\ v \notin s /\ x \subseteq Neighbors[w] \cup {w} /\ w \in x /\ w # v
    BY <1>1 DEF NgIn, NgOut
  <2> HIDE DEF w, back, along
  <2>4. ASSUME back.cost < Inf, s \cap (back.st \cup {v}) = {}
        PROVE  along.cost < Inf /\ along.st \cap x = {}
    <3>1. s \cap x = {} /\ ~(v \in Neighbors[w] /\ v \in x)
      BY <2>1, <2>3, <2>4
    <3>2. along.cost < Inf
      BY <2>1, <2>3, <3>1
    <3> QED BY <2>1, <3>1, <3>2
  <2>5. ASSUME along.cost < Inf, along.st \cap x = {}
        PROVE  back.cost < Inf /\ s \cap (back.st \cup {v}) = {}
    <3>1. w \notin s /\ ((s \cup {v}) \cap Neighbors[w]) \cap x = {}
      BY <2>1, <2>3, <2>5
    <3>2. back.cost < Inf
      BY <2>1, <3>1
    <3>3. s \cap x = {}
      BY <2>3, <3>1
    <3> QED BY <2>1, <2>3, <3>2, <3>3
  <2> QED BY <2>2, <2>4, <2>5 DEF w, back, along
<1>8. ASSUME NEW v \in Vertex, NEW s \in NgIn[v], NEW a \in ArcsAt("fw", v), NEW x \in NgOut[To[a]]
      PROVE  LET at == NgToVertex("fw", s, v)
                 along == NgAlongArc("fw", at.st, a)
                 back == NgAlongArc("bw", x, a)
                 here == NgToVertex("bw", back.st, v)
                 c == NgConcatCost(v, s, here.st)
                 d == NgConcatCost(To[a], along.st, x)
             IN /\ back.cost < Inf /\ here.cost < Inf /\ c < Inf
                     <=> at.cost < Inf /\ along.cost < Inf /\ d < Inf
                /\ at.cost < Inf /\ along.cost < Inf /\ d < Inf =>
                     /\ c \in Int /\ d \in Int
                     /\ c + back.cost + here.cost = at.cost + along.cost + d
  <2> DEFINE along == NgAlongArc("fw", s \cup {v}, a)
             back == NgAlongArc("bw", x, a)
             c == NgConcatCost(v, s, back.st \cup {v})
             d == NgConcatCost(To[a], along.st, x)
  <2>1. /\ NgToVertex("fw", s, v).st = s \cup {v} /\ NgToVertex("fw", s, v).cost = 0
        /\ NgToVertex("bw", back.st, v).st = back.st \cup {v} /\ NgToVertex("bw", back.st, v).cost = 0
    BY <1>2
  <2>2. along.cost \in {0, Inf} /\ back.cost \in {0, Inf} /\ c \in {0, Inf} /\ d \in {0, Inf}
    BY <1>2
  <2>3. back.cost < Inf /\ c < Inf <=> along.cost < Inf /\ d < Inf
    BY <1>7
  <2> HIDE DEF along, back, c, d
  <2>4. back.cost < Inf /\ 0 < Inf /\ c < Inf <=> 0 < Inf /\ along.cost < Inf /\ d < Inf
    BY <2>3
  <2>5. 0 < Inf /\ along.cost < Inf /\ d < Inf =>
          c \in Int /\ d \in Int /\ c + back.cost + 0 = 0 + along.cost + d
    BY <1>1, <2>2, <2>3
  <2> QED BY <2>1, <2>4, <2>5 DEF along, back, c, d
<1>9. ASSUME NEW v \in Vertex, NEW s \in NgIn[v]
      PROVE  LET at == NgToVertex("fw", s, v)
                 last == NgToVertex("bw", NgInit("bw"), Sink)
                 c == NgConcatCost(v, s, last.st)
             IN /\ at.cost \in Int /\ at.cost < Inf
                /\ \A a \in ArcsAt("fw", v) :
                     LET along == NgAlongArc("fw", at.st, a)
                     IN /\ along.cost \in Int
                        /\ along.cost < Inf => along.st \in NgIn[To[a]]
                /\ v = Sink =>
                     /\ c < Inf <=> at.cost < Inf
                     /\ c < Inf => c \in Int /\ c + last.cost = at.cost
  <2> DEFINE at == NgToVertex("fw", s, v)
             last == NgToVertex("bw", NgInit("bw"), Sink)
             c == NgConcatCost(v, s, last.st)
  <2>1. at.st = s \cup {v} /\ at.cost = 0 /\ last.cost = 0 /\ last.st = NgInit("bw") \cup {Sink}
    BY <1>2
  <2> HIDE DEF at, last
  <2>2. ASSUME NEW a \in ArcsAt("fw", v)
        PROVE  LET along == NgAlongArc("fw", at.st, a)
               IN /\ along.cost \in Int
                  /\ along.cost < Inf => along.st \in NgIn[To[a]]
    <3> DEFINE along == NgAlongArc("fw", s \cup {v}, a)
    <3>1. along.cost \in {0, Inf} /\ (along.cost < Inf => along.st \in NgIn[To[a]])
      BY <1>2, <1>5
    <3>2. NgAlongArc("fw", at.st, a) = along
      BY <2>1
    <3> HIDE DEF along
    <3> QED BY <1>1, <3>1, <3>2
  <2>3. v = Sink => c = 0
    BY <1>6, <2>1
  <2> HIDE DEF c
  <2>4. v = Sink =>
          /\ c < Inf <=> at.cost < Inf
          /\ c < Inf => c \in Int /\ c + last.cost = at.cost
    BY <2>1, <2>3
  <2>5. at.cost \in Int /\ at.cost < Inf
    BY <2>1
  <2> QED BY <2>2, <2>4, <2>5 DEF at, last, c
<1>10. ASSUME NEW a \in Arc, NEW x \in NgOut[To[a]]
       PROVE  LET back == NgAlongArc("bw", x, a)
                  here == NgToVertex("bw", back.st, From[a])
              IN /\ back.cost \in Int /\ here.cost \in Int
                 /\ back.cost < Inf /\ here.cost < Inf => here.st \in NgOut[From[a]]
  BY <1>1, <1>2, <1>4
<1>11. NgToVertex("bw", NgInit("bw"), Sink).cost = 0 /\ NgToVertex("fw", NgInit("fw"), Source).cost = 0
  BY <1>2
<1> QED BY <1>1, <1>3, <1>8, <1>9, <1>10, <1>11 DEF Cuttable

\* Nothing to cut.
LEMMA NoneCuts ==
  ASSUME 0 < Inf
  PROVE  Cuttable(Anywhere(NoState), Anywhere(NoState), NoInit, NoAlongArc, NoToVertex, NoConcatCost)
<1>1. /\ Inf \in Nat /\ Source \in Vertex /\ Sink \in Vertex
      /\ \A a \in Arc : From[a] \in Vertex /\ To[a] \in Vertex
      /\ \A v \in Vertex : ArcsAt("fw", v) \subseteq Arc
      /\ \A v \in Vertex : Anywhere(NoState)[v] = NoState
  BY ProblemAssumption DEF Anywhere, ArcsAt
<1> QED BY <1>1 DEF Cuttable, NoState, NoInit, NoAlongArc, NoToVertex, NoConcatCost
\* The library's resources may be cut anywhere, whatever the graph and their data:
\* windows must not be empty, and the vehicle must be able to leave the source.
THEOREM LibraryPacksCut ==
  ASSUME 0 < Inf
  PROVE  /\ (\A v \in Vertex : SrLb[v] <= SrUb[v]) =>
              Cuttable(Anywhere(Int), Anywhere(Int), SrInit, SrAlongArc, SrToVertex, SrConcatCost)
         /\ Pickup[Source] <= Q /\ Delivery[Source] <= Q =>
              Cuttable(Anywhere(PdIn), Anywhere(PdOut), PdInit, PdAlongArc, PdToVertex, PdConcatCost)
         /\ Cuttable(NgIn, NgOut, NgInit, NgAlongArc, NgToVertex, NgConcatCost)
         /\ Cuttable(Anywhere(NoState), Anywhere(NoState), NoInit, NoAlongArc, NoToVertex, NoConcatCost)
BY StandardCuts, PickupCuts, NgCuts, NoneCuts

-----------------------------------------------------------------------------
\* Two labels that may be joined may be replaced by ones that beat them, and joining
\* costs nothing before or after: by an earlier one and a later one ...
LEMMA StandardReplaces ==
  ASSUME 0 < Inf, NEW least \in Int, least <= 0
  PROVE  Replaceable(Int, SrAlongArc, SrDomCost, SrConcatCost, least)
<1>1. /\ Inf \in Nat /\ "bw" # "fw"
      /\ \A a \in Arc : Consumption[a] \in Int /\ From[a] \in Vertex /\ To[a] \in Vertex
  BY ProblemAssumption, StandardAssumption
<1>2. /\ \A a \in Arc : \A s \in Int : SrAlongArc("fw", s, a) = [st |-> s + Consumption[a], cost |-> 0]
      /\ \A v : \A s, t \in Int :
           /\ SrDomCost("fw", v, s, t) < Inf => s <= t /\ SrDomCost("fw", v, s, t) = 0
           /\ SrDomCost("bw", v, s, t) < Inf => t <= s /\ SrDomCost("bw", v, s, t) = 0
           /\ SrConcatCost(v, s, t) < Inf <=> s <= t
           /\ s <= t => SrConcatCost(v, s, t) = 0
  BY <1>1 DEF SrAlongArc, SrDomCost, SrConcatCost
<1> SUFFICES ASSUME NEW a \in Arc, NEW s \in Int, NEW t \in Int, NEW x \in Int, NEW y \in Int,
                    SrDomCost("fw", From[a], s, t) < Inf, SrDomCost("bw", To[a], x, y) < Inf,
                    SrConcatCost(To[a], SrAlongArc("fw", t, a).st, y) < Inf
             PROVE  /\ SrAlongArc("fw", s, a).cost = 0 /\ SrAlongArc("fw", t, a).cost = 0
                    /\ SrConcatCost(To[a], SrAlongArc("fw", s, a).st, x) = 0
                    /\ SrConcatCost(To[a], SrAlongArc("fw", t, a).st, y) = 0
                    /\ SrDomCost("fw", From[a], s, t) = 0 /\ SrDomCost("bw", To[a], x, y) = 0
  BY DEF Replaceable
<1>3. s <= t /\ y <= x /\ SrDomCost("fw", From[a], s, t) = 0 /\ SrDomCost("bw", To[a], x, y) = 0
  BY <1>2
<1>4. /\ SrAlongArc("fw", s, a) = [st |-> s + Consumption[a], cost |-> 0]
      /\ SrAlongArc("fw", t, a) = [st |-> t + Consumption[a], cost |-> 0]
  BY <1>2
<1>5. t + Consumption[a] <= y /\ s + Consumption[a] <= x
  BY <1>1, <1>2, <1>3, <1>4
<1> QED BY <1>1, <1>2, <1>3, <1>4, <1>5

\* ... less loaded ones ...
LEMMA PickupReplaces ==
  ASSUME 0 < Inf, NEW least \in Int, least <= 0
  PROVE  Replaceable(PdState, PdAlongArc, PdDomCost, PdConcatCost, least)
<1>1. Inf \in Nat /\ "bw" # "fw"
  BY ProblemAssumption
<1>2. /\ \A s, a : PdAlongArc("fw", s, a) = [st |-> s, cost |-> 0]
      /\ \A v : \A s, t \in PdState :
           /\ PdDomCost("fw", v, s, t) < Inf => s.P <= t.P /\ t.D <= s.D /\ PdDomCost("fw", v, s, t) = 0
           /\ PdDomCost("bw", v, s, t) < Inf => t.P <= s.P /\ s.D <= t.D /\ PdDomCost("bw", v, s, t) = 0
           /\ PdConcatCost(v, s, t) < Inf => s.P <= t.P /\ t.D <= s.D
           /\ s.P <= t.P /\ t.D <= s.D => PdConcatCost(v, s, t) = 0
  BY <1>1 DEF PdAlongArc, PdDomCost, PdConcatCost, PdState
<1> SUFFICES ASSUME NEW a \in Arc, NEW s \in PdState, NEW t \in PdState, NEW x \in PdState, NEW y \in PdState,
                    PdDomCost("fw", From[a], s, t) < Inf, PdDomCost("bw", To[a], x, y) < Inf,
                    PdConcatCost(To[a], t, y) < Inf
             PROVE  /\ PdConcatCost(To[a], s, x) = 0 /\ PdConcatCost(To[a], t, y) = 0
                    /\ PdDomCost("fw", From[a], s, t) = 0 /\ PdDomCost("bw", To[a], x, y) = 0
  BY <1>2 DEF Replaceable
<1>3. /\ s.P \in Int /\ s.D \in Int /\ t.P \in Int /\ t.D \in Int
      /\ x.P \in Int /\ x.D \in Int /\ y.P \in Int /\ y.D \in Int
  BY DEF PdState
<1>4. /\ s.P <= t.P /\ t.D <= s.D /\ y.P <= x.P /\ x.D <= y.D /\ t.P <= y.P /\ y.D <= t.D
      /\ PdDomCost("fw", From[a], s, t) = 0 /\ PdDomCost("bw", To[a], x, y) = 0
  BY <1>2
<1>5. s.P <= x.P /\ x.D <= s.D
  BY <1>3, <1>4
<1> QED BY <1>2, <1>4, <1>5

\* ... or ones that remember less.
LEMMA NgReplaces ==
  ASSUME 0 < Inf, NEW least \in Int, least <= 0
  PROVE  Replaceable(NgState, NgAlongArc, NgDomCost, NgConcatCost, least)
<1>1. Inf \in Nat /\ \A t \in NgState : \A a \in Arc : NgAlongArc("fw", t, a).st \in NgState
  BY ProblemAssumption, NgPersists DEF Closed, Dir
<1>2. /\ \A d, v, t, u : NgDomCost(d, v, t, u) < Inf => t \subseteq u /\ NgDomCost(d, v, t, u) = 0
      /\ \A v, t, u : NgConcatCost(v, t, u) < Inf => t \cap u = {} /\ NgConcatCost(v, t, u) = 0
      /\ \A v, t, u : t \cap u = {} => NgConcatCost(v, t, u) = 0
  BY <1>1 DEF NgDomCost, NgConcatCost
<1>3. ASSUME NEW t, NEW u, NEW a, t \subseteq u, NgAlongArc("fw", u, a).cost < Inf
      PROVE  /\ NgAlongArc("fw", u, a).cost = 0 /\ NgAlongArc("fw", t, a).cost = 0
             /\ NgAlongArc("fw", t, a).st \subseteq NgAlongArc("fw", u, a).st
  BY <1>1, <1>3 DEF NgAlongArc
<1> SUFFICES ASSUME NEW a \in Arc, NEW s \in NgState, NEW t \in NgState, NEW x \in NgState, NEW y \in NgState,
                    NgDomCost("fw", From[a], s, t) < Inf, NgDomCost("bw", To[a], x, y) < Inf,
                    NgAlongArc("fw", t, a).cost < Inf,
                    NgConcatCost(To[a], NgAlongArc("fw", t, a).st, y) < Inf
             PROVE  /\ NgAlongArc("fw", s, a).cost = 0 /\ NgAlongArc("fw", t, a).cost = 0
                    /\ NgConcatCost(To[a], NgAlongArc("fw", s, a).st, x) = 0
                    /\ NgConcatCost(To[a], NgAlongArc("fw", t, a).st, y) = 0
                    /\ NgDomCost("fw", From[a], s, t) = 0 /\ NgDomCost("bw", To[a], x, y) = 0
  BY <1>1 DEF Replaceable
<1>4. /\ s \subseteq t /\ x \subseteq y
      /\ NgDomCost("fw", From[a], s, t) = 0 /\ NgDomCost("bw", To[a], x, y) = 0
  BY <1>2
<1>5. /\ NgAlongArc("fw", t, a).cost = 0 /\ NgAlongArc("fw", s, a).cost = 0
      /\ NgAlongArc("fw", s, a).st \subseteq NgAlongArc("fw", t, a).st
  BY <1>3, <1>4
<1>6. /\ NgAlongArc("fw", t, a).st \cap y = {}
      /\ NgConcatCost(To[a], NgAlongArc("fw", t, a).st, y) = 0
  BY <1>2
<1>7. NgConcatCost(To[a], NgAlongArc("fw", s, a).st, x) = 0
  <2>1. NgAlongArc("fw", s, a).st \cap x = {}
    BY <1>4, <1>5, <1>6
  <2> QED BY <1>2, <2>1
<1> QED BY <1>4, <1>5, <1>6, <1>7

\* So the hypotheses on packs of backward-first labeling are true of these resources.
THEOREM LibraryPacksReplace ==
  ASSUME 0 < Inf, NEW least \in Int, least <= 0
  PROVE  /\ Replaceable(Int, SrAlongArc, SrDomCost, SrConcatCost, least)
         /\ Replaceable(PdState, PdAlongArc, PdDomCost, PdConcatCost, least)
         /\ Replaceable(NgState, NgAlongArc, NgDomCost, NgConcatCost, least)
BY StandardReplaces, PickupReplaces, NgReplaces
=============================================================================
