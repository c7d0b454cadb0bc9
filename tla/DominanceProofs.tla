-------------------------- MODULE DominanceProofs --------------------------
(***************************************************************************)
(* Dominance is safe, on any graph and for labels of any length, if the     *)
(* pack's comparison persists: what it allows now it allows after any       *)
(* common extension, and the label that lost gains nothing on the way that  *)
(* the penalty did not cover.  Concatenation may cut a path anywhere, if    *)
(* the pack lets one arc change sides.  Which of the library's resources do *)
(* is the subject of module PackProofs.                                    *)
(*                                                                         *)
(* The second half is about the labels of one bucket: inserted in batches    *)
(* of any size, none is lost, and the same ones are left as if they had      *)
(* been inserted one by one.                                               *)
(***************************************************************************)
EXTENDS Twins, Splits, BatchInsert, PackLaws, BucketGridProofs

-----------------------------------------------------------------------------
Label(State) == [v : Vertex, q : [Res -> Int], cost : Int, st : State]

\* The pack has states State, and its comparison persists.
Pack(State) ==
  /\ Closed(State, InitState, AlongArc, ToVertex, DomCost)
  /\ Persists(State, AlongArc, ToVertex, DomCost)

\* Two labels that go together: the one that won is no worse in anything that
\* the rest of the way may ask for.
StaysAhead(State) ==
  /\ dir \in Dir /\ won \in Label(State) /\ lost \in Label(State)
  /\ together \in BOOLEAN
  /\ stuck => together
  /\ together =>
       /\ ~stuck /\ won.v = lost.v
       /\ AtLeastAsGood(dir, won.q, lost.q)
       /\ DomCost(dir, won.v, won.st, lost.st) < Inf
       /\ won.cost + DomCost(dir, won.v, won.st, lost.st) <= lost.cost

\* The main resources persist in the same way.
LEMMA AdvancePersists ==
  ASSUME NEW d \in Dir, NEW p \in [Res -> Int], NEW q \in [Res -> Int], NEW a \in Arc,
         AtLeastAsGood(d, p, q)
  PROVE  /\ AtLeastAsGood(d, Advance(d, p, a), Advance(d, q, a))
         /\ InWindow(d, Ahead(d, a), Advance(d, q, a)) => InWindow(d, Ahead(d, a), Advance(d, p, a))
<1>1. ASSUME NEW r \in Res
      PROVE  /\ Use[a][r] \in Int /\ Lb[To[a]][r] \in Int /\ Ub[From[a]][r] \in Int
             /\ Ub[Ahead(d, a)][r] \in Int /\ Lb[Ahead(d, a)][r] \in Int
             /\ p[r] \in Int /\ q[r] \in Int
  BY ProblemAssumption DEF Ahead
<1>2. AtLeastAsGood(d, Advance(d, p, a), Advance(d, q, a))
  BY <1>1 DEF AtLeastAsGood, Advance, Larger, Smaller
<1>3. \A r \in Res : Advance(d, p, a)[r] \in Int /\ Advance(d, q, a)[r] \in Int
  BY AdvanceType
<1>4. InWindow(d, Ahead(d, a), Advance(d, q, a)) => InWindow(d, Ahead(d, a), Advance(d, p, a))
  BY <1>1, <1>2, <1>3 DEF AtLeastAsGood, InWindow
<1> QED BY <1>2, <1>4

LEMMA TakenType ==
  ASSUME NEW State, Pack(State), NEW d \in Dir, NEW n \in Label(State), NEW a \in Arc
  PROVE  Taken(d, n, a) \in Label(State)
<1> DEFINE along == AlongArc(d, n.st, a)
           at == ToVertex(d, along.st, Ahead(d, a))
<1>1. n.st \in State /\ n.cost \in Int /\ n.q \in [Res -> Int] /\ Ahead(d, a) \in Vertex
      /\ BaseCost[a] \in Int
  BY ProblemAssumption DEF Label, Ahead
<1>2. along.st \in State /\ along.cost \in Int
  BY <1>1 DEF Pack, Closed
<1>3. at.st \in State /\ at.cost \in Int
  BY <1>1, <1>2 DEF Pack, Closed
<1> HIDE DEF along, at
<1>4. /\ Advance(d, n.q, a) \in [Res -> Int]
      /\ n.cost + BaseCost[a] + along.cost + at.cost \in Int
  BY <1>1, <1>2, <1>3, AdvanceType
<1>5. Taken(d, n, a) = [v |-> Ahead(d, a), q |-> Advance(d, n.q, a),
                        cost |-> n.cost + BaseCost[a] + along.cost + at.cost, st |-> at.st]
  BY DEF Taken, along, at
<1> QED BY <1>1, <1>3, <1>4, <1>5 DEF Label

LEMMA InitAhead ==
  ASSUME NEW State, Pack(State), Init
  PROVE  StaysAhead(State)
<1>1. ASSUME NEW d \in Dir
      PROVE  Start(d) \in Label(State)
  <2>1. Origin(d) \in Vertex /\ Lb[Source] \in [Res -> Int] /\ Ub[Sink] \in [Res -> Int]
    BY ProblemAssumption DEF Origin
  <2>2. InitState(d) \in State
    BY DEF Pack, Closed
  <2>3. /\ ToVertex(d, InitState(d), Origin(d)).st \in State
        /\ ToVertex(d, InitState(d), Origin(d)).cost \in Int
    BY <2>1, <2>2 DEF Pack, Closed
  <2> QED BY <2>1, <2>3 DEF Start, Label
<1> QED BY <1>1 DEF Init, StaysAhead

\* Where the label that lost can go, the one that won can go as well.
LEMMA FollowStaysAhead ==
  ASSUME NEW State, Pack(State), StaysAhead(State), NEW a \in Arc, Follow(a)
  PROVE  StaysAhead(State)'
<1>1. /\ dir \in Dir /\ won \in Label(State) /\ lost \in Label(State) /\ won.v = lost.v
      /\ AtLeastAsGood(dir, won.q, lost.q)
      /\ DomCost(dir, won.v, won.st, lost.st) < Inf
      /\ won.cost + DomCost(dir, won.v, won.st, lost.st) <= lost.cost
      /\ together /\ ~stuck /\ CanTake(dir, lost, a)
  BY DEF StaysAhead, Follow
<1> DEFINE w == Ahead(dir, a)
           s1 == AlongArc(dir, won.st, a)
           t1 == AlongArc(dir, lost.st, a)
           s2 == ToVertex(dir, s1.st, w)
           t2 == ToVertex(dir, t1.st, w)
           d1 == DomCost(dir, won.v, won.st, lost.st)
           d2 == DomCost(dir, w, s2.st, t2.st)
<1>2. /\ won.st \in State /\ lost.st \in State /\ won.v \in Vertex /\ w \in Vertex
      /\ won.cost \in Int /\ lost.cost \in Int
      /\ won.q \in [Res -> Int] /\ lost.q \in [Res -> Int] /\ BaseCost[a] \in Int
  BY <1>1, ProblemAssumption DEF Label, Ahead
<1>3. s1.st \in State /\ s1.cost \in Int /\ t1.st \in State /\ t1.cost \in Int
  BY <1>1, <1>2 DEF Pack, Closed
<1>4. s2.st \in State /\ s2.cost \in Int /\ t2.st \in State /\ t2.cost \in Int
  BY <1>1, <1>2, <1>3 DEF Pack, Closed
<1>5. d1 \in Int /\ d2 \in Int
  BY <1>1, <1>2, <1>4 DEF Pack, Closed
<1>6. a \in ArcsAt(dir, won.v) /\ t1.cost < Inf /\ t2.cost < Inf
      /\ InWindow(dir, w, Advance(dir, lost.q, a))
  BY <1>1 DEF CanTake, ArcsAt
<1>7. /\ s1.cost < Inf /\ s2.cost < Inf /\ d2 < Inf
      /\ s1.cost + s2.cost + d2 <= t1.cost + t2.cost + d1
  BY <1>1, <1>2, <1>6 DEF Pack, Persists
<1>8. /\ AtLeastAsGood(dir, Advance(dir, won.q, a), Advance(dir, lost.q, a))
      /\ InWindow(dir, w, Advance(dir, won.q, a))
  BY <1>1, <1>2, <1>6, AdvancePersists
<1>9. CanTake(dir, won, a)
  BY <1>1, <1>7, <1>8 DEF CanTake
<1>10. /\ won' = Taken(dir, won, a) /\ lost' = Taken(dir, lost, a)
       /\ UNCHANGED <<dir, together, stuck>>
  BY <1>9 DEF Follow
<1>11. /\ won'.v = w /\ won'.q = Advance(dir, won.q, a) /\ won'.st = s2.st
       /\ won'.cost = won.cost + BaseCost[a] + s1.cost + s2.cost
       /\ lost'.v = w /\ lost'.q = Advance(dir, lost.q, a) /\ lost'.st = t2.st
       /\ lost'.cost = lost.cost + BaseCost[a] + t1.cost + t2.cost
  BY <1>10 DEF Taken
<1>12. won' \in Label(State) /\ lost' \in Label(State)
  BY <1>1, <1>10, TakenType
<1>13. DomCost(dir, won'.v, won'.st, lost'.st) = d2
  BY <1>11
<1> HIDE DEF w, s1, t1, s2, t2, d1, d2
<1>14. won.cost + d1 <= lost.cost
  BY <1>1 DEF d1
<1>15. won'.cost + d2 <= lost'.cost
  BY <1>2, <1>3, <1>4, <1>5, <1>7, <1>11, <1>14
<1> QED BY <1>1, <1>7, <1>8, <1>10, <1>11, <1>12, <1>13, <1>15 DEF StaysAhead

LEMMA StepAhead ==
  ASSUME NEW State, Pack(State), StaysAhead(State), [Next]_twins
  PROVE  StaysAhead(State)'
<1>1. ASSUME NEW a \in Arc, WonAlone(a) \/ LostAlone(a)
      PROVE  StaysAhead(State)'
  <2>1. Taken(dir, won, a) \in Label(State) /\ Taken(dir, lost, a) \in Label(State)
    BY TakenType DEF StaysAhead
  <2> QED BY <1>1, <2>1 DEF WonAlone, LostAlone, StaysAhead
<1>2. CASE Compare
  BY <1>2 DEF Compare, Beats, StaysAhead
<1>3. ASSUME NEW a \in Arc, Follow(a)
      PROVE  StaysAhead(State)'
  BY <1>3, FollowStaysAhead
<1>4. CASE UNCHANGED twins
  BY <1>4 DEF twins, StaysAhead
<1> QED BY <1>1, <1>2, <1>3, <1>4 DEF Next

\* A label that another one dominates may be thrown away: with a pack whose
\* comparison persists, the other one can go wherever it could have gone, for as
\* long as the path may be, and ends at no more cost.  dominates() asks for
\* nothing else.
THEOREM DominanceLosesNothing ==
  ASSUME NEW CONSTANT State, Pack(State)
  PROVE  Spec => []DominanceIsSafe
<1>1. Init => StaysAhead(State)
  BY InitAhead
<1>2. StaysAhead(State) /\ [Next]_twins => StaysAhead(State)'
  BY StepAhead
<1>3. StaysAhead(State) => DominanceIsSafe
  <2> SUFFICES ASSUME StaysAhead(State), together
               PROVE  ~stuck /\ won.cost <= lost.cost
    BY DEF DominanceIsSafe
  <2> DEFINE d1 == DomCost(dir, won.v, won.st, lost.st)
  <2>1. /\ won.st \in State /\ lost.st \in State /\ won.v \in Vertex /\ dir \in Dir
        /\ won.cost \in Int /\ lost.cost \in Int
    BY DEF StaysAhead, Label
  <2>2. d1 < Inf /\ won.cost + d1 <= lost.cost /\ ~stuck
    BY DEF StaysAhead
  <2>3. d1 \in Int /\ 0 <= d1
    BY <2>1, <2>2 DEF Pack, Closed, Persists
  <2> HIDE DEF d1
  <2> QED BY <2>1, <2>2, <2>3
<1> QED BY <1>1, <1>2, <1>3, PTL DEF Spec

-----------------------------------------------------------------------------
(***************************************************************************)
(* Concatenation, on any graph and for walks of any length: a pack that     *)
(* lets one arc move from the backward to the forward half lets the cut be   *)
(* anywhere.                                                               *)
(***************************************************************************)

\* A pack whose states are In[v] where forward labels arrive at v, and Out[v]
\* where backward labels are.
PackCuttable(In, Out) ==
  Cuttable(In, Out, InitState, AlongArc, ToVertex, ConcatCost)

Place(n) == n.v \in Vertex /\ n.q \in [Res -> Int] /\ n.cost \in Int

\* A forward label, and the state with which it arrived.
Forward(In, n) ==
  /\ Place(n) /\ \A r \in Res : Lb[n.v][r] <= n.q[r] /\ n.q[r] <= Ub[n.v][r]
  /\ \E s \in In[n.v] : /\ ToVertex("fw", s, n.v).st = n.st
                        /\ ToVertex("fw", s, n.v).cost < Inf

\* A backward label.
Backward(Out, n) ==
  /\ Place(n) /\ \A r \in Res : Lb[n.v][r] <= n.q[r] /\ n.q[r] <= Ub[n.v][r]
  /\ n.st \in Out[n.v]

\* Windows have a lower and an upper end.
LEMMA Windows ==
  /\ Res \subseteq Int
  /\ \A v \in Vertex : \A r \in Res : Lb[v][r] \in Int /\ Ub[v][r] \in Int /\ Lb[v][r] <= Ub[v][r]
  /\ \A a \in Arc : From[a] \in Vertex /\ To[a] \in Vertex /\ BaseCost[a] \in Int
  /\ \A a \in Arc : \A r \in Res : Use[a][r] \in Int
<1>1. Res \subseteq Int
  BY DEF Res
<1>2. ASSUME NEW v \in Vertex, NEW r \in Res
      PROVE  Lb[v][r] \in Int /\ Ub[v][r] \in Int /\ Lb[v][r] <= Ub[v][r]
  <2>1. Lb[v] \in [Res -> Int] /\ Ub[v] \in [Res -> Int]
    BY ProblemAssumption
  <2>2. Lb[v][r] <= Ub[v][r]
    BY ProblemAssumption
  <2> QED BY <2>1, <2>2
<1>3. ASSUME NEW a \in Arc
      PROVE  From[a] \in Vertex /\ To[a] \in Vertex /\ BaseCost[a] \in Int
  BY ProblemAssumption
<1>4. ASSUME NEW a \in Arc, NEW r \in Res PROVE Use[a][r] \in Int
  <2>1. Use[a] \in [Res -> Int]
    BY ProblemAssumption
  <2> QED BY <2>1
<1> QED BY <1>1, <1>2, <1>3, <1>4

\* An arc may be added to either half; the resources of the halves fit before if
\* and only if they fit after.
LEMMA WindowsCut ==
  ASSUME NEW v \in Vertex, NEW p \in [Res -> Int], NEW q \in [Res -> Int], NEW a \in ArcsAt("fw", v),
         \A r \in Res : Lb[v][r] <= p[r], \A r \in Res : Lb[To[a]][r] <= q[r] /\ q[r] <= Ub[To[a]][r]
  PROVE  LET back == Advance("bw", q, a)
         IN (InWindow("bw", v, back) /\ AtLeastAsGood("fw", p, back))
              <=> (InWindow("fw", v, p) /\ AtLeastAsGood("fw", Advance("fw", p, a), q))
<1>1. a \in Arc /\ From[a] = v
  BY DEF ArcsAt, Behind
<1>2. \A r \in Res : /\ p[r] \in Int /\ q[r] \in Int /\ Use[a][r] \in Int
                     /\ Lb[v][r] \in Int /\ Ub[v][r] \in Int /\ Lb[To[a]][r] \in Int
                     /\ Ub[To[a]][r] \in Int
  BY <1>1, Windows
<1>3. \A r \in Res :
        /\ Advance("bw", q, a)[r] = Smaller(q[r] - Use[a][r], Ub[v][r])
        /\ Advance("fw", p, a)[r] = Larger(p[r] + Use[a][r], Lb[To[a]][r])
  BY <1>1 DEF Advance
<1>4. \A r \in Res :
        (Advance("bw", q, a)[r] >= Lb[v][r] /\ p[r] <= Advance("bw", q, a)[r])
          <=> (p[r] <= Ub[v][r] /\ Advance("fw", p, a)[r] <= q[r])
  BY <1>2, <1>3 DEF Smaller, Larger
<1> QED BY <1>4 DEF InWindow, AtLeastAsGood

\* The first labels.
LEMMA StartsAreSound ==
  ASSUME NEW In, NEW Out, PackCuttable(In, Out)
  PROVE  /\ Forward(In, Start("fw")) /\ Start("fw").v = Source
         /\ Backward(Out, Start("bw")) /\ Start("bw").v = Sink
<1>1. /\ Source \in Vertex /\ Sink \in Vertex
      /\ Lb[Source] \in [Res -> Int] /\ Ub[Sink] \in [Res -> Int]
      /\ \A r \in Res : Lb[Source][r] <= Lb[Source][r] /\ Lb[Source][r] <= Ub[Source][r]
      /\ \A r \in Res : Lb[Sink][r] <= Ub[Sink][r] /\ Ub[Sink][r] <= Ub[Sink][r]
  <2>1. Source \in Vertex /\ Sink \in Vertex
    BY ProblemAssumption
  <2>2. Lb[Source] \in [Res -> Int] /\ Ub[Sink] \in [Res -> Int]
    BY <2>1, ProblemAssumption
  <2> QED BY <2>1, <2>2, Windows
<1>2. /\ InitState("fw") \in In[Source] /\ ToVertex("fw", InitState("fw"), Source).cost \in Int
      /\ ToVertex("fw", InitState("fw"), Source).cost < Inf
      /\ ToVertex("bw", InitState("bw"), Sink).st \in Out[Sink]
      /\ ToVertex("bw", InitState("bw"), Sink).cost \in Int
  BY DEF PackCuttable, Cuttable
<1>3. /\ Start("fw") = [v |-> Source, q |-> Lb[Source],
                        cost |-> ToVertex("fw", InitState("fw"), Source).cost,
                        st |-> ToVertex("fw", InitState("fw"), Source).st]
      /\ Start("bw") = [v |-> Sink, q |-> Ub[Sink],
                        cost |-> ToVertex("bw", InitState("bw"), Sink).cost,
                        st |-> ToVertex("bw", InitState("bw"), Sink).st]
  BY DEF Start, Origin
<1>4. Forward(In, Start("fw"))
  BY <1>1, <1>2, <1>3 DEF Forward, Place
<1>5. Backward(Out, Start("bw"))
  BY <1>1, <1>2, <1>3 DEF Backward, Place
<1> QED BY <1>3, <1>4, <1>5

\* Each direction leads to sound labels.
LEMMA TakenForward ==
  ASSUME NEW In, NEW Out, PackCuttable(In, Out),
         NEW f, Forward(In, f), NEW a \in Arc, From[a] = f.v, AlongArc("fw", f.st, a).cost < Inf
  PROVE  LET s == AlongArc("fw", f.st, a).st
             at == ToVertex("fw", s, To[a])
         IN /\ s \in In[To[a]] /\ at.cost \in Int /\ AlongArc("fw", f.st, a).cost \in Int
            /\ CanTake("fw", f, a) <=> /\ InWindow("fw", To[a], Advance("fw", f.q, a))
                                       /\ at.cost < Inf
            /\ Taken("fw", f, a).v = To[a] /\ Taken("fw", f, a).q = Advance("fw", f.q, a)
            /\ Taken("fw", f, a).st = at.st
            /\ Taken("fw", f, a).cost = f.cost + BaseCost[a] + AlongArc("fw", f.st, a).cost + at.cost
            /\ CanTake("fw", f, a) => Forward(In, Taken("fw", f, a))
<1> DEFINE along == AlongArc("fw", f.st, a)
           at == ToVertex("fw", along.st, To[a])
           q == Advance("fw", f.q, a)
<1>1. PICK y \in In[f.v] : ToVertex("fw", y, f.v).st = f.st /\ ToVertex("fw", y, f.v).cost < Inf
  BY DEF Forward
<1>2. f.v \in Vertex /\ a \in ArcsAt("fw", f.v) /\ To[a] \in Vertex
  BY Windows DEF Forward, Place, ArcsAt, Behind
<1>3. along.cost \in Int /\ along.st \in In[To[a]]
  BY <1>1, <1>2 DEF PackCuttable, Cuttable
<1>4. at.cost \in Int
  BY <1>2, <1>3 DEF PackCuttable, Cuttable
<1>5. CanTake("fw", f, a) <=> InWindow("fw", To[a], q) /\ at.cost < Inf
  BY DEF CanTake, Ahead, Behind
<1>6. Taken("fw", f, a) = [v |-> To[a], q |-> q, cost |-> f.cost + BaseCost[a] + along.cost + at.cost,
                           st |-> at.st]
  BY DEF Taken, Ahead
<1>7. ASSUME CanTake("fw", f, a)
      PROVE  Forward(In, Taken("fw", f, a))
  <2>1. f.q \in [Res -> Int] /\ f.cost \in Int /\ BaseCost[a] \in Int
    BY Windows DEF Forward, Place
  <2>2. q \in [Res -> Int]
    BY <2>1, AdvanceType DEF Dir
  <2>3. \A r \in Res : Lb[To[a]][r] <= q[r] /\ q[r] <= Ub[To[a]][r]
    <3>1. \A r \in Res : /\ f.q[r] \in Int /\ Use[a][r] \in Int /\ Lb[To[a]][r] \in Int
                         /\ q[r] = Larger(f.q[r] + Use[a][r], Lb[To[a]][r])
      BY <1>2, <2>1, Windows DEF Advance
    <3>2. \A r \in Res : q[r] <= Ub[To[a]][r]
      BY <1>5, <1>7 DEF InWindow
    <3> HIDE DEF q
    <3> QED BY <3>1, <3>2 DEF Larger
  <2>4. f.cost + BaseCost[a] + along.cost + at.cost \in Int
    <3> HIDE DEF along, at
    <3> QED BY <1>3, <1>4, <2>1
  <2> HIDE DEF along, q
  <2> QED BY <1>2, <1>3, <1>5, <1>6, <1>7, <2>2, <2>3, <2>4 DEF Forward, Place, at
<1> HIDE DEF along, at, q
<1> QED BY <1>3, <1>4, <1>5, <1>6, <1>7 DEF along, at, q

LEMMA TakenBackward ==
  ASSUME NEW In, NEW Out, PackCuttable(In, Out),
         NEW g, Backward(Out, g), NEW a \in Arc, To[a] = g.v,
         CanTake("bw", g, a)
  PROVE  Backward(Out, Taken("bw", g, a))
<1> DEFINE back == AlongArc("bw", g.st, a)
           here == ToVertex("bw", back.st, From[a])
           q == Advance("bw", g.q, a)
<1>1. /\ g.st \in Out[To[a]] /\ g.q \in [Res -> Int] /\ g.cost \in Int
      /\ BaseCost[a] \in Int /\ From[a] \in Vertex /\ a \in ArcsAt("fw", From[a])
  BY Windows DEF Backward, Place, ArcsAt, Behind
<1>2. /\ InWindow("bw", From[a], q) /\ back.cost < Inf /\ here.cost < Inf
  BY DEF CanTake, Ahead
<1>3. back.cost \in Int /\ here.cost \in Int /\ here.st \in Out[From[a]]
  BY <1>1, <1>2 DEF PackCuttable, Cuttable
<1>4. q \in [Res -> Int]
  BY <1>1, AdvanceType DEF Dir
<1>5. \A r \in Res : Lb[From[a]][r] <= q[r] /\ q[r] <= Ub[From[a]][r]
  <2>1. \A r \in Res : /\ g.q[r] \in Int /\ Use[a][r] \in Int /\ Ub[From[a]][r] \in Int
                       /\ Lb[From[a]][r] \in Int
                       /\ q[r] = Smaller(g.q[r] - Use[a][r], Ub[From[a]][r])
    BY <1>1, Windows DEF Advance
  <2>2. \A r \in Res : q[r] >= Lb[From[a]][r]
    BY <1>2 DEF InWindow
  <2>3. \A r \in Res : q[r] \in Int
    BY <1>4
  <2> HIDE DEF q
  <2> QED BY <2>1, <2>2, <2>3 DEF Smaller
<1>6. Taken("bw", g, a) = [v |-> From[a], q |-> q, cost |-> g.cost + BaseCost[a] + back.cost + here.cost,
                           st |-> here.st]
  BY DEF Taken, Ahead
<1>7. g.cost + BaseCost[a] + back.cost + here.cost \in Int
  <2> HIDE DEF back, here
  <2> QED BY <1>1, <1>3
<1> HIDE DEF back, here, q
<1> QED BY <1>1, <1>3, <1>4, <1>5, <1>6, <1>7 DEF Backward, Place

\* The cut moves by one arc.
LEMMA CutMoves ==
  ASSUME NEW In, NEW Out, PackCuttable(In, Out),
         NEW f, Forward(In, f), NEW b \in Arc, From[b] = f.v,
         NEW g, Backward(Out, g), NEW a \in Arc, From[a] = To[b], To[a] = g.v
  PROVE  LET f2 == Taken("fw", f, b)
             g2 == Taken("bw", g, a)
         IN /\ (CanTake("bw", g, a) /\ CanJoin(f, b, g2)) <=> (CanTake("fw", f, b) /\ CanJoin(f2, a, g))
            /\ CanTake("fw", f, b) /\ CanJoin(f2, a, g) => Joined(f, b, g2) = Joined(f2, a, g)
<1> DEFINE v == To[b]
           first == AlongArc("fw", f.st, b)
           s == first.st
           at == ToVertex("fw", s, v)
           along == AlongArc("fw", at.st, a)
           back == AlongArc("bw", g.st, a)
           here == ToVertex("bw", back.st, v)
           c == ConcatCost(v, s, here.st)
           e == ConcatCost(To[a], along.st, g.st)
           f2 == Taken("fw", f, b)
           g2 == Taken("bw", g, a)
           p == Advance("fw", f.q, b)
           q == Advance("bw", g.q, a)
<1>1. CASE first.cost < Inf
  <2>1. /\ s \in In[v] /\ at.cost \in Int /\ first.cost \in Int
        /\ CanTake("fw", f, b) <=> InWindow("fw", v, p) /\ at.cost < Inf
        /\ f2.q = p /\ f2.st = at.st /\ f2.cost = f.cost + BaseCost[b] + first.cost + at.cost
    BY <1>1, TakenForward
  <2>2. /\ CanTake("bw", g, a) <=> /\ InWindow("bw", v, q) /\ back.cost < Inf /\ here.cost < Inf
        /\ g2.q = q /\ g2.st = here.st /\ g2.cost = g.cost + BaseCost[a] + back.cost + here.cost
    BY DEF CanTake, Taken, Ahead, Behind
  <2>3. /\ CanJoin(f, b, g2) <=> AtLeastAsGood("fw", p, q) /\ c < Inf
        /\ Joined(f, b, g2) = f.cost + BaseCost[b] + g2.cost + first.cost + c
    BY <1>1, <2>2 DEF CanJoin, Joined
  <2>4. /\ CanJoin(f2, a, g) <=> /\ AtLeastAsGood("fw", Advance("fw", p, a), g.q)
                                 /\ along.cost < Inf /\ e < Inf
        /\ Joined(f2, a, g) = f2.cost + BaseCost[a] + g.cost + along.cost + e
    BY <2>1 DEF CanJoin, Joined
  <2>5. v \in Vertex /\ a \in ArcsAt("fw", v) /\ g.st \in Out[To[a]]
    BY Windows DEF Backward, ArcsAt, Behind
  <2>12. back.cost \in Int /\ here.cost \in Int
    BY <2>5, Windows DEF PackCuttable, Cuttable
  <2>6. /\ back.cost < Inf /\ here.cost < Inf /\ c < Inf
             <=> at.cost < Inf /\ along.cost < Inf /\ e < Inf
        /\ at.cost < Inf /\ along.cost < Inf /\ e < Inf =>
             /\ c \in Int /\ e \in Int
             /\ c + back.cost + here.cost = at.cost + along.cost + e
    BY <2>1, <2>5 DEF PackCuttable, Cuttable
  <2>7. at.cost < Inf => along.cost \in Int
    BY <2>1, <2>5 DEF PackCuttable, Cuttable
  <2>8. InWindow("bw", v, q) /\ AtLeastAsGood("fw", p, q)
          <=> InWindow("fw", v, p) /\ AtLeastAsGood("fw", Advance("fw", p, a), g.q)
    <3>1. f.q \in [Res -> Int] /\ g.q \in [Res -> Int]
      BY DEF Forward, Backward, Place
    <3>2. p \in [Res -> Int]
      BY <3>1, AdvanceType DEF Dir
    <3>3. \A r \in Res : Lb[v][r] <= p[r]
      <4>1. \A r \in Res : /\ f.q[r] \in Int /\ Use[b][r] \in Int /\ Lb[v][r] \in Int
                           /\ p[r] = Larger(f.q[r] + Use[b][r], Lb[v][r])
        BY <2>5, <3>1, Windows DEF Advance
      <4> HIDE DEF p, v
      <4> QED BY <4>1 DEF Larger
    <3>4. \A r \in Res : Lb[To[a]][r] <= g.q[r] /\ g.q[r] <= Ub[To[a]][r]
      BY DEF Backward
    <3> HIDE DEF p, v
    <3> QED BY <2>5, <3>1, <3>2, <3>3, <3>4, WindowsCut DEF v
  <2>9. f.cost \in Int /\ g.cost \in Int /\ BaseCost[a] \in Int /\ BaseCost[b] \in Int
    BY Windows DEF Forward, Backward, Place
  <2> HIDE DEF v, first, s, at, along, back, here, c, e, f2, g2, p, q
  <2>10. (CanTake("bw", g, a) /\ CanJoin(f, b, g2)) <=> (CanTake("fw", f, b) /\ CanJoin(f2, a, g))
    BY <2>1, <2>2, <2>3, <2>4, <2>6, <2>8
  <2>11. CanTake("fw", f, b) /\ CanJoin(f2, a, g) => Joined(f, b, g2) = Joined(f2, a, g)
    <3> SUFFICES ASSUME CanTake("fw", f, b), CanJoin(f2, a, g)
                 PROVE  Joined(f, b, g2) = Joined(f2, a, g)
      OBVIOUS
    <3>1. at.cost < Inf /\ along.cost < Inf /\ e < Inf
      BY <2>1, <2>4
    <3>2. /\ c \in Int /\ e \in Int /\ along.cost \in Int
          /\ c + back.cost + here.cost = at.cost + along.cost + e
      BY <2>6, <2>7, <3>1
    <3>3. /\ Joined(f, b, g2) = f.cost + BaseCost[b] + (g.cost + BaseCost[a] + back.cost + here.cost)
                                   + first.cost + c
          /\ Joined(f2, a, g) = (f.cost + BaseCost[b] + first.cost + at.cost) + BaseCost[a] + g.cost
                                   + along.cost + e
      BY <2>1, <2>2, <2>3, <2>4
    <3>4. first.cost \in Int /\ at.cost \in Int /\ back.cost \in Int /\ here.cost \in Int
      BY <2>1, <2>12
    <3> QED BY <2>9, <3>2, <3>3, <3>4
  <2> QED BY <2>10, <2>11 DEF f2, g2
<1>2. CASE ~(first.cost < Inf)
  <2>1. ~CanTake("fw", f, b) /\ ~CanJoin(f, b, g2)
    BY <1>2 DEF CanTake, CanJoin
  <2> QED BY <2>1
<1> QED BY <1>1, <1>2

\* At the source the backward half may take the whole path.
LEMMA CutAtSource ==
  ASSUME NEW In, NEW Out, PackCuttable(In, Out),
         NEW g, Backward(Out, g), NEW a \in Arc, From[a] = Source, To[a] = g.v,
         CanJoin(Start("fw"), a, g)
  PROVE  CanTake("bw", g, a)
<1> DEFINE s == InitState("fw")
           at == ToVertex("fw", s, Source)
           along == AlongArc("fw", at.st, a)
           back == AlongArc("bw", g.st, a)
           here == ToVertex("bw", back.st, Source)
           p == Lb[Source]
           q == Advance("bw", g.q, a)
<1>1. Source \in Vertex /\ a \in ArcsAt("fw", Source) /\ g.st \in Out[To[a]]
  BY ProblemAssumption DEF Backward, ArcsAt, Behind
<1>2. s \in In[Source] /\ at.cost < Inf
  BY DEF PackCuttable, Cuttable
<1>3. Start("fw").q = p /\ Start("fw").st = at.st
  BY DEF Start, Origin
<1>4. /\ AtLeastAsGood("fw", Advance("fw", p, a), g.q) /\ along.cost < Inf
      /\ ConcatCost(To[a], along.st, g.st) < Inf
  BY <1>3 DEF CanJoin
<1>5. back.cost < Inf /\ here.cost < Inf
  BY <1>1, <1>2, <1>4 DEF PackCuttable, Cuttable
<1>6. InWindow("bw", Source, q)
  <2>1. p \in [Res -> Int] /\ g.q \in [Res -> Int]
    BY ProblemAssumption DEF Backward, Place
  <2>2. \A r \in Res : Lb[Source][r] <= p[r] /\ p[r] <= Ub[Source][r]
    BY <1>1, Windows
  <2>3. \A r \in Res : Lb[To[a]][r] <= g.q[r] /\ g.q[r] <= Ub[To[a]][r]
    BY DEF Backward
  <2>4. InWindow("fw", Source, p)
    BY <2>2 DEF InWindow
  <2> HIDE DEF p
  <2> QED BY <1>1, <1>4, <2>1, <2>2, <2>3, <2>4, WindowsCut
<1> QED BY <1>5, <1>6 DEF CanTake, Ahead, Behind

\* Joined with nothing but the sink, a forward label is what it is at the sink.
LEMMA CutAtSink ==
  ASSUME NEW In, NEW Out, PackCuttable(In, Out),
         NEW f, Forward(In, f), NEW b \in Arc, From[b] = f.v, To[b] = Sink
  PROVE  /\ CanJoin(f, b, Start("bw")) <=> CanTake("fw", f, b)
         /\ CanTake("fw", f, b) => Joined(f, b, Start("bw")) = Taken("fw", f, b).cost
<1> DEFINE first == AlongArc("fw", f.st, b)
           s == first.st
           at == ToVertex("fw", s, Sink)
           last == ToVertex("bw", InitState("bw"), Sink)
           c == ConcatCost(Sink, s, last.st)
           g == Start("bw")
           p == Advance("fw", f.q, b)
<1>1. g.q = Ub[Sink] /\ g.cost = last.cost /\ g.st = last.st
  BY DEF Start, Origin
<1>2. CASE first.cost < Inf
  <2>1. /\ s \in In[Sink] /\ at.cost \in Int /\ first.cost \in Int
        /\ CanTake("fw", f, b) <=> InWindow("fw", Sink, p) /\ at.cost < Inf
        /\ Taken("fw", f, b).cost = f.cost + BaseCost[b] + first.cost + at.cost
    BY <1>2, TakenForward
  <2>2. /\ CanJoin(f, b, g) <=> AtLeastAsGood("fw", p, Ub[Sink]) /\ c < Inf
        /\ Joined(f, b, g) = f.cost + BaseCost[b] + last.cost + first.cost + c
    BY <1>1, <1>2 DEF CanJoin, Joined
  <2>3. Sink \in Vertex /\ last.cost \in Int
    BY ProblemAssumption DEF PackCuttable, Cuttable
  <2>4. (c < Inf <=> at.cost < Inf) /\ (c < Inf => c \in Int /\ c + last.cost = at.cost)
    BY <2>1, <2>3 DEF PackCuttable, Cuttable
  <2>5. InWindow("fw", Sink, p) <=> AtLeastAsGood("fw", p, Ub[Sink])
    BY DEF InWindow, AtLeastAsGood
  <2>6. f.cost \in Int /\ BaseCost[b] \in Int
    BY Windows DEF Forward, Place
  <2> HIDE DEF first, s, at, last, c, g, p
  <2>7. CanJoin(f, b, g) <=> CanTake("fw", f, b)
    BY <2>1, <2>2, <2>4, <2>5
  <2>8. ASSUME CanTake("fw", f, b)
        PROVE  Joined(f, b, g) = Taken("fw", f, b).cost
    <3>1. c \in Int /\ c + last.cost = at.cost
      BY <2>1, <2>4, <2>8
    <3> QED BY <2>1, <2>2, <2>3, <2>6, <3>1
  <2> QED BY <2>7, <2>8 DEF g
<1>3. CASE ~(first.cost < Inf)
  BY <1>3 DEF CanTake, CanJoin
<1> QED BY <1>2, <1>3

-----------------------------------------------------------------------------
IsSeq(s) == \E S : s \in Seq(S)

\* Appending to a sequence, whatever its elements.
LEMMA Appended ==
  ASSUME NEW s, IsSeq(s), NEW x
  PROVE  /\ IsSeq(Append(s, x)) /\ Len(s) \in Nat /\ Len(Append(s, x)) = Len(s) + 1
         /\ DOMAIN s = 1..Len(s)
         /\ \A i \in 1..Len(s) : Append(s, x)[i] = s[i]
         /\ Append(s, x)[Len(s) + 1] = x /\ Last(Append(s, x)) = x
<1>1. PICK S : s \in Seq(S)
  BY DEF IsSeq
<1> DEFINE U == S \cup {x}
<1>2. s \in Seq(U) /\ x \in U
  BY <1>1
<1> HIDE DEF U
<1>3. /\ Append(s, x) \in Seq(U) /\ Len(s) \in Nat /\ Len(Append(s, x)) = Len(s) + 1
      /\ DOMAIN s = 1..Len(s) /\ \A i \in 1..Len(s) : Append(s, x)[i] = s[i]
      /\ Append(s, x)[Len(s) + 1] = x
  BY <1>2
<1> QED BY <1>3 DEF IsSeq, Last

\* The i-th vertex of the walk.
VertexAt(i) == IF i = 1 THEN Source ELSE To[walk[i - 1]]

WalkOK ==
  /\ walk \in Seq(Arc)
  /\ \A i \in 1..Len(walk) : From[walk[i]] = VertexAt(i)

\* The forward labels go as far as they can.
ForwardOK(In) ==
  /\ IsSeq(fw) /\ Len(fw) \in 1..Len(walk) + 1 /\ fw[1] = Start("fw")
  /\ \A i \in 1..Len(fw) : Forward(In, fw[i]) /\ fw[i].v = VertexAt(i)
  /\ \A i \in 1..Len(fw) - 1 : /\ CanTake("fw", fw[i], walk[i])
                               /\ fw[i + 1] = Taken("fw", fw[i], walk[i])
  /\ Len(fw) <= Len(walk) => ~CanTake("fw", fw[Len(fw)], walk[Len(fw)])

\* The backward label stands where its last arc began, and can be joined to a
\* forward label before that if and only if there is one at the end.
BackwardOK(Out) ==
  bw # <<>> =>
    /\ IsSeq(bw) /\ Len(bw) \in 1..Len(walk) + 1 /\ VertexAt(Len(walk) + 1) = Sink
    /\ Backward(Out, Last(bw)) /\ Last(bw).v = VertexAt(Len(walk) + 2 - Len(bw))
    /\ LET i == Len(walk) + 1 - Len(bw)
       IN i \in 1..Len(fw) =>
            /\ CanJoin(fw[i], walk[i], Last(bw)) <=> Whole
            /\ Whole => Joined(fw[i], walk[i], Last(bw)) = Last(fw).cost

CutAnywhere(In, Out) == WalkOK /\ ForwardOK(In) /\ BackwardOK(Out)

\* The end of the walk is its last vertex.
LEMMA EndIsLast ==
  ASSUME WalkOK
  PROVE  End = VertexAt(Len(walk) + 1) /\ Len(walk) \in Nat
<1>1. Len(walk) \in Nat /\ (walk = <<>> <=> Len(walk) = 0) /\ (Len(walk) + 1) - 1 = Len(walk)
  BY DEF WalkOK
<1>2. Len(walk) + 1 = 1 <=> Len(walk) = 0
  BY <1>1
<1> QED BY <1>1, <1>2 DEF End, VertexAt, Last

\* One arc more.
LEMMA OnwardsCuts ==
  ASSUME NEW In, NEW Out, PackCuttable(In, Out), CutAnywhere(In, Out),
         NEW a \in Arc, Onwards(a)
  PROVE  CutAnywhere(In, Out)'
<1> DEFINE m == Len(walk)
           n == Len(fw)
<1>1. /\ walk \in Seq(Arc) /\ m \in Nat /\ From[a] = VertexAt(m + 1) /\ bw = <<>> /\ bw' = <<>>
      /\ walk' = Append(walk, a)
  BY EndIsLast DEF CutAnywhere, WalkOK, Onwards
<1>2. /\ walk' \in Seq(Arc) /\ Len(walk') = m + 1 /\ walk'[m + 1] = a
      /\ \A i \in 1..m : walk'[i] = walk[i]
  BY <1>1
<1>3. \A i \in 1..m + 1 : VertexAt(i)' = VertexAt(i)
  <2>1. \A i \in 1..m + 1 : i = 1 \/ i - 1 \in 1..m
    BY <1>1
  <2> QED BY <1>2, <2>1 DEF VertexAt
<1>4. WalkOK'
  <2>1. \A i \in 1..m + 1 : i = m + 1 \/ i \in 1..m
    BY <1>1
  <2>2. \A i \in 1..m : From[walk[i]] = VertexAt(i)
    BY DEF CutAnywhere, WalkOK
  <2>3. \A i \in 1..m + 1 : From[walk'[i]] = VertexAt(i)'
    BY <1>1, <1>2, <1>3, <2>1, <2>2
  <2> QED BY <1>2, <2>3 DEF WalkOK
<1>5. /\ IsSeq(fw) /\ n \in 1..m + 1 /\ fw[1] = Start("fw")
      /\ \A i \in 1..n : Forward(In, fw[i]) /\ fw[i].v = VertexAt(i)
      /\ \A i \in 1..n - 1 : /\ CanTake("fw", fw[i], walk[i])
                             /\ fw[i + 1] = Taken("fw", fw[i], walk[i])
      /\ n <= m => ~CanTake("fw", fw[n], walk[n])
  BY DEF CutAnywhere, ForwardOK
<1>6. CASE n = m + 1 /\ CanTake("fw", Last(fw), a)
  <2> DEFINE x == Taken("fw", Last(fw), a)
  <2>1. fw' = Append(fw, x) /\ Last(fw) = fw[n]
    BY <1>6 DEF Onwards, Last
  <2>2. /\ IsSeq(fw') /\ Len(fw') = n + 1 /\ fw'[n + 1] = x
        /\ \A i \in 1..n : fw'[i] = fw[i]
    BY <1>5, <2>1, Appended
  <2>3. Forward(In, x) /\ x.v = To[a]
    <3>1. AlongArc("fw", Last(fw).st, a).cost < Inf /\ From[a] = Last(fw).v
      BY <1>6 DEF CanTake, Behind
    <3>2. Forward(In, Last(fw))
      BY <1>5, <2>1
    <3> QED BY <1>6, <3>1, <3>2, TakenForward
  <2>4. ASSUME NEW i \in {n + 1}
        PROVE  VertexAt(i)' = To[a]
    <3>1. i # 1 /\ i - 1 = m + 1 /\ walk'[m + 1] = a
      BY <1>1, <1>2, <1>6
    <3> HIDE DEF m, n
    <3>2. VertexAt(i)' = IF i = 1 THEN Source ELSE To[walk'[i - 1]]
      BY DEF VertexAt
    <3> QED BY <3>1, <3>2
  <2> HIDE DEF x
  <2>5. \A i \in 1..n + 1 : i = n + 1 \/ i \in 1..n
    BY <1>5
  <2>6. 1 \in 1..n /\ n \in Nat
    BY <1>5
  <2>7. \A i \in 1..n + 1 : Forward(In, fw'[i]) /\ fw'[i].v = VertexAt(i)'
    <3>1. ASSUME NEW i \in 1..n
          PROVE  Forward(In, fw'[i]) /\ fw'[i].v = VertexAt(i)'
      BY <1>3, <1>5, <1>6, <2>2
    <3>2. ASSUME NEW i \in {n + 1}
          PROVE  Forward(In, fw'[i]) /\ fw'[i].v = VertexAt(i)'
      <4>1. fw'[i] = x
        BY <2>2
      <4> QED BY <2>3, <2>4, <4>1
    <3>3. \A i \in 1..n + 1 : i \in {n + 1} \/ i \in 1..n
      BY <2>5
    <3> HIDE DEF n
    <3> QED BY <3>1, <3>2, <3>3
  <2>8. \A i \in 1..n : /\ CanTake("fw", fw'[i], walk'[i])
                        /\ fw'[i + 1] = Taken("fw", fw'[i], walk'[i])
    <3>1. ASSUME NEW i \in 1..n - 1
          PROVE  /\ CanTake("fw", fw'[i], walk'[i])
                 /\ fw'[i + 1] = Taken("fw", fw'[i], walk'[i])
      <4>1. i \in 1..n /\ i + 1 \in 1..n /\ i \in 1..m
        BY <1>6, <2>6
      <4> QED BY <1>2, <1>5, <2>2, <4>1
    <3>2. CanTake("fw", fw'[n], walk'[n]) /\ fw'[n + 1] = Taken("fw", fw'[n], walk'[n])
      <4>1. n \in 1..n
        BY <2>6
      <4> QED BY <1>2, <1>6, <2>1, <2>2, <4>1 DEF x
    <3>3. \A i \in 1..n : i = n \/ i \in 1..n - 1
      BY <2>6
    <3> QED BY <3>1, <3>2, <3>3
  <2>9. ForwardOK(In)'
    <3>1. n + 1 \in 1..m + 1 + 1 /\ ~(n + 1 <= m + 1) /\ (n + 1) - 1 = n
      BY <1>1, <1>6
    <3>2. fw'[1] = Start("fw")
      BY <1>5, <2>2, <2>6
    <3> HIDE DEF m, n
    <3> QED BY <1>2, <2>2, <2>7, <2>8, <3>1, <3>2 DEF ForwardOK
  <2> QED BY <1>1, <1>4, <2>9 DEF CutAnywhere, BackwardOK
<1>7. CASE ~(n = m + 1 /\ CanTake("fw", Last(fw), a))
  <2>1. fw' = fw
    BY <1>7 DEF Onwards
  <2>2. \A i \in 1..n : i \in 1..m + 1
    BY <1>1, <1>5
  <2>3. \A i \in 1..n - 1 : i \in 1..m
    BY <1>1, <1>5
  <2>4. n <= m + 1 => ~CanTake("fw", fw[n], walk'[n])
    <3>1. CASE n = m + 1
      BY <1>2, <1>7, <3>1 DEF Last
    <3>2. CASE n # m + 1
      <4>1. n \in 1..m /\ n <= m
        BY <1>1, <1>5, <3>2
      <4> QED BY <1>2, <1>5, <4>1
    <3> QED BY <3>1, <3>2
  <2>5. n \in 1..m + 1 + 1
    BY <1>1, <1>5
  <2>6. ForwardOK(In)'
    <3> HIDE DEF m
    <3>1. \A i \in 1..n : Forward(In, fw[i]) /\ fw[i].v = VertexAt(i)'
      BY <1>3, <1>5, <2>2
    <3>2. \A i \in 1..n - 1 : /\ CanTake("fw", fw[i], walk'[i])
                              /\ fw[i + 1] = Taken("fw", fw[i], walk'[i])
      BY <1>2, <1>5, <2>3
    <3> QED BY <1>2, <1>5, <2>1, <2>4, <2>5, <3>1, <3>2 DEF ForwardOK
  <2> QED BY <1>1, <1>4, <2>6 DEF CutAnywhere, BackwardOK
<1> QED BY <1>6, <1>7

\* What the halves are at the cut.
LEMMA AtTheCut ==
  ASSUME NEW In, NEW Out, CutAnywhere(In, Out), NEW i \in 1..Len(walk)
  PROVE  /\ walk[i] \in Arc /\ From[walk[i]] = VertexAt(i)
         /\ \A j \in {i + 1} : To[walk[i]] = VertexAt(j)
         /\ Len(fw) \in Nat /\ Len(walk) \in Nat
         /\ i \in 1..Len(fw) => Forward(In, fw[i]) /\ fw[i].v = VertexAt(i)
         /\ i \in 1..Len(fw) /\ i + 1 \in 1..Len(fw) =>
              CanTake("fw", fw[i], walk[i]) /\ fw[i + 1] = Taken("fw", fw[i], walk[i])
         /\ i \in 1..Len(fw) /\ ~(i + 1 \in 1..Len(fw)) =>
              ~CanTake("fw", fw[i], walk[i]) /\ ~Whole
<1>1. walk \in Seq(Arc) /\ walk[i] \in Arc /\ From[walk[i]] = VertexAt(i) /\ Len(walk) \in Nat
  BY DEF CutAnywhere, WalkOK
<1>2. ASSUME NEW j \in {i + 1} PROVE To[walk[i]] = VertexAt(j)
  <2>1. j # 1 /\ j - 1 = i
    BY <1>1
  <2> QED BY <2>1 DEF VertexAt
<1>3. /\ Len(fw) \in 1..Len(walk) + 1
      /\ \A j \in 1..Len(fw) : Forward(In, fw[j]) /\ fw[j].v = VertexAt(j)
      /\ \A j \in 1..Len(fw) - 1 : /\ CanTake("fw", fw[j], walk[j])
                                   /\ fw[j + 1] = Taken("fw", fw[j], walk[j])
      /\ Len(fw) <= Len(walk) => ~CanTake("fw", fw[Len(fw)], walk[Len(fw)])
  BY DEF CutAnywhere, ForwardOK
<1>4. i \in 1..Len(fw) /\ i + 1 \in 1..Len(fw) => i \in 1..Len(fw) - 1
  BY <1>1, <1>3
<1>5. i \in 1..Len(fw) /\ ~(i + 1 \in 1..Len(fw)) => /\ i = Len(fw) /\ Len(fw) <= Len(walk)
                                                     /\ Len(fw) # Len(walk) + 1
  BY <1>1, <1>3
<1>6. i \in 1..Len(fw) /\ ~(i + 1 \in 1..Len(fw)) => ~CanTake("fw", fw[i], walk[i]) /\ ~Whole
  BY <1>3, <1>5 DEF Whole
<1>7. Len(fw) \in Nat
  BY <1>3
<1> QED BY <1>1, <1>2, <1>3, <1>4, <1>6, <1>7

\* The end of the walk is the sink: a backward label starts there.
LEMMA TurnRoundCuts ==
  ASSUME NEW In, NEW Out, PackCuttable(In, Out), CutAnywhere(In, Out), TurnRound
  PROVE  CutAnywhere(In, Out)'
<1> DEFINE m == Len(walk)
           g == Start("bw")
<1>1. walk' = walk /\ fw' = fw /\ bw' = <<g>> /\ m \in Nat /\ VertexAt(m + 1) = Sink
  BY EndIsLast DEF CutAnywhere, TurnRound
<1>2. WalkOK' /\ ForwardOK(In)'
  BY <1>1 DEF CutAnywhere, WalkOK, ForwardOK, VertexAt, Start
<1>3. Backward(Out, g) /\ g.v = Sink
  BY StartsAreSound
<1> HIDE DEF g
<1>4. IsSeq(bw') /\ Len(bw') = 1 /\ Last(bw)' = g
  <2>1. <<g>> \in Seq({g}) /\ Len(<<g>>) = 1 /\ <<g>>[1] = g
    OBVIOUS
  <2> QED BY <1>1, <2>1 DEF IsSeq, Last
<1>5. ASSUME m \in 1..Len(fw)
      PROVE  /\ CanJoin(fw[m], walk[m], g) <=> Whole
             /\ Whole => Joined(fw[m], walk[m], g) = Last(fw).cost
  <2>1. m \in 1..m
    BY <1>1, <1>5
  <2>2. /\ walk[m] \in Arc /\ From[walk[m]] = VertexAt(m) /\ To[walk[m]] = Sink
        /\ Forward(In, fw[m]) /\ fw[m].v = VertexAt(m) /\ Len(fw) \in Nat
    BY <1>1, <1>5, <2>1, AtTheCut
  <2>3. /\ CanJoin(fw[m], walk[m], g) <=> CanTake("fw", fw[m], walk[m])
        /\ CanTake("fw", fw[m], walk[m]) => Joined(fw[m], walk[m], g) = Taken("fw", fw[m], walk[m]).cost
    BY <2>2, CutAtSink DEF g
  <2>4. CASE m + 1 \in 1..Len(fw)
    <3>1. CanTake("fw", fw[m], walk[m]) /\ fw[m + 1] = Taken("fw", fw[m], walk[m])
      BY <1>5, <2>1, <2>4, AtTheCut
    <3>2. Len(fw) = m + 1
      BY <2>4 DEF CutAnywhere, ForwardOK
    <3> QED BY <2>3, <3>1, <3>2 DEF Whole, Last
  <2>5. CASE ~(m + 1 \in 1..Len(fw))
    BY <1>5, <2>1, <2>3, <2>5, AtTheCut
  <2> QED BY <2>4, <2>5
<1>6. /\ Whole' = Whole /\ Last(fw)' = Last(fw)
      /\ (m + 1 - Len(bw))' = m /\ (m + 2 - Len(bw))' = m + 1
      /\ Len(bw)' \in 1..m + 1
  BY <1>1, <1>4 DEF Whole, Last
<1>8. VertexAt(m + 1)' = Sink
  BY <1>1 DEF VertexAt
<1>9. BackwardOK(Out)'
  <2>1. /\ IsSeq(bw)' /\ (Len(bw) \in 1..m + 1)' /\ (VertexAt(m + 1) = Sink)'
        /\ Backward(Out, Last(bw))' /\ (Last(bw).v = Sink)'
    BY <1>1, <1>3, <1>4, <1>6, <1>8 DEF Backward, Place
  <2>2. VertexAt(m + 2 - Len(bw))' = Sink
    BY <1>1, <1>6, <1>8 DEF VertexAt
  <2>3. (m + 1 - Len(bw) \in 1..Len(fw) =>
           /\ CanJoin(fw[m + 1 - Len(bw)], walk[m + 1 - Len(bw)], Last(bw)) <=> Whole
           /\ Whole => Joined(fw[m + 1 - Len(bw)], walk[m + 1 - Len(bw)], Last(bw)) = Last(fw).cost)'
    BY <1>1, <1>4, <1>5, <1>6
  <2> QED BY <2>1, <2>2, <2>3 DEF BackwardOK
<1> QED BY <1>2, <1>9 DEF CutAnywhere

\* The backward label goes one arc further.
LEMMA BackCuts ==
  ASSUME NEW In, NEW Out, PackCuttable(In, Out), CutAnywhere(In, Out), Back
  PROVE  CutAnywhere(In, Out)'
<1> DEFINE m == Len(walk)
           k == Len(bw)
           i == m + 1 - k
           g == Last(bw)
           a == walk[i]
           g2 == Taken("bw", g, a)
<1>1. /\ bw # <<>> /\ k <= m /\ CanTake("bw", g, a) /\ bw' = Append(bw, g2)
      /\ walk' = walk /\ fw' = fw
  BY DEF Back
<1>2. /\ IsSeq(bw) /\ k \in 1..m + 1 /\ m \in Nat /\ VertexAt(m + 1) = Sink
      /\ Backward(Out, g) /\ g.v = VertexAt(m + 2 - k)
      /\ i \in 1..Len(fw) => /\ CanJoin(fw[i], a, g) <=> Whole
                             /\ Whole => Joined(fw[i], a, g) = Last(fw).cost
  BY <1>1, EndIsLast DEF CutAnywhere, BackwardOK
<1>3. /\ i \in 1..m /\ m + 2 - k = i + 1 /\ k + 1 \in 1..m + 1
      /\ m + 1 - (k + 1) = i - 1 /\ m + 2 - (k + 1) = i
  BY <1>1, <1>2
<1>4. IsSeq(bw') /\ Len(bw') = k + 1 /\ Last(bw)' = g2
  <2>1. Last(Append(bw, g2)) = g2
    BY <1>2, Appended
  <2>2. Last(bw)' = Last(Append(bw, g2))
    BY <1>1 DEF Last
  <2> QED BY <1>1, <1>2, <2>1, <2>2, Appended
<1> HIDE DEF m, k, i, g
<1>5. /\ a \in Arc /\ From[a] = VertexAt(i) /\ To[a] = g.v /\ Len(fw) \in Nat
  <2>1. i \in 1..Len(walk)
    BY <1>3 DEF m
  <2>2. /\ a \in Arc /\ From[a] = VertexAt(i) /\ Len(fw) \in Nat
        /\ \A j \in {i + 1} : To[a] = VertexAt(j)
    BY <2>1, AtTheCut
  <2> QED BY <1>2, <1>3, <2>2
<1>6. Backward(Out, g2) /\ g2.v = VertexAt(i)
  <2>1. g2.v = From[a]
    BY DEF Taken, Ahead
  <2> QED BY <1>1, <1>2, <1>5, <2>1, TakenBackward
<1> HIDE DEF a, g2
<1>7. ASSUME NEW j \in {i - 1}, j \in 1..Len(fw)
      PROVE  /\ CanJoin(fw[j], walk[j], g2) <=> Whole
             /\ Whole => Joined(fw[j], walk[j], g2) = Last(fw).cost
  <2>1. j \in 1..Len(walk) /\ j + 1 = i /\ i # 1 /\ i - 1 = j
    BY <1>2, <1>3, <1>7 DEF m
  <2>2. /\ walk[j] \in Arc /\ From[walk[j]] = VertexAt(j) /\ To[walk[j]] = VertexAt(i)
        /\ Forward(In, fw[j]) /\ fw[j].v = VertexAt(j)
    BY <1>7, <2>1, AtTheCut
  <2>3. /\ (CanTake("bw", g, a) /\ CanJoin(fw[j], walk[j], g2))
              <=> (CanTake("fw", fw[j], walk[j]) /\ CanJoin(Taken("fw", fw[j], walk[j]), a, g))
        /\ CanTake("fw", fw[j], walk[j]) /\ CanJoin(Taken("fw", fw[j], walk[j]), a, g)
             => Joined(fw[j], walk[j], g2) = Joined(Taken("fw", fw[j], walk[j]), a, g)
    BY <1>2, <1>5, <2>2, CutMoves DEF g2
  <2>4. CASE i \in 1..Len(fw)
    <3>1. CanTake("fw", fw[j], walk[j]) /\ fw[i] = Taken("fw", fw[j], walk[j])
      BY <1>7, <2>1, <2>4, AtTheCut
    <3>2. /\ CanJoin(fw[i], a, g) <=> Whole
          /\ Whole => Joined(fw[i], a, g) = Last(fw).cost
      BY <1>2, <2>4 DEF a
    <3> QED BY <1>1, <2>3, <3>1, <3>2 DEF g2
  <2>5. CASE ~(i \in 1..Len(fw))
    <3>1. ~CanTake("fw", fw[j], walk[j]) /\ ~Whole
      BY <1>7, <2>1, <2>5, AtTheCut
    <3> QED BY <1>1, <2>3, <3>1
  <2> QED BY <2>4, <2>5
<1>8. WalkOK' /\ ForwardOK(In)'
  BY <1>1 DEF CutAnywhere, WalkOK, ForwardOK, VertexAt
<1>9. /\ Len(walk)' = m /\ Whole' = Whole /\ Last(fw)' = Last(fw)
      /\ (Len(walk) + 1 - Len(bw))' = i - 1 /\ (Len(walk) + 2 - Len(bw))' = i
      /\ Len(bw)' \in 1..m + 1
  BY <1>1, <1>3, <1>4 DEF Whole, Last, m
<1>10. VertexAt(Len(walk) + 1)' = Sink
  BY <1>1, <1>2 DEF VertexAt, m
<1>11. VertexAt(Len(walk) + 2 - Len(bw))' = VertexAt(i)
  BY <1>1, <1>9 DEF VertexAt
<1>12. BackwardOK(Out)'
  <2>1. /\ IsSeq(bw)' /\ (Len(bw) \in 1..Len(walk) + 1)' /\ (VertexAt(Len(walk) + 1) = Sink)'
        /\ Backward(Out, Last(bw))' /\ (Last(bw).v = VertexAt(Len(walk) + 2 - Len(bw)))'
    BY <1>4, <1>6, <1>9, <1>10, <1>11 DEF Backward, Place
  <2>2. (Len(walk) + 1 - Len(bw) \in 1..Len(fw) =>
           /\ CanJoin(fw[Len(walk) + 1 - Len(bw)], walk[Len(walk) + 1 - Len(bw)], Last(bw)) <=> Whole
           /\ Whole => Joined(fw[Len(walk) + 1 - Len(bw)], walk[Len(walk) + 1 - Len(bw)], Last(bw))
                         = Last(fw).cost)'
    BY <1>1, <1>4, <1>7, <1>9
  <2> QED BY <2>1, <2>2 DEF BackwardOK
<1> QED BY <1>8, <1>12 DEF CutAnywhere

\* The halves can be joined at the cut, and the cut moves on.
LEMMA CutsSuffice ==
  ASSUME NEW In, NEW Out, PackCuttable(In, Out), CutAnywhere(In, Out)
  PROVE  SplitsAgree
<1> SUFFICES ASSUME bw # <<>> PROVE SplitsAgree
  BY DEF SplitsAgree
<1> DEFINE m == Len(walk)
           k == Len(bw)
           i == m + 1 - k
           g == Last(bw)
           a == walk[i]
<1>1. /\ k \in 1..m + 1 /\ m \in Nat
      /\ Backward(Out, g) /\ g.v = VertexAt(m + 2 - k)
      /\ i \in 1..Len(fw) => /\ CanJoin(fw[i], a, g) <=> Whole
                             /\ Whole => Joined(fw[i], a, g) = Last(fw).cost
  BY EndIsLast DEF CutAnywhere, BackwardOK
<1>2. i \in 0..m /\ m + 2 - k = i + 1
  BY <1>1
<1>3. IsSeq(fw) /\ DOMAIN fw = 1..Len(fw) /\ fw[1] = Start("fw")
  BY Appended DEF CutAnywhere, ForwardOK
<1> HIDE DEF m, k, g
<1>4. ASSUME Whole, i > 0
      PROVE  /\ CanTake("bw", g, a) /\ CanJoin(fw[i], a, g)
             /\ Joined(fw[i], a, g) = Last(fw).cost
  <2>1. i \in 1..Len(walk) /\ i \in 1..Len(fw)
    BY <1>1, <1>2, <1>4 DEF Whole, m
  <2>2. CanJoin(fw[i], a, g) /\ Joined(fw[i], a, g) = Last(fw).cost
    BY <1>1, <1>4, <2>1
  <2>3. /\ a \in Arc /\ From[a] = VertexAt(i) /\ To[a] = g.v
    <3>1. a \in Arc /\ From[a] = VertexAt(i) /\ \A j \in {i + 1} : To[a] = VertexAt(j)
      BY <2>1, AtTheCut
    <3> QED BY <1>1, <1>2, <3>1
  <2>4. CASE i = 1
    <3>1. From[a] = Source /\ fw[i] = Start("fw")
      BY <1>3, <2>3, <2>4 DEF VertexAt
    <3> QED BY <1>1, <2>2, <2>3, <3>1, CutAtSource
  <2>5. CASE i # 1
    <3>1. PICK j : j = i - 1 /\ j \in 1..Len(walk) /\ j \in 1..Len(fw) /\ j + 1 = i
      BY <1>1, <2>1, <2>5 DEF m
    <3>2. /\ walk[j] \in Arc /\ From[walk[j]] = VertexAt(j) /\ To[walk[j]] = VertexAt(i)
          /\ Forward(In, fw[j]) /\ fw[j].v = VertexAt(j)
          /\ CanTake("fw", fw[j], walk[j]) /\ fw[i] = Taken("fw", fw[j], walk[j])
      BY <2>1, <3>1, AtTheCut
    <3> HIDE DEF a
    <3>3. CanTake("bw", g, a)
      BY <1>1, <2>2, <2>3, <3>2, CutMoves
    <3> QED BY <2>2, <3>3
  <2> QED BY <2>4, <2>5
<1>5. ASSUME ~Whole, i \in DOMAIN fw
      PROVE  ~CanJoin(fw[i], a, g)
  BY <1>1, <1>3, <1>5
<1>6. i = Len(walk) + 1 - Len(bw) /\ g = Last(bw) /\ a = walk[i]
  BY DEF m, k, g
<1> HIDE DEF i, a
<1> QED BY <1>4, <1>5, <1>6 DEF SplitsAgree, a

\* Wherever a walk is cut, its halves can be joined if and only if the walk is
\* feasible as a whole, and for its cost: bidirectional labeling may stop either
\* direction at any midpoint.
THEOREM CutsAgree ==
  ASSUME NEW CONSTANT In, NEW CONSTANT Out, PackCuttable(In, Out)
  PROVE  SplitSpec => []SplitsAgree
<1>1. SplitInit => CutAnywhere(In, Out)
  <2> SUFFICES ASSUME SplitInit PROVE CutAnywhere(In, Out)
    OBVIOUS
  <2>1. walk = <<>> /\ fw = <<Start("fw")>> /\ bw = <<>>
    BY DEF SplitInit
  <2>2. Forward(In, Start("fw")) /\ Start("fw").v = Source
    BY StartsAreSound
  <2>3. WalkOK
    BY <2>1 DEF WalkOK
  <2>4. ForwardOK(In)
    <3>1. PICK x : x = Start("fw")
      OBVIOUS
    <3>2. fw \in Seq({x}) /\ Len(fw) = 1 /\ fw[1] = x /\ Len(walk) = 0
      BY <2>1, <3>1
    <3>3. IsSeq(fw)
      BY <3>2 DEF IsSeq
    <3>4. \A i \in 1..1 : i = 1
      OBVIOUS
    <3> QED BY <2>2, <3>1, <3>2, <3>3, <3>4 DEF ForwardOK, VertexAt
  <2> QED BY <2>1, <2>3, <2>4 DEF CutAnywhere, BackwardOK
<1>2. CutAnywhere(In, Out) /\ [SplitNext]_splits => CutAnywhere(In, Out)'
  <2> SUFFICES ASSUME CutAnywhere(In, Out), [SplitNext]_splits PROVE CutAnywhere(In, Out)'
    OBVIOUS
  <2>1. CASE \E a \in Arc : Onwards(a)
    BY <2>1, OnwardsCuts
  <2>2. CASE TurnRound
    BY <2>2, TurnRoundCuts
  <2>3. CASE Back
    BY <2>3, BackCuts
  <2>4. CASE UNCHANGED splits
    BY <2>4 DEF splits, CutAnywhere, WalkOK, ForwardOK, BackwardOK, VertexAt, Whole, Last
  <2> QED BY <2>1, <2>2, <2>3, <2>4 DEF SplitNext
<1>3. CutAnywhere(In, Out) => SplitsAgree
  BY CutsSuffice
<1> QED BY <1>1, <1>2, <1>3, PTL DEF SplitSpec

-----------------------------------------------------------------------------
\* What is stored in a bucket.
Entry == [label : Offer, dominated : BOOLEAN]

\* Stored labels stand in the order of their costs.
InOrderOfCost(B) == \A i, j \in DOMAIN B : i < j => B[i].label.cost <= B[j].label.cost

\* What is unbeaten among the positions of B that are not in I.
LiveBut(B, I) == {B[i].label : i \in {k \in DOMAIN B : ~B[k].dominated /\ k \notin I}}

LEMMA OfferTypes ==
  ASSUME NEW k \in Offer, NEW l \in Offer
  PROVE  k.cost \in Int /\ k.q \in Int /\ Penalty[<<k.st, l.st>>] \in Int
         /\ MinPenalty <= Penalty[<<k.st, l.st>>] /\ MinPenalty \in Int
<1> DEFINE S == {m.st : m \in Offer}
<1>1. k.st \in S /\ l.st \in S
  OBVIOUS
<1>2. \A s, t \in S : Penalty[<<s, t>>] \in Int /\ MinPenalty <= Penalty[<<s, t>>]
  BY BatchAssumption
<1>3. k.cost \in Int /\ k.q \in Int /\ MinPenalty \in Int
  BY BatchAssumption
<1> HIDE DEF S
<1> QED BY <1>1, <1>2, <1>3

\* A label that beats one that beats a third beats the third.
LEMMA Between ==
  ASSUME NEW x \in Int, NEW y \in Int, NEW z \in Int, NEW a \in Int, NEW b \in Int, NEW c \in Int,
         x + a <= y, y + b <= z, c <= a + b
  PROVE  x + c <= z
OBVIOUS

LEMMA BeatsTwice ==
  ASSUME PenaltiesAddUp, NEW k \in Offer, NEW l \in Offer, NEW m \in Offer,
         Dominates(k, l), Dominates(l, m)
  PROVE  Dominates(k, m)
<1>1. k.q <= l.q /\ l.q <= m.q /\ k.cost + Penalty[<<k.st, l.st>>] <= l.cost
      /\ l.cost + Penalty[<<l.st, m.st>>] <= m.cost
  BY DEF Dominates
<1>2. Penalty[<<k.st, m.st>>] <= Penalty[<<k.st, l.st>>] + Penalty[<<l.st, m.st>>]
  BY DEF PenaltiesAddUp
<1>3. k.q \in Int /\ l.q \in Int /\ m.q \in Int
  BY OfferTypes
<1>4. k.q <= m.q
  BY <1>1, <1>3
<1>5. k.cost + Penalty[<<k.st, m.st>>] <= m.cost
  <2>1. k.cost \in Int /\ l.cost \in Int /\ m.cost \in Int
    BY OfferTypes
  <2>2. Penalty[<<k.st, m.st>>] \in Int /\ Penalty[<<k.st, l.st>>] \in Int /\ Penalty[<<l.st, m.st>>] \in Int
    BY OfferTypes
  <2> QED BY <1>1, <1>2, <2>1, <2>2, Between
<1> QED BY <1>4, <1>5 DEF Dominates

\* The length of what is left of a sequence.
LEMMA RestOf ==
  ASSUME NEW m \in Nat, NEW n \in 0..m
  PROVE  (IF n + 1 <= m THEN m - (n + 1) + 1 ELSE 0) = m - n
<1>1. CASE n + 1 <= m
  BY <1>1
<1>2. CASE ~(n + 1 <= m)
  BY <1>2
<1> QED BY <1>1, <1>2

\* Where a label is inserted, and what is stored then.
LEMMA InsertPlace ==
  ASSUME NEW B \in Seq(Entry), NEW l \in Offer
  PROVE  \E n \in 0..Len(B) :
           /\ n = Cardinality({i \in DOMAIN B : B[i].label.cost < l.cost})
           /\ InsertSorted(B, l) \in Seq(Entry)
           /\ Len(InsertSorted(B, l)) = Len(B) + 1
           /\ \A i \in 1..n : InsertSorted(B, l)[i] = B[i]
           /\ InsertSorted(B, l)[n + 1] = [label |-> l, dominated |-> FALSE]
           /\ \A i \in n + 1..Len(B) : InsertSorted(B, l)[i + 1] = B[i]
<1> DEFINE I == {i \in DOMAIN B : B[i].label.cost < l.cost}
           n == Cardinality(I)
           e == [label |-> l, dominated |-> FALSE]
           front == SubSeq(B, 1, n)
           back == SubSeq(B, n + 1, Len(B))
<1>1. Len(B) \in Nat /\ e \in Entry /\ DOMAIN B = 1..Len(B)
  BY DEF Entry
<1>2. n \in 0..Len(B)
  <2>1. IsFiniteSet(1..Len(B)) /\ Cardinality(1..Len(B)) = Len(B)
    <3>1. IsFiniteSet(1..Len(B)) /\ Cardinality(1..Len(B)) = IF 1 > Len(B) THEN 0 ELSE Len(B) - 1 + 1
      BY <1>1, FS_Interval
    <3> QED BY <1>1, <3>1
  <2>2. I \subseteq 1..Len(B)
    BY <1>1
  <2> HIDE DEF I
  <2>3. IsFiniteSet(I) /\ Cardinality(I) <= Cardinality(1..Len(B))
    BY <2>1, <2>2, FS_Subset
  <2>4. Cardinality(I) \in Nat
    BY <2>3, FS_CardinalityType
  <2> QED BY <1>1, <2>1, <2>3, <2>4
<1>3. InsertSorted(B, l) = front \o <<e>> \o back
  BY DEF InsertSorted
<1> HIDE DEF n, e
<1>4. /\ front \in Seq(Entry) /\ Len(front) = n
      /\ \A i \in 1..n : front[i] = B[i]
  BY <1>1, <1>2
<1>5. /\ back \in Seq(Entry) /\ Len(back) = Len(B) - n
      /\ \A i \in 1..Len(B) - n : back[i] = B[n + i]
  <2>1. n \in Int /\ \A i \in n + 1..Len(B) : i \in 1..Len(B)
    BY <1>1, <1>2
  <2>2. \A i \in n + 1..Len(B) : B[i] \in Entry
    BY <2>1
  <2>3. Len(back) = Len(B) - n
    <3>1. Len(back) = IF n + 1 <= Len(B) THEN Len(B) - (n + 1) + 1 ELSE 0
      BY <1>1, <2>1, <2>2
    <3>2. (IF n + 1 <= Len(B) THEN Len(B) - (n + 1) + 1 ELSE 0) = Len(B) - n
      BY <1>1, <1>2, RestOf
    <3> HIDE DEF back
    <3> QED BY <3>1, <3>2
  <2>4. back \in Seq(Entry)
    BY <1>1, <2>1, <2>2
  <2>5. ASSUME NEW i \in 1..Len(B) - n PROVE back[i] = B[n + i]
    <3>1. n + 1 + i - 1 = n + i /\ i \in 1..Len(B) - (n + 1) + 1
      BY <1>1, <1>2
    <3>2. back[i] = B[n + 1 + i - 1]
      BY <1>1, <2>1, <2>2, <3>1
    <3> QED BY <3>1, <3>2
  <2> QED BY <2>3, <2>4, <2>5
<1>6. <<e>> \in Seq(Entry) /\ Len(<<e>>) = 1 /\ <<e>>[1] = e
  BY <1>1
<1> DEFINE mid == front \o <<e>>
<1> HIDE DEF front, back
<1>7. /\ mid \in Seq(Entry) /\ Len(mid) = n + 1 /\ mid[n + 1] = e
      /\ \A i \in 1..n : mid[i] = B[i]
  BY <1>1, <1>2, <1>4, <1>6
<1> HIDE DEF mid
<1> DEFINE C == mid \o back
<1>8. C \in Seq(Entry) /\ Len(C) = Len(B) + 1
  <2>1. C \in Seq(Entry)
    BY <1>5, <1>7
  <2>2. Len(C) = Len(mid) + Len(back)
    BY <1>5, <1>7
  <2>3. n + 1 + (Len(B) - n) = Len(B) + 1
    BY <1>1, <1>2
  <2> QED BY <1>5, <1>7, <2>1, <2>2, <2>3
<1>9. (\A i \in 1..n : C[i] = B[i]) /\ C[n + 1] = e
  BY <1>1, <1>2, <1>5, <1>7
<1>10. ASSUME NEW i \in n + 1..Len(B) PROVE C[i + 1] = B[i]
  <2>1. i \in Int /\ i + 1 \in 1..Len(B) + 1 /\ ~(i + 1 <= n + 1) /\ i - n \in 1..Len(B) - n
    BY <1>1, <1>2
  <2>2. C[i + 1] = back[i + 1 - (n + 1)]
    BY <1>1, <1>2, <1>5, <1>7, <2>1
  <2>3. i + 1 - (n + 1) = i - n /\ n + (i - n) = i
    BY <1>2, <2>1
  <2>4. back[i - n] = B[n + (i - n)]
    BY <1>5, <2>1
  <2> QED BY <2>2, <2>3, <2>4
<1>11. InsertSorted(B, l) = C
  BY <1>3 DEF mid
<1> HIDE DEF C
<1> QED BY <1>2, <1>8, <1>9, <1>10, <1>11 DEF n, e

\* The unbeaten labels, and where they stand.
LEMMA LiveHas ==
  ASSUME NEW B, NEW l
  PROVE  l \in Live(B) <=> \E i \in DOMAIN B : ~B[i].dominated /\ B[i].label = l
BY DEF Live

\* An inserted label joins those that were unbeaten.
LEMMA InsertLive ==
  ASSUME NEW B \in Seq(Entry), NEW l \in Offer
  PROVE  Live(InsertSorted(B, l)) = Live(B) \cup {l}
<1> DEFINE C == InsertSorted(B, l)
<1>1. PICK n \in 0..Len(B) :
        /\ C \in Seq(Entry) /\ Len(C) = Len(B) + 1
        /\ \A i \in 1..n : C[i] = B[i]
        /\ C[n + 1] = [label |-> l, dominated |-> FALSE]
        /\ \A i \in n + 1..Len(B) : C[i + 1] = B[i]
  BY InsertPlace
<1>2. Len(B) \in Nat /\ DOMAIN B = 1..Len(B) /\ DOMAIN C = 1..Len(B) + 1
  BY <1>1
<1> HIDE DEF C
<1>3. ASSUME NEW k \in Live(C) PROVE k \in Live(B) \cup {l}
  <2>1. PICK i \in 1..Len(B) + 1 : ~C[i].dominated /\ C[i].label = k
    BY <1>2, <1>3, LiveHas
  <2>2. CASE i <= n
    <3>1. i \in 1..n /\ i \in DOMAIN B
      BY <1>2, <2>2
    <3>2. C[i] = B[i]
      BY <1>1, <3>1
    <3> QED BY <2>1, <3>1, <3>2, LiveHas
  <2>3. CASE i = n + 1
    BY <1>1, <2>1, <2>3
  <2>4. CASE i > n + 1
    <3>1. i - 1 \in n + 1..Len(B) /\ i - 1 \in DOMAIN B /\ (i - 1) + 1 = i
      BY <1>2, <2>4
    <3>2. C[i] = B[i - 1]
      BY <1>1, <3>1
    <3> QED BY <2>1, <3>1, <3>2, LiveHas
  <2>5. i <= n \/ i = n + 1 \/ i > n + 1
    BY <1>1
  <2> QED BY <2>2, <2>3, <2>4, <2>5
<1>4. ASSUME NEW k \in Live(B) PROVE k \in Live(C)
  <2>1. PICK i \in 1..Len(B) : ~B[i].dominated /\ B[i].label = k
    BY <1>2, <1>4, LiveHas
  <2>2. CASE i <= n
    <3>1. i \in 1..n /\ i \in DOMAIN C
      BY <1>2, <2>2
    <3> QED BY <1>1, <2>1, <3>1, LiveHas
  <2>3. CASE i > n
    <3>1. i \in n + 1..Len(B) /\ i + 1 \in DOMAIN C
      BY <1>2, <2>3
    <3> QED BY <1>1, <2>1, <3>1, LiveHas
  <2> QED BY <1>1, <2>2, <2>3
<1>5. l \in Live(C)
  <2>1. n + 1 \in DOMAIN C /\ C[n + 1].label = l /\ ~C[n + 1].dominated
    BY <1>1, <1>2
  <2> QED BY <2>1, LiveHas
<1> QED BY <1>3, <1>4, <1>5 DEF C

\* A bucket in order stays in order.
LEMMA InsertInOrder ==
  ASSUME NEW B \in Seq(Entry), NEW l \in Offer, InOrderOfCost(B)
  PROVE  InOrderOfCost(InsertSorted(B, l))
<1> DEFINE C == InsertSorted(B, l)
           I == {i \in DOMAIN B : B[i].label.cost < l.cost}
           J == {i \in 1..Len(B) + 1 : i \notin I}
<1>1. PICK n \in 0..Len(B) :
        /\ n = Cardinality(I)
        /\ C \in Seq(Entry) /\ Len(C) = Len(B) + 1
        /\ \A i \in 1..n : C[i] = B[i]
        /\ C[n + 1] = [label |-> l, dominated |-> FALSE]
        /\ \A i \in n + 1..Len(B) : C[i + 1] = B[i]
  BY InsertPlace
<1>2. Len(B) \in Nat /\ DOMAIN B = 1..Len(B) /\ DOMAIN C = 1..Len(B) + 1
  BY <1>1
<1>3. \A i \in DOMAIN B : B[i].label \in Offer /\ B[i].label.cost \in Int
  <2>1. ASSUME NEW i \in DOMAIN B PROVE B[i].label \in Offer
    <3>1. B[i] \in Entry
      OBVIOUS
    <3> QED BY <3>1 DEF Entry
  <2> QED BY <2>1, OfferTypes
<1>4. l.cost \in Int
  BY OfferTypes
<1>5. PICK m \in J : \A i \in J : m <= i
  <2>1. Len(B) + 1 \in J /\ J \subseteq Nat
    BY <1>2
  <2> QED BY <2>1, LeastNatural
<1>6. I = 1..m - 1
  <2>1. ASSUME NEW i \in I PROVE i \in 1..m - 1
    <3>1. i \in 1..Len(B) /\ m \in 1..Len(B) + 1 /\ m \notin I
      BY <1>2, <1>5
    <3>2. CASE m < i
      <4>1. m \in DOMAIN B /\ B[m].label.cost <= B[i].label.cost
        BY <1>2, <3>1, <3>2 DEF InOrderOfCost
      <4>2. B[m].label.cost < l.cost
        BY <1>3, <1>4, <4>1
      <4> QED BY <3>1, <4>1, <4>2
    <3> QED BY <3>1, <3>2
  <2>2. ASSUME NEW i \in 1..m - 1 PROVE i \in I
    <3>1. i \in 1..Len(B) + 1 /\ ~(m <= i)
      BY <1>2, <1>5
    <3> QED BY <1>5, <3>1
  <2> QED BY <2>1, <2>2
<1>7. n = m - 1
  <2>1. m \in Int /\ 1 \in Int /\ m - 1 \in Int /\ m >= 1
    BY <1>2, <1>5
  <2>2. Cardinality(1..m - 1) = IF 1 > m - 1 THEN 0 ELSE (m - 1) - 1 + 1
    BY <2>1, FS_Interval
  <2>3. n = Cardinality(1..m - 1)
    BY <1>1, <1>6
  <2> QED BY <2>1, <2>2, <2>3
<1> HIDE DEF C
<1>8. \A i \in 1..n : B[i].label.cost < l.cost
  BY <1>6, <1>7
<1>9. \A i \in n + 1..Len(B) : l.cost <= B[i].label.cost
  <2>1. ASSUME NEW i \in n + 1..Len(B) PROVE l.cost <= B[i].label.cost
    <3>1. i \in DOMAIN B /\ i \notin I
      BY <1>2, <1>6, <1>7
    <3>2. ~(B[i].label.cost < l.cost)
      BY <3>1
    <3> QED BY <1>3, <1>4, <3>1, <3>2
  <2> QED BY <2>1
<1> HIDE DEF I, J
<1> DEFINE cost(i) == C[i].label.cost
<1>10. \A i \in 1..n : cost(i) = B[i].label.cost
  BY <1>1
<1>11. cost(n + 1) = l.cost
  BY <1>1
<1>12. \A i \in n + 2..Len(B) + 1 : i - 1 \in n + 1..Len(B) /\ cost(i) = B[i - 1].label.cost
  <2>1. ASSUME NEW i \in n + 2..Len(B) + 1
        PROVE  i - 1 \in n + 1..Len(B) /\ cost(i) = B[i - 1].label.cost
    <3>1. i - 1 \in n + 1..Len(B) /\ (i - 1) + 1 = i
      BY <1>2
    <3>2. C[i] = B[i - 1]
      BY <1>1, <3>1
    <3> QED BY <3>1, <3>2
  <2> QED BY <2>1
<1> HIDE DEF cost
<1>13. ASSUME NEW i \in 1..Len(B) + 1, NEW j \in 1..Len(B) + 1, i < j
       PROVE  cost(i) <= cost(j)
  <2>1. CASE j <= n
    <3>1. i \in 1..n /\ j \in 1..n /\ i \in DOMAIN B /\ j \in DOMAIN B
      BY <1>2, <1>13, <2>1
    <3>2. B[i].label.cost <= B[j].label.cost
      BY <1>13, <3>1 DEF InOrderOfCost
    <3> QED BY <1>10, <3>1, <3>2
  <2>2. CASE j = n + 1
    <3>1. i \in 1..n /\ i \in DOMAIN B
      BY <1>2, <1>13, <2>2
    <3>2. B[i].label.cost < l.cost
      BY <1>8, <3>1
    <3> QED BY <1>3, <1>4, <1>10, <1>11, <2>2, <3>1, <3>2
  <2>3. CASE j > n + 1
    <3>1. j \in n + 2..Len(B) + 1 /\ j - 1 \in DOMAIN B
      BY <1>2, <2>3
    <3>2. cost(j) = B[j - 1].label.cost /\ l.cost <= B[j - 1].label.cost
      BY <1>9, <1>12, <3>1
    <3>3. CASE i <= n
      <4>1. i \in 1..n /\ i \in DOMAIN B
        BY <1>2, <3>3
      <4>2. B[i].label.cost < l.cost
        BY <1>8, <4>1
      <4>3. B[i].label.cost <= B[j - 1].label.cost
        BY <1>3, <1>4, <3>1, <3>2, <4>1, <4>2
      <4> QED BY <1>10, <3>2, <4>1, <4>3
    <3>4. CASE i = n + 1
      BY <1>11, <3>2, <3>4
    <3>5. CASE i > n + 1
      <4>1. i \in n + 2..Len(B) + 1 /\ i - 1 \in DOMAIN B /\ i - 1 < j - 1
        BY <1>2, <1>13, <3>5
      <4>2. B[i - 1].label.cost <= B[j - 1].label.cost
        BY <3>1, <4>1 DEF InOrderOfCost
      <4> QED BY <1>12, <3>2, <4>1, <4>2
    <3> QED BY <1>2, <3>3, <3>4, <3>5
  <2> QED BY <1>2, <2>1, <2>2, <2>3
<1> QED BY <1>2, <1>13 DEF InOrderOfCost, C, cost

\* Marking takes labels out of those that are unbeaten, and moves nothing.
LEMMA MarkedLive ==
  ASSUME NEW B \in Seq(Entry), NEW I
  PROVE  /\ Marked(B, I) \in Seq(Entry) /\ Live(Marked(B, I)) = LiveBut(B, I)
         /\ InOrderOfCost(B) => InOrderOfCost(Marked(B, I))
<1> DEFINE C == Marked(B, I)
<1>1. Len(B) \in Nat /\ DOMAIN B = 1..Len(B) /\ \A i \in DOMAIN B : B[i] \in Entry
  OBVIOUS
<1>2. C = [i \in DOMAIN B |-> IF i \in I THEN [B[i] EXCEPT !.dominated = TRUE] ELSE B[i]]
  BY DEF Marked
<1>3. \A i \in DOMAIN B : [B[i] EXCEPT !.dominated = TRUE] \in Entry
  BY <1>1 DEF Entry
<1>4. ASSUME NEW i \in DOMAIN B
      PROVE  C[i] \in Entry /\ C[i].label = B[i].label
             /\ (C[i].dominated <=> B[i].dominated \/ i \in I)
  <2>1. B[i] \in Entry /\ C[i] = IF i \in I THEN [B[i] EXCEPT !.dominated = TRUE] ELSE B[i]
    BY <1>1, <1>2
  <2>2. [B[i] EXCEPT !.dominated = TRUE].label = B[i].label
        /\ [B[i] EXCEPT !.dominated = TRUE].dominated = TRUE
    BY <2>1 DEF Entry
  <2>3. CASE i \in I
    BY <1>3, <2>1, <2>2, <2>3
  <2>4. CASE i \notin I
    BY <2>1, <2>4
  <2> QED BY <2>3, <2>4
<1>5. DOMAIN C = DOMAIN B
  BY <1>2
<1>6. C \in [1..Len(B) -> Entry]
  BY <1>1, <1>2, <1>4
<1> HIDE DEF C
<1>7. C \in Seq(Entry)
  BY <1>1, <1>6
<1>8. Live(C) = LiveBut(B, I)
  <2>1. ASSUME NEW k PROVE k \in Live(C) <=> k \in LiveBut(B, I)
    <3>1. k \in LiveBut(B, I) <=> \E i \in DOMAIN B : (~B[i].dominated /\ i \notin I) /\ B[i].label = k
      BY DEF LiveBut
    <3>2. k \in Live(C) <=> \E i \in DOMAIN B : ~C[i].dominated /\ C[i].label = k
      BY <1>5, LiveHas
    <3> QED BY <1>4, <3>1, <3>2
  <2> QED BY <2>1
<1>9. InOrderOfCost(B) => InOrderOfCost(C)
  BY <1>4, <1>5 DEF InOrderOfCost
<1> QED BY <1>7, <1>8, <1>9 DEF C

\* The types of what is stored.
LEMMA EntryTypes ==
  ASSUME NEW B \in Seq(Entry), NEW i \in DOMAIN B
  PROVE  B[i] \in Entry /\ B[i].label \in Offer /\ B[i].label.cost \in Int
<1>1. B[i] \in Entry
  OBVIOUS
<1>2. B[i].label \in Offer
  BY <1>1 DEF Entry
<1> QED BY <1>1, <1>2, OfferTypes

\* A label beats none that is cheaper by more than the bound of the penalties.
LEMMA BeatsWithinBound ==
  ASSUME NEW k \in Offer, NEW l \in Offer, Dominates(k, l)
  PROVE  k.cost + MinPenalty <= l.cost
<1> DEFINE p == Penalty[<<k.st, l.st>>]
<1>1. k.cost + p <= l.cost
  BY DEF Dominates
<1>2. k.cost \in Int /\ l.cost \in Int /\ p \in Int /\ MinPenalty <= p /\ MinPenalty \in Int
  BY OfferTypes
<1> HIDE DEF p
<1> QED BY <1>1, <1>2

\* One label is inserted as if it had been compared with every stored one: where
\* the search breaks off and where it begins lose nothing.
LEMMA TryInsertLive ==
  ASSUME NEW B \in Seq(Entry), NEW l \in Offer, InOrderOfCost(B)
  PROVE  /\ TryInsert(B, l) \in Seq(Entry) /\ InOrderOfCost(TryInsert(B, l))
         /\ Live(TryInsert(B, l)) =
              IF \E k \in Live(B) : Dominates(k, l) THEN Live(B)
              ELSE {k \in Live(B) : ~Dominates(l, k)} \cup {l}
<1>1. DominatedIn(B, l) <=> \E k \in Live(B) : Dominates(k, l)
  <2>1. ASSUME DominatedIn(B, l) PROVE \E k \in Live(B) : Dominates(k, l)
    <3>1. PICK i \in DOMAIN B : ~B[i].dominated /\ Dominates(B[i].label, l)
      BY <2>1 DEF DominatedIn
    <3> QED BY <3>1, LiveHas
  <2>2. ASSUME NEW k \in Live(B), Dominates(k, l) PROVE DominatedIn(B, l)
    <3>1. PICK i \in DOMAIN B : ~B[i].dominated /\ B[i].label = k
      BY LiveHas
    <3>2. B[i].label.cost + MinPenalty <= l.cost
      BY <2>2, <3>1, EntryTypes, BeatsWithinBound
    <3>3. ASSUME NEW j \in 1..i PROVE B[j].label.cost + MinPenalty <= l.cost
      <4>1. j \in DOMAIN B /\ (j < i \/ j = i)
        OBVIOUS
      <4>2. B[j].label.cost <= B[i].label.cost
        BY <4>1, EntryTypes DEF InOrderOfCost
      <4>3. B[j].label.cost \in Int /\ B[i].label.cost \in Int /\ l.cost \in Int /\ MinPenalty \in Int
        BY <4>1, EntryTypes, OfferTypes
      <4> QED BY <3>2, <4>2, <4>3
    <3> QED BY <2>2, <3>1, <3>3 DEF DominatedIn
  <2> QED BY <2>1, <2>2
<1>2. Victims(B, l) = {i \in DOMAIN B : ~B[i].dominated /\ Dominates(l, B[i].label)}
  <2>1. ASSUME NEW i \in DOMAIN B, Dominates(l, B[i].label)
        PROVE  \E k \in 1..i : B[k].label.cost >= l.cost + MinPenalty
    <3>1. l.cost + MinPenalty <= B[i].label.cost
      BY <2>1, EntryTypes, BeatsWithinBound
    <3>2. B[i].label.cost \in Int
      BY EntryTypes
    <3>3. l.cost \in Int /\ MinPenalty \in Int
      BY OfferTypes
    <3>4. i \in 1..i
      OBVIOUS
    <3> QED BY <3>1, <3>2, <3>3, <3>4
  <2> QED BY <2>1 DEF Victims
<1>3. CASE DominatedIn(B, l)
  BY <1>1, <1>3 DEF TryInsert
<1>4. CASE ~DominatedIn(B, l)
  <2> DEFINE C == Marked(B, Victims(B, l))
  <2>1. C \in Seq(Entry) /\ Live(C) = LiveBut(B, Victims(B, l)) /\ InOrderOfCost(C)
    BY MarkedLive
  <2>2. LiveBut(B, Victims(B, l)) = {k \in Live(B) : ~Dominates(l, k)}
    <3>1. ASSUME NEW k \in LiveBut(B, Victims(B, l)) PROVE k \in Live(B) /\ ~Dominates(l, k)
      <4>1. PICK i \in DOMAIN B : ~B[i].dominated /\ i \notin Victims(B, l) /\ B[i].label = k
        BY <3>1 DEF LiveBut
      <4> QED BY <1>2, <4>1, LiveHas
    <3>2. ASSUME NEW k \in Live(B), ~Dominates(l, k) PROVE k \in LiveBut(B, Victims(B, l))
      <4>1. PICK i \in DOMAIN B : ~B[i].dominated /\ B[i].label = k
        BY <3>2, LiveHas
      <4>2. i \notin Victims(B, l)
        BY <1>2, <3>2, <4>1
      <4> QED BY <4>1, <4>2 DEF LiveBut
    <3> QED BY <3>1, <3>2
  <2> HIDE DEF C
  <2>3. TryInsert(B, l) = InsertSorted(C, l)
    BY <1>4 DEF TryInsert, C
  <2>4. InsertSorted(C, l) \in Seq(Entry)
    BY <2>1, InsertPlace
  <2> QED BY <1>1, <1>4, <2>1, <2>2, <2>3, <2>4, InsertLive, InsertInOrder
<1> QED BY <1>3, <1>4

\* A chain of values, each made from the one before.
Chains(S, m) ==
  \A s0 \in S : \A F \in [Nat -> [S -> S]] :
    \E g \in [0..m -> S] : g[0] = s0 /\ \A i \in 1..m : g[i] = F[i][g[i - 1]]

LEMMA ChainOf ==
  ASSUME NEW S, NEW m \in Nat
  PROVE  Chains(S, m)
<1> SUFFICES ASSUME NEW s0 \in S, NEW F \in [Nat -> [S -> S]]
             PROVE  \E g \in [0..m -> S] : g[0] = s0 /\ \A i \in 1..m : g[i] = F[i][g[i - 1]]
  BY DEF Chains
<1>1. PICK f \in [Nat -> S] : \A n \in Nat : f[n] = IF n = 0 THEN s0 ELSE F[n][f[n - 1]]
  BY RecursionOnNat
<1> DEFINE g == [i \in 0..m |-> f[i]]
<1>2. g \in [0..m -> S] /\ g[0] = s0
  BY <1>1
<1>3. ASSUME NEW i \in 1..m PROVE g[i] = F[i][g[i - 1]]
  <2>1. i \in 0..m /\ i - 1 \in 0..m /\ i \in Nat /\ i # 0
    OBVIOUS
  <2> QED BY <1>1, <2>1
<1> HIDE DEF g
<1> QED BY <1>2, <1>3

\* Among the labels of a batch: every one that is beaten is beaten by one that
\* is not, and those that are unbeaten do not beat each other in their order.
LEMMA IntraBatchIs ==
  ASSUME PenaltiesAddUp, NEW b \in Seq(Offer)
  PROVE  /\ IntraBatch(b) \subseteq DOMAIN b
         /\ \A j \in IntraBatch(b) : \E i \in DOMAIN b \ IntraBatch(b) : i < j /\ Dominates(b[i], b[j])
         /\ \A i \in DOMAIN b \ IntraBatch(b), j \in DOMAIN b :
              i < j /\ Dominates(b[i], b[j]) => j \in IntraBatch(b)
<1> DEFINE L == Len(b)
           Next1(n, x) == x \cup IF n \in x THEN {} ELSE {j \in n + 1..Len(b) : Dominates(b[n], b[j])}
           S == SUBSET (1..L)
           Equation(g) == g = [n \in 0..Len(b) |->
                                 IF n = 0 THEN {}
                                 ELSE g[n - 1] \cup IF n \in g[n - 1] THEN {}
                                      ELSE {j \in n + 1..Len(b) : Dominates(b[n], b[j])}]
           F == [n \in Nat |-> [x \in S |-> IF n \in 1..L THEN Next1(n, x) ELSE x]]
<1>1. L \in Nat /\ DOMAIN b = 1..L
  OBVIOUS
<1>2. F \in [Nat -> [S -> S]] /\ {} \in S
  <2>1. ASSUME NEW n \in Nat, NEW x \in S
        PROVE  (IF n \in 1..L THEN Next1(n, x) ELSE x) \in S
    <3>1. \A j \in n + 1..Len(b) : j \in 1..L
      BY <1>1
    <3> QED BY <3>1
  <2> QED BY <2>1
<1>3. PICK g \in [0..L -> S] : g[0] = {} /\ \A i \in 1..L : g[i] = F[i][g[i - 1]]
  <2> HIDE DEF F, S, L
  <2>1. Chains(S, L)
    BY <1>1, ChainOf
  <2> QED BY <1>2, <2>1 DEF Chains
<1>4. \A i \in 1..L : i - 1 \in 0..L /\ g[i] = Next1(i, g[i - 1])
  <2>1. ASSUME NEW i \in 1..L PROVE i - 1 \in 0..L /\ g[i] = Next1(i, g[i - 1])
    <3>1. i - 1 \in 0..L /\ i \in Nat
      BY <1>1
    <3>2. g[i - 1] \in S
      BY <3>1
    <3>3. F[i][g[i - 1]] = IF i \in 1..L THEN Next1(i, g[i - 1]) ELSE g[i - 1]
      BY <3>1, <3>2
    <3> QED BY <1>3, <3>1, <3>3
  <2> QED BY <2>1
<1> HIDE DEF F
<1>5. Equation(g)
  <2>1. DOMAIN g = 0..Len(b) /\ g = [n \in 0..Len(b) |-> g[n]]
    OBVIOUS
  <2>2. \A n \in 0..Len(b) : n # 0 => n \in 1..L
    BY <1>1
  <2> QED BY <1>3, <1>4, <2>1, <2>2
<1> DEFINE s == CHOOSE h : Equation(h)
<1>6. Equation(s)
  BY <1>5
<1>7. IntraBatch(b) = s[L]
  BY DEF IntraBatch
<1>8. s[0] = {} /\ \A i \in 1..L : s[i] = Next1(i, s[i - 1])
  <2>1. 0 \in 0..L /\ \A i \in 1..L : i \in 0..L /\ i # 0
    BY <1>1
  <2> QED BY <1>6, <2>1
<1> HIDE DEF s, Equation
<1>9. IntraBatch(b) = g[L]
  <2>1. SameUpto(L)
    BY <1>1, StepsDecide
  <2>2. \A i \in 1..L : s[i - 1] = g[i - 1] => s[i] = g[i]
    BY <1>4, <1>8
  <2>3. L \in 0..L
    BY <1>1
  <2> HIDE DEF Next1, L, S
  <2>4. s[0] = g[0]
    BY <1>3, <1>8
  <2>5. \A i \in 0..L : s[i] = g[i]
    BY <2>1, <2>2, <2>4 DEF SameUpto
  <2> QED BY <1>7, <2>3, <2>5
<1> DEFINE
     Good(n) == /\ \A j \in g[n] : \E i \in 1..n : i \notin g[n] /\ i < j /\ Dominates(b[i], b[j])
                /\ \A i \in 1..n, j \in 1..L :
                     i \notin g[n] /\ i < j /\ Dominates(b[i], b[j]) => j \in g[n]
     N == {n \in Nat : n <= L => Good(n)}
<1> HIDE DEF L
<1>10. 0 \in N
  BY <1>3
<1>11. ASSUME NEW n \in N PROVE n + 1 \in N
  <2> SUFFICES ASSUME n + 1 <= L PROVE Good(n + 1)
    BY <1>11
  <2>1. n \in Nat /\ n \in 0..L /\ n + 1 \in 1..L /\ (n + 1) - 1 = n /\ Good(n)
    BY <1>1, <1>11
  <2>2. g[n + 1] = g[n] \cup IF n + 1 \in g[n] THEN {} ELSE {j \in (n + 1) + 1..L : Dominates(b[n + 1], b[j])}
    BY <1>4, <2>1 DEF L
  <2>3. g[n] \subseteq 1..L /\ g[n + 1] \subseteq 1..L
    BY <2>1
  <2>4. \A i \in 1..n + 1 : i \in g[n + 1] <=> i \in g[n]
    BY <1>1, <2>1, <2>2
  <2>5. ASSUME NEW j \in g[n + 1]
        PROVE  \E i \in 1..n + 1 : i \notin g[n + 1] /\ i < j /\ Dominates(b[i], b[j])
    <3>1. CASE j \in g[n]
      <4>1. PICK i \in 1..n : i \notin g[n] /\ i < j /\ Dominates(b[i], b[j])
        BY <2>1, <3>1
      <4>2. i \in 1..n + 1
        BY <2>1
      <4> QED BY <2>4, <4>1, <4>2
    <3>2. CASE j \notin g[n]
      <4>1. n + 1 \notin g[n] /\ j \in (n + 1) + 1..L /\ Dominates(b[n + 1], b[j])
        BY <2>2, <2>5, <3>2
      <4>2. n + 1 \in 1..n + 1 /\ n + 1 < j
        BY <1>1, <2>1, <4>1
      <4> QED BY <2>4, <4>1, <4>2
    <3> QED BY <3>1, <3>2
  <2>6. ASSUME NEW i \in 1..n + 1, NEW j \in 1..L,
               i \notin g[n + 1], i < j, Dominates(b[i], b[j])
        PROVE  j \in g[n + 1]
    <3>1. CASE i = n + 1
      <4>1. j \in (n + 1) + 1..L /\ n + 1 \notin g[n]
        BY <1>1, <2>1, <2>4, <2>6, <3>1
      <4> QED BY <2>2, <2>6, <3>1, <4>1
    <3>2. CASE i # n + 1
      <4>1. i \in 1..n /\ i \notin g[n]
        BY <2>1, <2>4, <2>6, <3>2
      <4>2. j \in g[n]
        BY <2>1, <2>6, <4>1
      <4> QED BY <2>2, <4>2
    <3> QED BY <3>1, <3>2
  <2> QED BY <2>5, <2>6
<1> HIDE DEF N
<1>12. N = Nat
  <2>1. N \in SUBSET Nat
    BY DEF N
  <2> QED BY <1>10, <1>11, <2>1, InductOnNat
<1>13. Good(L) /\ L \in 0..L
  BY <1>1, <1>12 DEF N
<1>14. g[L] \in S
  BY <1>13
<1> QED BY <1>1, <1>9, <1>13, <1>14

\* What a pass over stored labels has beaten so far.
Out(B, b) == [batch : SUBSET DOMAIN b, bucket : SUBSET DOMAIN B]

\* g is what a pass over B has beaten after each of its labels.
PassOver(g, B, b, beaten) ==
  /\ g \in [0..Len(B) -> Out(B, b)]
  /\ g[0].batch = beaten /\ g[0].bucket = {}
  /\ \A n \in 1..Len(B) :
       /\ g[n].batch = OutOfBatch(B[n], b, Highest(Costs(b, DOMAIN b \ beaten)), g[n - 1])
       /\ g[n].bucket = g[n - 1].bucket \cup
            IF OutOfBucket(B[n], b, Lowest(Costs(b, DOMAIN b \ beaten)), g[n].batch) THEN {n} ELSE {}

LEMMA FusedPassIs ==
  ASSUME NEW B \in Seq(Entry), NEW b \in Seq(Offer), NEW beaten \in SUBSET DOMAIN b
  PROVE  \E g : PassOver(g, B, b, beaten) /\ FusedPass(B, b, beaten) = g[Len(B)]
<1> DEFINE L == Len(B)
           hi == Highest(Costs(b, DOMAIN b \ beaten))
           lo == Lowest(Costs(b, DOMAIN b \ beaten))
           start == [batch |-> beaten, bucket |-> {}]
           Gone(n, out) == OutOfBatch(B[n], b, hi, out)
           Step1(n, out) ==
             [batch  |-> Gone(n, out),
              bucket |-> out.bucket \cup IF OutOfBucket(B[n], b, lo, Gone(n, out)) THEN {n} ELSE {}]
           S == Out(B, b)
           Equation(g) == g = [n \in 0..Len(B) |-> IF n = 0 THEN start ELSE Step1(n, g[n - 1])]
           F == [n \in Nat |-> [x \in S |-> IF n \in 1..L THEN Step1(n, x) ELSE x]]
<1>1. L \in Nat /\ DOMAIN B = 1..L
  OBVIOUS
<1>2. F \in [Nat -> [S -> S]] /\ start \in S
  <2>1. ASSUME NEW n \in Nat, NEW x \in S
        PROVE  (IF n \in 1..L THEN Step1(n, x) ELSE x) \in S
    <3>1. x.batch \in SUBSET DOMAIN b /\ x.bucket \in SUBSET DOMAIN B
      BY DEF Out
    <3>2. Gone(n, x) \in SUBSET DOMAIN b
      BY <3>1 DEF OutOfBatch
    <3> HIDE DEF Gone
    <3>3. CASE n \in 1..L
      <4>1. x.bucket \cup (IF OutOfBucket(B[n], b, lo, Gone(n, x)) THEN {n} ELSE {}) \in SUBSET DOMAIN B
        BY <1>1, <3>1, <3>3
      <4> QED BY <3>2, <3>3, <4>1 DEF Out
    <3>4. CASE n \notin 1..L
      BY <3>4
    <3> QED BY <3>3, <3>4
  <2>2. start \in S
    BY DEF Out
  <2> HIDE DEF S, Step1, start, L
  <2> QED BY <2>1, <2>2
<1>3. PICK g \in [0..L -> S] : g[0] = start /\ \A i \in 1..L : g[i] = F[i][g[i - 1]]
  <2> HIDE DEF F, S, L, start
  <2>1. Chains(S, L)
    BY <1>1, ChainOf
  <2> QED BY <1>2, <2>1 DEF Chains
<1> HIDE DEF Step1, start, S
<1>4. \A i \in 1..L : i - 1 \in 0..L /\ g[i] = Step1(i, g[i - 1])
  <2>1. ASSUME NEW i \in 1..L PROVE i - 1 \in 0..L /\ g[i] = Step1(i, g[i - 1])
    <3>1. i - 1 \in 0..L /\ i \in Nat
      BY <1>1
    <3>2. g[i - 1] \in S
      BY <3>1
    <3>3. F[i][g[i - 1]] = IF i \in 1..L THEN Step1(i, g[i - 1]) ELSE g[i - 1]
      BY <3>1, <3>2
    <3> QED BY <1>3, <3>1, <3>3
  <2> QED BY <2>1
<1> HIDE DEF F
<1>5. Equation(g)
  <2>1. g = [n \in 0..Len(B) |-> g[n]]
    OBVIOUS
  <2>2. \A n \in 0..Len(B) : n # 0 => n \in 1..L
    BY <1>1
  <2> QED BY <1>3, <1>4, <2>1, <2>2
<1> DEFINE s == CHOOSE h : Equation(h)
<1>6. Equation(s)
  BY <1>5
<1>7. FusedPass(B, b, beaten) = s[L]
  BY DEF FusedPass, Step1, start
<1>8. s[0] = start /\ \A i \in 1..L : s[i] = Step1(i, s[i - 1])
  <2>1. 0 \in 0..L /\ \A i \in 1..L : i \in 0..L /\ i # 0
    BY <1>1
  <2> QED BY <1>6, <2>1
<1> HIDE DEF s, Equation
<1>9. FusedPass(B, b, beaten) = g[L]
  <2>1. SameUpto(L)
    BY <1>1, StepsDecide
  <2>2. \A i \in 1..L : s[i - 1] = g[i - 1] => s[i] = g[i]
    BY <1>4, <1>8
  <2>3. L \in 0..L
    BY <1>1
  <2> HIDE DEF L
  <2>4. s[0] = g[0]
    BY <1>3, <1>8
  <2>5. \A i \in 0..L : s[i] = g[i]
    BY <2>1, <2>2, <2>4 DEF SameUpto
  <2> QED BY <1>7, <2>3, <2>5
<1>10. PassOver(g, B, b, beaten)
  <2>1. g[0].batch = beaten /\ g[0].bucket = {}
    BY <1>3 DEF start
  <2>2. ASSUME NEW n \in 1..L
        PROVE  /\ g[n].batch = Gone(n, g[n - 1])
               /\ g[n].bucket = g[n - 1].bucket \cup
                    IF OutOfBucket(B[n], b, lo, g[n].batch) THEN {n} ELSE {}
    <3>1. g[n] = Step1(n, g[n - 1])
      BY <1>4
    <3> HIDE DEF Gone
    <3>2. g[n].batch = Gone(n, g[n - 1])
      BY <3>1 DEF Step1
    <3>3. g[n].bucket = g[n - 1].bucket \cup
            IF OutOfBucket(B[n], b, lo, Gone(n, g[n - 1])) THEN {n} ELSE {}
      BY <3>1 DEF Step1
    <3> QED BY <3>2, <3>3
  <2> QED BY <1>3, <2>1, <2>2 DEF PassOver, S
<1> QED BY <1>9, <1>10 DEF L

\* The labels of a batch that are not in I.
BatchBut(b, I) == {b[j] : j \in DOMAIN b \ I}

\* Where n labels of the bucket have been passed, every label there was is still
\* there or is beaten by one that is.
LEMMA PassLosesNothing ==
  ASSUME PenaltiesAddUp, NEW B \in Seq(Entry), NEW b \in Seq(Offer),
         NEW out, out = FusedPass(B, b, IntraBatch(b))
  PROVE  /\ out.batch \in SUBSET DOMAIN b
         /\ \A l \in Live(B) \cup BatchBut(b, {}) :
              \E k \in LiveBut(B, out.bucket) \cup BatchBut(b, out.batch) : k = l \/ Dominates(k, l)
<1> DEFINE L == Len(B)
           beaten == IntraBatch(b)
           All == Live(B) \cup BatchBut(b, {})
           Left(x) == LiveBut(B, x.bucket) \cup BatchBut(b, x.batch)
           hi == Highest(Costs(b, DOMAIN b \ beaten))
           lo == Lowest(Costs(b, DOMAIN b \ beaten))
<1>1. L \in Nat /\ DOMAIN B = 1..L
  OBVIOUS
<1>2. /\ beaten \in SUBSET DOMAIN b
      /\ \A j \in beaten : \E i \in DOMAIN b \ beaten : Dominates(b[i], b[j])
  BY IntraBatchIs
<1> HIDE DEF beaten
<1>3. PICK g : PassOver(g, B, b, beaten) /\ out = g[L]
  BY <1>2, FusedPassIs DEF beaten
<1>4. /\ g \in [0..L -> Out(B, b)]
      /\ g[0].batch = beaten /\ g[0].bucket = {}
      /\ \A n \in 1..L :
           /\ g[n].batch = OutOfBatch(B[n], b, hi, g[n - 1])
           /\ g[n].bucket = g[n - 1].bucket \cup
                IF OutOfBucket(B[n], b, lo, g[n].batch) THEN {n} ELSE {}
  BY <1>3 DEF PassOver
<1>5. \A l \in All : l \in Offer
  <2>1. \A l \in Live(B) : l \in Offer
    BY EntryTypes, LiveHas
  <2>2. \A l \in BatchBut(b, {}) : l \in Offer
    BY DEF BatchBut
  <2> QED BY <2>1, <2>2
<1>6. \A x : Left(x) \subseteq All
  <2>1. \A I : LiveBut(B, I) \subseteq Live(B)
    BY DEF LiveBut, Live
  <2>2. \A I : BatchBut(b, I) \subseteq BatchBut(b, {})
    BY DEF BatchBut
  <2> QED BY <2>1, <2>2
<1> HIDE DEF L, hi, lo
<1> DEFINE
     Good(n) == /\ g[n].bucket \subseteq 1..n
                /\ \A l \in All : \E k \in Left(g[n]) : k = l \/ Dominates(k, l)
     N == {n \in Nat : n <= L => Good(n)}
<1> HIDE DEF All
<1>7. 0 \in N
  <2>1. Good(0)
    <3>1. ASSUME NEW l \in All PROVE \E k \in Left(g[0]) : k = l \/ Dominates(k, l)
      <4>1. CASE l \in Live(B)
        <5>1. l \in LiveBut(B, {})
          BY <4>1 DEF LiveBut, Live
        <5> QED BY <1>4, <5>1
      <4>2. CASE l \in BatchBut(b, {})
        <5>1. PICK j \in DOMAIN b : l = b[j]
          BY <4>2 DEF BatchBut
        <5>2. CASE j \in beaten
          <6>1. PICK i \in DOMAIN b \ beaten : Dominates(b[i], b[j])
            BY <1>2, <5>2
          <6>2. b[i] \in BatchBut(b, beaten)
            BY DEF BatchBut
          <6> QED BY <1>4, <5>1, <6>1, <6>2
        <5>3. CASE j \notin beaten
          <6>1. l \in BatchBut(b, beaten)
            BY <5>1, <5>3 DEF BatchBut
          <6> QED BY <1>4, <6>1
        <5> QED BY <5>2, <5>3
      <4> QED BY <3>1, <4>1, <4>2 DEF All
    <3>2. g[0].bucket \subseteq 1..0
      BY <1>4
    <3> QED BY <3>1, <3>2
  <2> QED BY <2>1
<1>8. ASSUME NEW n \in N PROVE n + 1 \in N
  <2> SUFFICES ASSUME n + 1 <= L PROVE Good(n + 1)
    BY <1>8
  <2> DEFINE e == B[n + 1]
             old == g[n]
             new == g[n + 1]
  <2>1. n \in Nat /\ n \in 0..L /\ n + 1 \in 1..L /\ n + 1 \in 0..L /\ (n + 1) - 1 = n /\ Good(n)
    BY <1>1, <1>8
  <2>2. new.batch = OutOfBatch(e, b, hi, old)
        /\ new.bucket = old.bucket \cup IF OutOfBucket(e, b, lo, new.batch) THEN {n + 1} ELSE {}
    BY <1>4, <2>1
  <2>3. e.label \in Offer /\ n + 1 \in DOMAIN B
    BY <1>1, <2>1, EntryTypes
  <2>4. old.bucket \subseteq 1..n /\ n + 1 \notin old.bucket
    BY <2>1
  <2> HIDE DEF Good, e, old, new
  \* The stored label that is passed stays or is beaten by one of the batch.
  <2>5. ASSUME ~e.dominated
        PROVE  \E k \in Left(new) : k = e.label \/ Dominates(k, e.label)
    <3>1. CASE OutOfBucket(e, b, lo, new.batch)
      <4>1. PICK j \in DOMAIN b \ new.batch : Dominates(b[j], e.label)
        BY <3>1 DEF OutOfBucket
      <4>2. b[j] \in BatchBut(b, new.batch)
        BY DEF BatchBut
      <4> QED BY <4>1, <4>2
    <3>2. CASE ~OutOfBucket(e, b, lo, new.batch)
      <4>1. n + 1 \notin new.bucket
        BY <2>2, <2>4, <3>2
      <4>2. e.label \in LiveBut(B, new.bucket)
        BY <2>3, <2>5, <4>1 DEF LiveBut, e
      <4> QED BY <4>2
    <3> QED BY <3>1, <3>2
  \* So does whatever was left before.
  <2>6. ASSUME NEW m \in Left(old)
        PROVE  \E k \in Left(new) : k = m \/ Dominates(k, m)
    <3>1. CASE m \in LiveBut(B, old.bucket)
      <4>1. PICK i \in DOMAIN B : ~B[i].dominated /\ i \notin old.bucket /\ m = B[i].label
        BY <3>1 DEF LiveBut
      <4>2. CASE i = n + 1
        BY <2>5, <4>1, <4>2 DEF e
      <4>3. CASE i # n + 1
        <5>1. i \notin new.bucket
          BY <2>2, <4>1, <4>3
        <5>2. m \in LiveBut(B, new.bucket)
          BY <4>1, <5>1 DEF LiveBut
        <5> QED BY <5>2
      <4> QED BY <4>2, <4>3
    <3>2. CASE m \in BatchBut(b, old.batch)
      <4>1. PICK j \in DOMAIN b : j \notin old.batch /\ m = b[j]
        BY <3>2 DEF BatchBut
      <4>2. CASE j \notin new.batch
        <5>1. m \in BatchBut(b, new.batch)
          BY <4>1, <4>2 DEF BatchBut
        <5> QED BY <5>1
      <4>3. CASE j \in new.batch
        <5>1. ~e.dominated /\ Dominates(e.label, m)
          BY <2>2, <4>1, <4>3 DEF OutOfBatch
        <5>2. PICK k \in Left(new) : k = e.label \/ Dominates(k, e.label)
          BY <2>5, <5>1
        <5>3. k \in Offer /\ m \in Offer
          BY <1>5, <1>6, <4>1, <5>2
        <5>4. Dominates(k, m)
          BY <2>3, <5>1, <5>2, <5>3, BeatsTwice
        <5> QED BY <5>4
      <4> QED BY <4>2, <4>3
    <3> QED BY <2>6, <3>1, <3>2
  <2>7. ASSUME NEW l \in All PROVE \E k \in Left(new) : k = l \/ Dominates(k, l)
    <3>1. PICK m \in Left(old) : m = l \/ Dominates(m, l)
      BY <2>1 DEF Good, old
    <3>2. PICK k \in Left(new) : k = m \/ Dominates(k, m)
      BY <2>6
    <3>3. k \in Offer /\ m \in Offer /\ l \in Offer
      BY <1>5, <1>6
    <3>4. k = l \/ Dominates(k, l)
      BY <3>1, <3>2, <3>3, BeatsTwice
    <3> QED BY <3>4
  <2>8. new.bucket \subseteq 1..n + 1
    BY <2>1, <2>2, <2>4
  <2> QED BY <2>7, <2>8 DEF Good, new
<1> HIDE DEF N
<1>9. N = Nat
  <2>1. N \in SUBSET Nat
    BY DEF N
  <2> QED BY <1>7, <1>8, <2>1, InductOnNat
<1>10. Good(L) /\ L \in 0..L
  BY <1>1, <1>9 DEF N, L
<1>11. out.batch \in SUBSET DOMAIN b
  <2>1. g[L] \in Out(B, b)
    BY <1>4, <1>10
  <2> QED BY <1>3, <2>1 DEF Out
<1> QED BY <1>3, <1>10, <1>11 DEF All

\* What a batch leaves: the stored labels that are still unbeaten, and those of the
\* batch, in order.
LEMMA BatchTryInsertLive ==
  ASSUME NEW B \in Seq(Entry), NEW b \in Seq(Offer),
         NEW out, out = FusedPass(B, b, IntraBatch(b)), out.batch \in SUBSET DOMAIN b
  PROVE  /\ BatchTryInsert(B, b) \in Seq(Entry)
         /\ Live(BatchTryInsert(B, b)) = LiveBut(B, out.bucket) \cup BatchBut(b, out.batch)
         /\ InOrderOfCost(B) => InOrderOfCost(BatchTryInsert(B, b))
<1> DEFINE L == Len(b)
           start == Marked(B, out.bucket)
           Put(j, C) == IF j \in out.batch THEN C ELSE InsertSorted(C, b[j])
           S == Seq(Entry)
           Equation(g) == g = [j \in 0..Len(b) |-> IF j = 0 THEN start ELSE Put(j, g[j - 1])]
           F == [j \in Nat |-> [C \in S |-> IF j \in 1..L THEN Put(j, C) ELSE C]]
<1>1. L \in Nat /\ DOMAIN b = 1..L /\ \A j \in 1..L : b[j] \in Offer
  OBVIOUS
<1>2. F \in [Nat -> [S -> S]] /\ start \in S
  <2>1. ASSUME NEW j \in Nat, NEW C \in S PROVE (IF j \in 1..L THEN Put(j, C) ELSE C) \in S
    BY <1>1, InsertPlace
  <2>2. start \in S
    BY MarkedLive
  <2> HIDE DEF S, Put, start, L
  <2> QED BY <2>1, <2>2
<1>3. PICK g \in [0..L -> S] : g[0] = start /\ \A i \in 1..L : g[i] = F[i][g[i - 1]]
  <2> HIDE DEF F, S, L, start
  <2>1. Chains(S, L)
    BY <1>1, ChainOf
  <2> QED BY <1>2, <2>1 DEF Chains
<1> HIDE DEF Put, start, S
<1>4. \A i \in 1..L : i - 1 \in 0..L /\ g[i] = Put(i, g[i - 1])
  <2>1. ASSUME NEW i \in 1..L PROVE i - 1 \in 0..L /\ g[i] = Put(i, g[i - 1])
    <3>1. i - 1 \in 0..L /\ i \in Nat
      BY <1>1
    <3>2. g[i - 1] \in S
      BY <3>1
    <3>3. F[i][g[i - 1]] = IF i \in 1..L THEN Put(i, g[i - 1]) ELSE g[i - 1]
      BY <3>1, <3>2
    <3> QED BY <1>3, <3>1, <3>3
  <2> QED BY <2>1
<1> HIDE DEF F
<1>5. Equation(g)
  <2>1. g = [n \in 0..Len(b) |-> g[n]]
    OBVIOUS
  <2>2. \A n \in 0..Len(b) : n # 0 => n \in 1..L
    BY <1>1
  <2> QED BY <1>3, <1>4, <2>1, <2>2
<1> DEFINE s == CHOOSE h : Equation(h)
<1>6. Equation(s)
  BY <1>5
<1>7. BatchTryInsert(B, b) = s[L]
  BY DEF BatchTryInsert, Put, start
<1>8. s[0] = start /\ \A i \in 1..L : s[i] = Put(i, s[i - 1])
  <2>1. 0 \in 0..L /\ \A i \in 1..L : i \in 0..L /\ i # 0
    BY <1>1
  <2> QED BY <1>6, <2>1
<1> HIDE DEF s, Equation
<1>9. BatchTryInsert(B, b) = g[L]
  <2>1. SameUpto(L)
    BY <1>1, StepsDecide
  <2>2. \A i \in 1..L : s[i - 1] = g[i - 1] => s[i] = g[i]
    BY <1>4, <1>8
  <2>3. L \in 0..L
    BY <1>1
  <2> HIDE DEF L
  <2>4. s[0] = g[0]
    BY <1>3, <1>8
  <2>5. \A i \in 0..L : s[i] = g[i]
    BY <2>1, <2>2, <2>4 DEF SameUpto
  <2> QED BY <1>7, <2>3, <2>5
<1> DEFINE
     Placed(n) == {b[j] : j \in 1..n \ out.batch}
     Good(n) == /\ Live(g[n]) = LiveBut(B, out.bucket) \cup Placed(n)
                /\ InOrderOfCost(B) => InOrderOfCost(g[n])
     N == {n \in Nat : n <= L => Good(n)}
<1> HIDE DEF L
<1>10. 0 \in N
  <2>1. Live(g[0]) = LiveBut(B, out.bucket) /\ (InOrderOfCost(B) => InOrderOfCost(g[0]))
    BY <1>3, MarkedLive DEF start
  <2>2. Placed(0) = {}
    OBVIOUS
  <2> QED BY <2>1, <2>2
<1>11. ASSUME NEW n \in N PROVE n + 1 \in N
  <2> SUFFICES ASSUME n + 1 <= L PROVE Good(n + 1)
    BY <1>11
  <2>1. n \in Nat /\ n \in 0..L /\ n + 1 \in 1..L /\ (n + 1) - 1 = n /\ Good(n)
    BY <1>1, <1>11
  <2>2. g[n + 1] = IF n + 1 \in out.batch THEN g[n] ELSE InsertSorted(g[n], b[n + 1])
    BY <1>4, <2>1 DEF Put
  <2>3. g[n] \in Seq(Entry) /\ b[n + 1] \in Offer
    BY <1>1, <2>1 DEF S
  <2>4. Placed(n + 1) = Placed(n) \cup IF n + 1 \in out.batch THEN {} ELSE {b[n + 1]}
    <3>1. 1..n + 1 = 1..n \cup {n + 1}
      BY <2>1
    <3> QED BY <3>1
  <2> HIDE DEF Placed
  <2>5. CASE n + 1 \in out.batch
    <3>1. g[n + 1] = g[n] /\ Placed(n + 1) = Placed(n)
      BY <2>2, <2>4, <2>5
    <3> QED BY <2>1, <3>1
  <2>6. CASE n + 1 \notin out.batch
    <3>1. g[n + 1] = InsertSorted(g[n], b[n + 1]) /\ Placed(n + 1) = Placed(n) \cup {b[n + 1]}
      BY <2>2, <2>4, <2>6
    <3>2. Live(g[n + 1]) = Live(g[n]) \cup {b[n + 1]}
      BY <2>3, <3>1, InsertLive
    <3>3. InOrderOfCost(g[n]) => InOrderOfCost(g[n + 1])
      BY <2>3, <3>1, InsertInOrder
    <3> QED BY <2>1, <3>1, <3>2, <3>3
  <2> QED BY <2>5, <2>6
<1> HIDE DEF N
<1>12. N = Nat
  <2>1. N \in SUBSET Nat
    BY DEF N
  <2> QED BY <1>10, <1>11, <2>1, InductOnNat
<1>13. Good(L) /\ L \in 0..L
  BY <1>1, <1>12 DEF N
<1>14. g[L] \in Seq(Entry)
  BY <1>13 DEF S
<1>15. Placed(L) = BatchBut(b, out.batch)
  BY <1>1 DEF BatchBut
<1> QED BY <1>9, <1>13, <1>14, <1>15

\* Sorting keeps the labels of a batch.
LEMMA SortedIs ==
  ASSUME NEW s \in Seq(Offer), NEW b \in Sorted(s)
  PROVE  /\ b \in Seq(Offer) /\ Len(b) = Len(s) /\ DOMAIN b = DOMAIN s
         /\ BatchBut(b, {}) = BatchBut(s, {})
         /\ \A i, j \in DOMAIN b : i < j => b[i].cost <= b[j].cost
         /\ DistinctCosts(s) => \A i, j \in DOMAIN b : i < j => b[i].cost < b[j].cost
<1> DEFINE D == DOMAIN s
<1>1. D = 1..Len(s) /\ Len(s) \in Nat /\ \A i \in D : s[i] \in Offer
  OBVIOUS
<1>2. /\ \E p \in [D -> D] : (\A i, j \in D : p[i] = p[j] => i = j) /\ b = [i \in D |-> s[p[i]]]
      /\ \A i, j \in DOMAIN b : i < j => b[i].cost <= b[j].cost
  BY DEF Sorted
<1>3. PICK p \in [D -> D] : (\A i, j \in D : p[i] = p[j] => i = j) /\ b = [i \in D |-> s[p[i]]]
  BY <1>2
<1> HIDE DEF D
<1>4. DOMAIN b = D /\ \A i \in D : b[i] = s[p[i]] /\ b[i] \in Offer
  BY <1>1, <1>3
<1>5. b \in Seq(Offer) /\ Len(b) = Len(s)
  <2>1. b \in [1..Len(s) -> Offer]
    BY <1>1, <1>3, <1>4
  <2> QED BY <1>1, <2>1
<1>6. \A j \in D : \E i \in D : p[i] = j
  <2>1. p \in Injection(D, D)
    BY <1>3 DEF Injection, IsInjective
  <2>2. IsFiniteSet(D)
    BY <1>1, FS_Interval
  <2>3. p \in Surjection(D, D)
    BY <2>1, <2>2, FS_Injection
  <2> QED BY <2>3 DEF Surjection
<1>7. BatchBut(b, {}) = BatchBut(s, {})
  BY <1>3, <1>4, <1>6 DEF BatchBut, D
<1>8. ASSUME DistinctCosts(s), NEW i \in D, NEW j \in D, i < j
      PROVE  b[i].cost < b[j].cost
  <2>1. p[i] \in D /\ p[j] \in D /\ p[i] # p[j]
    BY <1>1, <1>3, <1>8
  <2>2. s[p[i]].cost # s[p[j]].cost
    BY <1>8, <2>1 DEF DistinctCosts, D
  <2>3. b[i].cost # b[j].cost /\ b[i].cost <= b[j].cost
    BY <1>2, <1>4, <1>8, <2>2
  <2>4. b[i].cost \in Int /\ b[j].cost \in Int
    BY <1>4, OfferTypes
  <2> QED BY <2>3, <2>4
<1> QED BY <1>2, <1>4, <1>5, <1>7, <1>8 DEF D

\* What the bucket and the buffer hold: stored labels stand in the order of their
\* costs, on which the searches rely that break off.
Stored == bucket \in Seq(Entry) /\ buf \in Seq(Offer) /\ InOrderOfCost(bucket)

LEMMA StoredStep == PenaltiesAddUp /\ Stored /\ [BatchNext]_store => Stored'
<1> SUFFICES ASSUME PenaltiesAddUp, Stored, [BatchNext]_store PROVE Stored'
  OBVIOUS
<1>1. ASSUME NEW l \in Offer, Collect(l) PROVE Stored'
  BY <1>1 DEF Stored, Collect
<1>2. CASE ProcessBatch
  <2>1. buf' = <<>>
    BY <1>2 DEF ProcessBatch
  <2>2. bucket' \in Seq(Entry) /\ InOrderOfCost(bucket')
    <3>1. CASE Len(buf) = 1
      <4>1. bucket' = TryInsert(bucket, buf[1]) /\ buf[1] \in Offer
        BY <1>2, <3>1 DEF ProcessBatch, Stored
      <4> QED BY <4>1, TryInsertLive DEF Stored
    <3>2. CASE Len(buf) # 1
      <4>1. PICK b \in Sorted(buf) : bucket' = BatchTryInsert(bucket, b)
        BY <1>2, <3>2 DEF ProcessBatch
      <4>2. b \in Seq(Offer)
        BY SortedIs DEF Stored
      <4> DEFINE out == FusedPass(bucket, b, IntraBatch(b))
      <4>3. out.batch \in SUBSET DOMAIN b
        BY <4>2, PassLosesNothing DEF Stored
      <4> QED BY <4>1, <4>2, <4>3, BatchTryInsertLive DEF Stored
    <3> QED BY <3>1, <3>2
  <2> QED BY <2>1, <2>2 DEF Stored
<1>3. CASE UNCHANGED store
  BY <1>3 DEF Stored, store
<1> QED BY <1>1, <1>2, <1>3 DEF BatchNext

LEMMA StepLosesNothing ==
  ASSUME PenaltiesAddUp, Stored, BatchNext, NEW l \in Coming
  PROVE  \E k \in Coming' : k = l \/ Dominates(k, l)
<1>1. ASSUME NEW m \in Offer, Collect(m) PROVE l \in Coming'
  <2>1. bucket' = bucket /\ buf' = Append(buf, m)
    BY <1>1 DEF Collect
  <2>2. \A i \in DOMAIN buf : i \in DOMAIN buf' /\ buf'[i] = buf[i]
    BY <2>1 DEF Stored
  <2> QED BY <2>1, <2>2 DEF Coming
<1>2. CASE ProcessBatch
  <2>1. buf' = <<>>
    BY <1>2 DEF ProcessBatch
  <2>2. Coming' = Live(bucket')
    BY <2>1 DEF Coming
  <2>3. Coming = Live(bucket) \cup BatchBut(buf, {})
    BY DEF Coming, BatchBut
  <2>4. CASE Len(buf) = 1
    <3> DEFINE m == buf[1]
    <3>1. bucket' = TryInsert(bucket, m) /\ m \in Offer /\ BatchBut(buf, {}) = {m}
      BY <1>2, <2>4 DEF ProcessBatch, Stored, BatchBut
    <3> HIDE DEF m
    <3>2. Coming' = IF \E k \in Live(bucket) : Dominates(k, m) THEN Live(bucket)
                    ELSE {k \in Live(bucket) : ~Dominates(m, k)} \cup {m}
      BY <2>2, <3>1, TryInsertLive DEF Stored
    <3> QED BY <2>3, <3>1, <3>2
  <2>5. CASE Len(buf) # 1
    <3>1. PICK b \in Sorted(buf) : bucket' = BatchTryInsert(bucket, b)
      BY <1>2, <2>5 DEF ProcessBatch
    <3>2. b \in Seq(Offer) /\ BatchBut(b, {}) = BatchBut(buf, {})
      BY SortedIs DEF Stored
    <3> DEFINE out == FusedPass(bucket, b, IntraBatch(b))
    <3>3. /\ out.batch \in SUBSET DOMAIN b
          /\ \A x \in Live(bucket) \cup BatchBut(b, {}) :
               \E k \in LiveBut(bucket, out.bucket) \cup BatchBut(b, out.batch) : k = x \/ Dominates(k, x)
      BY <3>2, PassLosesNothing DEF Stored
    <3>4. Live(bucket') = LiveBut(bucket, out.bucket) \cup BatchBut(b, out.batch)
      BY <3>1, <3>2, <3>3, BatchTryInsertLive DEF Stored
    <3> HIDE DEF out
    <3> QED BY <2>2, <2>3, <3>2, <3>3, <3>4
  <2> QED BY <2>4, <2>5
<1> QED BY <1>1, <1>2 DEF BatchNext

\* A label of a bucket, or one on its way there in a batch of whatever size, stays
\* or is beaten by one that stays: passing the stored labels once for all labels
\* of a batch loses nothing, nor do the bounds by which comparisons are left out.
THEOREM BatchLosesNothing ==
  ASSUME PenaltiesAddUp
  PROVE  BatchSpec => NothingIsLost
<1>1. BatchInit => Stored
  <2>1. <<>> \in Seq(Entry) /\ <<>> \in Seq(Offer) /\ InOrderOfCost(<<>>)
    BY DEF InOrderOfCost
  <2> QED BY <2>1 DEF BatchInit, Stored
<1>2. Stored /\ [BatchNext]_store => Stored'
  BY StoredStep
<1>3. Stored /\ [BatchNext]_store
        => [\A l \in Coming : \E k \in Coming' : k = l \/ Dominates(k, l)]_store
  BY StepLosesNothing
<1> QED BY <1>1, <1>2, <1>3, PTL DEF BatchSpec, NothingIsLost

\* Where nobody is paid for being compared, a label beats none that is cheaper.
LEMMA BeatsCheaper ==
  ASSUME PenaltiesCost, NEW k \in Offer, NEW l \in Offer, Dominates(k, l)
  PROVE  k.cost <= l.cost
<1> DEFINE p == Penalty[<<k.st, l.st>>]
<1>1. k.cost + p <= l.cost /\ p >= 0
  BY DEF Dominates, PenaltiesCost
<1>2. k.cost \in Int /\ l.cost \in Int /\ p \in Int
  BY OfferTypes
<1> HIDE DEF p
<1> QED BY <1>1, <1>2

\* The labels of a batch R that no other of it and none of A beats, and what is
\* unbeaten when these have joined A.
KeptOf(A, R) == {l \in R : (\A k \in A : ~Dominates(k, l)) /\ \A k \in R \ {l} : ~Dominates(k, l)}
Merged(A, R) == KeptOf(A, R) \cup {k \in A : \A l \in KeptOf(A, R) : ~Dominates(l, k)}

\* Labels with costs that rise.
Rising(b) == \A i, j \in DOMAIN b : i < j => b[i].cost < b[j].cost

LEMMA BatchTypes ==
  ASSUME NEW b \in Seq(Offer)
  PROVE  /\ DOMAIN b = 1..Len(b) /\ Len(b) \in Nat
         /\ \A j \in DOMAIN b : b[j] \in Offer /\ b[j].cost \in Int
<1>1. DOMAIN b = 1..Len(b) /\ Len(b) \in Nat
  OBVIOUS
<1>2. ASSUME NEW j \in DOMAIN b PROVE b[j] \in Offer /\ b[j].cost \in Int
  <2>1. b[j] \in Offer
    OBVIOUS
  <2> QED BY <2>1, OfferTypes
<1> QED BY <1>1, <1>2

\* The bounds that are taken from the costs of what is left of a batch.
LEMMA BoundsOfBatch ==
  ASSUME NEW b \in Seq(Offer), Rising(b), NEW I \in SUBSET DOMAIN b, NEW j \in DOMAIN b \ I
  PROVE  LET C == Costs(b, DOMAIN b \ I)
         IN Highest(C) \in Int /\ Lowest(C) \in Int /\ b[j].cost <= Highest(C) /\ Lowest(C) <= b[j].cost
<1> DEFINE R == DOMAIN b \ I
           C == Costs(b, R)
           L == Len(b)
<1>1. /\ L \in Nat /\ DOMAIN b = 1..L /\ \A i \in DOMAIN b : b[i].cost \in Int
      /\ \A i \in R : i \in 1..L
  BY BatchTypes
<1> HIDE DEF L
<1>2. \E c \in C : \A x \in C : c <= x
  <2>1. PICK m \in R : \A i \in R : m <= i
    <3>1. R \in SUBSET Nat /\ R # {}
      BY <1>1
    <3> HIDE DEF R
    <3> QED BY <3>1, LeastNatural
  <2>2. ASSUME NEW i \in R PROVE b[m].cost <= b[i].cost
    <3>1. m = i \/ m < i
      BY <1>1, <2>1
    <3> QED BY <1>1, <3>1 DEF Rising
  <2> QED BY <2>2 DEF Costs
<1>3. \E c \in C : \A x \in C : x <= c
  <2> DEFINE T == {L - i : i \in R}
  <2>1. PICK t \in T : \A u \in T : t <= u
    <3>1. \A i \in R : L - i \in Nat
      BY <1>1
    <3>2. T \in SUBSET Nat /\ T # {}
      BY <3>1
    <3> HIDE DEF T
    <3> QED BY <3>2, LeastNatural
  <2>2. PICK m \in R : t = L - m
    BY <2>1
  <2>3. ASSUME NEW i \in R PROVE b[i].cost <= b[m].cost
    <3>1. L - m <= L - i /\ i \in Int /\ m \in Int
      BY <1>1, <2>1, <2>2
    <3>2. m = i \/ i < m
      BY <1>1, <3>1
    <3> QED BY <1>1, <3>2 DEF Rising
  <2> QED BY <2>3 DEF Costs
<1>4. b[j].cost \in C /\ \A c \in C : c \in Int
  BY <1>1 DEF Costs
<1>5. Highest(C) \in C /\ \A x \in C : x <= Highest(C)
  BY <1>3 DEF Highest
<1>6. Lowest(C) \in C /\ \A x \in C : Lowest(C) <= x
  BY <1>2 DEF Lowest
<1> HIDE DEF C
<1>7. Highest(C) \in Int /\ Lowest(C) \in Int /\ b[j].cost <= Highest(C) /\ Lowest(C) <= b[j].cost
  BY <1>4, <1>5, <1>6
<1> QED BY <1>7 DEF C

\* In a batch with rising costs the unbeaten are those that no other one beats.
LEMMA IntraBatchIsExact ==
  ASSUME PenaltiesAddUp, PenaltiesCost, NEW b \in Seq(Offer), Rising(b), NEW j \in DOMAIN b
  PROVE  j \notin IntraBatch(b) <=> \A k \in BatchBut(b, {}) \ {b[j]} : ~Dominates(k, b[j])
<1> DEFINE beaten == IntraBatch(b)
<1>1. /\ beaten \subseteq DOMAIN b
      /\ \A i \in beaten : \E h \in DOMAIN b \ beaten : h < i /\ Dominates(b[h], b[i])
      /\ \A h \in DOMAIN b \ beaten, i \in DOMAIN b : h < i /\ Dominates(b[h], b[i]) => i \in beaten
  BY IntraBatchIs
<1>2. DOMAIN b = 1..Len(b) /\ Len(b) \in Nat /\ \A i \in DOMAIN b : b[i] \in Offer /\ b[i].cost \in Int
  BY BatchTypes
<1> HIDE DEF beaten
<1>3. ASSUME j \in beaten PROVE \E k \in BatchBut(b, {}) \ {b[j]} : Dominates(k, b[j])
  <2>1. PICK h \in DOMAIN b \ beaten : h < j /\ Dominates(b[h], b[j])
    BY <1>1, <1>3
  <2>2. b[h].cost < b[j].cost
    BY <2>1 DEF Rising
  <2>3. b[h] # b[j]
    BY <1>2, <2>2
  <2> QED BY <2>1, <2>3 DEF BatchBut
<1>4. ASSUME NEW k \in BatchBut(b, {}) \ {b[j]}, Dominates(k, b[j]) PROVE j \in beaten
  <2>1. PICK i \in DOMAIN b : b[i] = k /\ i # j
    BY <1>4 DEF BatchBut
  <2>2. i < j
    <3>1. b[i].cost <= b[j].cost
      BY <1>2, <1>4, <2>1, BeatsCheaper
    <3>2. CASE j < i
      <4>1. b[j].cost < b[i].cost
        BY <3>2 DEF Rising
      <4> QED BY <1>2, <3>1, <4>1
    <3> QED BY <1>2, <2>1, <3>2
  <2>3. CASE i \notin beaten
    BY <1>1, <1>4, <2>1, <2>2, <2>3
  <2>4. CASE i \in beaten
    <3>1. PICK h \in DOMAIN b \ beaten : h < i /\ Dominates(b[h], b[i])
      BY <1>1, <2>4
    <3>2. h < j /\ Dominates(b[h], b[j])
      BY <1>2, <1>4, <2>1, <2>2, <3>1, BeatsTwice
    <3> QED BY <1>1, <3>1, <3>2
  <2> QED BY <2>3, <2>4
<1> QED BY <1>3, <1>4 DEF beaten

\* The pass leaves exactly what is unbeaten when the batch joins the bucket, if no
\* stored label beats another one.
LEMMA PassIsExact ==
  ASSUME PenaltiesAddUp, PenaltiesCost, NEW B \in Seq(Entry), NEW b \in Seq(Offer),
         Rising(b), Tight(B), NEW out, out = FusedPass(B, b, IntraBatch(b))
  PROVE  LiveBut(B, out.bucket) \cup BatchBut(b, out.batch) = Merged(Live(B), BatchBut(b, {}))
<1> DEFINE L == Len(B)
           A == Live(B)
           R == BatchBut(b, {})
           beaten == IntraBatch(b)
           hi == Highest(Costs(b, DOMAIN b \ beaten))
           lo == Lowest(Costs(b, DOMAIN b \ beaten))
           \* A stored label up to position n beats the one at j.
           Hit(n, j) == \E i \in 1..n : ~B[i].dominated /\ Dominates(B[i].label, b[j])
<1>1. L \in Nat /\ DOMAIN B = 1..L
  OBVIOUS
<1>2. \A j \in DOMAIN b : b[j] \in Offer /\ b[j].cost \in Int
  BY BatchTypes
<1>3. beaten \in SUBSET DOMAIN b
  BY IntraBatchIs
<1>4. \A j \in DOMAIN b : j \notin beaten <=> \A k \in R \ {b[j]} : ~Dominates(k, b[j])
  BY IntraBatchIsExact
<1>5. \A i \in 1..L : B[i].label \in Offer /\ B[i].label.cost \in Int
  BY <1>1, EntryTypes
<1> HIDE DEF beaten
<1>6. PICK g : PassOver(g, B, b, beaten) /\ out = g[L]
  BY <1>3, FusedPassIs DEF beaten
<1>7. /\ g \in [0..L -> Out(B, b)]
      /\ g[0].batch = beaten /\ g[0].bucket = {}
      /\ \A n \in 1..L :
           /\ g[n].batch = OutOfBatch(B[n], b, hi, g[n - 1])
           /\ g[n].bucket = g[n - 1].bucket \cup
                IF OutOfBucket(B[n], b, lo, g[n].batch) THEN {n} ELSE {}
  BY <1>6 DEF PassOver
<1>8. \A j \in DOMAIN b \ beaten :
        hi \in Int /\ lo \in Int /\ b[j].cost <= hi /\ lo <= b[j].cost
  BY <1>3, BoundsOfBatch
<1>9. MinPenalty \in Int
  BY BatchAssumption
<1> HIDE DEF L, hi, lo, A, R
<1> DEFINE
     Ousted(n) == ~B[n].dominated /\ \E j \in DOMAIN b \ g[n].batch : Dominates(b[j], B[n].label)
     Good(n) == /\ \A j \in DOMAIN b : j \in g[n].batch <=> j \in beaten \/ Hit(n, j)
                /\ g[n].batch \subseteq DOMAIN b
                /\ \A i \in 1..L : i \in g[n].bucket <=> i <= n /\ Ousted(i)
     N == {n \in Nat : n <= L => Good(n)}
<1> HIDE DEF Ousted
<1>10. 0 \in N
  <2>1. \A j \in DOMAIN b : ~Hit(0, j)
    OBVIOUS
  <2>2. \A i \in 1..L : ~(i <= 0)
    BY <1>1
  <2> HIDE DEF Hit
  <2> QED BY <1>3, <1>7, <2>1, <2>2
<1>11. ASSUME NEW n \in N PROVE n + 1 \in N
  <2> SUFFICES ASSUME n + 1 <= L PROVE Good(n + 1)
    BY <1>11
  <2> DEFINE e == B[n + 1]
             old == g[n]
             new == g[n + 1]
  <2>1. n \in Nat /\ n \in 0..L /\ n + 1 \in 1..L /\ n + 1 \in 0..L /\ (n + 1) - 1 = n /\ Good(n)
    <3>1. n \in Nat /\ n <= L /\ Good(n)
      <4> HIDE DEF Good
      <4> QED BY <1>1, <1>11
    <3> HIDE DEF Good
    <3> QED BY <1>1, <3>1
  <2>2. new.batch = OutOfBatch(e, b, hi, old)
        /\ new.bucket = old.bucket \cup IF OutOfBucket(e, b, lo, new.batch) THEN {n + 1} ELSE {}
    BY <1>7, <2>1
  <2>3. e.label \in Offer /\ e.label.cost \in Int
    BY <1>5, <2>1
  <2>4. \A j \in DOMAIN b : Hit(n + 1, j) <=> Hit(n, j) \/ (~e.dominated /\ Dominates(e.label, b[j]))
    <3>1. 1..n + 1 = 1..n \cup {n + 1}
      BY <2>1
    <3> QED BY <3>1
  <2>5. /\ \A j \in DOMAIN b : j \in old.batch <=> j \in beaten \/ Hit(n, j)
        /\ old.batch \subseteq DOMAIN b
        /\ \A i \in 1..L : i \in old.bucket <=> i <= n /\ Ousted(i)
    BY <2>1
  <2> HIDE DEF Hit, Good, old, new
  <2>6. ASSUME NEW j \in DOMAIN b, j \notin beaten, ~e.dominated, Dominates(e.label, b[j])
        PROVE  ~(e.label.cost + MinPenalty > hi) /\ e.label.cost + MinPenalty <= b[j].cost
    <3>1. e.label.cost + MinPenalty <= b[j].cost
      BY <1>2, <2>3, <2>6, BeatsWithinBound
    <3>2. b[j].cost <= hi /\ hi \in Int /\ b[j].cost \in Int
      BY <1>2, <1>8, <2>6
    <3> QED BY <1>9, <2>3, <3>1, <3>2
  <2>7. \A j \in DOMAIN b : j \in new.batch <=> j \in beaten \/ Hit(n + 1, j)
    <3>1. ASSUME NEW j \in DOMAIN b, j \in new.batch PROVE j \in beaten \/ Hit(n + 1, j)
      <4>1. j \in old.batch \/ (~e.dominated /\ Dominates(e.label, b[j]))
        BY <2>2, <3>1 DEF OutOfBatch
      <4> QED BY <2>4, <2>5, <4>1
    <3>2. ASSUME NEW j \in DOMAIN b, j \in beaten \/ Hit(n + 1, j) PROVE j \in new.batch
      <4>1. old.batch \subseteq new.batch
        BY <2>2 DEF OutOfBatch
      <4>2. CASE j \in beaten \/ Hit(n, j)
        BY <2>5, <4>1, <4>2
      <4>3. CASE ~(j \in beaten \/ Hit(n, j))
        <5>1. ~e.dominated /\ Dominates(e.label, b[j])
          BY <2>4, <3>2, <4>3
        <5>2. ~(e.label.cost + MinPenalty > hi) /\ e.label.cost + MinPenalty <= b[j].cost
          BY <2>6, <4>3, <5>1
        <5> QED BY <2>2, <5>1, <5>2 DEF OutOfBatch
      <4> QED BY <4>2, <4>3
    <3> QED BY <3>1, <3>2
  <2>8. new.batch \subseteq DOMAIN b
    BY <2>2, <2>5 DEF OutOfBatch
  <2>9. OutOfBucket(e, b, lo, new.batch) <=> Ousted(n + 1)
    <3>1. ASSUME OutOfBucket(e, b, lo, new.batch) PROVE Ousted(n + 1)
      BY <3>1 DEF OutOfBucket, Ousted, new
    <3>2. ASSUME Ousted(n + 1) PROVE OutOfBucket(e, b, lo, new.batch)
      <4>1. ~e.dominated
        BY <3>2 DEF Ousted
      <4>2. PICK j \in DOMAIN b \ new.batch : Dominates(b[j], e.label)
        BY <3>2 DEF Ousted, new
      <4>3. b[j].cost + MinPenalty <= e.label.cost
        BY <1>2, <2>3, <4>2, BeatsWithinBound
      <4>4. lo <= b[j].cost /\ lo \in Int /\ b[j].cost \in Int
        BY <1>2, <1>8, <2>7, <4>2
      <4>5. lo + MinPenalty <= e.label.cost
        BY <1>9, <2>3, <4>3, <4>4
      <4> QED BY <4>1, <4>2, <4>3, <4>5 DEF OutOfBucket
    <3> QED BY <3>1, <3>2
  <2>10. ASSUME NEW i \in 1..L PROVE i \in new.bucket <=> i <= n + 1 /\ Ousted(i)
    <3>1. i <= n + 1 <=> i <= n \/ i = n + 1
      BY <1>1, <2>1
    <3>2. i \in new.bucket <=> i \in old.bucket \/ (i = n + 1 /\ OutOfBucket(e, b, lo, new.batch))
      BY <2>2
    <3> QED BY <2>5, <2>9, <3>1, <3>2
  <2> QED BY <2>7, <2>8, <2>10 DEF Good, new
<1> HIDE DEF N
<1>12. N = Nat
  <2>1. N \in SUBSET Nat
    BY DEF N
  <2> QED BY <1>10, <1>11, <2>1, InductOnNat
<1>13. \A n \in 1..L : Good(n)
  <2>1. \A n \in 1..L : n \in Nat /\ n <= L
    BY <1>1
  <2> QED BY <1>12, <2>1 DEF N
<1>14. Good(L)
  BY <1>1, <1>12 DEF N
<1>15. \A j \in DOMAIN b : Hit(L, j) <=> \E k \in A : Dominates(k, b[j])
  <2>1. \A k : k \in A <=> \E i \in 1..L : ~B[i].dominated /\ B[i].label = k
    BY <1>1, LiveHas DEF A
  <2> QED BY <2>1
<1> HIDE DEF Hit
<1>16. BatchBut(b, out.batch) = KeptOf(A, R)
  <2>1. \A j \in DOMAIN b : j \notin out.batch <=> b[j] \in KeptOf(A, R)
    <3>1. ASSUME NEW j \in DOMAIN b PROVE j \notin out.batch <=> b[j] \in KeptOf(A, R)
      <4>1. j \notin out.batch <=> j \notin beaten /\ \A k \in A : ~Dominates(k, b[j])
        BY <1>6, <1>14, <1>15
      <4>2. b[j] \in R
        BY DEF R, BatchBut
      <4> QED BY <1>4, <4>1, <4>2 DEF KeptOf
    <3> QED BY <3>1
  <2>2. \A l \in KeptOf(A, R) : \E j \in DOMAIN b : l = b[j]
    BY DEF KeptOf, R, BatchBut
  <2> QED BY <2>1, <2>2 DEF BatchBut
<1>17. ASSUME NEW i \in 1..L, ~B[i].dominated
       PROVE  i \in out.bucket <=> \E l \in KeptOf(A, R) : Dominates(l, B[i].label)
  <2>1. i \in out.bucket <=> \E j \in DOMAIN b \ g[i].batch : Dominates(b[j], B[i].label)
    BY <1>1, <1>6, <1>14, <1>17 DEF Ousted
  <2>2. ASSUME NEW l \in KeptOf(A, R), Dominates(l, B[i].label)
        PROVE  \E j \in DOMAIN b \ g[i].batch : Dominates(b[j], B[i].label)
    <3>1. PICK j \in DOMAIN b \ out.batch : l = b[j]
      BY <1>16, <2>2 DEF BatchBut
    <3>2. j \notin beaten /\ ~Hit(L, j)
      BY <1>6, <1>14, <3>1
    <3>3. ~Hit(i, j)
      <4>1. 1..i \subseteq 1..L
        BY <1>1
      <4> QED BY <3>2, <4>1 DEF Hit
    <3>4. j \notin g[i].batch
      BY <1>13, <3>2, <3>3
    <3> QED BY <2>2, <3>1, <3>4
  <2>3. ASSUME NEW j \in DOMAIN b \ g[i].batch, Dominates(b[j], B[i].label)
        PROVE  \E l \in KeptOf(A, R) : Dominates(l, B[i].label)
    <3>1. CASE j \notin out.batch
      <4>1. b[j] \in KeptOf(A, R)
        BY <1>16, <3>1 DEF BatchBut
      <4> QED BY <2>3, <4>1
    <3>2. CASE j \in out.batch
      <4>1. j \notin beaten /\ ~Hit(i, j)
        BY <1>13, <2>3
      <4>2. PICK k \in A : Dominates(k, b[j])
        BY <1>6, <1>14, <1>15, <3>2, <4>1
      <4>3. k \in Offer /\ B[i].label \in A /\ B[i].label \in Offer
        BY <1>1, <1>5, <1>17, EntryTypes, LiveHas DEF A
      <4>4. Dominates(k, B[i].label)
        BY <1>2, <2>3, <4>2, <4>3, BeatsTwice
      <4>5. k = B[i].label
        BY <4>2, <4>3, <4>4 DEF Tight, A
      <4>6. i \in 1..i
        BY <1>1
      <4>7. Hit(i, j)
        BY <1>17, <4>2, <4>5, <4>6 DEF Hit
      <4> QED BY <4>1, <4>7
    <3> QED BY <3>1, <3>2
  <2> QED BY <2>1, <2>2, <2>3
<1>18. LiveBut(B, out.bucket) = {k \in A : \A l \in KeptOf(A, R) : ~Dominates(l, k)}
  <2>1. \A k : k \in A <=> \E i \in 1..L : ~B[i].dominated /\ B[i].label = k
    BY <1>1, LiveHas DEF A
  <2>2. \A k : k \in LiveBut(B, out.bucket)
                 <=> \E i \in 1..L : ~B[i].dominated /\ i \notin out.bucket /\ B[i].label = k
    BY <1>1 DEF LiveBut
  <2> QED BY <1>17, <2>1, <2>2
<1> QED BY <1>16, <1>18 DEF Merged, A, R

\* How the unbeaten labels change when one more joins that is no cheaper than
\* those of the batch before it.
LEMMA OneMoreJoins ==
  ASSUME PenaltiesAddUp, PenaltiesCost, NEW A \in SUBSET Offer, NEW R \in SUBSET Offer, NEW l \in Offer,
         \A r \in R : r.cost < l.cost,
         \A r \in R \ KeptOf(A, R) : \E k \in A \cup KeptOf(A, R) : Dominates(k, r)
  PROVE  /\ Merged(A, R \cup {l}) =
              IF \E k \in Merged(A, R) : Dominates(k, l) THEN Merged(A, R)
              ELSE {k \in Merged(A, R) : ~Dominates(l, k)} \cup {l}
         /\ \A r \in (R \cup {l}) \ KeptOf(A, R \cup {l}) :
              \E k \in A \cup KeptOf(A, R \cup {l}) : Dominates(k, r)
<1> DEFINE K == KeptOf(A, R)
           K1 == KeptOf(A, R \cup {l})
           Beaten == \E k \in A \cup R : Dominates(k, l)
<1>1. \A r \in R : ~Dominates(l, r) /\ r # l
  <2>1. ASSUME NEW r \in R PROVE ~Dominates(l, r) /\ r # l
    <3>1. r \in Offer /\ r.cost \in Int /\ l.cost \in Int /\ r.cost < l.cost
      BY OfferTypes
    <3>2. ~(l.cost <= r.cost)
      BY <3>1
    <3>3. ~Dominates(l, r)
      BY <3>1, <3>2, BeatsCheaper
    <3> QED BY <3>1, <3>2, <3>3
  <2> QED BY <2>1
<1>2. \A r \in R : r \in K1 <=> r \in K
  BY <1>1 DEF KeptOf
<1>3. l \in K1 <=> ~Beaten
  BY <1>1 DEF KeptOf
<1>4. K1 \subseteq R \cup {l} /\ K \subseteq R
  BY DEF KeptOf
<1> HIDE DEF K, K1
<1>5. \A r \in R \ K : \E k \in A \cup K : Dominates(k, r)
  BY DEF K
<1>6. Beaten => \E k \in A \cup K : Dominates(k, l)
  <2> SUFFICES ASSUME NEW m \in R \ K, Dominates(m, l) PROVE \E k \in A \cup K : Dominates(k, l)
    OBVIOUS
  <2>1. PICK k \in A \cup K : Dominates(k, m)
    BY <1>5
  <2>2. k \in Offer /\ m \in Offer
    BY <1>4
  <2> QED BY <2>1, <2>2, BeatsTwice
<1> DEFINE J == K \cup {k \in A : \A r \in K : ~Dominates(r, k)}
           J1 == K1 \cup {k \in A : \A r \in K1 : ~Dominates(r, k)}
<1>7. Merged(A, R) = J /\ Merged(A, R \cup {l}) = J1
  BY DEF Merged, K, K1
<1>8. Beaten <=> \E k \in J : Dominates(k, l)
  <2>1. ASSUME NEW k \in A \cup K, Dominates(k, l) PROVE \E m \in J : Dominates(m, l)
    <3>1. CASE k \in J
      BY <2>1, <3>1
    <3>2. CASE k \notin J
      <4>1. PICK r \in K : Dominates(r, k)
        BY <2>1, <3>2
      <4>2. k \in Offer /\ r \in Offer
        BY <1>4, <2>1
      <4>3. Dominates(r, l)
        BY <2>1, <4>1, <4>2, BeatsTwice
      <4> QED BY <4>3
    <3> QED BY <3>1, <3>2
  <2>2. J \subseteq A \cup R
    BY <1>4
  <2> HIDE DEF J
  <2> QED BY <1>6, <2>1, <2>2
<1>9. CASE Beaten
  <2>1. K1 = K
    BY <1>2, <1>3, <1>4, <1>9
  <2>2. J1 = J
    BY <2>1
  <2>3. \A r \in (R \cup {l}) \ K1 : \E k \in A \cup K1 : Dominates(k, r)
    BY <1>5, <1>6, <1>9, <2>1
  <2> HIDE DEF J, J1, Beaten
  <2> QED BY <1>7, <1>8, <1>9, <2>2, <2>3 DEF K1
<1>10. CASE ~Beaten
  <2>1. K1 = K \cup {l}
    BY <1>2, <1>3, <1>4, <1>10
  <2>2. J1 = {k \in J : ~Dominates(l, k)} \cup {l}
    BY <1>1, <1>4, <2>1
  <2>3. \A r \in (R \cup {l}) \ K1 : \E k \in A \cup K1 : Dominates(k, r)
    BY <1>5, <2>1
  <2> HIDE DEF J, J1, Beaten
  <2> QED BY <1>7, <1>8, <1>10, <2>2, <2>3 DEF K1
<1> QED BY <1>9, <1>10

\* Inserting the labels one after the other, the cheapest first.
LEMMA OneByOneIs ==
  ASSUME PenaltiesAddUp, PenaltiesCost, NEW B \in Seq(Entry), InOrderOfCost(B),
         NEW s \in Seq(Offer), DistinctCosts(s), Sorted(s) # {}
  PROVE  Live(OneByOne(B, s)) = Merged(Live(B), BatchBut(s, {}))
<1> DEFINE t == CHOOSE x \in Sorted(s) : TRUE
           L == Len(t)
           S == {C \in Seq(Entry) : InOrderOfCost(C)}
           Equation(g) == g = [n \in 0..Len(t) |-> IF n = 0 THEN B ELSE TryInsert(g[n - 1], t[n])]
           F == [n \in Nat |-> [C \in S |-> IF n \in 1..L THEN TryInsert(C, t[n]) ELSE C]]
<1>1. t \in Sorted(s)
  OBVIOUS
<1> HIDE DEF t
<1>2. t \in Seq(Offer) /\ BatchBut(t, {}) = BatchBut(s, {}) /\ Rising(t)
  BY <1>1, SortedIs DEF Rising
<1>3. L \in Nat /\ DOMAIN t = 1..L /\ \A n \in 1..L : t[n] \in Offer /\ t[n].cost \in Int
  BY <1>2, BatchTypes
<1>4. F \in [Nat -> [S -> S]] /\ B \in S
  <2>1. ASSUME NEW n \in Nat, NEW C \in S PROVE (IF n \in 1..L THEN TryInsert(C, t[n]) ELSE C) \in S
    BY <1>3, TryInsertLive
  <2>2. B \in S
    OBVIOUS
  <2> HIDE DEF S, L
  <2> QED BY <2>1, <2>2
<1>5. PICK g \in [0..L -> S] : g[0] = B /\ \A i \in 1..L : g[i] = F[i][g[i - 1]]
  <2> HIDE DEF F, S, L
  <2>1. Chains(S, L)
    BY <1>3, ChainOf
  <2> QED BY <1>4, <2>1 DEF Chains
<1> HIDE DEF S
<1>6. \A i \in 1..L : i - 1 \in 0..L /\ g[i] = TryInsert(g[i - 1], t[i])
  <2>1. ASSUME NEW i \in 1..L PROVE i - 1 \in 0..L /\ g[i] = TryInsert(g[i - 1], t[i])
    <3>1. i - 1 \in 0..L /\ i \in Nat
      BY <1>3
    <3>2. g[i - 1] \in S
      BY <3>1
    <3>3. F[i][g[i - 1]] = IF i \in 1..L THEN TryInsert(g[i - 1], t[i]) ELSE g[i - 1]
      BY <3>1, <3>2
    <3> QED BY <1>5, <3>1, <3>3
  <2> QED BY <2>1
<1> HIDE DEF F
<1>7. Equation(g)
  <2>1. g = [n \in 0..Len(t) |-> g[n]]
    OBVIOUS
  <2>2. \A n \in 0..Len(t) : n # 0 => n \in 1..L
    BY <1>3
  <2> QED BY <1>5, <1>6, <2>1, <2>2
<1> DEFINE h == CHOOSE x : Equation(x)
<1>8. Equation(h)
  BY <1>7
<1>9. OneByOne(B, s) = h[L]
  BY DEF OneByOne, t
<1>10. h[0] = B /\ \A i \in 1..L : h[i] = TryInsert(h[i - 1], t[i])
  <2>1. 0 \in 0..L /\ \A i \in 1..L : i \in 0..L /\ i # 0
    BY <1>3
  <2> QED BY <1>8, <2>1
<1> HIDE DEF h, Equation
<1>11. OneByOne(B, s) = g[L]
  <2>1. SameUpto(L)
    BY <1>3, StepsDecide
  <2>2. \A i \in 1..L : h[i - 1] = g[i - 1] => h[i] = g[i]
    BY <1>6, <1>10
  <2>3. L \in 0..L
    BY <1>3
  <2> HIDE DEF L
  <2>4. h[0] = g[0]
    BY <1>5, <1>10
  <2>5. \A i \in 0..L : h[i] = g[i]
    BY <2>1, <2>2, <2>4 DEF SameUpto
  <2> QED BY <1>9, <2>3, <2>5
<1> DEFINE
     A == Live(B)
     R(n) == {t[j] : j \in 1..n}
     Good(n) == /\ Live(g[n]) = Merged(A, R(n))
                /\ \A r \in R(n) \ KeptOf(A, R(n)) : \E k \in A \cup KeptOf(A, R(n)) : Dominates(k, r)
     N == {n \in Nat : n <= L => Good(n)}
<1>12. A \in SUBSET Offer
  BY EntryTypes, LiveHas
<1> HIDE DEF L, A
<1>13. 0 \in N
  <2>1. R(0) = {} /\ KeptOf(A, {}) = {} /\ Merged(A, {}) = A
    BY DEF KeptOf, Merged
  <2>2. Live(g[0]) = A
    BY <1>5 DEF A
  <2> HIDE DEF R
  <2> QED BY <2>1, <2>2
<1>14. ASSUME NEW n \in N PROVE n + 1 \in N
  <2>0. n + 1 \in Nat /\ (n + 1 <= L => Good(n + 1)) => n + 1 \in N
    <3> HIDE DEF Good
    <3> QED OBVIOUS
  <2> SUFFICES ASSUME n + 1 <= L PROVE Good(n + 1)
    <3>1. n + 1 \in Nat
      <4> HIDE DEF Good
      <4> QED BY <1>14
    <3> HIDE DEF Good, N
    <3> QED BY <2>0, <3>1
  <2>1. n \in Nat /\ n \in 0..L /\ n + 1 \in 1..L /\ (n + 1) - 1 = n /\ Good(n)
    <3>1. n \in Nat /\ n <= L /\ Good(n)
      <4> HIDE DEF Good
      <4> QED BY <1>3, <1>14
    <3> HIDE DEF Good
    <3> QED BY <1>3, <3>1
  <2> DEFINE l == t[n + 1]
  <2>2. g[n + 1] = TryInsert(g[n], l)
    BY <1>6, <2>1
  <2>3. g[n] \in Seq(Entry) /\ InOrderOfCost(g[n]) /\ l \in Offer
    BY <1>3, <2>1 DEF S
  <2>4. Live(g[n + 1]) = IF \E k \in Live(g[n]) : Dominates(k, l) THEN Live(g[n])
                         ELSE {k \in Live(g[n]) : ~Dominates(l, k)} \cup {l}
    BY <2>2, <2>3, TryInsertLive
  <2>5. R(n) \in SUBSET Offer /\ \A r \in R(n) : r.cost < l.cost
    <3>1. ASSUME NEW j \in 1..n PROVE t[j] \in Offer /\ t[j].cost < l.cost
      <4>1. j \in 1..L /\ j < n + 1
        BY <1>3, <2>1
      <4> QED BY <1>2, <1>3, <2>1, <4>1 DEF Rising
    <3> QED BY <3>1
  <2>6. R(n + 1) = R(n) \cup {l}
    <3>1. 1..n + 1 = 1..n \cup {n + 1}
      BY <2>1
    <3> QED BY <3>1
  <2>7. /\ Live(g[n]) = Merged(A, R(n))
        /\ \A r \in R(n) \ KeptOf(A, R(n)) : \E k \in A \cup KeptOf(A, R(n)) : Dominates(k, r)
    BY <2>1
  <2> HIDE DEF R, l
  <2>8. /\ Merged(A, R(n) \cup {l}) =
             IF \E k \in Merged(A, R(n)) : Dominates(k, l) THEN Merged(A, R(n))
             ELSE {k \in Merged(A, R(n)) : ~Dominates(l, k)} \cup {l}
        /\ \A r \in (R(n) \cup {l}) \ KeptOf(A, R(n) \cup {l}) :
             \E k \in A \cup KeptOf(A, R(n) \cup {l}) : Dominates(k, r)
    BY <1>12, <2>3, <2>5, <2>7, OneMoreJoins
  <2> QED BY <2>4, <2>6, <2>7, <2>8
<1> HIDE DEF N
<1>15. N = Nat
  <2>1. N \in SUBSET Nat
    BY DEF N
  <2> QED BY <1>13, <1>14, <2>1, InductOnNat
<1>16. Good(L)
  <2>1. L \in Nat /\ L <= L
    BY <1>3
  <2> HIDE DEF Good
  <2> QED BY <1>15, <2>1 DEF N
<1>17. R(L) = BatchBut(s, {})
  BY <1>2, <1>3 DEF BatchBut
<1> QED BY <1>11, <1>16, <1>17 DEF A

\* A batch in which costs tell the labels apart leaves the same unbeaten labels as
\* inserting them one after the other, the cheapest first, if no stored label beats
\* another one: collecting children in a buffer changes nothing, whatever its size.
THEOREM BatchesAreOneByOne ==
  ASSUME PenaltiesAddUp, PenaltiesCost
  PROVE  BatchSpec => BatchIsOneByOne
<1>1. BatchInit => Stored
  <2>1. <<>> \in Seq(Entry) /\ <<>> \in Seq(Offer) /\ InOrderOfCost(<<>>)
    BY DEF InOrderOfCost
  <2> QED BY <2>1 DEF BatchInit, Stored
<1>2. Stored /\ [BatchNext]_store => Stored'
  BY StoredStep
<1>3. ASSUME Stored, BatchNext, buf # <<>>, buf' = <<>>, Tight(bucket), DistinctCosts(buf)
      PROVE  Live(bucket') = Live(OneByOne(bucket, buf))
  <2>1. ProcessBatch
    <3>1. ASSUME NEW l \in Offer, Collect(l) PROVE FALSE
      <4>1. Append(buf, l) = <<>>
        BY <1>3, <3>1 DEF Collect
      <4>2. Len(Append(buf, l)) = Len(buf) + 1 /\ Len(buf) \in Nat
        BY <1>3 DEF Stored
      <4>3. Len(<<>>) = 0
        OBVIOUS
      <4> QED BY <4>1, <4>2, <4>3
    <3> QED BY <1>3, <3>1 DEF BatchNext
  <2>2. CASE Len(buf) = 1
    <3> DEFINE m == buf[1]
    <3>1. bucket' = TryInsert(bucket, m)
      BY <2>1, <2>2 DEF ProcessBatch
    <3>2. m \in Offer /\ BatchBut(buf, {}) = {m}
      BY <1>3, <2>2 DEF Stored, BatchBut
    <3>3. Sorted(buf) # {}
      <4>1. DOMAIN buf = {1}
        BY <1>3, <2>2 DEF Stored
      <4> DEFINE p == [i \in DOMAIN buf |-> i]
                 t == [i \in DOMAIN buf |-> buf[p[i]]]
      <4>2. p \in [DOMAIN buf -> DOMAIN buf] /\ \A i, j \in DOMAIN buf : p[i] = p[j] => i = j
        OBVIOUS
      <4>3. \A i, j \in DOMAIN t : ~(i < j)
        BY <4>1
      <4>4. t \in Sorted(buf)
        BY <4>2, <4>3 DEF Sorted
      <4> QED BY <4>4
    <3>4. Live(OneByOne(bucket, buf)) = Merged(Live(bucket), {m})
      BY <1>3, <3>2, <3>3, OneByOneIs DEF Stored
    <3> DEFINE A == Live(bucket)
    <3>5. A \in SUBSET Offer
      BY <1>3, EntryTypes, LiveHas DEF Stored
    <3>6. Live(bucket') = IF \E k \in A : Dominates(k, m) THEN A
                          ELSE {k \in A : ~Dominates(m, k)} \cup {m}
      BY <1>3, <3>1, <3>2, TryInsertLive DEF Stored
    <3>7. KeptOf(A, {}) = {} /\ Merged(A, {}) = A
      BY DEF KeptOf, Merged
    <3> HIDE DEF m, A
    <3>8. Merged(A, {} \cup {m}) = IF \E k \in A : Dominates(k, m) THEN A
                                   ELSE {k \in A : ~Dominates(m, k)} \cup {m}
      <4>1. \A r \in {} \ KeptOf(A, {}) : \E k \in A \cup KeptOf(A, {}) : Dominates(k, r)
        OBVIOUS
      <4>2. \A r \in {} : r.cost < m.cost
        OBVIOUS
      <4>3. {} \in SUBSET Offer
        OBVIOUS
      <4> QED BY <3>2, <3>5, <3>7, <4>1, <4>2, <4>3, OneMoreJoins
    <3>9. {} \cup {m} = {m}
      OBVIOUS
    <3> QED BY <3>4, <3>6, <3>8, <3>9 DEF A
  <2>3. CASE Len(buf) # 1
    <3>1. PICK b \in Sorted(buf) : bucket' = BatchTryInsert(bucket, b)
      BY <2>1, <2>3 DEF ProcessBatch
    <3>2. b \in Seq(Offer) /\ BatchBut(b, {}) = BatchBut(buf, {}) /\ Rising(b)
      BY <1>3, SortedIs DEF Stored, Rising
    <3> DEFINE out == FusedPass(bucket, b, IntraBatch(b))
    <3>3. out.batch \in SUBSET DOMAIN b
      BY <1>3, <3>2, PassLosesNothing DEF Stored
    <3>4. Live(bucket') = LiveBut(bucket, out.bucket) \cup BatchBut(b, out.batch)
      BY <1>3, <3>1, <3>2, <3>3, BatchTryInsertLive DEF Stored
    <3>5. LiveBut(bucket, out.bucket) \cup BatchBut(b, out.batch) = Merged(Live(bucket), BatchBut(b, {}))
      BY <1>3, <3>2, PassIsExact DEF Stored
    <3> HIDE DEF out
    <3>6. Live(OneByOne(bucket, buf)) = Merged(Live(bucket), BatchBut(buf, {}))
      <4>1. Sorted(buf) # {}
        OBVIOUS
      <4> QED BY <1>3, <4>1, OneByOneIs DEF Stored
    <3> QED BY <3>2, <3>4, <3>5, <3>6
  <2> QED BY <2>2, <2>3
<1>4. Stored /\ [BatchNext]_store
        => [buf # <<>> /\ buf' = <<>> /\ Tight(bucket) /\ DistinctCosts(buf)
              => Live(bucket') = Live(OneByOne(bucket, buf))]_store
  BY <1>3
<1> QED BY <1>1, <1>2, <1>4, PTL DEF BatchSpec, BatchIsOneByOne
=============================================================================
