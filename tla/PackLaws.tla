------------------------------ MODULE PackLaws ------------------------------
(***************************************************************************)
(* What dominance and concatenation take for granted of a resource: its     *)
(* operations are those of concept Resource, its comparison survives every  *)
(* common extension and it may be chained, and two halves that may be       *)
(* joined at one arc of a path may be joined at every other.               *)
(***************************************************************************)
EXTENDS Spprc

\* The operations of a pack keep to its states and yield costs.
Closed(State, I(_), A(_, _, _), T(_, _, _), D(_, _, _, _)) ==
  \A d \in Dir :
    /\ I(d) \in State
    /\ \A s \in State :
         /\ \A a \in Arc : A(d, s, a).st \in State /\ A(d, s, a).cost \in Int
         /\ \A v \in Vertex : /\ T(d, s, v).st \in State /\ T(d, s, v).cost \in Int
                              /\ \A t \in State : D(d, v, s, t) \in Int

\* If s beats t then s can follow t along every arc, and beats it there; the
\* penalty never grows by more than t loses against s.
Persists(State, A(_, _, _), T(_, _, _), D(_, _, _, _)) ==
  \A d \in Dir : \A v \in Vertex : \A s, t \in State :
    D(d, v, s, t) < Inf =>
      /\ D(d, v, s, t) >= 0
      /\ \A a \in ArcsAt(d, v) :
           LET w == Ahead(d, a)
               s1 == A(d, s, a)  t1 == A(d, t, a)
               s2 == T(d, s1.st, w)  t2 == T(d, t1.st, w)
           IN t1.cost < Inf /\ t2.cost < Inf =>
                /\ s1.cost < Inf /\ s2.cost < Inf
                /\ D(d, w, s2.st, t2.st) < Inf
                /\ s1.cost + s2.cost + D(d, w, s2.st, t2.st)
                     <= t1.cost + t2.cost + D(d, v, s, t)

\* A state beats itself for nothing, and who beats one that beats a third beats
\* the third for no more than the two penalties together.
Composes(State, D(_, _, _, _)) ==
  \A d \in Dir : \A v \in Vertex :
    /\ \A s \in State : D(d, v, s, s) <= 0 /\ D(d, v, s, s) < Inf
    /\ \A s, t, u \in State :
         D(d, v, s, t) < Inf /\ D(d, v, t, u) < Inf =>
           /\ D(d, v, s, u) < Inf
           /\ D(d, v, s, u) <= D(d, v, s, t) + D(d, v, t, u)

\* Whoever may meet a backward label could have gone on forward, along the arcs
\* by which the backward label came, and would have paid the same: s is where
\* the forward path arrives at v, t what the backward one was before its last arc.
Joins(State, I(_), A(_, _, _), T(_, _, _), C(_, _, _)) ==
  \A y \in State : \A b \in Arc :
    LET s == A("fw", y, b).st
        v == To[b]
        at == T("fw", s, v)
        last == T("bw", I("bw"), Sink)
    IN A("fw", y, b).cost < Inf =>
         /\ v = Sink /\ C(v, s, last.st) < Inf =>
              at.cost < Inf /\ C(v, s, last.st) + last.cost = at.cost
         /\ \A x \in State : \A a \in ArcsAt("fw", v) :
              LET t == T("bw", x, To[a]).st
                  back == A("bw", t, a)
                  here == T("bw", back.st, v)
                  along == A("fw", at.st, a)
              IN back.cost < Inf /\ here.cost < Inf /\ C(v, s, here.st) < Inf =>
                   /\ at.cost < Inf /\ along.cost < Inf /\ C(To[a], along.st, t) < Inf
                   /\ C(v, s, here.st) + back.cost + here.cost
                        = at.cost + along.cost + C(To[a], along.st, t)

\* A path may be cut anywhere: a forward label and a backward one can be joined
\* across an arc if and only if they can across the next one, once the forward
\* label has been extended instead of the backward one, and for the same costs.
\* In[v] are the states with which forward labels arrive at v, Out[v] those of
\* backward labels that have left v behind.
Cuttable(In, Out, I(_), A(_, _, _), T(_, _, _), C(_, _, _)) ==
  LET first == T("fw", I("fw"), Source)
      last == T("bw", I("bw"), Sink)
  IN /\ I("fw") \in In[Source] /\ first.cost \in Int /\ first.cost < Inf
     /\ last.st \in Out[Sink] /\ last.cost \in Int
     /\ \A a \in Arc : \A x \in Out[To[a]] :
          LET back == A("bw", x, a)
              here == T("bw", back.st, From[a])
          IN /\ back.cost \in Int /\ here.cost \in Int
             /\ back.cost < Inf /\ here.cost < Inf => here.st \in Out[From[a]]
     /\ \A v \in Vertex : \A s \in In[v] :
          LET at == T("fw", s, v)
          IN /\ at.cost \in Int
             /\ at.cost < Inf =>
                  \A a \in ArcsAt("fw", v) :
                    LET along == A("fw", at.st, a)
                    IN /\ along.cost \in Int
                       /\ along.cost < Inf => along.st \in In[To[a]]
             /\ v = Sink =>
                  LET c == C(v, s, last.st)
                  IN /\ c < Inf <=> at.cost < Inf
                     /\ c < Inf => c \in Int /\ c + last.cost = at.cost
             /\ \A a \in ArcsAt("fw", v) : \A x \in Out[To[a]] :
                  LET along == A("fw", at.st, a)
                      back == A("bw", x, a)
                      here == T("bw", back.st, v)
                      c == C(v, s, here.st)
                      d == C(To[a], along.st, x)
                  IN /\ back.cost < Inf /\ here.cost < Inf /\ c < Inf
                          <=> at.cost < Inf /\ along.cost < Inf /\ d < Inf
                     /\ at.cost < Inf /\ along.cost < Inf /\ d < Inf =>
                          /\ c \in Int /\ d \in Int
                          /\ c + back.cost + here.cost = at.cost + along.cost + d

\* Two labels that may meet across an arc may be replaced by ones that beat them:
\* what that costs more is not more than the penalties say, and meeting costs no less
\* than the least that the filters reckon with.
Replaceable(State, A(_, _, _), D(_, _, _, _), C(_, _, _), least) ==
  \A a \in Arc : \A s, t, x, y \in State :
    LET s1 == A("fw", s, a)
        t1 == A("fw", t, a)
    IN (/\ D("fw", From[a], s, t) < Inf /\ D("bw", To[a], x, y) < Inf
        /\ t1.cost < Inf /\ C(To[a], t1.st, y) < Inf)
       => /\ s1.cost < Inf /\ C(To[a], s1.st, x) < Inf
          /\ least <= s1.cost + C(To[a], s1.st, x)
          /\ s1.cost + C(To[a], s1.st, x)
               <= t1.cost + C(To[a], t1.st, y) + D("fw", From[a], s, t) + D("bw", To[a], x, y)
=============================================================================
