------------------------------- MODULE NgPath -------------------------------
(***************************************************************************)
(* NgPathResource, the ng-route relaxation of elementarity: a label         *)
(* remembers a visited vertex for as long as every vertex visited since has *)
(* it among its ng-neighbours, and may not visit a vertex it remembers.     *)
(*                                                                         *)
(* The code keeps the remembered vertices of a label at v as bits: one per *)
(* ng-neighbour of v and a "self bit" for v.  Here a state is the set of    *)
(* the vertices whose bits are set, and the precomputed bit remapping of an *)
(* arc is the intersection with the neighbours of its far end.             *)
(***************************************************************************)
EXTENDS Spprc

CONSTANT Neighbors           \* vertex -> its ng-neighbours

ASSUME NeighborsAssumption == Neighbors \in [Vertex -> SUBSET Vertex]

NgState == SUBSET Vertex

NgInit(d) == {}

\* Mutant: the remembered vertices are not looked at.
NgAlongAnyArc(d, s, a) == [st |-> s \cap Neighbors[Ahead(d, a)], cost |-> 0]

\* extend_along_arc: forbidden when the far end is remembered; it is not yet
\* marked as visited.
NgAlongArc(d, s, a) ==
  LET there == Ahead(d, a)
  IN IF there \in Neighbors[Behind(d, a)] /\ there \in s
     THEN [st |-> {}, cost |-> Inf]
     ELSE [st |-> s \cap Neighbors[there], cost |-> 0]

NgUnmarked(d, s, v) == [st |-> s, cost |-> 0]  \* mutant: v is not marked

\* extend_to_vertex
NgToVertex(d, s, v) == [st |-> s \cup {v}, cost |-> 0]

\* domination_cost
NgDomCost(d, v, s, t) == IF s \subseteq t THEN 0 ELSE Inf

NgConcatAnything(v, s, t) == 0                 \* mutant: common vertices allowed

\* concatenation_cost
NgConcatCost(v, s, t) == IF s \cap t = {} THEN 0 ELSE Inf

-----------------------------------------------------------------------------
\* The reference: an ng-route may return to a vertex only after a vertex that
\* does not have it among its neighbours.
NgRoute(vs) ==
  \A i, j \in DOMAIN vs :
    (i < j /\ vs[i] = vs[j]) =>
      \E k \in i + 1..j - 1 : vs[i] \notin Neighbors[vs[k]]
=============================================================================
