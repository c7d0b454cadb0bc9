---------------------------- MODULE ResourcePack ----------------------------
(***************************************************************************)
(* ResourcePack: the members of a pack are combined position by position.   *)
(***************************************************************************)
EXTENDS Spprc
LOCAL INSTANCE SequencesExt

Total(costs) == FoldLeft(LAMBDA sum, c : sum + c, 0, costs)

\* extend_along_arc, extend_to_vertex and concatenation_cost of a pack: the
\* first member that forbids it decides.
TotalIfAllowed(costs) ==
  IF \E i \in DOMAIN costs : costs[i] >= Inf THEN Inf ELSE Total(costs)
Together(parts) ==
  [st |-> [i \in DOMAIN parts |-> parts[i].st],
   cost |-> TotalIfAllowed([i \in DOMAIN parts |-> parts[i].cost])]
=============================================================================
