------------------------------- MODULE MCCycle -------------------------------
(***************************************************************************)
(* Two vertices 1 and 2 in one component, on a cycle of negative cost that *)
(* the resource allows to be taken several times.                          *)
(***************************************************************************)
EXTENDS LabelingProps, NoPack

MCVertex == 0..3
Ends == << <<0, 1>>, <<1, 2>>, <<2, 1>>, <<1, 3>> >>
MCArc == 1..Len(Ends)
MCFrom == [a \in MCArc |-> Ends[a][1]]
MCTo == [a \in MCArc |-> Ends[a][2]]
MCBase == <<4, 1, 1, 4>>
MCUse == [a \in MCArc |-> [r \in {1} |-> 1]]
MCLb == [v \in MCVertex |-> [r \in {1} |-> 0]]
MCUb == [v \in MCVertex |-> [r \in {1} |-> 12]]
MCStep == [v \in MCVertex |-> [r \in {1} |-> 12]]
MCCosts == {<<4, -1, -1, 4>>}
MCThetas == {-1, 0}
Allowed(vs) == TRUE
=============================================================================
