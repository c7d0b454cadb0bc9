------------------------------- MODULE Splits -------------------------------
(***************************************************************************)
(* What concatenation rests on: a walk is run through by a forward label,   *)
(* as far as it gets, and then from its end by a backward label.  At every  *)
(* arc the two can be joined.                                              *)
(***************************************************************************)
EXTENDS LabelSteps

CONSTANT MaxArcs             \* bound on the walks

VARIABLES
  walk,                      \* its arcs
  fw,                        \* the forward labels at its vertices, while feasible
  bw                         \* the backward labels, from the end

splits == <<walk, fw, bw>>

SplitInit == walk = <<>> /\ fw = <<Start("fw")>> /\ bw = <<>>

Last(s) == s[Len(s)]
End == IF walk = <<>> THEN Source ELSE To[Last(walk)]

Onwards(a) ==
  /\ bw = <<>> /\ Len(walk) < MaxArcs /\ From[a] = End
  /\ walk' = Append(walk, a)
  /\ fw' = IF Len(fw) = Len(walk) + 1 /\ CanTake("fw", Last(fw), a)
           THEN Append(fw, Taken("fw", Last(fw), a)) ELSE fw
  /\ UNCHANGED bw

TurnRound ==
  /\ bw = <<>> /\ End = Sink
  /\ bw' = <<Start("bw")>>
  /\ UNCHANGED <<walk, fw>>

Back ==
  /\ bw # <<>> /\ Len(bw) <= Len(walk)
  /\ LET a == walk[Len(walk) + 1 - Len(bw)]
     IN /\ CanTake("bw", Last(bw), a)
        /\ bw' = Append(bw, Taken("bw", Last(bw), a))
  /\ UNCHANGED <<walk, fw>>

SplitNext == (\E a \in Arc : Onwards(a)) \/ TurnRound \/ Back

SplitSpec == SplitInit /\ [][SplitNext]_splits

Whole == Len(fw) = Len(walk) + 1

\* The backward label is wherever a feasible walk leads it, and joining the halves
\* at any arc is possible if and only if the forward label alone gets to the end,
\* and gives the same cost: a solve may cut its paths wherever the midpoint is.
SplitsAgree ==
  bw # <<>> =>
    LET i == Len(walk) + 1 - Len(bw)
    IN IF Whole
       THEN i > 0 => /\ CanTake("bw", Last(bw), walk[i])
                     /\ CanJoin(fw[i], walk[i], Last(bw))
                     /\ Joined(fw[i], walk[i], Last(bw)) = Last(fw).cost
       ELSE i \in DOMAIN fw => ~CanJoin(fw[i], walk[i], Last(bw))
=============================================================================
