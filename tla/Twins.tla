------------------------------- MODULE Twins -------------------------------
(***************************************************************************)
(* What dominance rests on: two labels of one direction come to the same    *)
(* vertex, one of them beats the other, and from then on both go the same    *)
(* way.  The labeling goes on with the one that won.                        *)
(***************************************************************************)
EXTENDS LabelSteps

VARIABLES
  dir,                       \* the direction of both
  won, lost,                 \* the label that may win and the one that may lose
  together,                  \* won has beaten lost
  stuck                      \* won could not follow lost

twins == <<dir, won, lost, together, stuck>>

Init ==
  /\ dir \in Dir
  /\ won = Start(dir) /\ lost = Start(dir)
  /\ together = FALSE /\ stuck = FALSE

WonAlone(a) ==
  /\ ~together /\ CanTake(dir, won, a)
  /\ won' = Taken(dir, won, a)
  /\ UNCHANGED <<dir, lost, together, stuck>>

LostAlone(a) ==
  /\ ~together /\ CanTake(dir, lost, a)
  /\ lost' = Taken(dir, lost, a)
  /\ UNCHANGED <<dir, won, together, stuck>>

Compare ==
  /\ ~together /\ Beats(dir, won, lost)
  /\ together' = TRUE
  /\ UNCHANGED <<dir, won, lost, stuck>>

Follow(a) ==
  /\ together /\ ~stuck /\ CanTake(dir, lost, a)
  /\ lost' = Taken(dir, lost, a)
  /\ IF CanTake(dir, won, a)
     THEN won' = Taken(dir, won, a) /\ UNCHANGED stuck
     ELSE stuck' = TRUE /\ UNCHANGED won
  /\ UNCHANGED <<dir, together>>

Next == \/ \E a \in Arc : WonAlone(a) \/ LostAlone(a) \/ Follow(a)
        \/ Compare

Spec == Init /\ [][Next]_twins

\* Throwing the beaten label away loses nothing: wherever it could have gone, the
\* one that beat it can go, and if that is the end, it gets there at no more cost.
DominanceIsSafe ==
  together => /\ ~stuck
              /\ lost.v = Terminal(dir) => won.cost <= lost.cost
=============================================================================
