---------------------------- MODULE SolverStages ----------------------------
(***************************************************************************)
(* Solver: the stages of pricing around one BucketGraph.  The cheap          *)
(* heuristic stages come first, an exact stage that finds nothing may halve  *)
(* the bucket widths and try again, and enumeration borrows the graph.       *)
(*                                                                         *)
(* Of a solve of the graph only this is kept: with which options, bucket     *)
(* widths and costs it ran, and whether it returned a path, which is free.   *)
(* A caller's thread calls one operation after the other.                   *)
(***************************************************************************)
EXTENDS Integers, TLAPS

CONSTANTS
  MaxHalvings,               \* bound on how often the widths are halved
  MaxIteration,              \* where iteration_ is cut off: only 3 and 10 matter
  Calls                      \* operations the caller uses besides solve()

ASSUME SolverAssumption ==
  /\ MaxHalvings \in Nat /\ MaxIteration \in Nat /\ MaxIteration > 10
  /\ Calls \subseteq {"set_stage", "costs", "enumerate", "adapt", "reset"}

Stage == {"Heuristic1", "Heuristic2", "Exact"}

VARIABLES
  stage_, iteration_,
  asked,       \* the options of the graph, [stage, theta]
  halvings,    \* how often the widths of the options have been halved
  built,       \* how often those of the buckets have
  inl, dirty,  \* the costs in the bucket arcs, and the flag to refresh them
  bounds,      \* for which buckets the completion bounds are, -1 for none
  answer,      \* what the last call to solve() or enumerate() was told
  inStage      \* ghost: solves of the stage since the caller or the solver chose it

bg == <<asked, halvings, built, inl, dirty, bounds>>
vars == <<stage_, iteration_, bg, answer, inStage>>

\* What a solve of the graph tells the solver.
Answers(stage, theta, width, costs) ==
  [stage : {stage}, theta : {theta}, width : {width}, costs : {costs}, empty : BOOLEAN]

NoAnswer == [stage |-> "none", theta |-> "none", width |-> 0, costs |-> "none",
             empty |-> FALSE]

Init ==
  /\ stage_ = "Heuristic1" /\ iteration_ = 0
  /\ asked = [stage |-> "Exact", theta |-> "opts"]
  /\ halvings = 0 /\ built = 0
  /\ inl = "base" /\ dirty = TRUE         \* the costs have been passed
  /\ bounds = -1 /\ answer = NoAnswer /\ inStage = 0

-----------------------------------------------------------------------------
\* refresh_arc_costs, as each solve begins
Refreshed == IF dirty THEN "passed" ELSE inl

\* build(), which leaves the flag alone
BuiltCosts == "base"

-----------------------------------------------------------------------------
\* solve()

\* update_stage: what comes after a solve of stage s, the n-th by the counter.
OnlyIfEmpty(s, n, empty) ==          \* mutant: the iterations do not count
  CASE s = "Heuristic1" /\ empty -> [stage |-> "Heuristic2", iteration |-> 0]
    [] s = "Heuristic2" /\ empty -> [stage |-> "Exact", iteration |-> n]
    [] OTHER -> [stage |-> s, iteration |-> n]

StageAfter(s, n, empty) ==
  CASE s = "Heuristic1" /\ (empty \/ n > 3) -> [stage |-> "Heuristic2", iteration |-> 0]
    [] s = "Heuristic2" /\ (empty \/ n > 10) -> [stage |-> "Exact", iteration |-> n]
    [] OTHER -> [stage |-> s, iteration |-> n]

OneMore(n) == IF n < MaxIteration THEN n + 1 ELSE n

UpdateStage(empty) ==
  LET next == StageAfter(stage_, OneMore(iteration_), empty)
  IN /\ stage_' = next.stage /\ iteration_' = next.iteration
     /\ inStage' = IF next.stage = stage_ THEN OneMore(inStage) ELSE 0

\* The solve that the caller asked for is the one answered.
SolveOnce ==
  /\ asked' = [asked EXCEPT !.stage = stage_]
  /\ answer' \in Answers(stage_, asked.theta, built, Refreshed)
  /\ inl' = Refreshed /\ dirty' = FALSE /\ bounds' = built
  /\ UpdateStage(answer'.empty)
  /\ UNCHANGED <<halvings, built>>

\* Nothing was found: try_refine_buckets halves the widths and builds anew, if the
\* dominance checks per label say that it helps, and the solve is repeated.
SolveRefined ==
  /\ stage_ = "Exact" /\ halvings < MaxHalvings
  /\ asked' = [asked EXCEPT !.stage = stage_]
  /\ halvings' = halvings + 1 /\ built' = halvings'
  /\ inl' = BuiltCosts /\ dirty' = FALSE /\ bounds' = built'
  /\ answer' \in Answers(stage_, asked.theta, built', inl')
  /\ UpdateStage(answer'.empty)

Solve == SolveOnce \/ SolveRefined

-----------------------------------------------------------------------------
\* The other operations.

SetStage(s) ==
  /\ "set_stage" \in Calls
  /\ stage_' = s /\ inStage' = 0
  /\ UNCHANGED <<iteration_, bg, answer>>

UpdateArcCosts ==
  /\ "costs" \in Calls
  /\ dirty' = TRUE
  /\ UNCHANGED <<stage_, iteration_, asked, halvings, built, inl, bounds, answer, inStage>>

\* Mutant: the threshold of the enumeration stays.
EnumerateForGood ==
  /\ "enumerate" \in Calls
  /\ asked' = [stage |-> stage_, theta |-> "gap"]
  /\ answer' \in Answers("Enumerate", "gap", built, Refreshed)
  /\ inl' = Refreshed /\ dirty' = FALSE /\ bounds' = built
  /\ UNCHANGED <<stage_, iteration_, halvings, built, inStage>>

Enumerate ==
  /\ "enumerate" \in Calls
  /\ answer' \in Answers("Enumerate", "gap", built, Refreshed)
  /\ asked' = [stage |-> stage_, theta |-> "opts"]
  /\ inl' = Refreshed /\ dirty' = FALSE /\ bounds' = built
  /\ UNCHANGED <<stage_, iteration_, halvings, built, inStage>>

\* Mutant: the buckets are not built anew.
AdaptWithoutBuild ==
  /\ "adapt" \in Calls /\ halvings < MaxHalvings
  /\ halvings' = halvings + 1
  /\ UNCHANGED <<stage_, iteration_, asked, built, inl, dirty, bounds, answer, inStage>>

\* adapt_bucket_steps, when a width is above the threshold: narrower buckets,
\* which the bounds of the last solve are not for.
AdaptBucketSteps ==
  /\ "adapt" \in Calls /\ halvings < MaxHalvings
  /\ halvings' = halvings + 1 /\ built' = halvings' /\ inl' = BuiltCosts
  /\ UNCHANGED <<stage_, iteration_, asked, dirty, bounds, answer, inStage>>

ResetElimination ==
  /\ "reset" \in Calls
  /\ inl' = BuiltCosts /\ bounds' = -1
  /\ UNCHANGED <<stage_, iteration_, asked, halvings, built, dirty, answer, inStage>>

Next ==
  \/ Solve
  \/ \E s \in Stage : SetStage(s)
  \/ UpdateArcCosts \/ Enumerate \/ AdaptBucketSteps \/ ResetElimination

Spec == Init /\ [][Next]_vars

\* The column generation loop goes on solving.
FairSpec == Spec /\ WF_vars(Solve)
-----------------------------------------------------------------------------
TypeOK ==
  /\ stage_ \in Stage /\ iteration_ \in 0..MaxIteration /\ inStage \in 0..MaxIteration
  /\ asked \in [stage : Stage, theta : {"opts", "gap"}]
  /\ halvings \in 0..MaxHalvings /\ built = halvings
  /\ inl \in {"base", "passed"} /\ dirty \in BOOLEAN
  /\ bounds \in -1..built
  /\ answer.empty \in BOOLEAN

\* An enumeration in between and a refinement leave no trace in what the next
\* solve looks for: the stage the caller or the progression chose, the threshold
\* of the options, and buckets of the widths last chosen.
SolvesAsAsked ==
  [][Solve => /\ answer'.stage = stage_ /\ answer'.theta = "opts"
              /\ answer'.width = halvings' /\ bounds' = built']_vars

\* Once the caller has stopped choosing stages, the loop gets to exact pricing,
\* however many paths the heuristics find and whatever is asked for in between:
\* without it, the loop could not prove that it is done.
ReachesExact ==
  <>[][stage_' # stage_ => Solve]_vars => <>(stage_ = "Exact")

\* The paths returned are priced at the costs the caller passed.
AnswersAreAtPassedCosts == answer # NoAnswer => answer.costs = "passed"

\* "Move to Heuristic2 if no neg-cost paths found or after 3 iters": ...
LeavesHeuristic1InTime == stage_ = "Heuristic1" => inStage < 3

\* ... and not before.
StaysInHeuristic1 ==
  [][(Solve /\ stage_ = "Heuristic1" /\ ~answer'.empty /\ inStage < 2)
       => stage_' = "Heuristic1"]_vars

\* The completion bounds that elimination and fixing would use are those of the
\* buckets there are.
BoundsFitTheBuckets == bounds \in {-1, built}

-----------------------------------------------------------------------------
\* Proofs, for any number of halvings and whichever operations the caller uses in
\* between.

\* The options between two operations are those of the solver, up to the stage,
\* which each solve sets anew, and the buckets those of the widths.
BetweenCalls == TypeOK /\ asked.theta = "opts"

LEMMA StagesStart ==
  Init => BetweenCalls
BY SolverAssumption DEF Init, BetweenCalls, TypeOK, Stage, NoAnswer

LEMMA CountersType ==
  ASSUME TypeOK, NEW empty \in BOOLEAN, UpdateStage(empty)
  PROVE  stage_' \in Stage /\ iteration_' \in 0..MaxIteration /\ inStage' \in 0..MaxIteration
<1>1. /\ OneMore(iteration_) \in 0..MaxIteration /\ OneMore(inStage) \in 0..MaxIteration
      /\ 0 \in 0..MaxIteration
  BY SolverAssumption DEF TypeOK, OneMore
<1> DEFINE n == OneMore(iteration_)
           next == StageAfter(stage_, n, empty)
<1>2. next.stage \in Stage /\ next.iteration \in 0..MaxIteration
  <2>1. CASE stage_ = "Heuristic1" /\ (empty \/ n > 3)
    BY <1>1, <2>1 DEF StageAfter, Stage
  <2>2. CASE stage_ = "Heuristic2" /\ (empty \/ n > 10)
    BY <1>1, <2>2 DEF StageAfter, Stage
  <2>3. CASE /\ ~(stage_ = "Heuristic1" /\ (empty \/ n > 3))
             /\ ~(stage_ = "Heuristic2" /\ (empty \/ n > 10))
    BY <1>1, <2>3 DEF StageAfter, TypeOK
  <2> QED BY <2>1, <2>2, <2>3
<1>3. /\ stage_' = next.stage /\ iteration_' = next.iteration
      /\ inStage' = IF next.stage = stage_ THEN OneMore(inStage) ELSE 0
  BY DEF UpdateStage
<1> QED BY <1>1, <1>2, <1>3

LEMMA SolveOnceKeeps ==
  ASSUME BetweenCalls, SolveOnce
  PROVE  BetweenCalls' /\ answer'.stage = stage_ /\ answer'.theta = "opts"
         /\ answer'.width = halvings' /\ bounds' = built'
<1>1. PICK e \in BOOLEAN :
        answer' = [stage |-> stage_, theta |-> "opts", width |-> built,
                   costs |-> Refreshed, empty |-> e]
  BY DEF SolveOnce, Answers, BetweenCalls
<1>2. stage_' \in Stage /\ iteration_' \in 0..MaxIteration /\ inStage' \in 0..MaxIteration
  BY <1>1, CountersType DEF SolveOnce, BetweenCalls
<1>3. Refreshed \in {"base", "passed"}
  BY DEF Refreshed, BetweenCalls, TypeOK
<1>4. /\ asked' \in [stage : Stage, theta : {"opts", "gap"}] /\ asked'.theta = "opts"
  BY DEF SolveOnce, BetweenCalls, TypeOK
<1>5. /\ halvings' = halvings /\ built' = built /\ bounds' = built
      /\ inl' = Refreshed /\ dirty' = FALSE
  BY DEF SolveOnce
<1>6. TypeOK'
  <2>1. answer'.empty \in BOOLEAN
    BY <1>1
  <2>2. built' \in 0..MaxHalvings /\ built' \in -1..built'
    BY <1>5, SolverAssumption DEF BetweenCalls, TypeOK
  <2>3. halvings' \in 0..MaxHalvings /\ built' = halvings'
    BY <1>5 DEF BetweenCalls, TypeOK
  <2> QED BY <1>2, <1>3, <1>4, <1>5, <2>1, <2>2, <2>3 DEF TypeOK
<1>7. answer'.stage = stage_ /\ answer'.theta = "opts" /\ answer'.width = built
  BY <1>1
<1>8. built = halvings
  BY DEF BetweenCalls, TypeOK
<1> QED BY <1>4, <1>5, <1>6, <1>7, <1>8 DEF BetweenCalls

LEMMA SolveRefinedKeeps ==
  ASSUME BetweenCalls, SolveRefined
  PROVE  BetweenCalls' /\ answer'.stage = stage_ /\ answer'.theta = "opts"
         /\ answer'.width = halvings' /\ bounds' = built'
<1>1. PICK e \in BOOLEAN :
        answer' = [stage |-> stage_, theta |-> "opts", width |-> built',
                   costs |-> inl', empty |-> e]
  BY DEF SolveRefined, Answers, BetweenCalls
<1>2. stage_' \in Stage /\ iteration_' \in 0..MaxIteration /\ inStage' \in 0..MaxIteration
  BY <1>1, CountersType DEF SolveRefined, BetweenCalls
<1>3. halvings + 1 \in 0..MaxHalvings
  BY SolverAssumption DEF SolveRefined, BetweenCalls, TypeOK
<1>4. /\ asked' \in [stage : Stage, theta : {"opts", "gap"}] /\ asked'.theta = "opts"
  BY DEF SolveRefined, BetweenCalls, TypeOK
<1>5. /\ halvings' = halvings + 1 /\ built' = halvings' /\ bounds' = built'
      /\ inl' = "base" /\ dirty' = FALSE
  BY DEF SolveRefined, BuiltCosts
<1>6. TypeOK'
  <2>1. answer'.empty \in BOOLEAN
    BY <1>1
  <2>2. halvings' \in 0..MaxHalvings /\ halvings' \in -1..halvings'
    BY <1>3, <1>5, SolverAssumption
  <2> QED BY <1>2, <1>4, <1>5, <2>1, <2>2 DEF TypeOK
<1>7. answer'.stage = stage_ /\ answer'.theta = "opts" /\ answer'.width = built'
  BY <1>1
<1> QED BY <1>4, <1>5, <1>6, <1>7 DEF BetweenCalls

LEMMA OthersKeep ==
  ASSUME BetweenCalls,
         \/ \E s \in Stage : SetStage(s)
         \/ UpdateArcCosts \/ Enumerate \/ AdaptBucketSteps \/ ResetElimination
  PROVE  BetweenCalls'
<1> USE SolverAssumption DEF BetweenCalls, TypeOK
<1>1. ASSUME NEW s \in Stage, SetStage(s)
      PROVE  BetweenCalls'
  BY <1>1 DEF SetStage, bg
<1>2. CASE UpdateArcCosts
  BY <1>2 DEF UpdateArcCosts
<1>3. CASE Enumerate
  <2>1. answer'.empty \in BOOLEAN
    BY <1>3 DEF Enumerate, Answers
  <2>2. Refreshed \in {"base", "passed"}
    BY DEF Refreshed
  <2>3. stage_ \in Stage
    OBVIOUS
  <2>4. asked' \in [stage : Stage, theta : {"opts", "gap"}] /\ asked'.theta = "opts"
    BY <1>3, <2>3 DEF Enumerate
  <2>5. /\ inl' \in {"base", "passed"} /\ dirty' \in BOOLEAN /\ bounds' = built
        /\ UNCHANGED <<stage_, iteration_, halvings, built, inStage>>
    BY <1>3, <2>2 DEF Enumerate
  <2> QED BY <2>1, <2>4, <2>5
<1>4. CASE AdaptBucketSteps
  BY <1>4 DEF AdaptBucketSteps, BuiltCosts
<1>5. CASE ResetElimination
  BY <1>5 DEF ResetElimination, BuiltCosts
<1> QED BY <1>1, <1>2, <1>3, <1>4, <1>5

LEMMA BetweenCallsAlways ==
  Spec => []BetweenCalls
<1>1. ASSUME BetweenCalls, [Next]_vars
      PROVE  BetweenCalls'
  <2>1. CASE UNCHANGED vars
    BY <1>1, <2>1 DEF vars, bg, BetweenCalls, TypeOK
  <2> QED BY <1>1, <2>1, SolveOnceKeeps, SolveRefinedKeeps, OthersKeep DEF Next, Solve
<1> QED BY <1>1, StagesStart, PTL DEF Spec

\* Whatever the caller does between two calls of solve(), and however often the
\* buckets are refined, the buckets have the widths of the options.
THEOREM StagesTypeOK == Spec => []TypeOK
<1>1. BetweenCalls => TypeOK
  BY DEF BetweenCalls
<1> QED BY <1>1, BetweenCallsAlways, PTL

\* solve() answers for the stage that was due and the threshold of the options,
\* also after an enumeration, which borrows both: it gives them back.
THEOREM SolveKeepsToItsStage == Spec => SolvesAsAsked
<1>1. BetweenCalls /\ [Next]_vars =>
        [Solve => /\ answer'.stage = stage_ /\ answer'.theta = "opts"
                  /\ answer'.width = halvings' /\ bounds' = built']_vars
  BY SolveOnceKeeps, SolveRefinedKeeps DEF Solve
<1> QED BY <1>1, BetweenCallsAlways, PTL DEF Spec, SolvesAsAsked
=============================================================================
