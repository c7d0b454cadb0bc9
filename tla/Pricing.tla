------------------------------- MODULE Pricing -------------------------------
(***************************************************************************)
(* What a sequence of solves promises its caller, told without buckets,     *)
(* labels or bounds: an oracle over the feasible paths.                    *)
(*                                                                         *)
(* The caller sets prices, asks for paths below a threshold, and gives up   *)
(* paths of which it knows that it will not need them, because at the       *)
(* prices of the moment they cost more than its gap.  The paths it has not  *)
(* given up stay within reach, at whatever prices it asks for them, and     *)
(* building anew brings back the others.                                   *)
(***************************************************************************)
EXTENDS Integers

CONSTANTS
  Paths,            \* the feasible paths
  SumOver(_, _),    \* what a path costs at the prices of its arcs
  Prices, Questions, Gaps

VARIABLES
  kept,       \* the paths that have not been given up
  price,      \* arc -> reduced cost
  question,   \* [stage, theta]
  answer      \* [paths, all], or NoAnswer while there is none to this question

pricing == <<kept, price, question, answer>>

NoAnswer == [paths |-> {}, all |-> FALSE]

Price(w) == SumOver(price, w)
Below(S) == {w \in S : Price(w) < question.theta}

\* An exact answer has a path as cheap as every kept path below the threshold;
\* an enumeration that says it has all of them does.
Answers(A) ==
  /\ A.paths \subseteq Below(Paths)
  /\ question.stage = "Exact" =>
       \A w \in Below(kept) : \E x \in A.paths : Price(x) <= Price(w)
  /\ question.stage = "Enumerate" /\ A.all => Below(kept) \subseteq A.paths

Reprice ==
  price' \in Prices /\ answer' = NoAnswer /\ UNCHANGED <<kept, question>>

Ask ==
  question' \in Questions /\ answer' = NoAnswer /\ UNCHANGED <<kept, price>>

GiveUp(gap) ==
  /\ kept' = {w \in kept : Price(w) <= gap}
  /\ UNCHANGED <<price, question, answer>>

Restore ==
  kept' = Paths /\ answer' = NoAnswer /\ UNCHANGED <<price, question>>

Reply ==
  Answers(answer') /\ UNCHANGED <<kept, price, question>>

Start ==
  /\ kept = Paths /\ price \in Prices /\ question \in Questions
  /\ answer = NoAnswer

PricingStep ==
  \/ Reprice \/ Ask \/ Restore \/ Reply
  \/ \E gap \in Gaps : GiveUp(gap)

PricingSpec == Start /\ [][PricingStep]_pricing
=============================================================================
