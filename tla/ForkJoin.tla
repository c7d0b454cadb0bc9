------------------------------ MODULE ForkJoin ------------------------------
(***************************************************************************)
(* What an Executor promises to the labeling code: a call works through     *)
(* its items, in any order and in parallel, and comes back when nobody is   *)
(* working for it any more; if some work threw, the caller gets an          *)
(* exception.  The contract behind the concept Executor.                    *)
(***************************************************************************)
EXTENDS Integers

CONSTANTS
  Call,                      \* calls of parallel_for, _chunked and _invoke
  Items                      \* call -> the indices or functions it is about

VARIABLES
  state,                     \* call -> "idle", "open", "returned" or "threw"
  taken,                     \* call -> items whose work has begun
  active,                    \* call -> items being worked on
  failed                     \* call -> items whose work ended by an exception

forkJoinVars == <<state, taken, active, failed>>

Init ==
  /\ state = [c \in Call |-> "idle"]
  /\ taken = [c \in Call |-> {}] /\ active = taken /\ failed = taken

Begin(c) ==
  /\ state[c] = "idle"
  /\ state' = [state EXCEPT ![c] = "open"]
  /\ UNCHANGED <<taken, active, failed>>

\* Some items that nobody has worked on yet, together in one go.
Take(c, chunk) ==
  /\ state[c] = "open" /\ chunk \cap taken[c] = {}
  /\ taken' = [taken EXCEPT ![c] = @ \cup chunk]
  /\ active' = [active EXCEPT ![c] = @ \cup chunk]
  /\ UNCHANGED <<state, failed>>

Complete(c, chunk) ==
  /\ state[c] = "open" /\ chunk \subseteq active[c]
  /\ active' = [active EXCEPT ![c] = @ \ chunk]
  /\ UNCHANGED <<state, taken, failed>>

Fail(c, chunk) ==
  /\ state[c] = "open" /\ chunk \subseteq active[c]
  /\ active' = [active EXCEPT ![c] = @ \ chunk]
  /\ failed' = [failed EXCEPT ![c] = @ \cup chunk]
  /\ UNCHANGED <<state, taken>>

Return(c) ==
  /\ state[c] = "open" /\ active[c] = {} /\ failed[c] = {} /\ taken[c] = Items[c]
  /\ state' = [state EXCEPT ![c] = "returned"]
  /\ UNCHANGED <<taken, active, failed>>

Throw(c) ==
  /\ state[c] = "open" /\ active[c] = {} /\ failed[c] # {}
  /\ state' = [state EXCEPT ![c] = "threw"]
  /\ UNCHANGED <<taken, active, failed>>

Next ==
  \E c \in Call :
    \/ Begin(c) \/ Return(c) \/ Throw(c)
    \/ \E chunk \in SUBSET Items[c] : Take(c, chunk) \/ Complete(c, chunk) \/ Fail(c, chunk)

Spec == Init /\ [][Next]_forkJoinVars
=============================================================================
