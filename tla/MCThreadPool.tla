---------------------------- MODULE MCThreadPool ----------------------------
(***************************************************************************)
(* Calls as the labeling code makes them.  "label" is the parallel_invoke   *)
(* of the two labelings: its piece 1, the backward labeling, runs on a      *)
(* worker and, in a large component, calls the parallel_for "compact".      *)
(* With three threads the four buckets of that call go into chunks of two    *)
(* and the last chunk is empty.  "concat" is the parallel_for_chunked of    *)
(* another solve, on a thread of its own.                                  *)
(***************************************************************************)
EXTENDS ThreadPool

MCCall == {"label", "compact", "concat"}
OneSolve == {"label", "compact"}
MCKind == [label |-> "invoke", compact |-> "for", concat |-> "chunked"]
MCSize == [label |-> 2, compact |-> 4, concat |-> 2]
MCBody ==
  [c \in MCCall |-> [k \in 0..2 |->
     IF c = "label" /\ k = 1 THEN <<"compact">> ELSE <<>>]]
MCMayThrow == {<<"compact", 1>>, <<"concat", 0>>, <<"concat", 1>>}
=============================================================================
