----------------------------- MODULE BatchInsert -----------------------------
(***************************************************************************)
(* One bucket and the buffer of an exact solve: the children of a label are *)
(* collected and then inserted together, comparing each stored label with   *)
(* all of them at once.  A label that is beaten is marked and stays stored, *)
(* since the sweep holds indices into the bucket.                          *)
(*                                                                         *)
(* Labels are forward ones of one resource; a pack enters by the penalty    *)
(* between two states and by its lower bound, by which labels are skipped    *)
(* without being looked at.                                                *)
(***************************************************************************)
EXTENDS Integers, Sequences, FiniteSets

CONSTANTS
  Offer,                     \* the labels that may come: [cost, q, st]
  Penalty,                   \* domination_cost, pair of states -> cost
  MinPenalty,                \* min_dom_cost_
  BufferSize,                \* the 128 of batch_buf
  MaxOffers                  \* bound on the labels stored and collected

ASSUME BatchAssumption ==
  /\ \A l \in Offer : l.cost \in Int /\ l.q \in Int
  /\ \A s, t \in {l.st : l \in Offer} :
       Penalty[<<s, t>>] \in Int /\ MinPenalty <= Penalty[<<s, t>>]
  /\ MinPenalty \in Int /\ BufferSize \in Nat \ {0} /\ MaxOffers \in Nat

VARIABLES
  bucket,                    \* the stored labels, each with its flag dominated
  buf                        \* batch_buf

store == <<bucket, buf>>

\* dominates()
Dominates(x, y) == x.q <= y.q /\ x.cost + Penalty[<<x.st, y.st>>] <= y.cost

Live(B) == {B[i].label : i \in {k \in DOMAIN B : ~B[k].dominated}}

Marked(B, I) ==
  [i \in DOMAIN B |-> IF i \in I THEN [B[i] EXCEPT !.dominated = TRUE] ELSE B[i]]

\* In front of those of equal cost.
InsertSorted(B, l) ==
  LET n == Cardinality({i \in DOMAIN B : B[i].label.cost < l.cost})
  IN SubSeq(B, 1, n) \o <<[label |-> l, dominated |-> FALSE]>> \o SubSeq(B, n + 1, Len(B))

-----------------------------------------------------------------------------
\* try_insert_label: one label.  The search breaks off at the first label that is
\* too expensive, and looks for victims from the first one that is not too cheap.
DominatedIn(B, l) ==
  \E i \in DOMAIN B :
    /\ \A k \in 1..i : B[k].label.cost + MinPenalty <= l.cost
    /\ ~B[i].dominated /\ Dominates(B[i].label, l)

Victims(B, l) ==
  {i \in DOMAIN B :
     /\ \E k \in 1..i : B[k].label.cost >= l.cost + MinPenalty
     /\ ~B[i].dominated /\ Dominates(l, B[i].label)}

TryInsert(B, l) ==
  IF DominatedIn(B, l) THEN B ELSE InsertSorted(Marked(B, Victims(B, l)), l)

-----------------------------------------------------------------------------
\* batch_try_insert: several labels, sorted by cost.  The earlier ones are
\* compared with the later ones only.
IntraBatch(b) ==
  LET after[n \in 0..Len(b)] ==
        IF n = 0 THEN {}
        ELSE after[n - 1] \cup IF n \in after[n - 1] THEN {}
                               ELSE {j \in n + 1..Len(b) : Dominates(b[n], b[j])}
  IN after[Len(b)]

\* The pass over the stored labels: out is what it has marked so far, of the
\* batch and of the bucket.  First the stored label e may beat labels of the
\* batch, then one of those left may beat it.  The bounds on their costs are
\* those from before the pass.
OutOfBatch(e, b, highest, out) ==
  IF e.dominated \/ e.label.cost + MinPenalty > highest THEN out.batch
  ELSE out.batch \cup {j \in DOMAIN b :
                         /\ e.label.cost + MinPenalty <= b[j].cost
                         /\ Dominates(e.label, b[j])}

OutOfBucket(e, b, lowest, gone) ==
  /\ ~e.dominated /\ lowest + MinPenalty <= e.label.cost
  /\ \E j \in DOMAIN b \ gone :
       /\ b[j].cost + MinPenalty <= e.label.cost
       /\ Dominates(b[j], e.label)

Costs(b, I) == {b[j].cost : j \in I}
Highest(C) == CHOOSE c \in C : \A x \in C : x <= c
Lowest(C) == CHOOSE c \in C : \A x \in C : c <= x

\* Mutant: labels of the batch that have just been beaten still count.
PassUnmarked(B, b, beaten) ==
  LET costs == Costs(b, DOMAIN b \ beaten)
      after[n \in 0..Len(B)] ==
        IF n = 0 THEN [batch |-> beaten, bucket |-> {}]
        ELSE [batch  |-> OutOfBatch(B[n], b, Highest(costs), after[n - 1]),
              bucket |-> after[n - 1].bucket \cup
                         IF OutOfBucket(B[n], b, Lowest(costs), beaten) THEN {n} ELSE {}]
  IN after[Len(B)]

\* Mutant: the stored label is compared with the cheapest of the batch to see
\* whether it may beat any.
PassByCheapest(B, b, beaten) ==
  LET costs == Costs(b, DOMAIN b \ beaten)
      after[n \in 0..Len(B)] ==
        IF n = 0 THEN [batch |-> beaten, bucket |-> {}]
        ELSE LET gone == OutOfBatch(B[n], b, Lowest(costs), after[n - 1])
             IN [batch  |-> gone,
                 bucket |-> after[n - 1].bucket \cup
                            IF OutOfBucket(B[n], b, Lowest(costs), gone) THEN {n} ELSE {}]
  IN after[Len(B)]

FusedPass(B, b, beaten) ==
  LET costs == Costs(b, DOMAIN b \ beaten)
      after[n \in 0..Len(B)] ==
        IF n = 0 THEN [batch |-> beaten, bucket |-> {}]
        ELSE LET gone == OutOfBatch(B[n], b, Highest(costs), after[n - 1])
             IN [batch  |-> gone,
                 bucket |-> after[n - 1].bucket \cup
                            IF OutOfBucket(B[n], b, Lowest(costs), gone) THEN {n} ELSE {}]
  IN after[Len(B)]

BatchTryInsert(B, b) ==
  LET out == FusedPass(B, b, IntraBatch(b))
      placed[j \in 0..Len(b)] ==
        IF j = 0 THEN Marked(B, out.bucket)
        ELSE IF j \in out.batch THEN placed[j - 1] ELSE InsertSorted(placed[j - 1], b[j])
  IN placed[Len(b)]

-----------------------------------------------------------------------------
\* The orders in which std::sort may leave the buffer.
Sorted(s) ==
  {t \in {[i \in DOMAIN s |-> s[p[i]]] :
            p \in {o \in [DOMAIN s -> DOMAIN s] : \A i, j \in DOMAIN s : o[i] = o[j] => i = j}} :
     \A i, j \in DOMAIN t : i < j => t[i].cost <= t[j].cost}

BatchInit == bucket = <<>> /\ buf = <<>>

\* A child comes that is not pruned.
Collect(l) ==
  /\ Len(buf) < BufferSize /\ Len(bucket) + Len(buf) < MaxOffers
  /\ buf' = Append(buf, l)
  /\ UNCHANGED bucket

\* process_batch, when the buffer is full or there are no more children.
ProcessBatch ==
  /\ buf # <<>>
  /\ IF Len(buf) = 1 THEN bucket' = TryInsert(bucket, buf[1])
     ELSE \E b \in Sorted(buf) : bucket' = BatchTryInsert(bucket, b)
  /\ buf' = <<>>

BatchNext == (\E l \in Offer : Collect(l)) \/ ProcessBatch

BatchSpec == BatchInit /\ [][BatchNext]_store

-----------------------------------------------------------------------------
\* What is asked of penalties: a detour over a third state is not cheaper, and
\* nobody is paid for being compared.
PenaltiesAddUp ==
  \A k, l, m \in Offer : Penalty[<<k.st, m.st>>] <= Penalty[<<k.st, l.st>>] + Penalty[<<l.st, m.st>>]
PenaltiesCost == \A k, l \in Offer : Penalty[<<k.st, l.st>>] >= 0

\* What is stored unbeaten and what is still in the buffer.
Coming == Live(bucket) \cup {buf[i] : i \in DOMAIN buf}

\* batch_try_insert and try_insert_label lose nothing while labels beat each
\* other, if penalties add up: whatever has come stays, unbeaten, or leaves to a
\* label that beats it.
NothingIsLost ==
  [][\A l \in Coming : \E k \in Coming' : k = l \/ Dominates(k, l)]_store

\* Where costs tell the labels of a batch apart and penalties are not negative,
\* the batch leaves the same unbeaten labels as inserting one after the other,
\* the cheapest first.
DistinctCosts(s) == \A i, j \in DOMAIN s : i # j => s[i].cost # s[j].cost
Tight(B) == \A k, l \in Live(B) : k # l => ~Dominates(k, l)
OneByOne(B, s) ==
  LET t == CHOOSE t \in Sorted(s) : TRUE
      after[n \in 0..Len(t)] == IF n = 0 THEN B ELSE TryInsert(after[n - 1], t[n])
  IN after[Len(t)]

BatchIsOneByOne ==
  [][buf # <<>> /\ buf' = <<>> /\ Tight(bucket) /\ DistinctCosts(buf)
       => Live(bucket') = Live(OneByOne(bucket, buf))]_store
=============================================================================
