# A TLA+ model of bucket-graph-spprc

`bgspprc` prices columns: given a directed graph with arc costs that change from call to call, resource
windows at the vertices and a pack of further resources, it finds the paths from source to sink whose
reduced cost is below a threshold *theta*. The library is one template, `BucketGraph<Pack, Executor>`
(`src/include/bgspprc/bucket_graph.h`, about 4000 lines), with the resources and executors it is
parameterised by and a thin `Solver` around it.

This directory holds TLA+ modules translated from that code, TLC configurations that check them on small
instances, and proofs for TLAPS: the labeling core (one call of `solve()`), what a caller does between two
solves, the comparison and the joining of labels under every resource of the repository, the insertion of
batches, the stages of `Solver`, and the thread pool under all of it.

## 1. The system

### Components

| Component | Code | State it keeps | Operations |
|---|---|---|---|
| Problem | `problem_view.h`, `types.h` | vertices, arcs, base costs, main resources and windows, adjacency: immutable after construction | `fw_adj`/`bw_adj`, propagation of one or two main resources along an arc |
| Bucket structure | `bucket.h`, `arc.h`, `build()` | per vertex a grid of buckets; bucket arcs per direction; components (SCCs) of the bucket graph and their topological order; jump arcs; fixed buckets | `build`, `vertex_bucket_index`, `compute_sccs`, `adapt_bucket_steps`, `halve_bucket_steps` |
| Costs | `update_arc_costs`, `refresh_arc_costs` | `reduced_costs_`, a copy inlined in every bucket arc, `arc_costs_dirty_` | set; refresh at the next solve |
| Labeling | `process_scc`, `extend_label`, `try_insert_label`, ... | labels per bucket with the flags *extended* and *dominated*, `c_best` per bucket and direction, label counters, enumeration caps | process one component: sweep its buckets, drop dominated labels, prune, extend, insert; compact; propagate `c_best` |
| Completion bounds | `compute_completion_bounds` | a bound on the rest of the path per bucket and direction | computed before or after labeling |
| Bidirectional search | `solve`, `prune_bw_incompatible`, `collect_concat_candidates` | `midpoint_`, `midpoint_initialized_` | mono / backward first / parallel labeling; `prune_bw_incompatible`; join of forward and backward labels; `adjust_midpoint` |
| Resource pack | `resource.h`, `resources/*.h` | a state per resource in each label | extend along an arc, extend to a vertex, domination cost, concatenation cost |
| Elimination | `eliminate_arcs*`, `fix_buckets`, `obtain_jump_arcs` | bucket arcs removed, jump arcs, fixed buckets | uses `c_best` and completion bounds of the last solve |
| Symmetric mode | `symmetric_` paths of `solve` | backward labels as mirror images of forward ones | one labeling, mirrored `c_best` |
| Batches and SoA store | `batch_try_insert`, `process_batch`, `label.h` | children of a bucket collected and inserted together, columns for SIMD dominance | the vectorised form of insertion |
| Session | `solve` after `solve`; warm labels | everything that outlives a solve: costs, bucket arcs, fixed buckets, midpoint, bounds, warm labels | `build`, `update_arc_costs`, `set_stage`, `set_theta`, `save_warm_labels` |
| Solver stages | `solver.h` | current stage, calls in it, refinements made | `solve`, `enumerate`, stage transition, bucket refinement |
| Executors | `executor.h`, `executor_thread.h` | a pool of workers, a task queue, a counter per batch | `parallel_invoke`, `parallel_for`, exceptions across threads |
| Rank-1 cuts | `r1c.h` | a state vector per label and the duals of the cuts | resource with costs of its own |
| Command line, benchmarks, examples, tests | `cli/`, `benchmarks/`, `examples/`, `tests/` | | input and output around the library |

### How they interact

`solve()` refreshes the inlined arc costs if `update_arc_costs` was called, resets labels and counters, runs
one or two labelings, prunes backward labels, computes bounds, joins the two halves and selects at most
`max_paths` candidates. In parallel mode the two labelings are two tasks of `parallel_invoke`: they read the
same problem, bucket arcs, midpoint and completion bounds and write disjoint label stores; the calling thread
joins them before anything else happens. In the backward-first mode the forward labeling reads the backward
`c_best`. Elimination and fixing then read `c_best` and completion bounds of that solve and change the bucket
arcs of the next one.

### What is hard

* **Order.** Dominance across buckets relies on `c_best`, which is known only for finished components; a
  finished component must not receive another label, although the bucket of a child is computed from its own
  resources and not from the bucket arc it was extended along.
* **Stale state.** Labels are flagged dominated in the middle of a sweep; Heuristic1 overwrites labels whose
  children live on; costs are copied into bucket arcs; bounds, midpoint, fixed buckets and warm labels of one
  solve are used by the next.
* **Interleaving.** Two threads label at the same time, with bounds in place of each other's results; the pool
  they run on is shared with other solves and is called again from within its own tasks.
* **Bounds that must be bounds.** `c_best`, completion bounds, the per-vertex minimum and the arrival bound
  all prune; each has to stay on the safe side when costs are negative, components have cycles, arcs have been
  eliminated and only a part of the search has been done.
* **Comparisons that must persist.** A resource says with one number whether a label may be thrown away; the
  number has to stay right on every way that both labels could have gone.
* **Sequences of calls.** Elimination, fixing, rebuilding, new costs and warm labels are legal in any order;
  the code asserts little about it.
* **Limits.** Caps end a component early and must be reported by an enumeration.

The list with lines is under `hazards` in `PROJECT.json`; each entry names the properties that would catch it
going wrong, says under which rule or for which data they do, or says why none does. Where a property fails on the
hazard, the entry names the run that shows it, or this file tells how to see it (section 3, findings).

### What makes each component correct

* Bucket structure: arcs lead to the bucket that their best label reaches; components are processed so that
  nothing arrives in a finished one.
* Labeling: stored labels are real paths with the right costs (soundness); what is dropped is represented by
  something at least as good (dominance); it ends.
* Bounds: `c_best` and completion bounds are lower bounds.
* Bidirectional search: the halves joined fit together; nothing optimal is lost at the midpoint.
* Solve: an exact solve returns an optimum, an enumeration that calls itself complete is complete.
* Elimination and fixing: no path within the gap is given up, and jump arcs replace what was removed.
* Session: a solve finds what has not been given up, whatever came before it.
* Resources: a comparison persists on every common way; halves join to the cost of the whole at every cut.
* Batches: nothing is lost among labels that beat each other; the outcome is that of one insertion after the
  other.
* Solver: each solve runs as last asked; the loop reaches the exact stage.
* Thread pool: every index is taken once, the caller returns only after all pieces, exceptions arrive, nobody
  waits for ever.

## 2. The modules

```
Spprc ─ BucketGrid ─ Completion ─ Labeling ─ LabelingProps ─┬─ MCMono, MCBidir, MCTwoRes, MCCycle
  │                                             │           └─ Session ─ MCSession
  ├─ Walks ─────────────────────────────────────┘                 │
  │    (Paths) Pricing  <───────── implemented by ────────────────┘
  ├─ LabelSteps ─┬─ Twins              }
  │              └─ Splits             }
  ├─ NgPath, NoPack, StandardRes,      } MCPacks, MCLabels
  │  PickupDelivery, CumulativeCost,   }
  │  RankOneCuts ─ ResourcePack        }
  └─                      BatchInsert  }

ThreadPool ─ MCThreadPool,  implements ForkJoin
SolverStages
```

and, with theorems,

```
BucketGrid ─ BucketGridProofs ─┬─ DominanceProofs   (Twins, Splits, BatchInsert, PackLaws)
                               └┬ OptimalityProofs  (Labeling, Walks, LabelingProps) ─ CompletenessProofs ─ SessionProofs  (Session)
PackLaws ── PackProofs ─────────┘                   (resources)
ThreadPoolProofs (ThreadPool),  SolverStages
```

| Module | Models | Notes |
|---|---|---|
| `Spprc` | problem data, adjacency, resource propagation in both directions, the order "no worse" | constants with `ProblemAssumption` |
| `BucketGrid` | `build()`: grid, `vertex_bucket_index`, bucket arcs from the best corner, edges of the bucket graph, components, their order | a bucket is `<<vertex, grid position>>` |
| `Completion` | `compute_completion_bounds` with its order of relaxation, its number of rounds and the propagation over the grid | |
| `Labeling` | `solve()`: the state machine | the resource pack is a set of constant operators |
| `Walks` | the reference: feasible walks defined without buckets, labels or propagation | used by properties only |
| `LabelingProps` | the promises of a solve, measured against `Walks` | |
| `Session` | the calls between solves: costs, options, build, elimination, fixing, reset, warm labels | around the actions of `Labeling` |
| `Pricing` | what a sequence of solves promises: an oracle over the feasible paths that were not given up | abstract specification of `Session`; the paths and the sum of prices are constants, here those of `Walks` |
| `NgPath`, `StandardRes`, `PickupDelivery`, `CumulativeCost`, `RankOneCuts`, `NoPack` | the resources: initial state, extension along an arc and into a vertex, cost of domination, cost of concatenation | `NgRoute` is the reference for `NgPath` |
| `ResourcePack` | how a pack adds up its members | |
| `LabelSteps` | start, extension, domination and joining of labels, without buckets | exact stage |
| `Twins` | two labels that come to one vertex; one beats the other; both go on the same way | what dominance rests on |
| `Splits` | a walk labelled forward as far as it gets and backward from its end | what concatenation rests on |
| `BatchInsert` | `process_batch`, `batch_try_insert` and `try_insert_label` on one bucket | |
| `ThreadPool` | `submit`, `wait`, `worker_loop`, `parallel_for`, `parallel_for_chunked`, `parallel_invoke` | one action per lock region or atomic access |
| `ForkJoin` | the concept `Executor`: what a call promises | abstract specification of `ThreadPool` |
| `SolverStages` | `Solver`: stages, refinement, enumeration, adaptation around an abstract graph | |
| `PackLaws` | what the labeling supposes of a resource pack: `Closed`, `Persists`, `Composes`, `Joins`, `Cuttable`, `Replaceable` | hypotheses of theorems, proved of the resources |
| `BucketGridProofs`, `PackProofs`, `DominanceProofs`, `OptimalityProofs`, `CompletenessProofs`, `SessionProofs`, `ThreadPoolProofs` | theorems and their proofs | section 4; those of `SolverStages` are few and stand at its end |
| `MC...` | instances for TLC | section 3 |

### State and actions of `Labeling`

A label in the code is a struct with a `parent` pointer. In the model it is the chain of nodes from the
initial label to itself, so that the path is in the label and a parent overwritten in its bucket lives on in
its children, as it does in the code's arena. `labels[d]` holds the labels stored in buckets of direction
`d`; the bucket of a label is computed from its vertex and resources (`Where`), as the code does when it
inserts. `extended` and `dominated` are the labels with the flag set.

| Action | Code | What it does |
|---|---|---|
| `BeginSolve` | beginning of `solve`, `refresh_arc_costs`, `create_initial_label` | refresh costs, reset, seed, first completion bounds, first midpoint |
| `StartScc` | loop over `fw_scc_topo_order_` / `bw_scc_topo_order_`, beginning of `process_scc` | take up a component all of whose predecessors are finished |
| `DropDominated` | sweep of `process_scc` | the label is dominated by one of an adjacent bucket |
| `PruneHopeless` | same | its completion bound is not below theta |
| `OpenLabel` | same | it will be extended; the list of its bucket arcs and jump arcs |
| `ExtendArc` | `extend_label`, `pre_filter`, `try_insert_label` | one arc: extension, feasibility, filters, dominance in the bucket in both directions, overwriting, counters |
| `FinishScc` | end of `process_scc`, `compact_labels`, `update_c_best` | no label left to visit, or a cap; remove dominated labels, propagate `c_best`, report the cap |
| `EndLabeling` | `parallel_invoke` returns, or the second loop ends | both directions have finished |
| `PostPass` | `prune_bw_incompatible`, `recompute_bw_c_best`, completion bounds, `adjust_midpoint` | |
| `Collect` | `collect_concat_candidates`, `select_and_realize` | |

Steps of the two directions interleave in parallel mode; a step is as small as one visit or one extension.

### Abstractions

* Costs, resources and theta are integers; `EPS` disappears and the default threshold `-1e-6` is 0. Rounding
  and the accumulated error of doubles are out of scope. `mid` is kept 800-fold so that the midpoint's
  fractions (one half, then one twentieth per adjustment) are exact for the adjustment of one solve.
* Tarjan's algorithm is replaced by the components themselves and *every* topological order; within a
  component labels are visited in *any* order and arcs of a label in *any* order, where the code sweeps buckets
  in index order until nothing is inserted. What holds for all orders holds for the code's. One thing of the
  sweep is kept because it is observable: caps are tested at bucket boundaries only (`sweep`).
* Children are inserted one at a time, as `try_insert_label` does. An Exact solve collects the children of a
  label with at least four arcs and inserts them by bucket; a bucket that gets a single child is again
  `try_insert_label`, and two children of one label share a bucket only with parallel arcs or jump arcs.
  `BatchInsert` models that fused insertion, and `BatchIsOneByOne` is why `Labeling` need not.
* Buckets of Heuristic1/2 and Exact are sorted by cost, so that the loops of the concatenation that break at
  the first label that is too expensive are filters. Enumerate appends unsorted: a break may hide any candidate
  behind such a label, and the model lets it (`Shielded`, `Collected`).
* The candidates of a solve are a set of pairs of labels and arcs; the order of paths returned is not modelled.
* `SccCap` stands for 500000 (2000000 when enumerating), scaled to the instance.

### State and actions of the other state machines

**`Session`** keeps the variables of `Labeling` and adds the number of solves, the warm labels and ghosts. Its
actions are the public functions of `BucketGraph`: `UpdateArcCosts`, `SetOptions` (`set_stage`, `set_theta`),
`Build`, `ResetElimination`, `EliminateArcs`, `EliminateArcsLabelBased`, `FixBuckets`, `SaveWarmLabels`,
`BeginNextSolve`, with `InjectWarmLabel` and the steps of `Labeling` inside a solve. Jump arcs are those of
`obtain_jump_arcs`: the nearest buckets beyond that still have the arc. The ghost `kept` holds the paths the
caller has not given up: eliminating or fixing with a gap gives up those that cost more, building and resetting
bring them back. The code asserts only that there are bounds of some solve. What a caller may rely on is modelled
with five rules, the constant `Rules`:

| Rule | A caller that keeps to it | Without it |
|---|---|---|
| `fit` | eliminates and fixes right after an exact solve that looked as far as the gap | bounds of a heuristic solve are no bounds |
| `whole` | eliminates, fixes and enumerates by bounds of a graph that has all its arcs | completion bounds do not relax jump arcs |
| `pass` | passes the costs again after building or resetting | labels are extended at base costs |
| `keep` | keeps the costs while buckets are fixed or warm labels saved | both go by the old costs |
| `reach` | uses label-based elimination with one-directional labels only | labels end at the midpoint |

**`Twins`** and **`Splits`** are machines about labels alone. `Twins` extends two labels until one dominates the
other, and from then on along the same arcs. `Splits` extends a forward label along a walk, turns round at the
sink and extends a backward label along the same walk. **`BatchInsert`** is one bucket and the buffer: `Collect`
and `ProcessBatch`. The penalty of a pack between two labels is a constant matrix with a lower bound.

**`ThreadPool`** has one action per critical section of `mutex_`, per atomic operation on `Batch::remaining` and
per notification: `Submit`, `Push`, `NotifyAll`/`NotifyOne`, `BeginOwn`, `LoadPending`, `Block`, `Leave` for a
calling thread; `Pop`, `Sleep`, `WakeUnasked` (spurious), `Catch`, `CountOut`, `NotifyWaiter` for a worker;
`Finish` and `Throw` for the function of a piece, which may make calls of its own. A call takes its pieces from
the code's arithmetic of chunks.

**`SolverStages`** keeps of the graph only what the solver can change: options, bucket widths, the costs in the
arcs with their flag, for which buckets the bounds are. A solve may return a path or none, freely. The inner
refinement is part of `Solve`, which is one call of the solver.

## 3. What is model-checked

Deadlock is checked except in `MCLabels`, whose machines may stop, and in the run of violation next to it.
`MCSession` has a state constraint that picks the options a caller combines; no other run has one. Runs that
solve once choose options and costs in their initial states (`Chosen`).

| Run | Instance | Shows |
|---|---|---|
| `MCMono` | mono, no pack; 5 vertices, 8 arcs; Exact for all 256 cost vectors over {-1, 2}, Enumerate for 32 of them, three thetas and tight caps | `EveryPathRepresented`: dominance loses no partial path; `CBestIsLowerBound`, `CompletionIsLowerBound`; `FinishedComponentsAreClosed`; `FindsOptimum`; `LabelsAreSound`; `EnumerationIsComplete` although caps bite in some behaviours |
| `MCBidir` | backward first and parallel, Exact and both heuristics, ng-path; 256 cost vectors, two thetas, fewer for the interleaved threads | `BidirFindsOptimum`: midpoint, completion and `c_best` filters, post-pass and joins lose nothing but lonely customers; `CompletionIsLowerBound` in both directions; `ResultsAreFeasiblePaths`; `PairsBecomeCandidates`: two labels that make a path below theta are still among the candidates after the post-pass, in the heuristic stages as well; `OneLabelPerBucket`; `Inductive`, the invariant of the proofs; closed components for two threads |
| `MCTwoRes` | two main resources, the second non-disposable with negative consumption, mono and backward first | representation, optimality, feasibility and closed components on a two-dimensional grid |
| `MCTerminates` | all modes; Heuristic1, Exact, Enumerate; tight caps; a negative cycle | `Terminates` under fairness |
| `MCSession` | two solves, mono and backward first, three cost vectors, three gaps, two thetas, every operation, all five rules | `KeptPathsStayOpen`: no arc or bucket of a kept path goes; `KeptPathsStayInReach`: a label that takes the place of one on a kept path can follow it, by an arc or a jump; `FindsKept`: no solve, bidirectional or warm, misses a kept path; `ImplementsOracle`: mono sessions implement `Pricing` |
| `MCLabels` | `Twins` under windows and loads that bind, in both directions; `Splits` for all walks of up to seven arcs under all five resources at once; `BatchInsert` with 12 different labels, a penalty between states, buffers of three | `DominanceIsSafe`; `SplitsAgree`: joined at any arc the halves cost what the whole costs, and they join if and only if it is feasible; `NothingIsLost`; `BatchIsOneByOne` |
| `MCPool` | three calls of two threads on two workers, one nested in a task, chunks one of which is empty, three pieces that may throw | `TasksEndBeforeTheirCall`, `ExceptionsAreDelivered`, `EveryCallReturns`; `ImplementsForkJoin`: the pool implements the executor concept |
| `MCStages` | all operations in any order, three halvings | `SolvesAsAsked`: neither an enumeration in between nor a refinement shows in the next answer; `ReachesExact`: once the caller has stopped choosing stages the loop gets to exact pricing |

Each property has a mutant in `PROJECT.json`: an operator next to the definition it replaces, changed the way a
slip in the code would change it, under which the same run finds the property violated.

### Bounds, and why they are enough

The instances are small but chosen so that each mechanism takes part. In `MCMono` vertices 1 and 2 form a
cycle whose buckets are one component because a bucket is wider than the arcs are long: labels arrive in
buckets being swept, dominance works both within and across buckets, and the sign patterns make the cycle
negative in some vectors (the windows bound the number of rounds through it). In `MCBidir` the midpoint lies
inside the windows of all three inner vertices, so that halves meet on every inner arc; one ng-neighbourhood
is incomplete so that ng-routes that are not elementary exist; windows end on grid lines so that the last
bucket has to take the upper bound. `MCTwoRes` has components of several buckets in two coordinates and
labels that differ in the non-disposable resource only. The enumeration caps (`MaxEnumLabels`, `SccCap`,
`MaxPaths`) bite in some behaviours of `MCMono` and `MCTerminates` and in none of others. `MaxWalk` bounds the
reference walks; `MaxWalkAssumption`, evaluated by TLC on every run, says that no feasible walk is as long.
`Inf` is 1000, far above any sum of costs of an instance.

In `MCSession` one path returns to a vertex in a later bucket, and costs can make its label dominated by the
one that passes there once: after an elimination the path is found through a jump arc or not at all. Two solves
(`MaxSolves`) are enough for every operation to act between two of them. In `MCLabels` each member of the pack
has data under which it binds; a deeper pack would only make labels incomparable, so that `Twins` takes two
members at a time. `MaxOffers` is such that a full batch meets a stored label, `BufferSize` stands for 128.
`MCPool` has fewer workers than tasks, more tasks than workers at once, and a call whose caller's own piece may
throw with a task's. In `MCStages` the counter (`MaxIteration`) is cut off behind its last threshold.

### Fairness

`Labeling!FairSpec` has weak fairness of `MainStep` (the calling thread) and of `LabelStep(d)` for each direction
(the thread that labels it): a thread that can go on does. The code justifies it because `parallel_invoke` runs
one task on the caller and one on a worker and joins both, no lock is taken between the steps of a labeling,
and no step waits for another direction other than through the join (and, backward first, by running after
it). No fairness is assumed of a particular label, arc or component. `ThreadPool!FairSpec` has weak fairness of
each thread: of the threads that make calls, of each worker, and of the function of a piece that runs.
The mutex is held for one queue operation only, so that nobody is kept out of it for ever. `SolverStages!FairSpec`
has weak fairness of `Solve`: the column generation loop goes on. That is all `ReachesExact` needs besides the
caller's leaving the stages alone, which it states itself.

### Findings

Four runs end in a violation, each a disagreement between the code and what its comments or tests say. Details
with lines are under `findings` in `PROJECT.json`.

* `MCLonely` (`FindsOptimum`). A bidirectional solve can miss the path source - customer - sink: a forward label
  beyond the midpoint is not extended, and the concatenation skips arcs that start or end at source or sink, so
  nobody completes it. `BidirFindsOptimum`, checked by the other runs, is optimality up to these paths: with two arcs, and
  a label at their middle vertex that is not extended (`LonelyBeyondMid`).
* `MCLabelBased` (`FindsKept`). Label-based elimination asks for a label of each direction at an arc. Labels end at
  the midpoint, so that arcs of a path below the gap on the far side have no such pair and are removed.
* `MCTwinsCuts` (`DominanceIsSafe`). The domination cost of a rank-1 cut charges credit that only the dominated
  label has; but credit is what makes the next visit expensive, so the charge is for the wrong label.
* `MCPoolStarved` (`EveryCallReturns`). With one worker, compaction of a large component on that worker waits for
  chunks that only the same worker could run.

Further disagreements came up. No run lists them, but each can be seen by changing a configuration as said:

| What the code does | Where | To see it |
|---|---|---|
| With an empty pack, concatenation drops a forward label that is not below theta by itself, on the ground that backward costs are not negative (comment at line 3520); they are sums of reduced costs. | `bucket_graph.h:3522` | `MCEmptyPackSkip.cfg` with `MCBidir`, `BidirFindsOptimum` |
| Completion bounds of a component with a negative cycle are cut off after \|component\| + 1 rounds, before they converge; an enumeration reported complete lacks a path. | `bucket_graph.h:2419` | `MCCycle.cfg` with `MCCycle`, `EnumerationIsComplete` |
| Completion bounds do not relax jump arcs, so that an enumeration after an elimination misses a path within the gap and reports itself complete. | `bucket_graph.h:2423` | `MCEnumerateAfter.cfg` with `MCSession`, `EnumeratesKept` |
| For the same reason a second elimination removes arcs of a path within the gap. | `bucket_graph.h:2423` | `MCSession` without `whole`: `KeptPathsStayOpen` |
| `build` and `reset_elimination` leave base costs in the arcs and the flag unset. | `bucket_graph.h:161`, `519` | `MCSession` without `pass`: `CostsAreCurrent` |
| Buckets are fixed by the costs of labels that survived a heuristic solve. | `bucket_graph.h:439` | `MCSession` with the stages Heuristic1 and Heuristic2, without `fit`: `KeptPathsStayOpen` |
| A path built on a warm label lacks its beginning, since warm labels have no parent. | `bucket_graph.h:3986` | `MCSession`, calls `warm` and `options`, without `whole` and `reach`: `ResultsAreFeasiblePaths` |
| A warm label keeps its old cost and may dominate the start of the path that is optimal now. | `bucket_graph.h:3982` | `MCSession`, calls `warm` and `costs`, without `keep`: `FindsOptimalPath` |
| The difference of accumulated costs, which the labels' costs contain already, is taken off the penalty for the time by which later arcs are multiplied. | `cumulative_cost.h:66` | `MCTwinsCuts` with `CutsOnly` as `<<"cc">>`, `WMax` and `TMax` 15, base costs -2, 0, -1, 0, -3, -2, -5, -2, 2, times 4, 1, 2, 2, 0, 1, 1, 2, 4 and weights 1, 2, 2, 3, 2, 3, 3, 0, 0: `DominanceIsSafe` |
| The last task notifies through a batch that the caller, having read zero, may have destroyed. | `executor_thread.h:101` | `MCPool`: `BatchOutlivesItsTasks` |
| The solve repeated after a refinement runs on base costs. | `solver.h:79` | `MCStages`: `AnswersAreAtPassedCosts` |
| "After 3 iters" Heuristic1 is left after the fourth productive solve, or, chosen again by the caller, after the first. | `solver.h:215` | `MCStages`: `LeavesHeuristic1InTime`, `StaysInHeuristic1` |
| Adapted bucket widths are used with the completion bounds of the old buckets. | `solver.h:164` | `MCStages`: `BoundsFitTheBuckets` |

For these the passing runs say nothing. In particular no run takes the short cut of the empty pack (`MCBidir` and
`MCTwoRes` set `EmptyPack` to `FALSE`), nothing checked of the pool speaks of the time between the end of a piece and its
notification, `MCLabels` compares labels under windows and loads only (of cumulative costs it checks the joint), and
`MCSession` eliminates by labels only after a mono-directional solve (rule `reach`).

## 4. What is proved

For every value of the constants that satisfies the assumptions named:

| Theorem | States |
|---|---|
| `OptimalityProofs`: `SolveInvariant` | `[]Inductive` |
| `TypeCorrect` | `[]TypeOK` |
| `StoredLabelsAreSound` | `[]LabelsAreSound`: every stored label is a path from its origin, within the windows, priced with the reduced costs of this solve |
| `OneLabel` | `[]OneLabelPerBucket`: Heuristic1 keeps one label per bucket |
| `ComponentsStayClosed` | `[]FinishedComponentsAreClosed`: in every mode and stage, with any pack |
| `PathsStayRepresented` | `[]EveryPathRepresented`: dominance and pruning lose no feasible partial path |
| `CBestStaysBound` | `[]CBestIsLowerBound` |
| `ExactFindsOptimum` | `[]FindsOptimum` for mono-directional exact solves |
| `OnlyPathsAreReturned` | `[]ResultsAreFeasiblePaths`: in every mode and stage, with every cap |
| `LibraryPacksQualify`, `LibraryPacksAreSolved` | representation, `c_best`, optimality and feasibility for the ng-path resource and the empty pack, without hypotheses on the pack |
| `BucketGridProofs`: `ChildIsReachable` | the bucket of a child, computed from its own resources, is one that the bucket arc's edges reach |
| `CompletenessProofs`: `CompletionStaysBound` | `[]CompletionIsLowerBound`: completion bounds of both directions are lower bounds, if the rounds suffice and no path costs `Inf` |
| `ElementaryRoundsSuffice` | the rounds suffice whenever no feasible path visits a vertex twice |
| `EnumerationMissesNothing` | `[]EnumerationIsComplete`: a mono-directional enumeration that reports itself complete has returned every path below theta |
| `EveryModeFindsOptimum` | `[]BidirFindsOptimum` for exact solves in one direction, backward first and parallel: midpoint, completion bounds, post-pass and filters lose no better path than lonely ones |
| `PairsSurviveTheFilters` | `PairsBecomeCandidates`: in every stage that does not enumerate and both bidirectional modes, post-pass and filters of the concatenation lose no pair of labels that makes a path below theta |
| `LibraryPacksAreSolvedInEveryMode` | the same for the ng-path resource and for no resource, without hypotheses on the pack |
| `SessionProofs`: `KeptPathsSurvive` | `[]KeptPathsStayOpen`: however often a careful caller solves and eliminates, no arc is gone from the buckets of a path within the gaps |
| `KeptPathsStayReachable` | `[]KeptPathsStayInReach`: jump arcs make up for the arcs that are gone |
| `KeptPathsAreFound` | `[](opt.mode = "mono" => FindsKept)`: an exact mono-directional solve finds a cost as low as that of any kept path, over bucket arcs and jump arcs |
| `MonoSessionsArePriced` | `ImplementsOracle`: a mono-directional session implements `Pricing`, whatever sequence of calls a careful caller makes |
| `LibraryPacksArePriced` | both for the ng-path resource and for no resource, without hypotheses on the pack |
| `DominanceProofs`: `DominanceLosesNothing` | `[]DominanceIsSafe` for every graph and every pack whose comparison persists |
| `CutsAgree` | `[]SplitsAgree` for every graph, walks of any length and every pack that lets an arc change sides |
| `BatchLosesNothing` | `NothingIsLost` for buckets and buffers of any size, if penalties add up |
| `BatchesAreOneByOne` | `BatchIsOneByOne`, if moreover no penalty is negative |
| `PackProofs`: `StandardPersists`, `PickupPersists`, `NgPersists` | the comparisons of these resources persist |
| `NgJoins`, `LibraryPacksCut`, `LibraryPacksReplace` | joining ng-memories agrees with extending them; these resources and the empty pack let an arc change sides; joined labels may be replaced by labels that beat them |
| `ThreadPoolProofs`: `PoolTypeOK` | `[]TypeOK`; in particular no batch counter goes below zero |
| `NoTaskOutlivesItsCall` | `[]TasksEndBeforeTheirCall` |
| `NoExceptionIsLost` | `[]ExceptionsAreDelivered` |
| `PoolKeepsItsPromise` | `Spec => ImplementsForkJoin`: the refinement |
| `SolverStages`: `StagesTypeOK`, `SolveKeepsToItsStage` | `[]TypeOK`, `SolvesAsAsked` |

**A solve.** Assumed are `ProblemAssumption` (types; no arc from a vertex to itself; lower bounds not above upper),
`StepAssumption` (positive bucket widths), `PackAssumption` (the pack's functions have their types and do not
forbid the origin), `OptionAssumption`. Nothing is assumed about the signs of costs, the number of resources
beyond one or two, the pack's dominance rule, or that sets are finite. Soundness is not inductive as it stands. A
child is sound if the arc it was extended along leaves its parent's vertex and the price inlined in the bucket arc
is the reduced cost. So `Inductive` adds `GraphOK` (bucket arcs and jump arcs of a bucket leave that bucket's
vertex; costs are dirty until the solve begins and equal to `red` from then on) and `SearchOK` (a label is open only
inside an unfinished component of a direction that is searched, and what is left to do for it leaves from its
vertex). That no child overwrites the label being extended, which `TypeOK` says through `cur[d] \in labels[d]`,
needs that an arc leads to another vertex: this is where the absence of self-loops is used. `GraphOK` allows *any*
jump arcs and eliminated arcs with these properties. Resource propagation enters through `AdvanceMonotone`: a label
raised to a jump bucket has no more left than the arc alone would leave. The proof has one lemma per action and
under each one step per conjunct that the action touches.

**Nothing is lost.** `OptimalityProofs` is about what a solve *keeps*. Its first half is the order of things.
Buckets of a child are computed from the child; components and their order from bucket arcs, which start at the
corner of a bucket. `ChildIsReachable` joins the two: propagation is monotone, so that the child lands at or behind
the target of the arc and within reach of it. With `InOrder` (components are finished only after all that lead to
them; what is open or stored lies in components that have been begun) this gives `ComponentsStayClosed`.

A node *covers* another (`Covers`) when it is at the same vertex, no worse in resources and pack and no more
expensive, the penalty included: reflexive and transitive because the pack's comparison composes, and carried over
to extensions because it persists. `KeptOK` is the invariant: the origin is covered by a live label; so is whatever
an extended label leads to along an arc (`ChildrenRepresented`); live labels of finished components have been extended
(`SettledAreExtended`), here the closed components enter; no label is made twice (`MadeOnce`), or a dominated one
could come back; `c_best` of a finished bucket bounds the labels up to it (`BestIsBound`). From it representation
follows by induction along the path. When all components are finished (`Searched`) the path itself is covered at
the sink, hence collected or beaten by what is (`Delivered`). Feasibility of results goes the other way: the arcs of
a candidate are strung together (`Joined`), and the pack's `Joins` lets the forward state go on along the backward
arcs, one at a time (`Meets`), so that the walk is in `Paths` (`JoinIsPath`).

Hypotheses are `PackLawful` (operations closed, comparison persists and composes), `PackJoins` and
`PackMeansAllowed` (the pack lets a label go on if and only if the path is one that `Walks` counts). They are
proved of the ng-path resource and of no pack at all; TLC evaluates them on the instances (`PackIsLawful`).
`[]Uncapped` says that in no direction of an exact solve a component reaches the code's cap of 500000 labels, at which
the code gives up its claim; feasibility and closed components do not need it. Nothing is supposed of the signs of costs.

**Both directions.** `CompletenessProofs` follows one path below theta through a solve from both ends. `Stop(w, k)` is
where it is after k arcs; `HalfWay` what a backward label would carry that came from the sink to its i-th arc, with
resources that its beginning leaves (this is where the pack's `Cuttable` is used, as in `CutsAgree`). The labels of a
direction cover what they covered before and what these lead to (`GoesOn`, from `KeptOK`), unless they lie beyond the
midpoint or are pruned. Backward first nothing is pruned while labels are made. So backward labels cover the path from
the sink as far as the midpoint (`BackTo`): the first resource never falls along a path, hence those that follow a
stop beyond the midpoint have not stopped before it. Forward labels cover it from the source until one of them is
beyond the midpoint (`ForthTo`). There, backward first, the filter of forward labels is met, which asks the bounds of
the finished backward search whether anything can be made of them: `JoinBelow` says that it can, for no more than the
path costs. On the last inner arc before the midpoint the halves meet (`MeetAt`), and then `Pairs` holds of two
labels: they fit, their sum is no more than the path, and so is every partial sum with `MinDomCost` by which a filter
judges. A path with two arcs has no inner arc. The label that covers its middle may be another path's, and then this
path can be followed instead; otherwise the path is lonely. `AllIsOffered` sums this up, at the end of the labeling.
In parallel mode neither direction sees the other's labels, and both are pruned by the completion bounds computed
before. A label that stands for an end of the path is not: its cost and the bound on the rest are no more than the
path costs, which is below theta (`NotGivenUp`); and what takes its place is no more expensive. So both directions
cover the path up to the midpoint, whatever the threads' order (`ForwardIsKept`, `BackwardIsKept`), and the halves
meet as before. This needs the bounds to be bounds (`BoundsReach`, below) and that joining pays nothing back
(`NothingPaidBack`), since bounds count arcs only: `PruningAllowed`, asked for only where `Modes` has `"par"`. The
post-pass prunes backward labels that no forward label reaches cheaply enough, and computes bounds anew; labels that
make a pair survive both (`JoinedIsCompatible`, `BestOfKept`), pass all filters of the concatenation
(`PairsAreJoined`) and are collected, and the cheapest of what is collected is returned (`Promised`).

That last part needs nothing that only an exact solve has. `BothEnded` says all it uses: both labelings are over, and
`c_best` bounds what the buckets hold. In the heuristic stages `c_best` does not bound all paths, for labels are
overwritten and dropped for others that are worse, but it still bounds the labels that are left in finished buckets
(`EndedBounded`, an invariant in any stage; here the closed components enter again). So `PairsSurviveTheFilters` holds in any
stage that does not enumerate, and with any pack: it supposes only that `EmptyPack` is false and `MeetingCostsLeast`, that no joint
costs less than `MinDomCost`, which TLC evaluates on `MCBidir`.

Supposed are of the pack, besides `PackLawful`, that a path may be cut at every arc (`PackCuts`) and that labels which
may be joined may be replaced by labels that beat them for the penalties, and never for less than `MinDomCost`
(`PackReplaceable`); both are proved of the ng-path resource and of no resource, and the laws behind them of windows and of
pickup and delivery as well. Of the problem, that the first resource is not given back (`NothingIsGivenBack`), the source
lies before the midpoint (`SourceBeforeMid`), and no arc leads to the source or from the sink (`EndsAreEnds`): the code relies on
all three, since it only compares this resource with the midpoint and never joins labels at source or sink. TLC
evaluates them on `MCBidir` and `MCTwoRes` (`SolvedBothWays`, `PackIsLawful`). `EmptyPack` has to be false, the
short cut for empty packs being wrong (see the findings).

**Completion bounds and enumeration.** `compute_completion_bounds` relaxes a component |component| + 1 times, whatever
the costs, and takes what it then has for a bound. It is one for a path if each relaxation carries the bound back
over all arcs up to the next one that leads to a bucket with a higher number, for within one round the buckets are
taken downwards; so the number of such arcs of the path's end inside one component has to be below the number of
rounds. `RoundsSuffice` says this of the feasible paths in one direction, `CostsBelowInf` that no part of one between a stop and
its end costs as much as the code's `INF`, and `BoundsReach` both for the directions in use. The first is false on the graph of `MCCycle`, where the bounds are wrong (see the findings); it is true whenever
no feasible path visits a vertex twice (`ElementaryRoundsSuffice`), which elementary packs or acyclic windows give, and
TLC evaluates `BoundsReach` on `MCMono`, `MCTwoRes` and `MCBidir`, cycles included. The argument follows the corners of buckets
(`CornerWalk`): the best corner of a bucket that a path passes can follow the path to its end, in buckets at or before
those of the path, by arcs that `build()` inserted; the relaxation along these arcs is an induction on the rounds and,
within a round, on the order of buckets, and taking the bounds over from the buckets of the same vertex only lowers
them. The bounds are those of the current costs as long as the solve lasts (`BoundsOfCosts`).

An enumeration drops no label for another and prunes by these bounds instead; in mono mode they are computed before
the labeling. Its invariant is `EnumOK`: the origin's label is stored, nothing is dominated, what an extended label
leads to along an arc is stored exactly, with its resources, state and cost, unless parent or child is hopeless
(`ChildrenListed`), and unless a cap was hit no label waits in a finished component (`NoneWaits`). Then
a label stands for every beginning of a path below theta (`Carried`, along the path): none of them is hopeless, which is where
`CompletionIsLowerBound` enters. There is no hypothesis about caps: hitting one makes the
enumeration report itself incomplete, and the theorem is about those that do not. Of the pack it needs only that it
means `Allowed` (`PackMeansAllowed`), no law of its comparison.

**Sessions.** `SessionProofs` is about mono-directional sessions: costs and options change, the graph is built anew or
reset, solved and cut, any number of times and with any gaps. The caller is `Careful`: it eliminates right after an
exact solve that had all bucket arcs and looked as far as the gap (rules `fit`, `whole`), passes the costs again after
`build` and `reset_elimination` (`pass`), and neither fixes buckets nor saves warm labels. Without these rules the
properties are false (section 3). `Unstopped` says that no cap stops an exact solve. The invariant `LoneSession`
has five parts. `Basics`: between solves the graph is well formed and the costs are marked dirty or are the ones in the
jump arcs; from the beginning of a solve on, `Inductive` holds, whatever graph it began with. `GraphCut`: bucket arcs are some of those that `build()` made, and the jump arcs
are those that `obtain_jump_arcs` makes for exactly these; without this nothing could be said of the jump arcs that an earlier
elimination left. `WholeSolve`: a solve that had all bucket arcs is like the first solve of all, so that `InOrder`, `Kept` and
`Searched` hold of it. `BoundsKnown`: when it is done its completion bounds and `c_best` are bounds of all paths
(`BestBoundsWalks`, `BoundOfRest`), until something else is asked. `NothingClosed`: no arc of a kept path is missing where the
path passes. Elimination keeps the last part because a path is as expensive as its beginning, which `c_best` bounds,
its arc, and its end, which the completion bound at the path's own bucket bounds; the code adds the bound at the bucket where
the corner arrives, which is at or before that one and lower (`WithinGapKeeps`). What comes later, with other costs
and over jump arcs, does not touch these bounds: they are used only while the solve they come from is the last.
`WithinReach` gives the second theorem: buckets of a vertex are ordered in part, and among the finitely many with the arc
that lie between a label and the path's bucket one is nearest (`NearestExists`). TLC evaluates `PackLawful` and `BoundsReach` on
`MCSession`, which runs the same sessions, and more.

*Finding what was kept.* In what eliminations have left of the graph not every partial path is represented, only the
beginnings of kept paths are, and perhaps by a label that was raised for a jump. So `Kept`, the invariant of a solve with all bucket
arcs, is of no use; `Owed` takes its place while labels are extended, as `Upheld`. It is stated over what `labeling` is
about to try, bucket arcs and jump arcs alike: the origin is represented (`OriginRepresented`); whatever a stored label
has been extended to, along either kind of arc, is represented (`FollowersRepresented`); undominated labels of finished
components were extended (`SettledAreExtended`); and a child has a parent that made it, or whose component is
finished (`MadeBySome`). The last part is needed because two jumps of one label by the same arc may make the same child twice:
the second must not push aside the representative of the first. Each step of the labeling keeps these parts
(`UpheldOpen`, `UpheldDrop`, `UpheldExtend`, `UpheldFinish`, ...). When all components are finished a kept path is followed
arc by arc (`PathIsFollowed`): the label that stands for it so far has the next arc, or by `WithinReach` a jump no further
than to the path's own bucket, and raising it so far leaves it standing for the path (`RaisedCovers`), because a path in
a bucket has no more left than the bucket's corner. In `post`, `collect` and `done` what is owed shrinks to the labels at
the sink and then to the answer.

*The oracle.* For `MonoSessionsArePriced` three things come together when `Collect` maps to `Reply`
(`CollectAnswers`). Candidates of a mono-directional solve are labels at the sink, and these are feasible paths at their
own price. Exact answers are good enough by `Owed`. An enumeration begins with all bucket arcs (rule `whole`) and with
bounds of its own costs, whatever an earlier solve left in `completion` (`Listing`), so that `EnumOK` and
`PathIsCarried` hold of it. Every other call maps to the action of `Pricing` that its name suggests, and steps within a solve
stutter: `update_arc_costs` to `Reprice`, `set_stage` and `set_theta` to `Ask`, `build` and `reset_elimination` to
`Restore`, elimination to `GiveUp`, which needs that the inlined costs are those of the caller.

**Dominance and concatenation.** That one label may replace another is a statement about all ways on, of any length.
`Persists` is the local condition on a resource: what it allows now it allows after every common arc, and the
penalty grows by no more than the beaten label loses. `StaysAhead` is the invariant of the two labels: the winner is
no worse in resources, and ahead by at least the present penalty. `FollowStaysAhead` is the one step that matters;
the rest is types. In the same way `Cuttable` says that one arc may be moved from the backward half of a path to the
forward half without a difference to feasibility or cost, for all states in which labels arrive. The invariant
`CutAnywhere` of `Splits` says that at the arc to which the backward label has come the halves join if and only if
the forward label reached the end, for its cost; `CutMoves` is the step, `WindowsCut` its part about the windows,
where lifting to a lower bound and capping at an upper bound must not be confused. Both conditions are
proved of the resources separately, for windows of any shape, capacities of any size and any neighbourhoods. Rank-1
cuts and cumulative costs do not persist (see the findings). Whether they may be cut is left to TLC: the duals of
cuts are summed over sets, and products of time and weight may exceed `Inf`.

**Batches.** The invariant `Stored` is that a bucket stands in the order of its costs: only then do the two searches
of `try_insert_label` that break off at a cost find all there is (`TryInsertLive`), for whatever `MinPenalty` that no
penalty is below. In a batch, what a label was beaten by may itself be marked later in the same pass.
`PassLosesNothing` therefore goes along the pass: when n stored labels have been passed, every label there was is
left or beaten by one that is left, because beating is transitive where penalties add up (`PenaltiesAddUp`), and
because the stored label is compared with the batch before the batch is compared with it. `BatchesAreOneByOne` says
more, namely that no label is marked or kept that should not be: both orders of insertion are shown to leave the
labels of the batch that none in the batch or the bucket beats and what these leave of the bucket (`PassIsExact`,
`OneByOneIs`). Here a label must not beat a cheaper one, which penalties below zero would allow (`PenaltiesCost`), and
costs in the batch must differ, since of labels that beat each other the first to come stays. TLC evaluates both
hypotheses on `MCLabels` (`PenaltiesAreFair`).

**Thread pool.** `PoolAssumption`: finitely many workers, at least one index per call, pieces without indices do
nothing. Calls may be nested in any way. The counter of a batch is to be the number of its tasks not counted out
(`RemainingCounts`); for this to be inductive a task must not be in the queue twice or with two workers
(`QueuedOnce`, `WorkedOnOnce`), and the pieces of a call must be untouched while it is prepared (`Prepared`).
`Thrown` ties exceptions to pieces, `Ended` keeps what held when a call came back. For the refinement the chunks of a
call are shown to be disjoint and to cover its indices (`ChunksDisjoint`, `ChunksCover`), whatever the rounding leaves
to the last one; then `BeginOwn` and `Pop` of a piece with indices map to `Take`, `Finish` to `Complete`, `Throw` to
`Throw`, `Leave` to `Return` or `Fail`, and everything else stutters.

**Stages.** The options of the graph are those of the solver between any two operations (`BetweenCalls`), because
`enumerate` gives them back and refinement rebuilds with the widths it has just stored.

**Only model-checked.** Liveness: `Terminates`, `EveryCallReturns`, `ReachesExact` need fairness and `ENABLED`.
`SplitsAgree` is proved of every pack that may be cut; `MCLabels` checks it for all five members of a pack at once, of
which two are outside `LibraryPacksCut`. Of sessions those with fixed buckets, warm labels or bidirectional solves:
`Upheld` speaks of forward labels that reach the sink, in the order of their components. A warm label comes without
the labels it came from and may be put into a bucket behind them; in a fixed bucket no label is stored and no jump
begins; and for joined labels both directions would have to be followed over jumps up to the midpoint.

## 5. What is not modelled, and why

* Floating point, `EPS`, timing statistics, logging, the command line, file readers, benchmarks, examples, the
  GPU design document: no control that the properties above are about.
* Arena and label pool: labels are values.
* The structure-of-arrays copies and vector instructions: they skip comparisons that `dominates()` would refuse.
* `parallel_sort`, whose order of equal candidates is not modelled either.
* Stage Fixing, which nothing in the library asks for; `reset_midpoint`.
* New bucket widths in a session of solves: `SolverStages` has them without the graph, `BucketGrid` is parametric in
  the widths, and the arithmetic that chooses them is not modelled.
* Symmetric mode: planned.

## 6. Plan

1. Symmetric mode: the mirror of the forward labels in place of the backward labeling, against `BidirFindsOptimum`
   for symmetric instances.
2. Widths that change between the solves of a `Session`, with bounds of the old buckets.
3. Completeness of bidirectional enumeration with unsorted buckets; distinctness of the paths returned.
4. Tarjan's algorithm against `Sccs`.
5. Proofs: what `Upheld` says of solves over jump arcs also for fixed buckets, warm labels and both directions, by
   which `FindsKept` would follow for all sessions that `MCSession` runs.

## 7. Running it

`tlc -config MCMono.cfg MCMono` and likewise for the others: `MCTerminates`, `MCLonely` and `MCEmptyPackSkip` with
`MCBidir`; `MCPool` and `MCPoolStarved` with `MCThreadPool`; `MCTwinsCuts` with `MCLabels`; `MCLabelBased` and
`MCEnumerateAfter` with `MCSession`; `MCStages` with `SolverStages`; the rest with the module of their name. Each takes
from a few seconds to three minutes. `tlapm` on a module whose name ends in `Proofs`, or on
`SolverStages`, checks its proofs.
