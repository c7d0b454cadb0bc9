----------------------------- MODULE ThreadPool -----------------------------
(***************************************************************************)
(* detail::ThreadPool and StdThreadExecutor: callers cut their work into    *)
(* pieces, run piece 0 themselves and leave the others to the workers.      *)
(*                                                                         *)
(* A piece <<c, k>> of call c may itself make calls (the backward labeling  *)
(* that parallel_invoke runs on a worker compacts a large component with    *)
(* parallel_for), so that a thread's stack is a chain of calls and pieces.  *)
(* One step is one operation on the shared state: a critical section of     *)
(* mutex_, an atomic operation on Batch::remaining, a notification.         *)
(***************************************************************************)
EXTENDS Integers, Sequences, FiniteSets

CONSTANTS
  Worker,                    \* the pool's threads
  Call,                      \* the calls made in a run of the program
  Kind,                      \* call -> "for", "chunked" or "invoke"
  Size,                      \* call -> number of indices (2 for "invoke")
  Body,                      \* piece -> the calls it makes, in order
  MayThrow,                  \* the pieces whose function may throw
  ForMin,                    \* kParallelForMinChunk
  MaxPoolTasks               \* kMaxPoolTasks

NWorkers == Cardinality(Worker)

\* Calls that run in the calling thread alone.
Inline(c) ==
  \/ NWorkers = 0
  \/ Kind[c] = "for" /\ Size[c] < ForMin
  \/ Kind[c] # "invoke" /\ Size[c] = 1

Smaller(m, n) == IF m <= n THEN m ELSE n

NPieces(c) ==
  IF Inline(c) THEN 1
  ELSE Smaller(Smaller(NWorkers + 1, Size[c]), MaxPoolTasks + 1)
NTasks(c) == NPieces(c) - 1

Pieces(c) == {<<c, k>> : k \in 0..NTasks(c)}
Piece == UNION {Pieces(c) : c \in Call}
Own(c) == <<c, 0>>
Tasks(c) == {<<c, k>> : k \in 1..NTasks(c)}
TaskList(c) == [k \in 1..NTasks(c) |-> <<c, k>>]

\* The indices [begin, end) of a piece.  Rounding the size of a chunk up may
\* leave nothing for the last ones.
ChunkSizeRoundedDown(c) == Size[c] \div NPieces(c)     \* mutant
ChunkSize(c) == (Size[c] + NPieces(c) - 1) \div NPieces(c)
ChunkBegin(c, k) == k * ChunkSize(c)
ChunkEnd(c, k) == Smaller((k + 1) * ChunkSize(c), Size[c])
Chunk(p) == ChunkBegin(p[1], p[2])..ChunkEnd(p[1], p[2]) - 1

\* The calls a piece makes: parallel_invoke(f, g) on its own runs f, its pool
\* piece, and then g.
CallsOf(p) ==
  IF Kind[p[1]] = "invoke" /\ Inline(p[1]) THEN Body[p[1]][1] \o Body[p[1]][0]
  ELSE Body[p[1]][p[2]]

Calls(p) == {CallsOf(p)[i] : i \in DOMAIN CallsOf(p)}

ASSUME PoolAssumption ==
  /\ IsFiniteSet(Worker)
  /\ \A c \in Call : /\ Kind[c] \in {"for", "chunked", "invoke"}
                     /\ Size[c] \in Nat \ {0}
                     /\ Kind[c] = "invoke" => Size[c] = 2
  /\ \A p \in Piece : CallsOf(p) \in Seq(Call)
  \* a function without work has nothing to call or to throw
  /\ \A p \in Piece : Chunk(p) = {} => p \notin MayThrow /\ CallsOf(p) = <<>>
  /\ ForMin \in Nat /\ MaxPoolTasks \in Nat \ {0}

VARIABLES
  pc,         \* call -> where its thread is in it
  remaining,  \* call -> Batch::remaining
  exception,  \* call -> Batch::exception: the piece that threw, NoPiece if none
  toNotify,   \* call -> notify_one calls left to make
  seen,       \* call -> the value of remaining it is about to block on
  outcome,    \* call -> the piece whose exception it threw, NoPiece if none
  piece,      \* piece -> "new", "queued", "running", "over" or "counted"
  threw,      \* the pieces that ended by an exception
  queue,      \* ThreadPool::queue_
  worker      \* worker -> where it is in worker_loop, and with which task

calls == <<pc, remaining, exception, toNotify, seen, outcome>>
vars  == <<calls, piece, threw, queue, worker>>

NoPiece == <<>>

Init ==
  /\ pc = [c \in Call |-> "idle"]
  /\ remaining = [c \in Call |-> 0]
  /\ exception = [c \in Call |-> NoPiece]
  /\ toNotify = remaining /\ seen = remaining
  /\ outcome = exception
  /\ piece = [p \in Piece |-> "new"]
  /\ threw = {}
  /\ queue = <<>>
  /\ worker = [w \in Worker |-> [at |-> "awake", task |-> NoPiece]]

-----------------------------------------------------------------------------
\* The thread that makes call c.

Returned(c) == pc[c] = "done" /\ outcome[c] = NoPiece

\* A call of the program's own threads may come at any time, one that a piece
\* makes when the piece has got there.
Due(c) ==
  \A p \in Piece : \A i \in DOMAIN CallsOf(p) :
    CallsOf(p)[i] = c => /\ piece[p] = "running"
                         /\ \A j \in 1..i - 1 : Returned(CallsOf(p)[j])

\* submit counts the tasks in before a worker can see them.
Submit(c) ==
  /\ pc[c] = "idle" /\ Due(c)
  /\ pc' = [pc EXCEPT ![c] = IF NTasks(c) = 0 THEN "begin" ELSE "push"]
  /\ remaining' = [remaining EXCEPT ![c] = NTasks(c)]
  /\ UNCHANGED <<exception, toNotify, seen, outcome, piece, threw, queue, worker>>

Push(c) ==
  /\ pc[c] = "push"
  /\ queue' = queue \o TaskList(c)
  /\ piece' = [p \in Piece |-> IF p \in Tasks(c) THEN "queued" ELSE piece[p]]
  /\ toNotify' = [toNotify EXCEPT ![c] = NTasks(c)]
  /\ pc' = [pc EXCEPT ![c] = "notify"]
  /\ UNCHANGED <<remaining, exception, seen, outcome, threw, worker>>

Asleep == {w \in Worker : worker[w].at = "asleep"}
Wakened(ws) == [w \in Worker |-> IF w \in ws THEN [worker[w] EXCEPT !.at = "awake"]
                                 ELSE worker[w]]

NotifyAll(c) ==
  /\ pc[c] = "notify" /\ NTasks(c) >= NWorkers
  /\ worker' = Wakened(Asleep)
  /\ pc' = [pc EXCEPT ![c] = "begin"]
  /\ toNotify' = [toNotify EXCEPT ![c] = 0]
  /\ UNCHANGED <<remaining, exception, seen, outcome, piece, threw, queue>>

NotifyOne(c) ==
  /\ pc[c] = "notify" /\ NTasks(c) < NWorkers
  /\ \/ Asleep = {} /\ UNCHANGED worker
     \/ \E w \in Asleep : worker' = Wakened({w})
  /\ toNotify' = [toNotify EXCEPT ![c] = @ - 1]
  /\ pc' = [pc EXCEPT ![c] = IF toNotify[c] = 1 THEN "begin" ELSE @]
  /\ UNCHANGED <<remaining, exception, seen, outcome, piece, threw, queue>>

BeginOwn(c) ==
  /\ pc[c] = "begin"
  /\ pc' = [pc EXCEPT ![c] = "own"]
  /\ piece' = [piece EXCEPT ![Own(c)] = "running"]
  /\ UNCHANGED <<remaining, exception, toNotify, seen, outcome, threw, queue, worker>>

\* wait(): the counter is read; as long as it is not zero the thread blocks
\* until it changes.
Waiting(c) == pc[c] \in {"own", "wait"} /\ piece[Own(c)] = "over"

LoadPending(c) ==
  /\ Waiting(c) /\ remaining[c] # 0
  /\ seen' = [seen EXCEPT ![c] = remaining[c]]
  /\ pc' = [pc EXCEPT ![c] = "block"]
  /\ UNCHANGED <<remaining, exception, toNotify, outcome, piece, threw, queue, worker>>

Block(c) ==
  /\ pc[c] = "block"
  /\ pc' = [pc EXCEPT ![c] = IF remaining[c] = seen[c] THEN "blocked" ELSE "wait"]
  /\ seen' = [seen EXCEPT ![c] = 0]
  /\ UNCHANGED <<remaining, exception, toNotify, outcome, piece, threw, queue, worker>>

\* Mutant: an exception of the caller's own piece ends the call at once.
LeaveEarly(c) ==
  /\ Waiting(c) /\ (remaining[c] = 0 \/ Own(c) \in threw)
  /\ pc' = [pc EXCEPT ![c] = "done"]
  /\ outcome' = [outcome EXCEPT ![c] = IF exception[c] # NoPiece THEN exception[c]
                                       ELSE IF Own(c) \in threw THEN Own(c)
                                       ELSE NoPiece]
  /\ UNCHANGED <<remaining, exception, toNotify, seen, piece, threw, queue, worker>>

\* wait() rethrows what the pool's tasks threw, also when the caller's own piece
\* threw: that exception is lost then.  The batch is destroyed.
Leave(c) ==
  /\ Waiting(c) /\ remaining[c] = 0
  /\ pc' = [pc EXCEPT ![c] = "done"]
  /\ outcome' = [outcome EXCEPT ![c] = IF exception[c] # NoPiece THEN exception[c]
                                       ELSE IF Own(c) \in threw THEN Own(c)
                                       ELSE NoPiece]
  /\ UNCHANGED <<remaining, exception, toNotify, seen, piece, threw, queue, worker>>

-----------------------------------------------------------------------------
\* The function of a piece, on whichever thread: it ends when its calls have
\* returned, by an exception if it throws one or if a call of its own did.

Finish(p) ==
  /\ piece[p] = "running" /\ \A c \in Calls(p) : Returned(c)
  /\ piece' = [piece EXCEPT ![p] = "over"]
  /\ UNCHANGED <<calls, threw, queue, worker>>

Throw(p) ==
  /\ piece[p] = "running"
  /\ \/ p \in MayThrow /\ \A c \in Calls(p) : Returned(c)
     \/ \E c \in Calls(p) : pc[c] = "done" /\ ~Returned(c)
  /\ piece' = [piece EXCEPT ![p] = "over"]
  /\ threw' = threw \cup {p}
  /\ UNCHANGED <<calls, queue, worker>>

-----------------------------------------------------------------------------
\* worker_loop

Pop(w) ==
  /\ worker[w].at = "awake" /\ queue # <<>>
  /\ queue' = Tail(queue)
  /\ worker' = [worker EXCEPT ![w] = [at |-> "run", task |-> Head(queue)]]
  /\ piece' = [piece EXCEPT ![Head(queue)] = "running"]
  /\ UNCHANGED <<calls, threw>>

Sleep(w) ==
  /\ worker[w].at = "awake" /\ queue = <<>>
  /\ worker' = [worker EXCEPT ![w].at = "asleep"]
  /\ UNCHANGED <<calls, piece, threw, queue>>

\* A condition variable may wake a thread without being notified.
WakeUnasked(w) ==
  /\ w \in Asleep
  /\ worker' = Wakened({w})
  /\ UNCHANGED <<calls, piece, threw, queue>>

\* Mutant: a task that threw is counted out here and again below.
CatchAndCountOut(w) ==
  LET p == worker[w].task
  IN /\ worker[w].at = "run" /\ piece[p] = "over" /\ p \in threw
     /\ exception' = [exception EXCEPT ![p[1]] = IF @ = NoPiece THEN p ELSE @]
     /\ remaining' = [remaining EXCEPT ![p[1]] = @ - 1]
     /\ worker' = [worker EXCEPT ![w].at = "caught"]
     /\ UNCHANGED <<pc, toNotify, seen, outcome, piece, threw, queue>>

\* The first exception of a batch is kept.
Catch(w) ==
  LET p == worker[w].task
  IN /\ worker[w].at = "run" /\ piece[p] = "over" /\ p \in threw
     /\ exception' = [exception EXCEPT ![p[1]] = IF @ = NoPiece THEN p ELSE @]
     /\ worker' = [worker EXCEPT ![w].at = "caught"]
     /\ UNCHANGED <<pc, remaining, toNotify, seen, outcome, piece, threw, queue>>

\* Mutant: counted out before the exception is stored.
CountOutFirst(w) ==
  LET p == worker[w].task
  IN /\ worker[w].at \in {"run", "caught"} /\ piece[p] = "over"
     /\ remaining' = [remaining EXCEPT ![p[1]] = @ - 1]
     /\ piece' = [piece EXCEPT ![p] = "counted"]
     /\ worker' = [worker EXCEPT ![w] =
                     IF remaining[p[1]] = 1 THEN [at |-> "notify", task |-> p]
                     ELSE [at |-> "awake", task |-> NoPiece]]
     /\ UNCHANGED <<pc, exception, toNotify, seen, outcome, threw, queue>>

CountOut(w) ==
  LET p == worker[w].task
  IN /\ \/ worker[w].at = "run" /\ piece[p] = "over" /\ p \notin threw
        \/ worker[w].at = "caught"
     /\ remaining' = [remaining EXCEPT ![p[1]] = @ - 1]
     /\ piece' = [piece EXCEPT ![p] = "counted"]
     /\ worker' = [worker EXCEPT ![w] =
                     IF remaining[p[1]] = 1 THEN [at |-> "notify", task |-> p]
                     ELSE [at |-> "awake", task |-> NoPiece]]
     /\ UNCHANGED <<pc, exception, toNotify, seen, outcome, threw, queue>>

\* Mutant: the last task does not notify.
NotifyNobody(w) ==
  /\ worker[w].at = "notify"
  /\ worker' = [worker EXCEPT ![w] = [at |-> "awake", task |-> NoPiece]]
  /\ UNCHANGED <<calls, piece, threw, queue>>

NotifyWaiter(w) ==
  LET c == worker[w].task[1]
  IN /\ worker[w].at = "notify"
     /\ pc' = [pc EXCEPT ![c] = IF @ = "blocked" THEN "wait" ELSE @]
     /\ worker' = [worker EXCEPT ![w] = [at |-> "awake", task |-> NoPiece]]
     /\ UNCHANGED <<remaining, exception, toNotify, seen, outcome, piece, threw, queue>>

-----------------------------------------------------------------------------
CallStep(c) ==
  \/ Submit(c) \/ Push(c) \/ NotifyAll(c) \/ NotifyOne(c) \/ BeginOwn(c)
  \/ LoadPending(c) \/ Block(c) \/ Leave(c)

PieceStep(p) == Finish(p) \/ Throw(p)

WorkerStep(w) == Pop(w) \/ Sleep(w) \/ Catch(w) \/ CountOut(w) \/ NotifyWaiter(w)

Finished == (\A c \in Call : pc[c] = "done") /\ UNCHANGED vars

Next ==
  \/ \E c \in Call : CallStep(c)
  \/ \E p \in Piece : PieceStep(p)
  \/ \E w \in Worker : WorkerStep(w) \/ WakeUnasked(w)
  \/ Finished

Spec == Init /\ [][Next]_vars

\* Threads that can go on do, and the functions come to an end.
FairSpec ==
  /\ Spec
  /\ \A c \in Call : WF_vars(CallStep(c))
  /\ \A p \in Piece : WF_vars(PieceStep(p))
  /\ \A w \in Worker : WF_vars(WorkerStep(w))
-----------------------------------------------------------------------------
WorkerState == [at : {"awake", "asleep", "run", "caught", "notify"},
                task : Piece \cup {NoPiece}]

TypeOK ==
  /\ pc \in [Call -> {"idle", "push", "notify", "begin", "own", "wait", "block",
                      "blocked", "done"}]
  /\ remaining \in [Call -> Nat] /\ toNotify \in [Call -> Nat] /\ seen \in [Call -> Nat]
  /\ exception \in [Call -> Piece \cup {NoPiece}]
  /\ outcome \in [Call -> Piece \cup {NoPiece}]
  /\ piece \in [Piece -> {"new", "queued", "running", "over", "counted"}]
  /\ threw \subseteq Piece
  /\ queue \in Seq(Piece)
  /\ worker \in [Worker -> WorkerState]

\* While a batch has tasks that are queued or running, its caller does not come
\* back, not even by an exception: the tasks use the batch, the task array and
\* the function, which live on the caller's stack.  The doc of submit says so.
TasksEndBeforeTheirCall ==
  \A c \in Call : pc[c] = "done" =>
    /\ \A p \in Tasks(c) : piece[p] = "counted"
    /\ \A i \in DOMAIN queue : queue[i][1] # c

\* A call throws if and only if one of its pieces threw, and what it throws is
\* an exception of its own.
ExceptionsAreDelivered ==
  \A c \in Call : pc[c] = "done" =>
    IF Returned(c) THEN Pieces(c) \cap threw = {}
    ELSE outcome[c] \in Pieces(c) \cap threw

\* "The Batch must outlive all submitted tasks (caller owns it)": no worker is
\* still about to use the batch of a call that has come back.
BatchOutlivesItsTasks ==
  \A w \in Worker : worker[w].task # NoPiece => pc[worker[w].task[1]] # "done"

\* Every call comes back, whatever throws: no wake-up of a worker or of a waiting
\* caller is lost, and no thread waits for a worker that is waiting itself.
EveryCallReturns == \A c \in Call : pc[c] # "idle" ~> pc[c] = "done"

\* The pool keeps the promise of an executor.  What the promise knows of it:
ItemsIn(ps) == UNION {Chunk(p) : p \in ps}
Taken(c) == {p \in Pieces(c) : piece[p] \notin {"new", "queued"}}
Running(c) == {p \in Pieces(c) : piece[p] = "running"}
Failed(c) == Pieces(c) \cap threw

CallItems == [c \in Call |-> 0..Size[c] - 1]
CallState == [c \in Call |-> IF pc[c] = "idle" THEN "idle"
                            ELSE IF pc[c] # "done" THEN "open"
                            ELSE IF Returned(c) THEN "returned" ELSE "threw"]
TakenItems == [c \in Call |-> ItemsIn(Taken(c))]
ActiveItems == [c \in Call |-> ItemsIn(Running(c))]
FailedItems == [c \in Call |-> ItemsIn(Failed(c))]

Promise == INSTANCE ForkJoin WITH
  Items <- CallItems, state <- CallState,
  taken <- TakenItems, active <- ActiveItems, failed <- FailedItems

\* Every index is worked on exactly once, by nobody after the call has come
\* back, which it does normally only if everything went well.
ImplementsForkJoin == Promise!Spec
=============================================================================
