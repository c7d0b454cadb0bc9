-------------------------- MODULE ThreadPoolProofs --------------------------
(***************************************************************************)
(* The thread pool for any number of workers and calls, nested in any way:  *)
(* a call comes back only when all its tasks are counted out, and it throws  *)
(* if and only if a piece of it threw.                                     *)
(*                                                                         *)
(* The argument is that Batch::remaining counts the tasks of the call that   *)
(* are not counted out yet.  It needs that no task is in the queue twice or  *)
(* with two workers, or a task could be counted out twice.                 *)
(***************************************************************************)
EXTENDS ThreadPool, FiniteSetTheorems, TLAPS

PoolTask == UNION {Tasks(c) : c \in Call}

\* The tasks of a call that are not counted out.
Left(c) == {p \in Tasks(c) : piece[p] # "counted"}

\* Where the pieces of a call are while its thread prepares it.
Prepared ==
  \A c \in Call :
    /\ pc[c] \in {"idle", "push"} => \A p \in Tasks(c) : piece[p] = "new"
    /\ pc[c] \in {"idle", "push", "notify", "begin"} => piece[Own(c)] = "new"
    /\ pc[c] = "push" => NTasks(c) # 0
    /\ pc[c] = "notify" => toNotify[c] # 0

RemainingCounts == \A c \in Call : pc[c] # "idle" => remaining[c] = Cardinality(Left(c))

QueuedOnce ==
  /\ \A i \in DOMAIN queue : queue[i] \in PoolTask /\ piece[queue[i]] = "queued"
  /\ \A i, j \in DOMAIN queue : queue[i] = queue[j] => i = j

Holds(w) == worker[w].at \in {"run", "caught"}

WorkedOnOnce ==
  /\ \A w \in Worker :
       /\ worker[w].at \in {"run", "caught", "notify"} => worker[w].task \in PoolTask
       /\ Holds(w) => piece[worker[w].task] \in {"running", "over"}
       /\ worker[w].at = "caught" => /\ piece[worker[w].task] = "over"
                                     /\ exception[worker[w].task[1]] # NoPiece
  /\ \A v, w \in Worker :
       Holds(v) /\ Holds(w) /\ worker[v].task = worker[w].task => v = w

\* Only what has run can have thrown, and the batch knows of what has been
\* counted out.
Thrown ==
  /\ \A p \in threw : piece[p] \in {"over", "counted"}
  /\ \A c \in Call :
       /\ exception[c] # NoPiece => exception[c] \in Tasks(c) \cap threw
       /\ \A p \in Tasks(c) \cap threw : piece[p] = "counted" => exception[c] # NoPiece

\* What a call that has come back leaves behind.
Ended ==
  \A c \in Call : pc[c] = "done" =>
    /\ Left(c) = {} /\ piece[Own(c)] = "over"
    /\ outcome[c] = IF exception[c] # NoPiece THEN exception[c]
                    ELSE IF Own(c) \in threw THEN Own(c) ELSE NoPiece

PoolInv ==
  /\ TypeOK /\ Prepared /\ RemainingCounts /\ QueuedOnce /\ WorkedOnOnce
  /\ Thrown /\ Ended
-----------------------------------------------------------------------------
\* A call has at least the piece of the caller, and counts its tasks from 1.
LEMMA TaskCount ==
  ASSUME NEW c \in Call
  PROVE  NPieces(c) \in Nat \ {0} /\ NTasks(c) \in Nat
<1>1. NWorkers \in Nat
  BY PoolAssumption, FS_CardinalityType DEF NWorkers
<1>2. Size[c] \in Nat \ {0} /\ MaxPoolTasks \in Nat \ {0}
  BY PoolAssumption
<1>3. NPieces(c) \in Nat \ {0}
  <2>1. CASE Inline(c)
    BY <2>1 DEF NPieces
  <2>2. CASE ~ Inline(c)
    BY <1>1, <1>2, <2>2 DEF NPieces, Smaller
  <2> QED BY <2>1, <2>2
<1> QED BY <1>3 DEF NTasks

\* Tasks are pieces, of one call each, and never the caller's own.
LEMMA TaskIsPiece ==
  /\ \A c \in Call : Own(c) \in Pieces(c) /\ Own(c) \notin PoolTask
  /\ \A c \in Call : Tasks(c) \subseteq Pieces(c) /\ Pieces(c) \subseteq Piece
  /\ \A c \in Call : \A p \in Pieces(c) : p[1] = c
  /\ \A p \in PoolTask : p[1] \in Call /\ p \in Tasks(p[1]) /\ p \in Piece
  /\ \A p \in Piece : p[1] \in Call /\ p \in Pieces(p[1]) /\ p # NoPiece
<1>1. \A c \in Call : NTasks(c) \in Nat
  BY TaskCount
<1>2. \A c \in Call : Own(c) \in Pieces(c)
  BY <1>1 DEF Own, Pieces
<1>3. \A c \in Call : Tasks(c) \subseteq Pieces(c) /\ Pieces(c) \subseteq Piece
  BY <1>1 DEF Tasks, Pieces, Piece
<1>4. \A c \in Call : \A p \in Pieces(c) : p[1] = c
  BY DEF Pieces
<1>5. \A c \in Call : Own(c) \notin PoolTask
  BY <1>1 DEF Own, PoolTask, Tasks
<1>6. \A p \in Piece : p[1] \in Call /\ p \in Pieces(p[1])
  BY <1>4 DEF Piece
<1>7. \A p \in Piece : p # NoPiece
  <2>1. \A c \in Call, k \in Nat : Len(<<c, k>>) = 2
    OBVIOUS
  <2>2. Len(NoPiece) = 0
    BY DEF NoPiece
  <2>3. \A p \in Piece : \E c \in Call, k \in Nat : p = <<c, k>>
    BY <1>1 DEF Piece, Pieces
  <2>4. SUFFICES ASSUME NEW p \in Piece, p = NoPiece
                 PROVE  FALSE
    OBVIOUS
  <2>5. PICK c \in Call, k \in Nat : p = <<c, k>>
    BY <2>3
  <2>6. Len(p) = 2
    BY <2>1, <2>5
  <2> QED BY <2>2, <2>4, <2>6
<1>8. \A p \in PoolTask : p[1] \in Call /\ p \in Tasks(p[1]) /\ p \in Piece
  BY <1>3, <1>4 DEF PoolTask
<1> QED BY <1>2, <1>3, <1>4, <1>5, <1>6, <1>7, <1>8

\* There are as many tasks as were counted in.
LEMMA TasksCounted ==
  ASSUME NEW c \in Call
  PROVE  IsFiniteSet(Tasks(c)) /\ Cardinality(Tasks(c)) = NTasks(c)
<1>1. NTasks(c) \in Nat
  BY TaskCount
<1>2. IsFiniteSet(1..NTasks(c)) /\ Cardinality(1..NTasks(c)) = NTasks(c)
  BY <1>1, FS_Interval
<1> DEFINE f == [k \in 1..NTasks(c) |-> <<c, k>>]
<1>3. f \in Bijection(1..NTasks(c), Tasks(c))
  BY DEF Bijection, Injection, Surjection, IsInjective, Tasks
<1>4. ExistsBijection(1..NTasks(c), Tasks(c))
  BY <1>3 DEF ExistsBijection
<1> QED BY <1>2, <1>4, FS_Bijection

\* What is left of the tasks is finite, and none is left when the count is zero.
LEMMA LeftCounted ==
  ASSUME NEW c \in Call
  PROVE  /\ IsFiniteSet(Left(c)) /\ Cardinality(Left(c)) \in Nat
         /\ Cardinality(Left(c)) = 0 <=> Left(c) = {}
<1>1. Left(c) \subseteq Tasks(c)
  BY DEF Left
<1>2. IsFiniteSet(Left(c))
  BY <1>1, TasksCounted, FS_Subset
<1> QED BY <1>2, FS_CardinalityType, FS_EmptySet

\* Waking workers up changes only those asleep.
LEMMA WakenedType ==
  ASSUME worker \in [Worker -> WorkerState], NEW ws \in SUBSET Asleep
  PROVE  /\ Wakened(ws) \in [Worker -> WorkerState]
         /\ \A v \in Worker : /\ Wakened(ws)[v].task = worker[v].task
                              /\ \/ Wakened(ws)[v].at = worker[v].at
                                 \/ Wakened(ws)[v].at = "awake"
<1>1. ASSUME NEW v \in Worker
      PROVE  /\ Wakened(ws)[v] \in WorkerState
             /\ Wakened(ws)[v].task = worker[v].task
             /\ Wakened(ws)[v].at \in {worker[v].at, "awake"}
  BY <1>1 DEF Wakened, WorkerState
<1> QED BY <1>1 DEF Wakened

\* The tasks of a call as they are put into the queue.
LEMMA TaskListType ==
  ASSUME NEW c \in Call
  PROVE  /\ TaskList(c) \in Seq(Piece) /\ Len(TaskList(c)) = NTasks(c)
         /\ \A k \in 1..NTasks(c) : TaskList(c)[k] = <<c, k>> /\ <<c, k>> \in Tasks(c)
<1>1. NTasks(c) \in Nat
  BY TaskCount
<1>2. \A k \in 1..NTasks(c) : <<c, k>> \in Tasks(c) /\ <<c, k>> \in Piece
  BY TaskIsPiece DEF Tasks
<1> QED BY <1>1, <1>2 DEF TaskList

-----------------------------------------------------------------------------
LEMMA InitPool ==
  Init => PoolInv
<1> SUFFICES ASSUME Init PROVE PoolInv
  OBVIOUS
<1>1. TypeOK
  BY TaskIsPiece DEF Init, TypeOK, WorkerState, NoPiece
<1>2. Prepared /\ RemainingCounts /\ Ended
  BY TaskIsPiece DEF Init, Prepared, RemainingCounts, Ended
<1>3. QueuedOnce /\ WorkedOnOnce /\ Thrown
  BY DEF Init, QueuedOnce, WorkedOnOnce, Holds, Thrown
<1> QED BY <1>1, <1>2, <1>3 DEF PoolInv

LEMMA SubmitKeeps ==
  ASSUME PoolInv, NEW c \in Call, Submit(c)
  PROVE  PoolInv'
<1> USE DEF PoolInv
<1>1. TypeOK'
  BY TaskIsPiece, TaskCount DEF Submit, TypeOK
<1>2. Prepared'
  BY TaskIsPiece DEF Submit, TypeOK, Prepared, WorkedOnOnce, QueuedOnce
<1>3. RemainingCounts'
  <2>1. \A d \in Call : Left(d)' = Left(d)
    BY DEF Submit, Left
  <2>2. Left(c)' = Tasks(c)
    BY <2>1, TaskIsPiece DEF Submit, Prepared, Left
  <2> QED BY <2>1, <2>2, TasksCounted DEF Submit, TypeOK, RemainingCounts
<1>4. QueuedOnce'
  BY TaskIsPiece DEF Submit, TypeOK, QueuedOnce
<1>5. WorkedOnOnce'
  BY TaskIsPiece DEF Submit, TypeOK, WorkedOnOnce, Holds
<1>6. Thrown'
  BY TaskIsPiece DEF Submit, TypeOK, Thrown
<1>7. Ended'
  BY TaskIsPiece DEF Submit, TypeOK, Ended, Left
<1> QED BY <1>1, <1>2, <1>3, <1>4, <1>5, <1>6, <1>7

LEMMA PushKeeps ==
  ASSUME PoolInv, NEW c \in Call, Push(c)
  PROVE  PoolInv'
<1> USE DEF PoolInv
<1>a. /\ \A p \in Tasks(c) : piece[p] = "new" /\ p \in PoolTask /\ p \in Piece
      /\ NTasks(c) \in Nat \ {0}
  BY TaskIsPiece, TaskCount DEF Push, Prepared, PoolTask
<1>b. /\ piece' = [p \in Piece |-> IF p \in Tasks(c) THEN "queued" ELSE piece[p]]
      /\ queue' = queue \o TaskList(c)
      /\ UNCHANGED <<remaining, exception, seen, outcome, threw, worker>>
      /\ pc[c] = "push" /\ pc' = [pc EXCEPT ![c] = "notify"]
      /\ toNotify' = [toNotify EXCEPT ![c] = NTasks(c)]
  BY DEF Push
<1>c. \A p \in Piece : p \notin Tasks(c) => piece'[p] = piece[p]
  BY <1>b
<1>d. \A d \in Call : Own(d) \in Piece /\ piece'[Own(d)] = piece[Own(d)]
  BY <1>c, TaskIsPiece DEF PoolTask
<1>e. \A d \in Call : Left(d)' = Left(d)
  BY <1>a, <1>b, TaskIsPiece DEF Left
<1>f. \A d \in Call : d # c => \A p \in Tasks(d) : p \in Piece /\ piece'[p] = piece[p]
  BY <1>c, TaskIsPiece
<1>1. TypeOK'
  <2>1. queue' \in Seq(Piece)
    BY <1>b, TaskListType DEF TypeOK
  <2>2. piece' \in [Piece -> {"new", "queued", "running", "over", "counted"}]
    BY <1>b DEF TypeOK
  <2> QED BY <1>a, <1>b, <2>1, <2>2 DEF TypeOK
<1>2. Prepared'
  BY <1>a, <1>b, <1>d, <1>f DEF TypeOK, Prepared
<1>3. RemainingCounts'
  BY <1>b, <1>e DEF TypeOK, RemainingCounts
<1>4. QueuedOnce'
  <2> DEFINE m == Len(queue)
  <2>1. /\ m \in Nat /\ DOMAIN queue = 1..m /\ DOMAIN queue' = 1..m + NTasks(c)
        /\ \A i \in 1..m : queue'[i] = queue[i]
        /\ \A i \in m + 1..m + NTasks(c) : queue'[i] = TaskList(c)[i - m]
    BY <1>a, <1>b, TaskListType DEF TypeOK
  <2> HIDE DEF m
  <2>2. \A i \in m + 1..m + NTasks(c) : queue'[i] = <<c, i - m>> /\ queue'[i] \in Tasks(c)
    <3> SUFFICES ASSUME NEW i \in m + 1..m + NTasks(c)
                 PROVE  queue'[i] = <<c, i - m>> /\ queue'[i] \in Tasks(c)
      OBVIOUS
    <3>1. i - m \in 1..NTasks(c)
      BY <1>a, <2>1
    <3> QED BY <2>1, <3>1, TaskListType
  <2>3. \A i \in 1..m : queue'[i] \in PoolTask /\ queue'[i] \in Piece
                         /\ queue'[i] \notin Tasks(c) /\ piece'[queue'[i]] = "queued"
    BY <1>a, <1>c, <2>1, TaskIsPiece DEF QueuedOnce
  <2>4. \A i \in DOMAIN queue' : queue'[i] \in PoolTask /\ piece'[queue'[i]] = "queued"
    BY <1>a, <1>b, <2>1, <2>2, <2>3
  <2>5. \A i, j \in DOMAIN queue' : queue'[i] = queue'[j] => i = j
    <3> SUFFICES ASSUME NEW i \in DOMAIN queue', NEW j \in DOMAIN queue', queue'[i] = queue'[j]
                 PROVE  i = j
      OBVIOUS
    <3>1. CASE i <= m /\ j <= m
      BY <2>1, <3>1 DEF QueuedOnce
    <3>2. CASE i > m /\ j > m
      BY <1>a, <2>1, <2>2, <3>2
    <3>3. CASE (i <= m) # (j <= m)
      BY <1>a, <2>1, <2>2, <2>3, <3>3
    <3> QED BY <1>a, <2>1, <3>1, <3>2, <3>3
  <2> QED BY <2>4, <2>5 DEF QueuedOnce
<1>5. WorkedOnOnce'
  <2>1. \A v \in Worker : Holds(v) => worker[v].task \notin Tasks(c)
    BY <1>a DEF WorkedOnOnce
  <2> QED BY <1>b, <1>c, <2>1, TaskIsPiece DEF WorkedOnOnce, Holds
<1>6. Thrown'
  <2>1. \A p \in threw : p \in Piece /\ p \notin Tasks(c)
    BY <1>a DEF TypeOK, Thrown
  <2> QED BY <1>b, <1>c, <2>1 DEF Thrown
<1>7. Ended'
  BY <1>b, <1>d, <1>e DEF TypeOK, Ended
<1> QED BY <1>1, <1>2, <1>3, <1>4, <1>5, <1>6, <1>7

LEMMA NotifyAllKeeps ==
  ASSUME PoolInv, NEW c \in Call, NotifyAll(c)
  PROVE  PoolInv'
<1> USE DEF PoolInv
<1>1. TypeOK'
  <2>1. worker' \in [Worker -> WorkerState]
    BY WakenedType DEF NotifyAll, TypeOK
  <2> QED BY <2>1 DEF NotifyAll, TypeOK
<1>2. Prepared'
  BY TaskIsPiece DEF NotifyAll, TypeOK, Prepared, WorkedOnOnce, QueuedOnce
<1>3. RemainingCounts'
  <2>1. \A d \in Call : Left(d)' = Left(d)
    BY DEF NotifyAll, Left
  <2> QED BY <2>1 DEF NotifyAll, TypeOK, RemainingCounts
<1>4. QueuedOnce'
  BY TaskIsPiece DEF NotifyAll, TypeOK, QueuedOnce
<1>5. WorkedOnOnce'
  BY WakenedType DEF NotifyAll, TypeOK, WorkedOnOnce, Holds
<1>6. Thrown'
  BY TaskIsPiece DEF NotifyAll, TypeOK, Thrown
<1>7. Ended'
  BY TaskIsPiece DEF NotifyAll, TypeOK, Ended, Left
<1> QED BY <1>1, <1>2, <1>3, <1>4, <1>5, <1>6, <1>7

LEMMA NotifyOneKeeps ==
  ASSUME PoolInv, NEW c \in Call, NotifyOne(c)
  PROVE  PoolInv'
<1> USE DEF PoolInv
<1>a. /\ worker' \in [Worker -> WorkerState]
      /\ \A v \in Worker : /\ worker'[v].task = worker[v].task
                           /\ (worker'[v].at = worker[v].at \/ worker'[v].at = "awake")
  <2>1. CASE UNCHANGED worker
    BY <2>1 DEF TypeOK
  <2>2. ASSUME NEW w \in Asleep, worker' = Wakened({w})
        PROVE  /\ worker' \in [Worker -> WorkerState]
               /\ \A v \in Worker : /\ worker'[v].task = worker[v].task
                                    /\ (worker'[v].at = worker[v].at \/ worker'[v].at = "awake")
    BY <2>2, WakenedType DEF TypeOK
  <2> QED BY <2>1, <2>2 DEF NotifyOne
<1>1. TypeOK'
  <2>1. toNotify' \in [Call -> Nat]
    BY DEF NotifyOne, TypeOK, Prepared
  <2> QED BY <1>a, <2>1 DEF NotifyOne, TypeOK
<1>2. Prepared'
  BY DEF NotifyOne, TypeOK, Prepared
<1>3. RemainingCounts'
  BY TaskIsPiece DEF NotifyOne, TypeOK, RemainingCounts, Left
<1>4. QueuedOnce'
  BY TaskIsPiece DEF NotifyOne, TypeOK, QueuedOnce
<1>5. WorkedOnOnce'
  BY <1>a DEF NotifyOne, TypeOK, WorkedOnOnce, Holds
<1>6. Thrown'
  BY TaskIsPiece DEF NotifyOne, TypeOK, Thrown
<1>7. Ended'
  BY TaskIsPiece DEF NotifyOne, TypeOK, Ended, Left
<1> QED BY <1>1, <1>2, <1>3, <1>4, <1>5, <1>6, <1>7

LEMMA BeginOwnKeeps ==
  ASSUME PoolInv, NEW c \in Call, BeginOwn(c)
  PROVE  PoolInv'
<1> USE DEF PoolInv
<1>1. TypeOK'
  BY TaskIsPiece, TaskCount DEF BeginOwn, TypeOK
<1>2. Prepared'
  <2>1. \A d \in Call : \A p \in Tasks(d) : p # Own(c) /\ p \in Piece
    BY TaskIsPiece DEF PoolTask
  <2>2. \A d \in Call : d # c => Own(d) # Own(c) /\ Own(d) \in Piece
    BY TaskIsPiece
  <2> QED BY <2>1, <2>2 DEF BeginOwn, TypeOK, Prepared
<1>3. RemainingCounts'
  <2>1. \A d \in Call : Left(d)' = Left(d)
    <3> SUFFICES ASSUME NEW d \in Call, NEW p \in Tasks(d)
                 PROVE  piece'[p] = piece[p]
      BY DEF Left
    <3>1. p # Own(c) /\ p \in Piece
      BY TaskIsPiece DEF PoolTask
    <3> QED BY <3>1 DEF BeginOwn, TypeOK
  <2> QED BY <2>1 DEF BeginOwn, TypeOK, RemainingCounts
<1>4. QueuedOnce'
  BY TaskIsPiece DEF BeginOwn, TypeOK, QueuedOnce
<1>5. WorkedOnOnce'
  BY TaskIsPiece DEF BeginOwn, TypeOK, WorkedOnOnce, Holds
<1>6. Thrown'
  <2>1. Own(c) \notin threw
    BY DEF BeginOwn, Prepared, Thrown
  <2>2. \A d \in Call : \A p \in Tasks(d) : p # Own(c) /\ p \in Piece
    BY TaskIsPiece DEF PoolTask
  <2> QED BY <2>1, <2>2, TaskIsPiece DEF BeginOwn, TypeOK, Thrown
<1>7. Ended'
  <2>1. \A d \in Call : \A p \in Tasks(d) : p # Own(c) /\ p \in Piece
    BY TaskIsPiece DEF PoolTask
  <2>2. \A d \in Call : Left(d)' = Left(d)
    BY <2>1 DEF BeginOwn, TypeOK, Left
  <2>3. \A d \in Call : d # c => Own(d) # Own(c) /\ Own(d) \in Piece
    BY TaskIsPiece
  <2> QED BY <2>2, <2>3 DEF BeginOwn, TypeOK, Ended
<1> QED BY <1>1, <1>2, <1>3, <1>4, <1>5, <1>6, <1>7

LEMMA LoadPendingKeeps ==
  ASSUME PoolInv, NEW c \in Call, LoadPending(c)
  PROVE  PoolInv'
<1> USE DEF PoolInv
<1>1. TypeOK'
  BY TaskIsPiece, TaskCount DEF LoadPending, TypeOK, Waiting
<1>2. Prepared'
  BY TaskIsPiece DEF LoadPending, TypeOK, Prepared, WorkedOnOnce, QueuedOnce, Waiting
<1>3. RemainingCounts'
  BY TaskIsPiece DEF LoadPending, TypeOK, RemainingCounts, Left, Waiting
<1>4. QueuedOnce'
  BY TaskIsPiece DEF LoadPending, TypeOK, QueuedOnce, Waiting
<1>5. WorkedOnOnce'
  BY TaskIsPiece DEF LoadPending, TypeOK, WorkedOnOnce, Holds, Waiting
<1>6. Thrown'
  BY TaskIsPiece DEF LoadPending, TypeOK, Thrown, Waiting
<1>7. Ended'
  BY TaskIsPiece DEF LoadPending, TypeOK, Ended, Left, Waiting
<1> QED BY <1>1, <1>2, <1>3, <1>4, <1>5, <1>6, <1>7

LEMMA BlockKeeps ==
  ASSUME PoolInv, NEW c \in Call, Block(c)
  PROVE  PoolInv'
<1> USE DEF PoolInv
<1>1. TypeOK'
  BY TaskIsPiece, TaskCount DEF Block, TypeOK
<1>2. Prepared'
  BY TaskIsPiece DEF Block, TypeOK, Prepared, WorkedOnOnce, QueuedOnce
<1>3. RemainingCounts'
  BY TaskIsPiece DEF Block, TypeOK, RemainingCounts, Left
<1>4. QueuedOnce'
  BY TaskIsPiece DEF Block, TypeOK, QueuedOnce
<1>5. WorkedOnOnce'
  BY TaskIsPiece DEF Block, TypeOK, WorkedOnOnce, Holds
<1>6. Thrown'
  BY TaskIsPiece DEF Block, TypeOK, Thrown
<1>7. Ended'
  BY TaskIsPiece DEF Block, TypeOK, Ended, Left
<1> QED BY <1>1, <1>2, <1>3, <1>4, <1>5, <1>6, <1>7

LEMMA LeaveKeeps ==
  ASSUME PoolInv, NEW c \in Call, Leave(c)
  PROVE  PoolInv'
<1> USE DEF PoolInv
<1>1. TypeOK'
  BY TaskIsPiece, TaskCount DEF Leave, TypeOK, Waiting
<1>2. Prepared'
  BY TaskIsPiece DEF Leave, TypeOK, Prepared, WorkedOnOnce, QueuedOnce, Waiting
<1>3. RemainingCounts'
  <2>1. \A d \in Call : Left(d)' = Left(d)
    BY TaskIsPiece DEF Leave, TypeOK, Left, Waiting
  <2> QED BY <2>1 DEF Leave, TypeOK, RemainingCounts, Waiting
<1>4. QueuedOnce'
  BY TaskIsPiece DEF Leave, TypeOK, QueuedOnce, Waiting
<1>5. WorkedOnOnce'
  BY TaskIsPiece DEF Leave, TypeOK, WorkedOnOnce, Holds, Waiting
<1>6. Thrown'
  BY TaskIsPiece DEF Leave, TypeOK, Thrown, Waiting
<1>7. Ended'
  <2>1. \A d \in Call : Left(d)' = Left(d)
    BY DEF Leave, Left
  <2>2. Left(c) = {}
    BY LeftCounted DEF Leave, Waiting, RemainingCounts
  <2> QED BY <2>1, <2>2 DEF Leave, Waiting, TypeOK, Ended
<1> QED BY <1>1, <1>2, <1>3, <1>4, <1>5, <1>6, <1>7

LEMMA FinishKeeps ==
  ASSUME PoolInv, NEW p \in Piece, Finish(p)
  PROVE  PoolInv'
<1> USE DEF PoolInv
<1>1. TypeOK'
  BY TaskIsPiece, TaskCount DEF Finish, TypeOK, calls
<1>2. Prepared'
  BY TaskIsPiece DEF Finish, TypeOK, Prepared, WorkedOnOnce, QueuedOnce, calls
<1>3. RemainingCounts'
  <2>1. \A d \in Call : Left(d)' = Left(d)
    <3> SUFFICES ASSUME NEW d \in Call, NEW q \in Tasks(d)
                 PROVE  piece'[q] = "counted" <=> piece[q] = "counted"
      BY DEF Left
    <3> QED BY TaskIsPiece DEF Finish, TypeOK
  <2> QED BY <2>1 DEF Finish, RemainingCounts, calls
<1>4. QueuedOnce'
  BY TaskIsPiece DEF Finish, TypeOK, QueuedOnce, calls
<1>5. WorkedOnOnce'
  BY TaskIsPiece DEF Finish, TypeOK, WorkedOnOnce, Holds, calls
<1>6. Thrown'
  BY TaskIsPiece DEF Finish, TypeOK, Thrown, calls
<1>7. Ended'
  <2>1. \A d \in Call : Left(d)' = Left(d)
    <3> SUFFICES ASSUME NEW d \in Call, NEW q \in Tasks(d)
                 PROVE  piece'[q] = "counted" <=> piece[q] = "counted"
      BY DEF Left
    <3> QED BY TaskIsPiece DEF Finish, TypeOK
  <2>2. \A d \in Call : Own(d) = p => pc[d] # "done"
    BY DEF Finish, Ended
  <2> QED BY <2>1, <2>2, TaskIsPiece DEF Finish, TypeOK, Ended, calls
<1> QED BY <1>1, <1>2, <1>3, <1>4, <1>5, <1>6, <1>7

LEMMA ThrowKeeps ==
  ASSUME PoolInv, NEW p \in Piece, Throw(p)
  PROVE  PoolInv'
<1> USE DEF PoolInv
<1>1. TypeOK'
  BY TaskIsPiece, TaskCount DEF Throw, TypeOK, calls
<1>2. Prepared'
  BY TaskIsPiece DEF Throw, TypeOK, Prepared, WorkedOnOnce, QueuedOnce, calls
<1>3. RemainingCounts'
  <2>1. \A d \in Call : Left(d)' = Left(d)
    <3> SUFFICES ASSUME NEW d \in Call, NEW q \in Tasks(d)
                 PROVE  piece'[q] = "counted" <=> piece[q] = "counted"
      BY DEF Left
    <3> QED BY TaskIsPiece DEF Throw, TypeOK
  <2> QED BY <2>1 DEF Throw, RemainingCounts, calls
<1>4. QueuedOnce'
  BY TaskIsPiece DEF Throw, TypeOK, QueuedOnce, calls
<1>5. WorkedOnOnce'
  BY TaskIsPiece DEF Throw, TypeOK, WorkedOnOnce, Holds, calls
<1>6. Thrown'
  BY TaskIsPiece DEF Throw, TypeOK, Thrown, calls
<1>7. Ended'
  <2>1. \A d \in Call : Left(d)' = Left(d)
    <3> SUFFICES ASSUME NEW d \in Call, NEW q \in Tasks(d)
                 PROVE  piece'[q] = "counted" <=> piece[q] = "counted"
      BY DEF Left
    <3> QED BY TaskIsPiece DEF Throw, TypeOK
  <2>2. \A d \in Call : Own(d) = p => pc[d] # "done"
    BY DEF Throw, Ended
  <2> QED BY <2>1, <2>2, TaskIsPiece DEF Throw, TypeOK, Ended, calls
<1> QED BY <1>1, <1>2, <1>3, <1>4, <1>5, <1>6, <1>7

LEMMA PopKeeps ==
  ASSUME PoolInv, NEW w \in Worker, Pop(w)
  PROVE  PoolInv'
<1> USE DEF PoolInv
<1>h. PICK h : h = Head(queue)
  OBVIOUS
<1>a. /\ h = queue[1] /\ 1 \in DOMAIN queue /\ h \in PoolTask /\ h \in Piece
      /\ piece[h] = "queued" /\ h \in Tasks(h[1]) /\ h[1] \in Call
  BY <1>h, TaskIsPiece DEF Pop, TypeOK, QueuedOnce
<1>b. /\ piece' = [piece EXCEPT ![h] = "running"]
      /\ worker' = [worker EXCEPT ![w] = [at |-> "run", task |-> h]]
      /\ worker[w].at = "awake"
  BY <1>h DEF Pop
<1>c. \A d \in Call : Own(d) # h /\ Own(d) \in Piece
  BY <1>a, TaskIsPiece
<1>d. \A d \in Call : Left(d)' = Left(d)
  <2> SUFFICES ASSUME NEW d \in Call, NEW q \in Tasks(d)
               PROVE  piece'[q] = "counted" <=> piece[q] = "counted"
    BY DEF Left
  <2> QED BY <1>a, <1>b, TaskIsPiece DEF TypeOK
<1>1. TypeOK'
  <2>1. worker' \in [Worker -> WorkerState]
    BY <1>a, <1>b DEF TypeOK, WorkerState
  <2>2. piece' \in [Piece -> {"new", "queued", "running", "over", "counted"}]
    BY <1>a, <1>b DEF TypeOK
  <2> QED BY <2>1, <2>2 DEF Pop, TypeOK, calls
<1>2. Prepared'
  BY <1>a, <1>b, <1>c, TaskIsPiece DEF Pop, TypeOK, Prepared, calls
<1>3. RemainingCounts'
  BY <1>d DEF Pop, RemainingCounts, calls
<1>4. QueuedOnce'
  <2>1. \A i \in DOMAIN queue' : i + 1 \in DOMAIN queue /\ queue'[i] = queue[i + 1]
    BY DEF Pop, TypeOK
  <2>2. \A i \in DOMAIN queue' : queue'[i] # h
    <3> SUFFICES ASSUME NEW i \in DOMAIN queue', queue'[i] = h
                 PROVE  FALSE
      OBVIOUS
    <3>1. i \in Nat \ {0} /\ i + 1 \in DOMAIN queue /\ queue[i + 1] = queue[1]
      BY <1>a, <2>1 DEF Pop, TypeOK
    <3>2. i + 1 = 1
      BY <1>a, <3>1 DEF QueuedOnce
    <3> QED BY <3>1, <3>2
  <2>3. \A i, j \in DOMAIN queue' : queue'[i] = queue'[j] => i = j
    BY <2>1 DEF QueuedOnce, TypeOK, Pop
  <2> QED BY <1>b, <2>1, <2>2, <2>3, TaskIsPiece DEF QueuedOnce, TypeOK
<1>5. WorkedOnOnce'
  <2>1. \A v \in Worker : Holds(v) => worker[v].task # h
    BY <1>a DEF WorkedOnOnce
  <2> QED BY <1>a, <1>b, <2>1, TaskIsPiece DEF Pop, TypeOK, WorkedOnOnce, Holds, calls
<1>6. Thrown'
  <2>1. h \notin threw
    BY <1>a DEF Thrown
  <2> QED BY <1>a, <1>b, <2>1, TaskIsPiece DEF Pop, TypeOK, Thrown, calls
<1>7. Ended'
  BY <1>a, <1>b, <1>c, <1>d DEF Pop, TypeOK, Ended, calls
<1> QED BY <1>1, <1>2, <1>3, <1>4, <1>5, <1>6, <1>7

LEMMA SleepKeeps ==
  ASSUME PoolInv, NEW w \in Worker, Sleep(w)
  PROVE  PoolInv'
<1> USE DEF PoolInv
<1>1. TypeOK'
  <2>1. worker' \in [Worker -> WorkerState]
    BY DEF Sleep, TypeOK, WorkerState
  <2> QED BY <2>1 DEF Sleep, TypeOK, calls
<1>2. Prepared'
  BY TaskIsPiece DEF Sleep, TypeOK, Prepared, WorkedOnOnce, QueuedOnce, calls
<1>3. RemainingCounts'
  BY TaskIsPiece DEF Sleep, TypeOK, RemainingCounts, Left, calls
<1>4. QueuedOnce'
  BY TaskIsPiece DEF Sleep, TypeOK, QueuedOnce, calls
<1>5. WorkedOnOnce'
  BY TaskIsPiece DEF Sleep, TypeOK, WorkedOnOnce, Holds, calls
<1>6. Thrown'
  BY TaskIsPiece DEF Sleep, TypeOK, Thrown, calls
<1>7. Ended'
  BY TaskIsPiece DEF Sleep, TypeOK, Ended, Left, calls
<1> QED BY <1>1, <1>2, <1>3, <1>4, <1>5, <1>6, <1>7

LEMMA WakeUnaskedKeeps ==
  ASSUME PoolInv, NEW w \in Worker, WakeUnasked(w)
  PROVE  PoolInv'
<1> USE DEF PoolInv
<1>1. TypeOK'
  <2>1. worker' \in [Worker -> WorkerState]
    BY WakenedType DEF WakeUnasked, TypeOK, Asleep
  <2> QED BY <2>1 DEF WakeUnasked, TypeOK, calls
<1>2. Prepared'
  BY TaskIsPiece DEF WakeUnasked, TypeOK, Prepared, WorkedOnOnce, QueuedOnce, calls
<1>3. RemainingCounts'
  BY TaskIsPiece DEF WakeUnasked, TypeOK, RemainingCounts, Left, calls
<1>4. QueuedOnce'
  BY TaskIsPiece DEF WakeUnasked, TypeOK, QueuedOnce, calls
<1>5. WorkedOnOnce'
  <2>1. \A v \in Worker : worker'[v].task = worker[v].task
    BY WakenedType DEF WakeUnasked, TypeOK
  <2>2. \A v \in Worker : worker'[v].at = worker[v].at \/ worker'[v].at = "awake"
    BY WakenedType DEF WakeUnasked, TypeOK
  <2>3. UNCHANGED <<piece, exception>>
    BY DEF WakeUnasked, calls
  <2> QED BY <2>1, <2>2, <2>3 DEF WorkedOnOnce, Holds
<1>6. Thrown'
  BY TaskIsPiece DEF WakeUnasked, TypeOK, Thrown, calls
<1>7. Ended'
  BY TaskIsPiece DEF WakeUnasked, TypeOK, Ended, Left, calls
<1> QED BY <1>1, <1>2, <1>3, <1>4, <1>5, <1>6, <1>7

LEMMA CatchKeeps ==
  ASSUME PoolInv, NEW w \in Worker, Catch(w)
  PROVE  PoolInv'
<1> USE DEF PoolInv
<1>p. PICK p : p = worker[w].task
  OBVIOUS
<1>a. /\ p \in PoolTask /\ p \in Piece /\ p \in Tasks(p[1]) /\ p[1] \in Call
      /\ p # NoPiece /\ piece[p] = "over" /\ p \in threw
  BY <1>p, TaskIsPiece DEF Catch, WorkedOnOnce
<1>b. /\ exception' = [exception EXCEPT ![p[1]] = IF @ = NoPiece THEN p ELSE @]
      /\ worker' = [worker EXCEPT ![w].at = "caught"] /\ worker[w].at = "run"
  BY <1>p DEF Catch
<1>c. exception'[p[1]] # NoPiece
  BY <1>a, <1>b DEF TypeOK
<1>1. TypeOK'
  <2>1. worker' \in [Worker -> WorkerState]
    BY <1>b DEF TypeOK, WorkerState
  <2>2. exception' \in [Call -> Piece \cup {NoPiece}]
    BY <1>a, <1>b DEF TypeOK
  <2> QED BY <2>1, <2>2 DEF Catch, TypeOK
<1>2. Prepared'
  BY TaskIsPiece DEF Catch, TypeOK, Prepared, WorkedOnOnce, QueuedOnce
<1>3. RemainingCounts'
  BY TaskIsPiece DEF Catch, TypeOK, RemainingCounts, Left
<1>4. QueuedOnce'
  BY TaskIsPiece DEF Catch, TypeOK, QueuedOnce
<1>5. WorkedOnOnce'
  <2>1. \A v \in Worker : /\ worker'[v].task = worker[v].task /\ (Holds(v)' <=> Holds(v))
                         /\ (worker'[v].at = worker[v].at \/ v = w)
    BY <1>b DEF TypeOK, Holds, WorkerState
  <2>2. \A d \in Call : exception[d] # NoPiece => exception'[d] # NoPiece
    BY <1>a, <1>b DEF TypeOK
  <2>3. worker[w].task = p
    BY <1>p
  <2> QED BY <1>a, <1>b, <1>c, <2>1, <2>2, <2>3, TaskIsPiece DEF Catch, WorkedOnOnce, Holds
<1>6. Thrown'
  BY <1>a, <1>b DEF Catch, TypeOK, Thrown
<1>7. Ended'
  <2>1. pc[p[1]] # "done"
    BY <1>a DEF Ended, Left
  <2> QED BY <1>a, <1>b, <2>1 DEF Catch, TypeOK, Ended, Left
<1> QED BY <1>1, <1>2, <1>3, <1>4, <1>5, <1>6, <1>7

LEMMA CountOutKeeps ==
  ASSUME PoolInv, NEW w \in Worker, CountOut(w)
  PROVE  PoolInv'
<1> USE DEF PoolInv
<1>p. PICK p, c : p = worker[w].task /\ c = p[1]
  OBVIOUS
<1>a. /\ p \in PoolTask /\ p \in Piece /\ p \in Tasks(c) /\ c \in Call
      /\ piece[p] = "over" /\ (p \in threw => exception[c] # NoPiece)
  BY <1>p, TaskIsPiece DEF CountOut, WorkedOnOnce
<1>b. /\ remaining' = [remaining EXCEPT ![c] = @ - 1]
      /\ piece' = [piece EXCEPT ![p] = "counted"]
      /\ worker' = [worker EXCEPT ![w] = IF remaining[c] = 1 THEN [at |-> "notify", task |-> p]
                                         ELSE [at |-> "awake", task |-> NoPiece]]
  BY <1>p DEF CountOut
<1>c. Left(c)' = Left(c) \ {p} /\ \A d \in Call : d # c => Left(d)' = Left(d)
  <2>1. \A d \in Call : \A q \in Tasks(d) : q \in Piece /\ (q = p => d = c)
    BY <1>p, TaskIsPiece
  <2>2. \A q \in Piece : piece'[q] = IF q = p THEN "counted" ELSE piece[q]
    BY <1>a, <1>b DEF TypeOK
  <2>3. Left(c)' = Left(c) \ {p}
    BY <1>a, <2>1, <2>2 DEF Left
  <2>4. ASSUME NEW d \in Call, d # c
        PROVE  Left(d)' = Left(d)
    BY <2>1, <2>2, <2>4 DEF Left
  <2> QED BY <2>3, <2>4
<1>d. /\ IsFiniteSet(Left(c)) /\ Cardinality(Left(c)) \in Nat \ {0} /\ p \in Left(c)
      /\ Cardinality(Left(c) \ {p}) = Cardinality(Left(c)) - 1
  <2>1. p \in Left(c)
    BY <1>a DEF Left
  <2> QED BY <1>a, <2>1, LeftCounted, FS_RemoveElement
<1>e. pc[c] \notin {"idle", "push", "done"} /\ remaining[c] = Cardinality(Left(c))
  <2>1. pc[c] \notin {"idle", "push"}
    BY <1>a DEF Prepared
  <2> QED BY <1>a, <1>d, <2>1 DEF Ended, RemainingCounts
<1>f. \A d \in Call : Own(d) # p /\ Own(d) \in Piece
  BY <1>a, TaskIsPiece
<1>g. UNCHANGED <<pc, exception, toNotify, seen, outcome, threw, queue>>
  BY DEF CountOut
<1>1. TypeOK'
  <2>1. worker' \in [Worker -> WorkerState]
    BY <1>a, <1>b DEF TypeOK, WorkerState
  <2>2. remaining' \in [Call -> Nat]
    BY <1>a, <1>b, <1>d, <1>e DEF TypeOK
  <2>3. piece' \in [Piece -> {"new", "queued", "running", "over", "counted"}]
    BY <1>a, <1>b DEF TypeOK
  <2> QED BY <1>g, <2>1, <2>2, <2>3 DEF TypeOK
<1>2. Prepared'
  BY <1>a, <1>b, <1>e, <1>f, <1>g, TaskIsPiece DEF TypeOK, Prepared
<1>3. RemainingCounts'
  <2>1. remaining'[c] = Cardinality(Left(c)')
    BY <1>a, <1>b, <1>c, <1>d, <1>e DEF TypeOK
  <2>2. \A d \in Call : d # c => remaining'[d] = remaining[d]
    BY <1>a, <1>b DEF TypeOK
  <2> QED BY <1>a, <1>c, <1>g, <2>1, <2>2 DEF RemainingCounts
<1>4. QueuedOnce'
  <2>1. \A i \in DOMAIN queue : queue[i] # p /\ queue[i] \in Piece
    BY <1>a, TaskIsPiece DEF QueuedOnce
  <2> QED BY <1>a, <1>b, <1>g, <2>1 DEF TypeOK, QueuedOnce
<1>5. WorkedOnOnce'
  <2>1. Holds(w) /\ worker[w].task = p
    BY <1>p DEF CountOut, Holds
  <2>2. \A v \in Worker : v # w => worker'[v] = worker[v] /\ (Holds(v) => worker[v].task # p)
    BY <1>b, <2>1 DEF TypeOK, WorkedOnOnce
  <2>3. ~ Holds(w)' /\ worker'[w].at # "caught" /\ worker'[w].at # "run"
        /\ (worker'[w].at = "notify" => worker'[w].task = p)
    BY <1>b DEF TypeOK, Holds
  <2> QED BY <1>a, <1>b, <1>g, <2>2, <2>3, TaskIsPiece DEF TypeOK, WorkedOnOnce, Holds
<1>6. Thrown'
  <2>1. \A d \in Call : \A q \in Tasks(d) : q \in Piece /\ (q = p => d = c)
    BY <1>a, <1>p, TaskIsPiece
  <2> QED BY <1>a, <1>b, <1>g, <2>1 DEF TypeOK, Thrown
<1>7. Ended'
  BY <1>a, <1>b, <1>c, <1>e, <1>f, <1>g DEF TypeOK, Ended
<1> QED BY <1>1, <1>2, <1>3, <1>4, <1>5, <1>6, <1>7

LEMMA NotifyWaiterKeeps ==
  ASSUME PoolInv, NEW w \in Worker, NotifyWaiter(w)
  PROVE  PoolInv'
<1> USE DEF PoolInv
<1>1. TypeOK'
  <2>1. worker' \in [Worker -> WorkerState]
    BY DEF NotifyWaiter, TypeOK, WorkerState
  <2> QED BY <2>1 DEF NotifyWaiter, TypeOK
<1>2. Prepared'
  BY TaskIsPiece DEF NotifyWaiter, TypeOK, Prepared, WorkedOnOnce, QueuedOnce
<1>3. RemainingCounts'
  BY TaskIsPiece DEF NotifyWaiter, TypeOK, RemainingCounts, Left
<1>4. QueuedOnce'
  BY TaskIsPiece DEF NotifyWaiter, TypeOK, QueuedOnce
<1>5. WorkedOnOnce'
  BY TaskIsPiece DEF NotifyWaiter, TypeOK, WorkedOnOnce, Holds
<1>6. Thrown'
  BY TaskIsPiece DEF NotifyWaiter, TypeOK, Thrown
<1>7. Ended'
  BY TaskIsPiece DEF NotifyWaiter, TypeOK, Ended, Left
<1> QED BY <1>1, <1>2, <1>3, <1>4, <1>5, <1>6, <1>7

-----------------------------------------------------------------------------
LEMMA StepKeepsPool ==
  PoolInv /\ [Next]_vars => PoolInv'
<1> SUFFICES ASSUME PoolInv, [Next]_vars
             PROVE  PoolInv'
  OBVIOUS
<1>1. ASSUME NEW c \in Call, CallStep(c)
      PROVE  PoolInv'
  BY <1>1, SubmitKeeps, PushKeeps, NotifyAllKeeps, NotifyOneKeeps, BeginOwnKeeps,
     LoadPendingKeeps, BlockKeeps, LeaveKeeps DEF CallStep
<1>2. ASSUME NEW p \in Piece, PieceStep(p)
      PROVE  PoolInv'
  BY <1>2, FinishKeeps, ThrowKeeps DEF PieceStep
<1>3. ASSUME NEW w \in Worker, WorkerStep(w)
      PROVE  PoolInv'
  BY <1>3, PopKeeps, SleepKeeps, CatchKeeps, CountOutKeeps, NotifyWaiterKeeps
     DEF WorkerStep
<1>4. ASSUME NEW w \in Worker, WakeUnasked(w)
      PROVE  PoolInv'
  BY <1>4, WakeUnaskedKeeps
<1>5. CASE UNCHANGED vars
  <2> USE <1>5 DEF vars, calls
  <2>1. TypeOK' /\ Prepared'
    BY DEF PoolInv, TypeOK, Prepared
  <2>2. \A c \in Call : Left(c)' = Left(c)
    BY DEF Left
  <2>3. RemainingCounts' /\ Ended'
    BY <2>2 DEF PoolInv, RemainingCounts, Ended
  <2>4. QueuedOnce' /\ Thrown'
    BY DEF PoolInv, QueuedOnce, Thrown
  <2>5. WorkedOnOnce'
    BY DEF PoolInv, WorkedOnOnce, Holds
  <2> QED BY <2>1, <2>3, <2>4, <2>5 DEF PoolInv
<1> QED BY <1>1, <1>2, <1>3, <1>4, <1>5 DEF Next, Finished

LEMMA PoolAlways == Spec => []PoolInv
BY InitPool, StepKeepsPool, PTL DEF Spec

\* The pool's variables keep their types; no counter ever falls below zero.
THEOREM PoolTypeOK == Spec => []TypeOK
<1>1. PoolInv => TypeOK
  BY DEF PoolInv
<1> QED BY <1>1, PoolAlways, PTL

\* Whatever throws and however calls are nested, a call comes back only when all
\* its tasks have been counted out and none is left in the queue.
THEOREM NoTaskOutlivesItsCall == Spec => []TasksEndBeforeTheirCall
<1>1. PoolInv => TasksEndBeforeTheirCall
  <2> SUFFICES ASSUME PoolInv, NEW c \in Call, pc[c] = "done"
               PROVE  /\ \A p \in Tasks(c) : piece[p] = "counted"
                      /\ \A i \in DOMAIN queue : queue[i][1] # c
    BY DEF TasksEndBeforeTheirCall
  <2>1. \A p \in Tasks(c) : piece[p] = "counted"
    BY DEF PoolInv, Ended, Left
  <2>2. \A i \in DOMAIN queue : queue[i] \notin Tasks(c)
    BY <2>1 DEF PoolInv, QueuedOnce
  <2>3. \A i \in DOMAIN queue : queue[i] \in Tasks(queue[i][1])
    BY TaskIsPiece DEF PoolInv, QueuedOnce
  <2> QED BY <2>1, <2>2, <2>3
<1> QED BY <1>1, PoolAlways, PTL

\* A call throws if and only if the function threw on one of its pieces, and then
\* an exception of its own.
THEOREM NoExceptionIsLost == Spec => []ExceptionsAreDelivered
<1>1. PoolInv => ExceptionsAreDelivered
  <2> SUFFICES ASSUME PoolInv, NEW c \in Call, pc[c] = "done"
               PROVE  IF Returned(c) THEN Pieces(c) \cap threw = {}
                      ELSE outcome[c] \in Pieces(c) \cap threw
    BY DEF ExceptionsAreDelivered
  <2>1. /\ Left(c) = {}
        /\ outcome[c] = IF exception[c] # NoPiece THEN exception[c]
                        ELSE IF Own(c) \in threw THEN Own(c) ELSE NoPiece
    BY DEF PoolInv, Ended
  <2>2. Tasks(c) \subseteq Pieces(c) /\ Own(c) \in Pieces(c) /\ Own(c) # NoPiece
    BY TaskIsPiece
  <2>3. \A p \in Tasks(c) \cap threw : exception[c] # NoPiece
    BY <2>1 DEF PoolInv, Thrown, Left
  <2>4. exception[c] # NoPiece => exception[c] \in Tasks(c) \cap threw
    BY DEF PoolInv, Thrown
  <2>5. \A p \in Pieces(c) : p = Own(c) \/ p \in Tasks(c)
    BY TaskCount DEF Pieces, Tasks, Own
  <2> QED BY <2>1, <2>2, <2>3, <2>4, <2>5 DEF Returned
<1> QED BY <1>1, PoolAlways, PTL

-----------------------------------------------------------------------------
(***************************************************************************)
(* The refinement: the thread pool keeps the promise of an executor         *)
(* (ForkJoin), for any number of workers, calls and indices.                *)
(*                                                                         *)
(* The chunks of a call cover its indices without overlap, whatever the     *)
(* rounding of their size leaves to the last one; so a piece that begins     *)
(* takes indices nobody has taken, and when all pieces are counted out all   *)
(* indices have been.  Which pieces those are is what PoolInv knows.        *)
(***************************************************************************)
LEMMA TimesMonotone ==
  ASSUME NEW i \in Int, NEW j \in Int, i <= j, NEW s \in Nat
  PROVE  i * s <= j * s
<1>1. (j - i) * s >= 0
  OBVIOUS
<1>2. (j - i) * s = j * s - i * s
  OBVIOUS
<1> QED BY <1>1, <1>2

LEMMA DivideRest ==
  ASSUME NEW x \in Nat, NEW s \in Nat \ {0}
  PROVE  /\ x \div s \in Nat
         /\ (x \div s) * s <= x /\ x < (x \div s + 1) * s
OBVIOUS

LEMMA ChunkSizeType ==
  ASSUME NEW c \in Call
  PROVE  /\ ChunkSize(c) \in Nat \ {0}
         /\ Size[c] <= NPieces(c) * ChunkSize(c)
<1>1. Size[c] \in Nat \ {0} /\ NPieces(c) \in Nat \ {0}
  BY TaskCount, PoolAssumption
<1> DEFINE n == Size[c]  m == NPieces(c)  s == (n + m - 1) \div m
<1>2. n \in Nat \ {0} /\ m \in Nat \ {0}
  BY <1>1
<1> HIDE DEF n, m
<1>3. s \in Nat /\ n + m - 1 < (s + 1) * m
  BY <1>2, DivideRest
<1> HIDE DEF s
<1>4. (s + 1) * m = m * s + m
  BY <1>2, <1>3
<1>5. n <= m * s
  BY <1>2, <1>3, <1>4
<1>6. s # 0
  <2>1. m * 0 = 0
    BY <1>2
  <2> QED BY <1>2, <1>5, <2>1
<1> QED BY <1>3, <1>5, <1>6 DEF n, m, s, ChunkSize

\* The chunk of a piece in terms of the size of the chunks.
LEMMA ChunkBounds ==
  ASSUME NEW c \in Call, NEW k \in 0..NTasks(c), NEW x \in Int
  PROVE  x \in Chunk(<<c, k>>) <=> /\ k * ChunkSize(c) <= x /\ x < (k + 1) * ChunkSize(c)
                                  /\ x < Size[c]
<1>1. k \in Nat /\ ChunkSize(c) \in Nat /\ Size[c] \in Nat
  BY TaskCount, ChunkSizeType, PoolAssumption
<1>2. k * ChunkSize(c) \in Nat /\ (k + 1) * ChunkSize(c) \in Nat
  BY <1>1
<1> QED BY <1>1, <1>2 DEF Chunk, ChunkBegin, ChunkEnd, Smaller

\* No index belongs to two pieces, and every index to one.
LEMMA ChunksDisjoint ==
  ASSUME NEW c \in Call, NEW p \in Pieces(c), NEW q \in Pieces(c), p # q
  PROVE  Chunk(p) \cap Chunk(q) = {}
<1>1. ASSUME NEW i \in 0..NTasks(c), NEW j \in 0..NTasks(c), i < j,
             NEW x \in Int, x \in Chunk(<<c, i>>), x \in Chunk(<<c, j>>)
      PROVE  FALSE
  <2>1. ChunkSize(c) \in Nat /\ i + 1 \in Int /\ j \in Int /\ i + 1 <= j
    BY <1>1, TaskCount, ChunkSizeType
  <2>2. (i + 1) * ChunkSize(c) <= j * ChunkSize(c)
    BY <2>1, TimesMonotone
  <2>3. /\ x < (i + 1) * ChunkSize(c) /\ j * ChunkSize(c) <= x
    BY <1>1, ChunkBounds
  <2>4. (i + 1) * ChunkSize(c) \in Int /\ j * ChunkSize(c) \in Int
    BY <2>1
  <2> QED BY <1>1, <2>2, <2>3, <2>4
<1>2. PICK i \in 0..NTasks(c) : p = <<c, i>>
  BY DEF Pieces
<1>3. PICK j \in 0..NTasks(c) : q = <<c, j>>
  BY DEF Pieces
<1>4. i # j /\ i \in Int /\ j \in Int
  BY <1>2, <1>3, TaskCount
<1>5. Chunk(p) \subseteq Int /\ Chunk(q) \subseteq Int
  BY DEF Chunk
<1> QED BY <1>1, <1>2, <1>3, <1>4, <1>5

LEMMA ChunksCover ==
  ASSUME NEW c \in Call
  PROVE  ItemsIn(Pieces(c)) = 0..Size[c] - 1
<1>1. ChunkSize(c) \in Nat \ {0} /\ Size[c] \in Nat /\ NTasks(c) \in Nat
      /\ NPieces(c) = NTasks(c) + 1
  BY ChunkSizeType, TaskCount, PoolAssumption DEF NTasks
<1>2. ASSUME NEW x \in 0..Size[c] - 1
      PROVE  \E p \in Pieces(c) : x \in Chunk(p)
  <2> DEFINE k == x \div ChunkSize(c)
  <2>1. x \in Nat /\ x < Size[c]
    BY <1>1
  <2>2. k \in Nat /\ k * ChunkSize(c) <= x /\ x < (k + 1) * ChunkSize(c)
    BY <1>1, <2>1, DivideRest
  <2> HIDE DEF k
  <2>3. k < NPieces(c)
    <3> SUFFICES ASSUME NPieces(c) <= k
                 PROVE  FALSE
      BY <1>1, <2>2
    <3>1. NPieces(c) * ChunkSize(c) <= k * ChunkSize(c)
      BY <1>1, <2>2, TimesMonotone
    <3>2. Size[c] <= NPieces(c) * ChunkSize(c)
      BY ChunkSizeType
    <3>3. NPieces(c) * ChunkSize(c) \in Int /\ k * ChunkSize(c) \in Int
      BY <1>1, <2>2
    <3> QED BY <1>1, <2>1, <2>2, <3>1, <3>2, <3>3
  <2>4. k \in 0..NTasks(c)
    BY <1>1, <2>2, <2>3
  <2>5. x \in Chunk(<<c, k>>)
    BY <2>1, <2>2, <2>4, ChunkBounds
  <2> QED BY <2>4, <2>5 DEF Pieces
<1>3. ASSUME NEW p \in Pieces(c), NEW x \in Chunk(p)
      PROVE  x \in 0..Size[c] - 1
  <2>1. PICK k \in 0..NTasks(c) : p = <<c, k>>
    BY DEF Pieces
  <2>2. x \in Int
    BY DEF Chunk
  <2>3. k \in Nat /\ k * ChunkSize(c) \in Nat
    BY <1>1
  <2>4. k * ChunkSize(c) <= x /\ x < Size[c]
    BY <1>3, <2>1, <2>2, ChunkBounds
  <2> QED BY <1>1, <2>2, <2>3, <2>4
<1> QED BY <1>2, <1>3 DEF ItemsIn

-----------------------------------------------------------------------------
\* Only a piece with indices to work on has anything to throw.
ThrewAtWork == \A p \in threw : Chunk(p) # {}

RefineInv == PoolInv /\ ThrewAtWork

LEMMA ThrowersHaveWork ==
  ASSUME TypeOK, ThrewAtWork, [Next]_vars
  PROVE  ThrewAtWork'
<1>1. ASSUME NEW p \in Piece, Throw(p)
      PROVE  ThrewAtWork'
  <2>1. Chunk(p) # {}
    <3>1. CASE p \in MayThrow
      BY <3>1, PoolAssumption
    <3>2. CASE \E c \in Calls(p) : TRUE
      <4>1. CallsOf(p) # <<>>
        BY <3>2 DEF Calls
      <4> QED BY <4>1, PoolAssumption
    <3> QED BY <1>1, <3>1, <3>2 DEF Throw
  <2>2. threw' = threw \cup {p}
    BY <1>1 DEF Throw
  <2>3. \A q \in Piece : Chunk(q)' = Chunk(q)
    BY DEF Chunk, ChunkBegin, ChunkEnd, ChunkSize
  <2> QED BY <2>1, <2>2 DEF ThrewAtWork
<1>2. CASE UNCHANGED threw
  BY <1>2 DEF ThrewAtWork
<1>3. CASE UNCHANGED vars
  BY <1>2, <1>3 DEF vars
<1>4. ASSUME NEW c \in Call, CallStep(c)
      PROVE  UNCHANGED threw
  BY <1>4 DEF CallStep, Submit, Push, NotifyAll, NotifyOne, BeginOwn, LoadPending, Block, Leave
<1>5. ASSUME NEW w \in Worker, WorkerStep(w) \/ WakeUnasked(w)
      PROVE  UNCHANGED threw
  BY <1>5 DEF WorkerStep, Pop, Sleep, Catch, CountOut, NotifyWaiter, WakeUnasked
<1>6. ASSUME NEW p \in Piece, Finish(p)
      PROVE  UNCHANGED threw
  BY <1>6 DEF Finish
<1> QED BY <1>1, <1>2, <1>3, <1>4, <1>5, <1>6 DEF Next, PieceStep, Finished

LEMMA RefineAlways ==
  Spec => []RefineInv
<1>1. Init => ThrewAtWork
  BY DEF Init, ThrewAtWork
<1>2. PoolInv => TypeOK
  BY DEF PoolInv
<1>3. PoolInv /\ ThrewAtWork /\ [Next]_vars => ThrewAtWork'
  BY <1>2, ThrowersHaveWork
<1> QED BY <1>1, <1>3, PoolAlways, PTL DEF Spec, RefineInv

-----------------------------------------------------------------------------
\* The call of a piece that waits or runs is open.
LEMMA OpenCall ==
  ASSUME PoolInv, NEW p \in Piece,
         piece[p] # "queued" => piece[p] = "running",
         piece[p] = "queued" => p \in PoolTask
  PROVE  p[1] \in Call /\ p \in Pieces(p[1]) /\ CallState[p[1]] = "open"
<1>1. PICK c \in Call : p \in Pieces(c) /\ p[1] = c
  BY TaskIsPiece
<1>2. pc[c] # "idle" /\ pc[c] # "done"
  <2>1. CASE p = Own(c)
    <3>1. piece[p] = "running"
      BY <2>1, TaskIsPiece
    <3> QED BY <2>1, <3>1 DEF PoolInv, Prepared, Ended
  <2>2. CASE p \in Tasks(c)
    BY <2>2 DEF PoolInv, Prepared, Ended, Left
  <2>3. p = Own(c) \/ p \in Tasks(c)
    BY <1>1, TaskCount DEF Pieces, Tasks, Own
  <2> QED BY <2>1, <2>2, <2>3
<1> QED BY <1>1, <1>2 DEF CallState

\* The state of a call seen from outside, when nothing happens to it.
LEMMA SameState ==
  ASSUME TypeOK, UNCHANGED outcome,
         \A c \in Call : \/ pc'[c] = pc[c]
                         \/ {pc[c], pc'[c]} \cap {"idle", "done"} = {}
  PROVE  CallState' = CallState
<1>1. ASSUME NEW c \in Call
      PROVE  CallState'[c] = CallState[c]
  BY DEF CallState, Returned
<1> QED BY <1>1 DEF CallState

\* A piece that is taken, finished or thrown away changes the items of its call
\* and of no other.
LEMMA OtherCalls ==
  ASSUME TypeOK, NEW p \in Piece, NEW s, piece' = [piece EXCEPT ![p] = s],
         NEW c \in Call, c # p[1]
  PROVE  Taken(c)' = Taken(c) /\ Running(c)' = Running(c)
<1>1. \A q \in Pieces(c) : q \in Piece /\ q # p
  BY TaskIsPiece
<1>2. \A q \in Pieces(c) : piece'[q] = piece[q]
  BY <1>1 DEF TypeOK
<1> QED BY <1>2 DEF Taken, Running

\* Without p, the items of the other running pieces are left.
LEMMA WithoutPiece ==
  ASSUME NEW c \in Call, NEW ps \in SUBSET Pieces(c), NEW p \in Pieces(c)
  PROVE  /\ ItemsIn(ps \cup {p}) = ItemsIn(ps) \cup Chunk(p)
         /\ p \in ps => ItemsIn(ps \ {p}) = ItemsIn(ps) \ Chunk(p)
         /\ p \in ps => Chunk(p) \subseteq ItemsIn(ps)
         /\ p \notin ps => Chunk(p) \cap ItemsIn(ps) = {}
<1>1. \A q \in ps : q # p => Chunk(q) \cap Chunk(p) = {}
  BY ChunksDisjoint
<1> QED BY <1>1 DEF ItemsIn

LEMMA ChunkOfItems ==
  ASSUME NEW c \in Call, NEW p \in Pieces(c)
  PROVE  Chunk(p) \in SUBSET CallItems[c]
BY ChunksCover DEF CallItems, ItemsIn
-----------------------------------------------------------------------------
\* A piece that begins takes its chunk.
LEMMA BeginningTakes ==
  ASSUME PoolInv, NEW p \in Piece, piece[p] \in {"new", "queued"},
         piece' = [piece EXCEPT ![p] = "running"],
         UNCHANGED threw, CallState' = CallState, CallState[p[1]] = "open"
  PROVE  Promise!Next
<1>1. PICK c \in Call : p \in Pieces(c) /\ p[1] = c
  BY TaskIsPiece
<1>2. Taken(c)' = Taken(c) \cup {p} /\ Running(c)' = Running(c) \cup {p}
      /\ p \notin Taken(c)
  <2>1. \A q \in Pieces(c) : piece'[q] = IF q = p THEN "running" ELSE piece[q]
    BY TaskIsPiece DEF PoolInv, TypeOK
  <2> QED BY <1>1, <2>1 DEF Taken, Running
<1>3. \A d \in Call : d # c => Taken(d)' = Taken(d) /\ Running(d)' = Running(d)
  BY <1>1, OtherCalls DEF PoolInv
<1>4. TakenItems' = [TakenItems EXCEPT ![c] = @ \cup Chunk(p)]
  <2>1. ItemsIn(Taken(c)') = ItemsIn(Taken(c)) \cup Chunk(p)
    BY <1>1, <1>2, WithoutPiece DEF Taken
  <2> QED BY <1>3, <2>1 DEF TakenItems, ItemsIn
<1>5. ActiveItems' = [ActiveItems EXCEPT ![c] = @ \cup Chunk(p)]
  <2>1. ItemsIn(Running(c)') = ItemsIn(Running(c)) \cup Chunk(p)
    BY <1>1, <1>2, WithoutPiece DEF Running
  <2> QED BY <1>3, <2>1 DEF ActiveItems, ItemsIn
<1>6. Chunk(p) \cap TakenItems[c] = {}
  BY <1>1, <1>2, WithoutPiece DEF Taken, TakenItems
<1>7. FailedItems' = FailedItems
  BY DEF FailedItems, Failed, ItemsIn
<1>8. Promise!Take(c, Chunk(p))
  BY <1>1, <1>4, <1>5, <1>6, <1>7 DEF Promise!Take
<1> QED BY <1>1, <1>8, ChunkOfItems DEF Promise!Next

\* A piece that ends leaves its chunk, as done or as failed.
LEMMA EndingLeaves ==
  ASSUME PoolInv, NEW p \in Piece, piece[p] = "running",
         piece' = [piece EXCEPT ![p] = "over"],
         threw' = threw \/ threw' = threw \cup {p}, CallState' = CallState
  PROVE  Promise!Next
<1>a. p[1] \in Call /\ p \in Pieces(p[1]) /\ CallState[p[1]] = "open"
  BY OpenCall
<1>1. PICK c \in Call : p \in Pieces(c) /\ p[1] = c /\ CallState[c] = "open"
  BY <1>a
<1>2. Taken(c)' = Taken(c) /\ Running(c)' = Running(c) \ {p} /\ p \in Running(c)
  <2>1. \A q \in Pieces(c) : piece'[q] = IF q = p THEN "over" ELSE piece[q]
    BY TaskIsPiece DEF PoolInv, TypeOK
  <2> QED BY <1>1, <2>1 DEF Taken, Running
<1>3. \A d \in Call : d # c => Taken(d)' = Taken(d) /\ Running(d)' = Running(d)
  BY <1>1, OtherCalls DEF PoolInv
<1>4. TakenItems' = TakenItems
  BY <1>2, <1>3 DEF TakenItems, ItemsIn
<1>5. ActiveItems' = [ActiveItems EXCEPT ![c] = @ \ Chunk(p)]
  <2>1. ItemsIn(Running(c)') = ItemsIn(Running(c)) \ Chunk(p)
    BY <1>1, <1>2, WithoutPiece DEF Running
  <2> QED BY <1>3, <2>1 DEF ActiveItems, ItemsIn
<1>6. Chunk(p) \subseteq ActiveItems[c]
  BY <1>1, <1>2, WithoutPiece DEF Running, ActiveItems
<1>7. CASE threw' = threw
  <2>1. FailedItems' = FailedItems
    BY <1>7 DEF FailedItems, Failed, ItemsIn
  <2>2. Promise!Complete(c, Chunk(p))
    BY <1>1, <1>4, <1>5, <1>6, <2>1 DEF Promise!Complete
  <2> QED BY <1>1, <2>2, ChunkOfItems DEF Promise!Next
<1>8. CASE threw' = threw \cup {p}
  <2>1. /\ Failed(c)' = Failed(c) \cup {p}
        /\ \A d \in Call : d # c => Failed(d)' = Failed(d)
    BY <1>1, <1>8, TaskIsPiece DEF Failed
  <2>2. ItemsIn(Failed(c)') = ItemsIn(Failed(c)) \cup Chunk(p)
    <3>1. Failed(c) \in SUBSET Pieces(c)
      BY DEF Failed
    <3>2. ItemsIn(Failed(c) \cup {p}) = ItemsIn(Failed(c)) \cup Chunk(p)
      BY <1>1, <3>1, WithoutPiece
    <3> QED BY <2>1, <3>2
  <2>3. FailedItems' = [FailedItems EXCEPT ![c] = @ \cup Chunk(p)]
    BY <2>1, <2>2 DEF FailedItems, ItemsIn
  <2>4. Promise!Fail(c, Chunk(p))
    BY <1>1, <1>4, <1>5, <1>6, <2>3 DEF Promise!Fail
  <2> QED BY <1>1, <2>4, ChunkOfItems DEF Promise!Next
<1> QED BY <1>7, <1>8

\* A call that comes back has been through all its indices, and it comes back
\* normally exactly if none of them failed.
LEMMA LeavingEnds ==
  ASSUME RefineInv, NEW c \in Call, Leave(c)
  PROVE  Promise!Next
<1>1. /\ Left(c) = {} /\ piece[Own(c)] = "over" /\ pc[c] \notin {"idle", "done"}
  BY LeftCounted DEF RefineInv, PoolInv, RemainingCounts, Leave, Waiting
<1>2. \A p \in Pieces(c) : piece[p] \in {"over", "counted"}
  <2>1. \A p \in Pieces(c) : p = Own(c) \/ p \in Tasks(c)
    BY TaskCount DEF Pieces, Tasks, Own
  <2> QED BY <1>1, <2>1 DEF Left
<1>3. Running(c) = {} /\ Taken(c) = Pieces(c)
  BY <1>2 DEF Running, Taken
<1>4. ActiveItems[c] = {} /\ TakenItems[c] = CallItems[c] /\ CallState[c] = "open"
  BY <1>1, <1>3, ChunksCover DEF ActiveItems, TakenItems, CallItems, CallState, ItemsIn
<1>5. Returned(c)' <=> Failed(c) = {}
  <2>1. outcome'[c] = IF exception[c] # NoPiece THEN exception[c]
                      ELSE IF Own(c) \in threw THEN Own(c) ELSE NoPiece
    BY DEF Leave, RefineInv, PoolInv, TypeOK
  <2>2. pc'[c] = "done"
    BY DEF Leave, RefineInv, PoolInv, TypeOK
  <2>3. exception[c] # NoPiece => exception[c] \in Failed(c)
    BY TaskIsPiece DEF RefineInv, PoolInv, Thrown, Failed
  <2>4. exception[c] = NoPiece => Tasks(c) \cap threw = {}
    BY <1>1 DEF RefineInv, PoolInv, Thrown, Left
  <2>5. \A p \in Pieces(c) : p = Own(c) \/ p \in Tasks(c)
    BY TaskCount DEF Pieces, Tasks, Own
  <2>6. Own(c) \in Pieces(c) /\ Own(c) # NoPiece
    BY TaskIsPiece
  <2> QED BY <2>1, <2>2, <2>3, <2>4, <2>5, <2>6 DEF Returned, Failed
<1>6. Failed(c) = {} <=> FailedItems[c] = {}
  BY DEF FailedItems, Failed, ItemsIn, RefineInv, ThrewAtWork
<1>7. CallState' = [CallState EXCEPT ![c] = IF Returned(c)' THEN "returned" ELSE "threw"]
  <2>1. pc' = [pc EXCEPT ![c] = "done"]
    BY DEF Leave
  <2>2. \A d \in Call : d # c => outcome'[d] = outcome[d] /\ pc'[d] = pc[d]
    BY <2>1 DEF Leave, RefineInv, PoolInv, TypeOK
  <2>3. pc'[c] = "done"
    BY <2>1 DEF RefineInv, PoolInv, TypeOK
  <2> QED BY <2>2, <2>3 DEF CallState, Returned
<1>8. UNCHANGED <<TakenItems, ActiveItems, FailedItems>>
  BY DEF Leave, TakenItems, ActiveItems, FailedItems, Taken, Running, Failed, ItemsIn
<1>9. Promise!Return(c) \/ Promise!Throw(c)
  BY <1>4, <1>5, <1>6, <1>7, <1>8 DEF Promise!Return, Promise!Throw
<1> QED BY <1>9 DEF Promise!Next

-----------------------------------------------------------------------------
\* A step that begins or ends no piece and no call.
LEMMA OthersStutter ==
  ASSUME TypeOK, UNCHANGED <<outcome, threw>>,
         \A c \in Call : \/ pc'[c] = pc[c]
                         \/ {pc[c], pc'[c]} \cap {"idle", "done"} = {},
         \A p \in Piece : \/ piece'[p] = piece[p]
                          \/ {piece[p], piece'[p]} = {"new", "queued"}
                          \/ {piece[p], piece'[p]} = {"over", "counted"}
  PROVE  UNCHANGED Promise!forkJoinVars
<1>1. CallState' = CallState
  BY SameState
<1>2. \A c \in Call : Taken(c)' = Taken(c) /\ Running(c)' = Running(c)
  <2> SUFFICES ASSUME NEW c \in Call
               PROVE  Taken(c)' = Taken(c) /\ Running(c)' = Running(c)
    OBVIOUS
  <2>1. \A p \in Pieces(c) : p \in Piece
    BY TaskIsPiece
  <2>2. \A p \in Pieces(c) : /\ piece'[p] = "running" <=> piece[p] = "running"
                             /\ piece'[p] \in {"new", "queued"} <=> piece[p] \in {"new", "queued"}
    BY <2>1
  <2> QED BY <2>2 DEF Taken, Running
<1>3. TakenItems' = TakenItems /\ ActiveItems' = ActiveItems /\ FailedItems' = FailedItems
  BY <1>2 DEF TakenItems, ActiveItems, FailedItems, Failed, ItemsIn
<1> QED BY <1>1, <1>3 DEF Promise!forkJoinVars

LEMMA CallStepRefines ==
  ASSUME RefineInv, NEW c \in Call, CallStep(c)
  PROVE  Promise!Next \/ UNCHANGED Promise!forkJoinVars
<1> USE DEF RefineInv, PoolInv, TypeOK
<1>1. CASE Submit(c)
  <2>1. CallState' = [CallState EXCEPT ![c] = "open"] /\ CallState[c] = "idle"
    <3>1. pc[c] = "idle" /\ pc'[c] \in {"begin", "push"}
      BY <1>1 DEF Submit
    <3>2. \A d \in Call : d # c => pc'[d] = pc[d]
      BY <1>1 DEF Submit
    <3>3. outcome' = outcome
      BY <1>1 DEF Submit
    <3> QED BY <3>1, <3>2, <3>3 DEF CallState, Returned
  <2>2. UNCHANGED <<TakenItems, ActiveItems, FailedItems>>
    BY <1>1 DEF Submit, TakenItems, ActiveItems, FailedItems, Taken, Running, Failed, ItemsIn
  <2>3. Promise!Begin(c)
    BY <2>1, <2>2 DEF Promise!Begin
  <2> QED BY <2>3 DEF Promise!Next
<1>2. CASE Push(c)
  <2>1. \A p \in Tasks(c) : piece[p] = "new" /\ p \in Piece
    BY <1>2, TaskIsPiece DEF Push, Prepared
  <2>2. \A p \in Piece : piece'[p] = IF p \in Tasks(c) THEN "queued" ELSE piece[p]
    BY <1>2 DEF Push
  <2>3. \A d \in Call : pc'[d] = pc[d] \/ {pc[d], pc'[d]} \cap {"idle", "done"} = {}
    BY <1>2 DEF Push
  <2>4. UNCHANGED <<outcome, threw>>
    BY <1>2 DEF Push
  <2> QED BY <2>1, <2>2, <2>3, <2>4, OthersStutter
<1>3. CASE NotifyAll(c) \/ NotifyOne(c) \/ LoadPending(c) \/ Block(c)
  <2>1. \A d \in Call : pc'[d] = pc[d] \/ {pc[d], pc'[d]} \cap {"idle", "done"} = {}
    BY <1>3 DEF NotifyAll, NotifyOne, LoadPending, Block, Waiting
  <2>2. UNCHANGED <<outcome, threw, piece>>
    BY <1>3 DEF NotifyAll, NotifyOne, LoadPending, Block
  <2> QED BY <2>1, <2>2, OthersStutter
<1>4. CASE BeginOwn(c)
  <2>1. /\ Own(c) \in Piece /\ Own(c)[1] = c /\ piece[Own(c)] = "new"
    BY <1>4, TaskIsPiece DEF BeginOwn, Prepared
  <2>2. CallState' = CallState
    <3>1. \A d \in Call : pc'[d] = pc[d] \/ {pc[d], pc'[d]} \cap {"idle", "done"} = {}
      BY <1>4 DEF BeginOwn
    <3> QED BY <1>4, <3>1, SameState DEF BeginOwn
  <2>3. CallState[c] = "open"
    BY <1>4 DEF BeginOwn, CallState
  <2>4. piece' = [piece EXCEPT ![Own(c)] = "running"] /\ threw' = threw
    BY <1>4 DEF BeginOwn
  <2> QED BY <2>1, <2>2, <2>3, <2>4, BeginningTakes
<1>5. CASE Leave(c)
  BY <1>5, LeavingEnds
<1> QED BY <1>1, <1>2, <1>3, <1>4, <1>5 DEF CallStep

LEMMA PieceStepRefines ==
  ASSUME RefineInv, NEW p \in Piece, PieceStep(p)
  PROVE  Promise!Next
<1>1. CallState' = CallState
  BY DEF PieceStep, Finish, Throw, calls, CallState, Returned
<1>2. /\ piece[p] = "running" /\ piece' = [piece EXCEPT ![p] = "over"]
      /\ threw' = threw \/ threw' = threw \cup {p}
  BY DEF PieceStep, Finish, Throw
<1> QED BY <1>1, <1>2, EndingLeaves DEF RefineInv

LEMMA WorkerStepRefines ==
  ASSUME RefineInv, NEW w \in Worker, WorkerStep(w) \/ WakeUnasked(w)
  PROVE  Promise!Next \/ UNCHANGED Promise!forkJoinVars
<1> USE DEF RefineInv, PoolInv, TypeOK
<1>1. CASE Pop(w)
  <2> DEFINE p == Head(queue)
  <2>1. /\ p \in Piece /\ p \in PoolTask /\ piece[p] = "queued"
    <3>1. 1 \in DOMAIN queue /\ p = queue[1]
      BY <1>1 DEF Pop
    <3> QED BY <3>1, TaskIsPiece DEF QueuedOnce
  <2>2. piece' = [piece EXCEPT ![p] = "running"] /\ threw' = threw
    BY <1>1 DEF Pop
  <2>3. CallState' = CallState
    BY <1>1 DEF Pop, calls, CallState, Returned
  <2>4. CallState[p[1]] = "open"
    BY <2>1, OpenCall
  <2> QED BY <2>1, <2>2, <2>3, <2>4, BeginningTakes
<1>2. CASE Sleep(w) \/ Catch(w) \/ NotifyWaiter(w) \/ WakeUnasked(w)
  <2>1. \A d \in Call : pc'[d] = pc[d] \/ {pc[d], pc'[d]} \cap {"idle", "done"} = {}
    BY <1>2 DEF Sleep, Catch, NotifyWaiter, WakeUnasked, calls
  <2>2. UNCHANGED <<outcome, threw, piece>>
    BY <1>2 DEF Sleep, Catch, NotifyWaiter, WakeUnasked, calls
  <2> QED BY <2>1, <2>2, OthersStutter
<1>3. CASE CountOut(w)
  <2>1. PICK p \in Piece : p = worker[w].task /\ piece[p] = "over"
    BY <1>3, TaskIsPiece DEF CountOut, WorkedOnOnce
  <2>2. piece' = [piece EXCEPT ![p] = "counted"]
    BY <1>3, <2>1 DEF CountOut
  <2>3. \A q \in Piece : piece'[q] = IF q = p THEN "counted" ELSE piece[q]
    BY <2>2
  <2>4. UNCHANGED <<outcome, threw, pc>>
    BY <1>3 DEF CountOut
  <2> QED BY <2>1, <2>3, <2>4, OthersStutter
<1> QED BY <1>1, <1>2, <1>3 DEF WorkerStep

LEMMA StepRefines ==
  ASSUME RefineInv, [Next]_vars
  PROVE  [Promise!Next]_(Promise!forkJoinVars)
<1>1. CASE UNCHANGED vars
  BY <1>1, OthersStutter DEF vars, calls, RefineInv, PoolInv
<1> QED
  BY <1>1, CallStepRefines, PieceStepRefines, WorkerStepRefines DEF Next, Finished

LEMMA InitRefines ==
  Init => Promise!Init
<1> SUFFICES ASSUME Init PROVE Promise!Init
  OBVIOUS
<1>1. \A c \in Call : Taken(c) = {} /\ Running(c) = {} /\ Failed(c) = {}
  BY TaskIsPiece DEF Init, Taken, Running, Failed
<1>2. /\ CallState = [c \in Call |-> "idle"]
      /\ TakenItems = [c \in Call |-> {}]
      /\ ActiveItems = [c \in Call |-> {}] /\ FailedItems = [c \in Call |-> {}]
  BY <1>1 DEF Init, CallState, TakenItems, ActiveItems, FailedItems, ItemsIn
<1> QED BY <1>2 DEF Promise!Init

\* StdThreadExecutor does what an executor promises, whatever the pool's size
\* and the nesting of the calls: every index of parallel_for and
\* parallel_for_chunked and both functions of parallel_invoke are worked on
\* exactly once, by nobody after the call has come back, and the call comes back
\* normally exactly if no work of it threw.
THEOREM PoolKeepsItsPromise == Spec => ImplementsForkJoin
<1>1. RefineInv /\ [Next]_vars => [Promise!Next]_(Promise!forkJoinVars)
  BY StepRefines
<1> QED
  BY <1>1, InitRefines, RefineAlways, PTL DEF Spec, ImplementsForkJoin, Promise!Spec
=============================================================================
