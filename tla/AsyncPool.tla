------------------------------ MODULE AsyncPool ------------------------------
(***************************************************************************)
(* The goroutine pool of async/async.go and its task queue                 *)
(* (async/task_queue.go).                                                  *)
(*                                                                         *)
(* Goroutines are interleaved at every shared access that another one can  *)
(* observe: the pool status, the queue, the two worker counters and the    *)
(* lifecycle lock.  A member of Tasks is one call of Execute, Schedule or  *)
(* ScheduleComputable together with the task it submits; since a call      *)
(* starts at most one worker, the worker goroutine is named after it.      *)
(***************************************************************************)
EXTENDS Naturals, Sequences, FiniteSets

CONSTANTS
  Tasks,          \* submissions
  Stoppers,       \* calls of Stop
  Resizers,       \* calls of IncreaseWorkerSizeTo
  ResizeTo,       \* ResizeTo[r]: the size r asks for
  Client,         \* "not called from inside a task of this pool"
  Origin,         \* Origin[x]: the task whose body makes the call x, or Client
  NilResult,      \* ScheduleComputable submissions that panic or return nil
  NumWorkers,     \* initial numMaxWorkers
  MaxPoolSize,    \* maxPoolSize
  MaxOutPolicies, \* the overflow policies a pool may be made with
  ParentCancels,  \* may the context given to NewPoolCtx be cancelled?
  NoOne           \* no goroutine, no task

Policies == {"Wait", "RunOnNewRoutine", "Panic", "Discard", "RunOnCaller",
             "Other"}

Calls == Tasks \cup Stoppers

ASSUME PoolAssumption ==
  /\ IsFiniteSet(Tasks)
  /\ NumWorkers \in Nat \ {0}
  /\ MaxPoolSize \in Nat
  /\ ResizeTo \in [Resizers -> Nat]
  /\ Origin \in [Calls -> Tasks \cup {Client}]
  /\ NilResult \subseteq Tasks
  /\ MaxOutPolicies \subseteq Policies
  /\ ParentCancels \in BOOLEAN
  /\ Client \notin Tasks
  /\ NoOne \notin Calls

VARIABLES
  maxOutPolicy,
  status,                 \* IDLE .. TERMINATED
  cancelled,              \* ctx.Err() # nil
  tasks,                  \* the FIFO task queue
  numRunningWorkers,
  numMaxWorkers,
  numWorkerInstantiated,
  stopWaitGroup,
  readers, writer,        \* lifecycleMu: who reads, who writes or waits to
  call,                   \* program counter of each schedule call
  started,                \* its local of that name
  worker,                 \* program counter of the worker each call started
  current,                \* the task each worker executes
  body,                   \* where each submitted task is
  stop,                   \* program counter of each Stop call
  resize,                 \* program counter of each IncreaseWorkerSizeTo call
  crashed                 \* an unrecovered panic has ended the process

lockVars    == <<readers, writer>>
workerVars  == <<worker, current>>
counterVars == <<numRunningWorkers, numMaxWorkers, numWorkerInstantiated,
                 stopWaitGroup>>
vars == <<maxOutPolicy, status, cancelled, tasks, counterVars, lockVars, call,
          started, workerVars, body, stop, resize, crashed>>

IDLE        == 0
RUNNING     == 1
TERMINATING == 2
TERMINATED  == 3

CallPC   == {"idle", "status", "start", "size", "full", "add", "try", "load",
             "cas", "spawn", "extra", "inline", "returned", "panicked"}
WorkerPC == {"none", "start", "loop", "get", "run", "exit", "leave", "gone"}
StopPC   == {"idle", "drain", "wait", "returned"}
ResizePC == {"idle", "store", "returned"}
Places   == {"none", "queued", "onWorker", "onCaller", "onGoroutine",
             "finished", "aborted"}

Init ==
  /\ maxOutPolicy \in MaxOutPolicies
  /\ status = IDLE
  /\ cancelled = FALSE
  /\ tasks = << >>
  /\ numRunningWorkers = 0
  /\ numMaxWorkers = NumWorkers
  /\ numWorkerInstantiated = 0
  /\ stopWaitGroup = 0
  /\ readers = {}
  /\ writer = NoOne
  /\ call = [t \in Tasks |-> "idle"]
  /\ started = [t \in Tasks |-> 0]
  /\ worker = [t \in Tasks |-> "none"]
  /\ current = [t \in Tasks |-> NoOne]
  /\ body = [t \in Tasks |-> "none"]
  /\ stop = [s \in Stoppers |-> "idle"]
  /\ resize = [r \in Resizers |-> "idle"]
  /\ crashed = FALSE

-----------------------------------------------------------------------------
(* The goroutines' control *)

CallAt(t, pc)   == ~crashed /\ call[t] = pc
WorkerAt(w, pc) == ~crashed /\ worker[w] = pc
StopAt(s, pc)   == ~crashed /\ stop[s] = pc
Goto(t, pc)     == call' = [call EXCEPT ![t] = pc]
WorkerGoto(w, pc) == worker' = [worker EXCEPT ![w] = pc]
Place(t, where) == body' = [body EXCEPT ![t] = where]

Executing(t) == body[t] \in {"onWorker", "onCaller", "onGoroutine"}

\* A nested call is made while the body of its origin runs ...
OriginReady(x) == Origin[x] # Client => Executing(Origin[x])

\* ... and that body ends only once the calls it makes have come back.
ChildrenBack(t) ==
  /\ \A u \in Tasks : Origin[u] = t => call[u] \in {"returned", "panicked"}
  /\ \A s \in Stoppers : Origin[s] = t => stop[s] = "returned"

\* How a body ends.  safeRunVoid recovers the task's own panic and the promise
\* opens, except that StatefulBarrier.OpenWith(nil) panics after the recovery.
Outcome(t) == IF t \in NilResult THEN "aborted" ELSE "finished"

\* sync.RWMutex: a waiting writer keeps new readers out.
LockReadUnregistered(t) == writer = NoOne /\ UNCHANGED readers  \* mutant
LockRead(t)   == writer = NoOne /\ readers' = readers \cup {t}
UnlockRead(t) == readers' = readers \ {t}
LockWrite(s)  == writer = NoOne /\ writer' = s

\* schedule is left, by a return or a panic: the deferred RUnlock runs.
Leave(t, how) == Goto(t, how) /\ UnlockRead(t)

NumPendingTasks == IF status = RUNNING THEN Len(tasks) ELSE 0
IsPoolSizeExceeded == NumPendingTasks >= MaxPoolSize

-----------------------------------------------------------------------------
(* schedule(task) *)

BeginSchedule(t) ==
  /\ CallAt(t, "idle")
  /\ OriginReady(t)
  /\ LockRead(t)
  /\ Goto(t, "status")
  /\ UNCHANGED <<maxOutPolicy, status, cancelled, tasks, counterVars, writer,
                 started, workerVars, body, stop, resize, crashed>>

CheckStatus(t) ==
  /\ CallAt(t, "status")
  /\ \/ status = IDLE /\ Goto(t, "start") /\ UNCHANGED readers
     \/ status = RUNNING /\ Goto(t, "size") /\ UNCHANGED readers
     \/ status > RUNNING /\ Leave(t, "panicked")
  /\ UNCHANGED <<maxOutPolicy, status, cancelled, tasks, counterVars, writer,
                 started, workerVars, body, stop, resize, crashed>>

Start(t) ==
  /\ CallAt(t, "start")
  /\ status' = IF status > IDLE THEN status ELSE RUNNING
  /\ Goto(t, "size")
  /\ UNCHANGED <<maxOutPolicy, cancelled, tasks, counterVars, lockVars,
                 started, workerVars, body, stop, resize, crashed>>

CheckSize(t) ==
  /\ CallAt(t, "size")
  /\ Goto(t, IF IsPoolSizeExceeded /\ maxOutPolicy # "Wait" THEN "full" ELSE "add")
  /\ UNCHANGED <<maxOutPolicy, status, cancelled, tasks, counterVars, lockVars,
                 started, workerVars, body, stop, resize, crashed>>

EnqueueFirst(t) == tasks' = <<t>> \o tasks /\ Place(t, "queued")  \* mutant

\* taskQueue.addTask, one critical section of the queue's mutex
Enqueue(t) == tasks' = Append(tasks, t) /\ Place(t, "queued")

HandlePoolSizeExceeded(t) ==
  /\ CallAt(t, "full")
  /\ \/ /\ maxOutPolicy = "RunOnNewRoutine"
        /\ Place(t, "onGoroutine") /\ Leave(t, "returned") /\ UNCHANGED tasks
     \/ /\ maxOutPolicy = "Panic"
        /\ Leave(t, "panicked") /\ UNCHANGED <<tasks, body>>
     \/ /\ maxOutPolicy = "Discard"
        /\ Leave(t, "returned") /\ UNCHANGED <<tasks, body>>
     \/ /\ maxOutPolicy = "RunOnCaller"
        /\ Place(t, "onCaller") /\ Goto(t, "inline")
        /\ UNCHANGED <<tasks, readers>>
     \/ /\ maxOutPolicy = "Other"
        /\ Enqueue(t) /\ Goto(t, "extra") /\ UNCHANGED readers
  /\ UNCHANGED <<maxOutPolicy, status, cancelled, counterVars, writer, started,
                 workerVars, stop, resize, crashed>>

AddTask(t) ==
  /\ CallAt(t, "add")
  /\ Enqueue(t)
  /\ Goto(t, "try")
  /\ UNCHANGED <<maxOutPolicy, status, cancelled, counterVars, lockVars,
                 started, workerVars, stop, resize, crashed>>

\* Mutants: the last pending task starts no worker; the worker limit is taken
\* for inclusive; a plain store for the swap; a lost swap is tried unreloaded.
TryAddWorkerOffByOne(t) ==
  /\ CallAt(t, "try")
  /\ IF status > RUNNING \/ NumPendingTasks <= 1
       THEN Leave(t, "returned")
       ELSE Goto(t, "load") /\ UNCHANGED readers
  /\ UNCHANGED <<maxOutPolicy, status, cancelled, tasks, counterVars, writer,
                 started, workerVars, body, stop, resize, crashed>>

LoadStartedInclusive(t) ==
  /\ CallAt(t, "load")
  /\ started' = [started EXCEPT ![t] = numRunningWorkers]
  /\ IF numRunningWorkers > numMaxWorkers
       THEN Leave(t, "returned")
       ELSE Goto(t, "cas") /\ UNCHANGED readers
  /\ UNCHANGED <<maxOutPolicy, status, cancelled, tasks, counterVars, writer,
                 workerVars, body, stop, resize, crashed>>

StoreWithoutCompare(t) ==
  /\ CallAt(t, "cas")
  /\ numRunningWorkers' = started[t] + 1
  /\ Goto(t, "spawn")
  /\ UNCHANGED <<maxOutPolicy, status, cancelled, tasks, numMaxWorkers,
                 numWorkerInstantiated, stopWaitGroup, lockVars, started,
                 workerVars, body, stop, resize, crashed>>

SwapWithoutReload(t) ==
  /\ CallAt(t, "cas")
  /\ IF numRunningWorkers = started[t]
       THEN /\ numRunningWorkers' = started[t] + 1
            /\ Goto(t, "spawn")
       ELSE Goto(t, "cas") /\ UNCHANGED numRunningWorkers
  /\ UNCHANGED <<maxOutPolicy, status, cancelled, tasks, numMaxWorkers,
                 numWorkerInstantiated, stopWaitGroup, lockVars, started,
                 workerVars, body, stop, resize, crashed>>

\* tryAddAndRunWorker: its two early returns ...
TryAddWorker(t) ==
  /\ CallAt(t, "try")
  /\ IF status > RUNNING \/ NumPendingTasks = 0
       THEN Leave(t, "returned")
       ELSE Goto(t, "load") /\ UNCHANGED readers
  /\ UNCHANGED <<maxOutPolicy, status, cancelled, tasks, counterVars, writer,
                 started, workerVars, body, stop, resize, crashed>>

\* ... the loads of the retry loop ...
LoadStarted(t) ==
  /\ CallAt(t, "load")
  /\ started' = [started EXCEPT ![t] = numRunningWorkers]
  /\ IF numRunningWorkers >= numMaxWorkers
       THEN Leave(t, "returned")
       ELSE Goto(t, "cas") /\ UNCHANGED readers
  /\ UNCHANGED <<maxOutPolicy, status, cancelled, tasks, counterVars, writer,
                 workerVars, body, stop, resize, crashed>>

\* ... the compare-and-swap ...
CompareAndSwap(t) ==
  /\ CallAt(t, "cas")
  /\ IF numRunningWorkers = started[t]
       THEN /\ numRunningWorkers' = started[t] + 1
            /\ Goto(t, "spawn")
       ELSE Goto(t, "load") /\ UNCHANGED numRunningWorkers
  /\ UNCHANGED <<maxOutPolicy, status, cancelled, tasks, numMaxWorkers,
                 numWorkerInstantiated, stopWaitGroup, lockVars, started,
                 workerVars, body, stop, resize, crashed>>

\* ... and the worker's start, counted in the wait group before it runs.
SpawnWorker(t) ==
  /\ CallAt(t, "spawn")
  /\ stopWaitGroup' = stopWaitGroup + 1
  /\ WorkerGoto(t, "start")
  /\ Leave(t, "returned")
  /\ UNCHANGED <<maxOutPolicy, status, cancelled, tasks, numRunningWorkers,
                 numMaxWorkers, numWorkerInstantiated, writer, started,
                 current, body, stop, resize, crashed>>

\* addAndRunWorker: a worker beyond numMaxWorkers, without any check
AddExtraWorker(t) ==
  /\ CallAt(t, "extra")
  /\ stopWaitGroup' = stopWaitGroup + 1
  /\ numRunningWorkers' = numRunningWorkers + 1
  /\ WorkerGoto(t, "start")
  /\ Leave(t, "returned")
  /\ UNCHANGED <<maxOutPolicy, status, cancelled, tasks, numMaxWorkers,
                 numWorkerInstantiated, writer, started, current, body, stop,
                 resize, crashed>>

\* MaxOutPolicyRunOnCaller: the body ends inside schedule, the lock held.  The
\* panic of OpenWith(nil) reaches the caller of ScheduleComputable.
FinishOnCaller(t) ==
  /\ CallAt(t, "inline")
  /\ ChildrenBack(t)
  /\ Place(t, Outcome(t))
  /\ Leave(t, IF t \in NilResult THEN "panicked" ELSE "returned")
  /\ UNCHANGED <<maxOutPolicy, status, cancelled, tasks, counterVars, writer,
                 started, workerVars, stop, resize, crashed>>

\* MaxOutPolicyRunOnNewRoutine: nothing above the body recovers.
FinishOnGoroutine(t) ==
  /\ ~crashed /\ body[t] = "onGoroutine"
  /\ ChildrenBack(t)
  /\ Place(t, Outcome(t))
  /\ crashed' = (t \in NilResult)
  /\ UNCHANGED <<maxOutPolicy, status, cancelled, tasks, counterVars, lockVars,
                 call, started, workerVars, stop, resize>>

-----------------------------------------------------------------------------
(* runWorker *)

WorkerStart(w) ==
  /\ WorkerAt(w, "start")
  /\ numWorkerInstantiated' = numWorkerInstantiated + 1
  /\ WorkerGoto(w, "loop")
  /\ UNCHANGED <<maxOutPolicy, status, cancelled, tasks, numRunningWorkers,
                 numMaxWorkers, stopWaitGroup, lockVars, call, started,
                 current, body, stop, resize, crashed>>

CheckContext(w) ==
  /\ WorkerAt(w, "loop")
  /\ WorkerGoto(w, IF cancelled THEN "exit" ELSE "get")
  /\ UNCHANGED <<maxOutPolicy, status, cancelled, tasks, counterVars, lockVars,
                 call, started, current, body, stop, resize, crashed>>

\* Mutant: the head is read and left in the queue.
GetTaskPeek(w) ==
  /\ WorkerAt(w, "get")
  /\ \/ /\ tasks = << >>
        /\ WorkerGoto(w, "exit")
        /\ UNCHANGED <<current, body>>
     \/ /\ tasks # << >>
        /\ current' = [current EXCEPT ![w] = Head(tasks)]
        /\ Place(Head(tasks), "onWorker")
        /\ WorkerGoto(w, "run")
  /\ UNCHANGED <<maxOutPolicy, status, cancelled, tasks, counterVars, lockVars,
                 call, started, stop, resize, crashed>>

\* taskQueue.getTask, one critical section; nil ends the worker
GetTask(w) ==
  /\ WorkerAt(w, "get")
  /\ \/ /\ tasks = << >>
        /\ WorkerGoto(w, "exit")
        /\ UNCHANGED <<tasks, current, body>>
     \/ /\ tasks # << >>
        /\ current' = [current EXCEPT ![w] = Head(tasks)]
        /\ Place(Head(tasks), "onWorker")
        /\ tasks' = Tail(tasks)
        /\ WorkerGoto(w, "run")
  /\ UNCHANGED <<maxOutPolicy, status, cancelled, counterVars, lockVars, call,
                 started, stop, resize, crashed>>

FinishTask(w) ==
  /\ WorkerAt(w, "run")
  /\ ChildrenBack(current[w])
  /\ Place(current[w], Outcome(current[w]))
  /\ crashed' = (current[w] \in NilResult)
  /\ current' = [current EXCEPT ![w] = NoOne]
  /\ WorkerGoto(w, "loop")
  /\ UNCHANGED <<maxOutPolicy, status, cancelled, tasks, counterVars, lockVars,
                 call, started, stop, resize>>

\* Mutants: a worker decrements twice; it leaves without wg.Done().
DecrementTwice(w) ==
  /\ WorkerAt(w, "exit")
  /\ numRunningWorkers' = numRunningWorkers - 2
  /\ WorkerGoto(w, "leave")
  /\ UNCHANGED <<maxOutPolicy, status, cancelled, tasks, numMaxWorkers,
                 numWorkerInstantiated, stopWaitGroup, lockVars, call, started,
                 current, body, stop, resize, crashed>>

LeaveWithoutDone(w) ==
  /\ WorkerAt(w, "leave")
  /\ WorkerGoto(w, "gone")
  /\ UNCHANGED <<maxOutPolicy, status, cancelled, tasks, counterVars, lockVars,
                 call, started, current, body, stop, resize, crashed>>

DecrementWorkers(w) ==
  /\ WorkerAt(w, "exit")
  /\ numRunningWorkers' = numRunningWorkers - 1
  /\ WorkerGoto(w, "leave")
  /\ UNCHANGED <<maxOutPolicy, status, cancelled, tasks, numMaxWorkers,
                 numWorkerInstantiated, stopWaitGroup, lockVars, call, started,
                 current, body, stop, resize, crashed>>

LeaveWaitGroup(w) ==
  /\ WorkerAt(w, "leave")
  /\ stopWaitGroup' = stopWaitGroup - 1
  /\ WorkerGoto(w, "gone")
  /\ UNCHANGED <<maxOutPolicy, status, cancelled, tasks, numRunningWorkers,
                 numMaxWorkers, numWorkerInstantiated, lockVars, call, started,
                 current, body, stop, resize, crashed>>

-----------------------------------------------------------------------------
(* Stop, IncreaseWorkerSizeTo, and the context the pool was given *)

BeginStop(s) ==
  /\ StopAt(s, "idle")
  /\ OriginReady(s)
  /\ LockWrite(s)
  /\ stop' = [stop EXCEPT ![s] = "drain"]
  /\ UNCHANGED <<maxOutPolicy, status, cancelled, tasks, counterVars, readers,
                 call, started, workerVars, body, resize, crashed>>

\* The readers have drained: cancel the workers, or return if never started.
StopWorkers(s) ==
  /\ StopAt(s, "drain")
  /\ readers = {}
  /\ IF status = IDLE
       THEN /\ stop' = [stop EXCEPT ![s] = "returned"]
            /\ writer' = NoOne
            /\ UNCHANGED <<maxOutPolicy, status, cancelled>>
       ELSE /\ stop' = [stop EXCEPT ![s] = "wait"]
            /\ cancelled' = TRUE
            /\ status' = TERMINATING
            /\ UNCHANGED writer
  /\ UNCHANGED <<maxOutPolicy, tasks, counterVars, readers, call, started,
                 workerVars, body, resize, crashed>>

\* Mutant: Stop does not wait for the workers.
FinishStopAtOnce(s) ==
  /\ StopAt(s, "wait")
  /\ status' = TERMINATED
  /\ writer' = NoOne
  /\ stop' = [stop EXCEPT ![s] = "returned"]
  /\ UNCHANGED <<maxOutPolicy, cancelled, tasks, counterVars, readers, call,
                 started, workerVars, body, resize, crashed>>

\* stopWaitGroup.Wait() returns.
FinishStop(s) ==
  /\ StopAt(s, "wait")
  /\ stopWaitGroup = 0
  /\ status' = TERMINATED
  /\ writer' = NoOne
  /\ stop' = [stop EXCEPT ![s] = "returned"]
  /\ UNCHANGED <<maxOutPolicy, cancelled, tasks, counterVars, readers, call,
                 started, workerVars, body, resize, crashed>>

CheckIncrease(r) ==
  /\ ~crashed /\ resize[r] = "idle"
  /\ resize' = [resize EXCEPT ![r] =
                  IF ResizeTo[r] > numMaxWorkers THEN "store" ELSE "returned"]
  /\ UNCHANGED <<maxOutPolicy, status, cancelled, tasks, counterVars, lockVars,
                 call, started, workerVars, body, stop, crashed>>

StoreIncrease(r) ==
  /\ ~crashed /\ resize[r] = "store"
  /\ numMaxWorkers' = ResizeTo[r]
  /\ resize' = [resize EXCEPT ![r] = "returned"]
  /\ UNCHANGED <<maxOutPolicy, status, cancelled, tasks, numRunningWorkers,
                 numWorkerInstantiated, stopWaitGroup, lockVars, call, started,
                 workerVars, body, stop, crashed>>

CancelParent ==
  /\ ParentCancels /\ ~crashed /\ ~cancelled
  /\ cancelled' = TRUE
  /\ UNCHANGED <<maxOutPolicy, status, tasks, counterVars, lockVars, call,
                 started, workerVars, body, stop, resize, crashed>>

-----------------------------------------------------------------------------

\* What a schedule call does on its own once it holds the lock.
ScheduleStep(t) ==
  \/ CheckStatus(t) \/ Start(t) \/ CheckSize(t) \/ HandlePoolSizeExceeded(t)
  \/ AddTask(t) \/ TryAddWorker(t) \/ LoadStarted(t) \/ CompareAndSwap(t)
  \/ SpawnWorker(t) \/ AddExtraWorker(t) \/ FinishOnCaller(t)

WorkerStep(w) ==
  \/ WorkerStart(w) \/ CheckContext(w) \/ GetTask(w) \/ FinishTask(w)
  \/ DecrementWorkers(w) \/ LeaveWaitGroup(w)

Next ==
  \/ \E t \in Tasks : \/ BeginSchedule(t) \/ ScheduleStep(t)
                      \/ FinishOnGoroutine(t) \/ WorkerStep(t)
  \/ \E s \in Stoppers : BeginStop(s) \/ StopWorkers(s) \/ FinishStop(s)
  \/ \E r \in Resizers : CheckIncrease(r) \/ StoreIncrease(r)
  \/ CancelParent

\* The Go scheduler runs every goroutine that can run, the mutexes do not
\* starve, and task bodies end.  A client need not call; a body makes its calls.
Fairness ==
  /\ \A t \in Tasks :
       /\ WF_vars(ScheduleStep(t))
       /\ WF_vars(FinishOnGoroutine(t))
       /\ WF_vars(WorkerStep(t))
       /\ Origin[t] # Client => WF_vars(BeginSchedule(t))
  /\ \A s \in Stoppers :
       /\ WF_vars(StopWorkers(s) \/ FinishStop(s))
       /\ Origin[s] # Client => WF_vars(BeginStop(s))

Spec == Init /\ [][Next]_vars
FairSpec == Spec /\ Fairness
-----------------------------------------------------------------------------
(* Properties *)

\* Every variable has its type: the control states, the counters of
\* async.go:60-75 as naturals, the lock held by calls of this pool.
TypeOK ==
  /\ maxOutPolicy \in Policies
  /\ status \in IDLE .. TERMINATED
  /\ cancelled \in BOOLEAN
  /\ tasks \in Seq(Tasks)
  /\ numRunningWorkers \in Nat
  /\ numMaxWorkers \in Nat
  /\ numWorkerInstantiated \in Nat
  /\ stopWaitGroup \in Nat
  /\ readers \in SUBSET Tasks
  /\ writer \in Stoppers \cup {NoOne}
  /\ call \in [Tasks -> CallPC]
  /\ started \in [Tasks -> Nat]
  /\ worker \in [Tasks -> WorkerPC]
  /\ current \in [Tasks -> Tasks \cup {NoOne}]
  /\ body \in [Tasks -> Places]
  /\ stop \in [Stoppers -> StopPC]
  /\ resize \in [Resizers -> ResizePC]
  /\ crashed \in BOOLEAN

\* The calls whose worker numRunningWorkers and stopWaitGroup count.
Counted == {t \in Tasks : call[t] = "spawn" \/
                          worker[t] \in {"start", "loop", "get", "run", "exit"}}
Grouped == {t \in Tasks : worker[t] \notin {"none", "gone"}}
Busy    == {t \in Tasks : worker[t] = "run"}

\* The two counters count goroutines: numRunningWorkers those started and not
\* yet decremented, the wait group those Stop has to wait for; neither leaks
\* or goes negative over any interleaving of spawns, exits and failed swaps.
WorkerAccounting ==
  /\ numRunningWorkers = Cardinality(Counted)
  /\ stopWaitGroup = Cardinality(Grouped)

\* Concurrent calls of tryAddAndRunWorker never start a worker too many: the
\* tasks running at once, and the counter, stay within numMaxWorkers (so a
\* serial pool runs one task at a time).  Two racing IncreaseWorkerSizeTo can
\* lower the maximum, and a policy outside the five constants starts workers
\* without looking, so neither is covered.
WorkersWithinMax ==
  (maxOutPolicy # "Other" /\ \A q, r \in Resizers : q = r) =>
    /\ numRunningWorkers <= numMaxWorkers
    /\ Cardinality(Busy) <= numMaxWorkers

\* The calls that have passed the status check of schedule.
Admitted == {t \in Tasks : call[t] \in {"start", "size", "full", "add", "try",
                            "load", "cas", "spawn", "extra", "inline"}}

\* Stop's promise: once the pool is TERMINATED no worker goroutine is left, no
\* task runs on a worker or inside schedule, and no call that was admitted
\* earlier is still on its way to the queue.
StoppedIsQuiet ==
  status = TERMINATED => /\ Grouped = {} /\ numRunningWorkers = 0
                         /\ Admitted = {}
                         /\ \A t \in Tasks : body[t] \notin {"onWorker", "onCaller"}

\* A task is in one place: the queue holds each queued task once, and two
\* workers never run the same task.
TaskOwnership ==
  /\ \A i, j \in DOMAIN tasks : tasks[i] = tasks[j] => i = j
  /\ \A t \in Tasks : body[t] = "queued" <=> \E i \in DOMAIN tasks : tasks[i] = t
  /\ \A w \in Busy : body[current[w]] = "onWorker"
  /\ \A v, w \in Busy : current[v] = current[w] => v = w

\* From the moment Stop has taken the pool over it never runs again: the status
\* stays above RUNNING, no task is accepted in any way and no worker starts.
NoWorkAfterStop ==
  [][status > RUNNING =>
       /\ status' > RUNNING
       /\ \A t \in Tasks : body[t] = "none" => body'[t] = "none"
       /\ \A t \in Tasks : worker[t] = "none" => worker'[t] = "none"]_vars

\* A task the pool has queued runs to its end, whatever the workers do at the
\* moment it is queued, unless the pool's context ends first.
QueuedTaskEnds ==
  \A t \in Tasks : body[t] = "queued" ~> \/ body[t] \in {"finished", "aborted"}
                                         \/ cancelled

\* Stop comes back.
StopReturns == \A s \in Stoppers : stop[s] = "drain" ~> stop[s] = "returned"

\* Once admitted to the lock, a call of schedule returns or panics.
ScheduleReturns ==
  \A t \in Tasks : call[t] = "status" ~> call[t] \in {"returned", "panicked"}

-----------------------------------------------------------------------------
(* The pool implements TaskPool, of any capacity its worker limit respects. *)

CONSTANT Capacity

\* The worker limit keeps to Capacity where there is a limit: no policy starts
\* workers past it, and one IncreaseWorkerSizeTo at most does not undo another's.
\* Otherwise no more tasks run than there are.
LimitKeepsTo(n) ==
  /\ "Other" \notin MaxOutPolicies /\ \A q, r \in Resizers : q = r
  /\ NumWorkers <= n /\ \A r \in Resizers : ResizeTo[r] <= n

ASSUME CapacityAssumption ==
  Capacity \in Nat /\ (LimitKeepsTo(Capacity) \/ Cardinality(Tasks) <= Capacity)

Pool == INSTANCE TaskPool WITH
  phase    <- CASE status = IDLE        -> "idle"
                [] status = RUNNING     -> "open"
                [] status = TERMINATING -> "closing"
                [] status = TERMINATED  -> "closed",
  accepted <- {t \in Tasks : body[t] # "none"},
  waiting  <- tasks,
  serving  <- {t \in Tasks : body[t] = "onWorker"}

\* Every behaviour of the code is one of the abstract pool.
ImplementsTaskPool == Pool!Spec
=============================================================================
