--------------------------- MODULE AsyncPoolProofs ---------------------------
(***************************************************************************)
(* Theorems about AsyncPool, for any number of calls, any worker limit and *)
(* any policy.  Three invariants are proved one on top of the other:       *)
(* CountInv (types and counters), LockInv (what a stopped pool excludes)   *)
(* and OwnInv (where each task is).                                        *)
(***************************************************************************)
EXTENDS AsyncPool, FiniteSetTheorems, TLAPS

(* CountInv: a call starts one worker at most, and only as its last act. *)
StartedOnce == \A t \in Tasks : worker[t] # "none" => call[t] = "returned"

(* A worker that runs has a task to run. *)
HasTask == \A w \in Tasks : worker[w] = "run" => current[w] \in Tasks

CountInv == TypeOK /\ WorkerAccounting /\ StartedOnce /\ HasTask

\* The sets the counters stand for are finite: only calls of the pool count.
LEMMA CountedFinite ==
  /\ IsFiniteSet(Counted) /\ Cardinality(Counted) \in Nat
  /\ IsFiniteSet(Grouped) /\ Cardinality(Grouped) \in Nat
<1>1. Counted \in SUBSET Tasks /\ Grouped \in SUBSET Tasks
  BY DEF Counted, Grouped
<1>2. IsFiniteSet(Tasks)
  BY PoolAssumption DEF PoolAssumption
<1>3. IsFiniteSet(Counted) /\ IsFiniteSet(Grouped)
  BY <1>1, <1>2, FS_Subset
<1> QED
  BY <1>3, FS_CardinalityType

\* The initial state of newAsyncPool has no worker and counts none.
LEMMA CountInit == Init => CountInv
<1> SUFFICES ASSUME Init PROVE CountInv
  OBVIOUS
<1>1. TypeOK
  <2>1. /\ call \in [Tasks -> CallPC] /\ worker \in [Tasks -> WorkerPC]
        /\ body \in [Tasks -> Places] /\ stop \in [Stoppers -> StopPC]
        /\ resize \in [Resizers -> ResizePC]
    BY DEF Init, CallPC, WorkerPC, Places, StopPC, ResizePC
  <2>2. /\ started \in [Tasks -> Nat]
        /\ current \in [Tasks -> Tasks \cup {NoOne}]
    BY DEF Init
  <2>3. /\ status \in IDLE .. TERMINATED /\ numMaxWorkers \in Nat
        /\ numRunningWorkers \in Nat /\ numWorkerInstantiated \in Nat
        /\ stopWaitGroup \in Nat
    BY PoolAssumption DEF Init, PoolAssumption, IDLE, TERMINATED
  <2>4. tasks \in Seq(Tasks) /\ readers \in SUBSET Tasks
        /\ writer \in Stoppers \cup {NoOne}
    BY DEF Init
  <2>5. cancelled \in BOOLEAN /\ crashed \in BOOLEAN /\ maxOutPolicy \in Policies
    BY PoolAssumption DEF Init, PoolAssumption
  <2> QED
    BY <2>1, <2>2, <2>3, <2>4, <2>5 DEF TypeOK
<1>2. Counted = {} /\ Grouped = {}
  BY DEF Init, Counted, Grouped
<1>3. WorkerAccounting
  BY <1>2, FS_EmptySet DEF Init, WorkerAccounting
<1>4. StartedOnce /\ HasTask
  BY DEF Init, StartedOnce, HasTask
<1> QED
  BY <1>1, <1>3, <1>4 DEF CountInv

\* A compare-and-swap that succeeds adds the caller's worker to the count; so
\* does addAndRunWorker.
LEMMA CountJoins ==
  ASSUME NEW t \in Tasks, t \notin Counted, Counted' = Counted \cup {t},
         numRunningWorkers = Cardinality(Counted),
         numRunningWorkers' = numRunningWorkers + 1
  PROVE  numRunningWorkers' = Cardinality(Counted')
BY CountedFinite, FS_AddElement

\* decrementNumStartedWorkers takes one counted worker away.
LEMMA CountLeaves ==
  ASSUME NEW w \in Tasks, w \in Counted, Counted' = Counted \ {w},
         numRunningWorkers = Cardinality(Counted),
         numRunningWorkers' = numRunningWorkers - 1
  PROVE  numRunningWorkers' = Cardinality(Counted')
BY CountedFinite, FS_RemoveElement

\* stopWaitGroup.Add(1) and Done() do the same to the wait group.
LEMMA GroupJoins ==
  ASSUME NEW t \in Tasks, t \notin Grouped, Grouped' = Grouped \cup {t},
         stopWaitGroup = Cardinality(Grouped),
         stopWaitGroup' = stopWaitGroup + 1
  PROVE  stopWaitGroup' = Cardinality(Grouped')
BY CountedFinite, FS_AddElement

LEMMA GroupLeaves ==
  ASSUME NEW w \in Tasks, w \in Grouped, Grouped' = Grouped \ {w},
         stopWaitGroup = Cardinality(Grouped),
         stopWaitGroup' = stopWaitGroup - 1
  PROVE  stopWaitGroup' = Cardinality(Grouped')
BY CountedFinite, FS_RemoveElement

-----------------------------------------------------------------------------
\* Every action of the code keeps the two counters equal to what they count.
LEMMA CountStep == CountInv /\ [Next]_vars => WorkerAccounting'
<1> SUFFICES ASSUME CountInv, [Next]_vars PROVE WorkerAccounting'
  OBVIOUS
<1> USE DEF CountInv
<1>idle. CASE Counted' = Counted /\ Grouped' = Grouped /\
             UNCHANGED <<numRunningWorkers, stopWaitGroup>>
  BY <1>idle DEF WorkerAccounting
<1>1. ASSUME NEW t \in Tasks, BeginSchedule(t) \/ FinishOnGoroutine(t)
      PROVE WorkerAccounting'
  <2>1. Counted' = Counted /\ Grouped' = Grouped
    BY <1>1 DEF BeginSchedule, FinishOnGoroutine, Goto, CallAt, Counted, Grouped,
       workerVars, TypeOK
  <2> QED
    BY <1>1, <2>1, <1>idle DEF BeginSchedule, FinishOnGoroutine, counterVars
<1>2. ASSUME NEW t \in Tasks, ScheduleStep(t) PROVE WorkerAccounting'
  <2>1. CASE CheckStatus(t) \/ Start(t) \/ CheckSize(t) \/ AddTask(t)
             \/ HandlePoolSizeExceeded(t) \/ TryAddWorker(t) \/ LoadStarted(t)
             \/ FinishOnCaller(t)
    <3>1. Counted' = Counted /\ Grouped' = Grouped
      BY <2>1 DEF CheckStatus, Start, CheckSize, HandlePoolSizeExceeded, AddTask,
         TryAddWorker, LoadStarted, FinishOnCaller, Goto, Leave, CallAt, Counted,
         Grouped, workerVars, TypeOK
    <3> QED
      BY <2>1, <3>1, <1>idle DEF CheckStatus, Start, CheckSize, AddTask,
         HandlePoolSizeExceeded, TryAddWorker, LoadStarted, FinishOnCaller,
         counterVars
  <2>2. CASE CompareAndSwap(t)
    <3>1. worker[t] = "none" /\ call[t] = "cas"
      BY <2>2 DEF CompareAndSwap, CallAt, StartedOnce
    <3>2. Grouped' = Grouped /\ UNCHANGED stopWaitGroup
      BY <2>2 DEF CompareAndSwap, workerVars, Grouped
    <3>3. CASE numRunningWorkers = started[t]
      <4>1. t \notin Counted /\ Counted' = Counted \cup {t}
        BY <2>2, <3>1, <3>3 DEF CompareAndSwap, Goto, Counted, workerVars, TypeOK
      <4>2. numRunningWorkers' = numRunningWorkers + 1
        BY <2>2, <3>3 DEF CompareAndSwap
      <4> QED
        BY <3>2, <4>1, <4>2, CountJoins DEF WorkerAccounting
    <3>4. CASE numRunningWorkers # started[t]
      <4>1. Counted' = Counted /\ UNCHANGED numRunningWorkers
        BY <2>2, <3>1, <3>4 DEF CompareAndSwap, Goto, Counted, workerVars, TypeOK
      <4> QED
        BY <3>2, <4>1, <1>idle
    <3> QED
      BY <3>3, <3>4
  <2>3. CASE SpawnWorker(t)
    <3>1. worker[t] = "none" /\ call[t] = "spawn"
      BY <2>3 DEF SpawnWorker, CallAt, StartedOnce
    <3>2. Counted' = Counted /\ UNCHANGED numRunningWorkers
      BY <2>3, <3>1 DEF SpawnWorker, WorkerGoto, Leave, Goto, Counted, TypeOK
    <3>3. t \notin Grouped /\ Grouped' = Grouped \cup {t}
      BY <2>3, <3>1 DEF SpawnWorker, WorkerGoto, Grouped, TypeOK
    <3> QED
      BY <2>3, <3>2, <3>3, GroupJoins DEF WorkerAccounting, SpawnWorker
  <2>4. CASE AddExtraWorker(t)
    <3>1. worker[t] = "none" /\ call[t] = "extra"
      BY <2>4 DEF AddExtraWorker, CallAt, StartedOnce
    <3>2. t \notin Counted /\ Counted' = Counted \cup {t}
      BY <2>4, <3>1 DEF AddExtraWorker, WorkerGoto, Leave, Goto, Counted, TypeOK
    <3>3. t \notin Grouped /\ Grouped' = Grouped \cup {t}
      BY <2>4, <3>1 DEF AddExtraWorker, WorkerGoto, Grouped, TypeOK
    <3> QED
      BY <2>4, <3>2, <3>3, CountJoins, GroupJoins
      DEF WorkerAccounting, AddExtraWorker
  <2> QED
    BY <1>2, <2>1, <2>2, <2>3, <2>4 DEF ScheduleStep
<1>3. ASSUME NEW w \in Tasks, WorkerStep(w) PROVE WorkerAccounting'
  <2>1. CASE WorkerStart(w) \/ CheckContext(w) \/ GetTask(w) \/ FinishTask(w)
    <3>1. Counted' = Counted /\ Grouped' = Grouped
      BY <2>1 DEF WorkerStart, CheckContext, GetTask, FinishTask, WorkerGoto,
         WorkerAt, Counted, Grouped, TypeOK
    <3> QED
      BY <2>1, <3>1, <1>idle DEF WorkerStart, CheckContext, GetTask, FinishTask,
         counterVars
  <2>2. CASE DecrementWorkers(w)
    <3>1. worker[w] = "exit" /\ call[w] # "spawn"
      BY <2>2 DEF DecrementWorkers, WorkerAt, StartedOnce
    <3>2. w \in Counted /\ Counted' = Counted \ {w}
      BY <2>2, <3>1 DEF DecrementWorkers, WorkerGoto, Counted, TypeOK
    <3>3. Grouped' = Grouped /\ UNCHANGED stopWaitGroup
      BY <2>2, <3>1 DEF DecrementWorkers, WorkerGoto, Grouped, TypeOK
    <3> QED
      BY <2>2, <3>2, <3>3, CountLeaves DEF WorkerAccounting, DecrementWorkers
  <2>3. CASE LeaveWaitGroup(w)
    <3>1. worker[w] = "leave"
      BY <2>3 DEF LeaveWaitGroup, WorkerAt
    <3>2. Counted' = Counted /\ UNCHANGED numRunningWorkers
      BY <2>3, <3>1 DEF LeaveWaitGroup, WorkerGoto, Counted, TypeOK
    <3>3. w \in Grouped /\ Grouped' = Grouped \ {w}
      BY <2>3, <3>1 DEF LeaveWaitGroup, WorkerGoto, Grouped, TypeOK
    <3> QED
      BY <2>3, <3>2, <3>3, GroupLeaves DEF WorkerAccounting, LeaveWaitGroup
  <2> QED
    BY <1>3, <2>1, <2>2, <2>3 DEF WorkerStep
<1>4. ASSUME NEW s \in Stoppers, BeginStop(s) \/ StopWorkers(s) \/ FinishStop(s)
      PROVE WorkerAccounting'
  <2>1. Counted' = Counted /\ Grouped' = Grouped
    BY <1>4 DEF BeginStop, StopWorkers, FinishStop, workerVars, Counted, Grouped
  <2> QED
    BY <1>4, <2>1, <1>idle DEF BeginStop, StopWorkers, FinishStop, counterVars
<1>5. ASSUME NEW r \in Resizers, CheckIncrease(r) \/ StoreIncrease(r)
      PROVE WorkerAccounting'
  <2>1. Counted' = Counted /\ Grouped' = Grouped
    BY <1>5 DEF CheckIncrease, StoreIncrease, workerVars, Counted, Grouped
  <2> QED
    BY <1>5, <2>1, <1>idle DEF CheckIncrease, StoreIncrease, counterVars
<1>6. CASE CancelParent \/ UNCHANGED vars
  <2>1. Counted' = Counted /\ Grouped' = Grouped
    BY <1>6 DEF CancelParent, workerVars, vars, Counted, Grouped
  <2> QED
    BY <1>6, <2>1, <1>idle DEF CancelParent, counterVars, vars
<1> QED
  BY <1>1, <1>2, <1>3, <1>4, <1>5, <1>6 DEF Next

\* Every action of the code leaves every variable in its type; the counters stay
\* natural because they count.
LEMMA TypeStep == CountInv /\ [Next]_vars => TypeOK'
<1> SUFFICES ASSUME CountInv, [Next]_vars PROVE TypeOK'
  OBVIOUS
<1>count. numRunningWorkers' \in Nat /\ stopWaitGroup' \in Nat
  <2>1. WorkerAccounting'
    BY CountStep
  <2>2. IsFiniteSet(Tasks) /\ Counted' \in SUBSET Tasks /\ Grouped' \in SUBSET Tasks
    BY PoolAssumption DEF PoolAssumption, Counted, Grouped
  <2> QED
    BY <2>1, <2>2, FS_Subset, FS_CardinalityType DEF WorkerAccounting
<1> USE DEF CountInv, TypeOK
<1>1. ASSUME NEW t \in Tasks, BeginSchedule(t) PROVE TypeOK'
  BY <1>1, <1>count DEF BeginSchedule, LockRead, Goto, CallPC, counterVars,
     workerVars
<1>2. ASSUME NEW t \in Tasks, FinishOnGoroutine(t) PROVE TypeOK'
  BY <1>2, <1>count DEF FinishOnGoroutine, Place, Outcome, Places, counterVars,
     workerVars, lockVars
<1>3. ASSUME NEW t \in Tasks, ScheduleStep(t) PROVE TypeOK'
  <2> USE <1>count DEF Goto, Leave, UnlockRead, CallPC, counterVars, workerVars,
      lockVars
  <2>1. CASE CheckStatus(t)
    BY <2>1 DEF CheckStatus
  <2>2. CASE Start(t)
    BY <2>2 DEF Start, IDLE, RUNNING, TERMINATED
  <2>3. CASE CheckSize(t)
    BY <2>3 DEF CheckSize
  <2>4. CASE HandlePoolSizeExceeded(t)
    <3>1. tasks' \in Seq(Tasks)
      <4>1. tasks' = tasks \/ tasks' = Append(tasks, t)
        BY <2>4 DEF HandlePoolSizeExceeded, Enqueue
      <4> QED
        BY <4>1
    <3>2. body' \in [Tasks -> Places]
      BY <2>4 DEF HandlePoolSizeExceeded, Enqueue, Place, Places
    <3>3. call' \in [Tasks -> CallPC] /\ readers' \in SUBSET Tasks
      BY <2>4 DEF HandlePoolSizeExceeded
    <3> QED
      BY <2>4, <3>1, <3>2, <3>3 DEF HandlePoolSizeExceeded
  <2>5. CASE AddTask(t)
    BY <2>5 DEF AddTask, Enqueue, Place, Places
  <2>6. CASE TryAddWorker(t)
    BY <2>6 DEF TryAddWorker
  <2>7. CASE LoadStarted(t)
    BY <2>7 DEF LoadStarted
  <2>8. CASE CompareAndSwap(t)
    BY <2>8 DEF CompareAndSwap
  <2>9. CASE SpawnWorker(t)
    BY <2>9 DEF SpawnWorker, WorkerGoto, WorkerPC
  <2>10. CASE AddExtraWorker(t)
    BY <2>10 DEF AddExtraWorker, WorkerGoto, WorkerPC
  <2>11. CASE FinishOnCaller(t)
    BY <2>11 DEF FinishOnCaller, Place, Outcome, Places
  <2> QED
    BY <1>3, <2>1, <2>2, <2>3, <2>4, <2>5, <2>6, <2>7, <2>8, <2>9, <2>10, <2>11
    DEF ScheduleStep
<1>4. ASSUME NEW w \in Tasks, WorkerStep(w) PROVE TypeOK'
  <2> USE <1>count DEF WorkerGoto, WorkerPC, counterVars, workerVars, lockVars
  <2>1. CASE WorkerStart(w)
    BY <2>1 DEF WorkerStart
  <2>2. CASE CheckContext(w)
    BY <2>2 DEF CheckContext
  <2>3. CASE GetTask(w)
    <3>1. tasks # << >> => Head(tasks) \in Tasks /\ Tail(tasks) \in Seq(Tasks)
      OBVIOUS
    <3>2. tasks' \in Seq(Tasks)
      BY <2>3, <3>1 DEF GetTask
    <3>3. body' \in [Tasks -> Places]
      BY <2>3, <3>1 DEF GetTask, Place, Places
    <3>4. worker' \in [Tasks -> WorkerPC]
      <4>1. PICK pc \in {"exit", "run"} : worker' = [worker EXCEPT ![w] = pc]
        BY <2>3 DEF GetTask
      <4> QED
        BY <4>1
    <3>5. current' \in [Tasks -> Tasks \cup {NoOne}]
      <4>1. CASE tasks = << >>
        BY <2>3, <4>1 DEF GetTask
      <4>2. CASE tasks # << >>
        <5>1. current' = [current EXCEPT ![w] = Head(tasks)]
          BY <2>3, <4>2 DEF GetTask
        <5> QED
          BY <5>1, <4>2, <3>1
      <4> QED
        BY <4>1, <4>2
    <3> QED
      BY <2>3, <3>2, <3>3, <3>4, <3>5 DEF GetTask
  <2>4. CASE FinishTask(w)
    <3>1. current[w] \in Tasks
      BY <2>4 DEF FinishTask, WorkerAt, HasTask
    <3>2. crashed' \in BOOLEAN /\ UNCHANGED cancelled
      BY <2>4 DEF FinishTask
    <3> QED
      BY <2>4, <3>1, <3>2 DEF FinishTask, Place, Outcome, Places
  <2>5. CASE DecrementWorkers(w)
    BY <2>5 DEF DecrementWorkers
  <2>6. CASE LeaveWaitGroup(w)
    BY <2>6 DEF LeaveWaitGroup
  <2> QED
    BY <1>4, <2>1, <2>2, <2>3, <2>4, <2>5, <2>6 DEF WorkerStep
<1>5. ASSUME NEW s \in Stoppers, BeginStop(s) \/ StopWorkers(s) \/ FinishStop(s)
      PROVE TypeOK'
  <2> USE <1>count DEF StopPC, counterVars, workerVars, lockVars
  <2>1. CASE BeginStop(s)
    BY <2>1 DEF BeginStop, LockWrite
  <2>2. CASE StopWorkers(s)
    <3>1. status' \in IDLE .. TERMINATED /\ writer' \in Stoppers \cup {NoOne}
      BY <2>2 DEF StopWorkers, IDLE, TERMINATING, TERMINATED
    <3>2. stop' \in [Stoppers -> StopPC]
      BY <2>2 DEF StopWorkers
    <3>3. cancelled' \in BOOLEAN /\ UNCHANGED crashed
      BY <2>2 DEF StopWorkers
    <3> QED
      BY <2>2, <3>1, <3>2, <3>3 DEF StopWorkers
  <2>3. CASE FinishStop(s)
    BY <2>3 DEF FinishStop, IDLE, TERMINATED
  <2> QED
    BY <1>5, <2>1, <2>2, <2>3
<1>6. ASSUME NEW r \in Resizers, CheckIncrease(r) \/ StoreIncrease(r) PROVE TypeOK'
  <2> USE <1>count DEF ResizePC, counterVars, workerVars, lockVars
  <2>1. ResizeTo[r] \in Nat
    BY PoolAssumption DEF PoolAssumption
  <2>2. resize' \in [Resizers -> ResizePC] /\ numMaxWorkers' \in Nat
    BY <1>6, <2>1 DEF CheckIncrease, StoreIncrease
  <2> QED
    BY <1>6, <2>2 DEF CheckIncrease, StoreIncrease
<1>7. CASE CancelParent \/ UNCHANGED vars
  BY <1>7, <1>count DEF CancelParent, vars, counterVars, workerVars, lockVars
<1> QED
  BY <1>1, <1>2, <1>3, <1>4, <1>5, <1>6, <1>7 DEF Next

\* A worker is started by a returning call, and leaves its task when it is done.
LEMMA ShapeStep == CountInv /\ [Next]_vars => StartedOnce' /\ HasTask'
<1> SUFFICES ASSUME CountInv, [Next]_vars PROVE StartedOnce' /\ HasTask'
  OBVIOUS
<1> USE DEF CountInv, StartedOnce, HasTask, TypeOK
<1>1. ASSUME NEW t \in Tasks, BeginSchedule(t) \/ FinishOnGoroutine(t)
      PROVE StartedOnce' /\ HasTask'
  BY <1>1 DEF BeginSchedule, FinishOnGoroutine, CallAt, Goto, workerVars
<1>2. ASSUME NEW t \in Tasks, ScheduleStep(t) PROVE StartedOnce' /\ HasTask'
  <2> USE DEF CallAt, Goto, Leave, workerVars
  <2>1. CASE \/ CheckStatus(t) \/ Start(t) \/ CheckSize(t) \/ AddTask(t)
             \/ HandlePoolSizeExceeded(t) \/ TryAddWorker(t)
    BY <2>1 DEF CheckStatus, Start, CheckSize, AddTask, HandlePoolSizeExceeded,
       TryAddWorker
  <2>2. CASE LoadStarted(t) \/ CompareAndSwap(t) \/ FinishOnCaller(t)
    BY <2>2 DEF LoadStarted, CompareAndSwap, FinishOnCaller
  <2>3. CASE SpawnWorker(t) \/ AddExtraWorker(t)
    <3>1. worker' = [worker EXCEPT ![t] = "start"] /\ current' = current
          /\ call' = [call EXCEPT ![t] = "returned"]
      BY <2>3 DEF SpawnWorker, AddExtraWorker, WorkerGoto
    <3> QED
      BY <3>1
  <2> QED
    BY <1>2, <2>1, <2>2, <2>3 DEF ScheduleStep
<1>3. ASSUME NEW w \in Tasks, WorkerStep(w) PROVE StartedOnce' /\ HasTask'
  <2> USE DEF WorkerAt, WorkerGoto
  <2>1. CASE WorkerStart(w) \/ CheckContext(w)
    BY <2>1 DEF WorkerStart, CheckContext
  <2>2. CASE GetTask(w)
    <3>1. tasks # << >> => Head(tasks) \in Tasks
      OBVIOUS
    <3>2. worker[w] = "get" /\ call' = call
      BY <2>2 DEF GetTask
    <3>3. \/ worker' = [worker EXCEPT ![w] = "exit"] /\ current' = current
          \/ /\ worker' = [worker EXCEPT ![w] = "run"]
             /\ current' = [current EXCEPT ![w] = Head(tasks)] /\ tasks # << >>
      BY <2>2 DEF GetTask
    <3> QED
      BY <3>1, <3>2, <3>3
  <2>3. CASE FinishTask(w) \/ DecrementWorkers(w) \/ LeaveWaitGroup(w)
    <3>1. worker[w] # "none" /\ call' = call
      BY <2>3 DEF FinishTask, DecrementWorkers, LeaveWaitGroup
    <3>2. /\ \E pc \in {"loop", "leave", "gone"} : worker' = [worker EXCEPT ![w] = pc]
          /\ \A v \in Tasks \ {w} : current'[v] = current[v]
      BY <2>3 DEF FinishTask, DecrementWorkers, LeaveWaitGroup
    <3> QED
      BY <3>1, <3>2
  <2> QED
    BY <1>3, <2>1, <2>2, <2>3 DEF WorkerStep
<1>4. ASSUME NEW s \in Stoppers, BeginStop(s) \/ StopWorkers(s) \/ FinishStop(s)
      PROVE StartedOnce' /\ HasTask'
  BY <1>4 DEF BeginStop, StopWorkers, FinishStop, workerVars
<1>5. ASSUME NEW r \in Resizers, CheckIncrease(r) \/ StoreIncrease(r)
      PROVE StartedOnce' /\ HasTask'
  BY <1>5 DEF CheckIncrease, StoreIncrease, workerVars
<1>6. CASE CancelParent \/ UNCHANGED vars
  BY <1>6 DEF CancelParent, vars, workerVars
<1> QED
  BY <1>1, <1>2, <1>3, <1>4, <1>5, <1>6 DEF Next

\* Every variable of the pool keeps its type (async.go:60-75): no counter of
\* workers ever goes negative.
THEOREM TypesCorrect == Spec => []TypeOK
<1>1. CountInv /\ [Next]_vars => CountInv'
  BY CountStep, TypeStep, ShapeStep DEF CountInv
<1>2. CountInv => TypeOK
  BY DEF CountInv
<1> QED
  BY CountInit, <1>1, <1>2, PTL DEF Spec

\* numRunningWorkers and stopWaitGroup count the workers there are, in every
\* interleaving of spawns, failed swaps, exits and stops.
THEOREM WorkersCounted == Spec => []WorkerAccounting
<1>1. CountInv /\ [Next]_vars => CountInv'
  BY CountStep, TypeStep, ShapeStep DEF CountInv
<1>2. CountInv => WorkerAccounting
  BY DEF CountInv
<1> QED
  BY CountInit, <1>1, <1>2, PTL DEF Spec

-----------------------------------------------------------------------------
(* LockInv: an admitted call holds the read lock, so a status above RUNNING, *)
(* set under the write lock, finds none and lets none in.                    *)
AdmittedReads ==
  \A t \in Tasks : call[t] = "status" \/ t \in Admitted => t \in readers
StoppedAdmitsNone ==
  /\ status > RUNNING => Admitted = {}
  /\ \A s \in Stoppers : stop[s] = "wait" => status > RUNNING

\* A task that runs inside the pool has the goroutine that runs it.
RunsSomewhere ==
  \A t \in Tasks :
    /\ body[t] = "onWorker" => \E w \in Tasks : worker[w] = "run" /\ current[w] = t
    /\ body[t] = "onCaller" => call[t] = "inline"

\* TERMINATED is set when the wait group is empty and no call is admitted.
TerminatedHasNoWorker == status = TERMINATED => Grouped = {}

LockInv == /\ CountInv /\ AdmittedReads /\ StoppedAdmitsNone
           /\ RunsSomewhere /\ TerminatedHasNoWorker

LEMMA LockInit == Init => LockInv
<1> SUFFICES ASSUME Init PROVE LockInv
  OBVIOUS
<1>1. CountInv
  BY CountInit
<1>2. Admitted = {} /\ Grouped = {}
  BY DEF Init, Admitted, Grouped
<1>3. RunsSomewhere
  BY DEF Init, RunsSomewhere
<1>4. AdmittedReads /\ StoppedAdmitsNone
  BY <1>2 DEF Init, AdmittedReads, StoppedAdmitsNone
<1> QED
  BY <1>1, <1>2, <1>3, <1>4 DEF LockInv, TerminatedHasNoWorker

\* Admission goes with the read lock through every step of schedule and Stop.
LEMMA AdmissionStep ==
  LockInv /\ [Next]_vars => AdmittedReads' /\ StoppedAdmitsNone'
<1> SUFFICES ASSUME LockInv, [Next]_vars
             PROVE  AdmittedReads' /\ StoppedAdmitsNone'
  OBVIOUS
<1> USE DEF LockInv, CountInv, TypeOK, AdmittedReads, StoppedAdmitsNone, Admitted
<1>same. CASE UNCHANGED <<call, readers, status, stop>>
  BY <1>same
<1>1. ASSUME NEW t \in Tasks, BeginSchedule(t) PROVE AdmittedReads' /\ StoppedAdmitsNone'
  BY <1>1 DEF BeginSchedule, Goto, LockRead
<1>2. ASSUME NEW t \in Tasks, FinishOnGoroutine(t) \/ WorkerStep(t)
      PROVE AdmittedReads' /\ StoppedAdmitsNone'
  BY <1>2, <1>same DEF FinishOnGoroutine, lockVars, WorkerStep, WorkerStart,
     CheckContext, GetTask, FinishTask, DecrementWorkers, LeaveWaitGroup
<1>3. ASSUME NEW t \in Tasks, ScheduleStep(t) PROVE AdmittedReads' /\ StoppedAdmitsNone'
  <2> USE DEF CallAt, Goto, Leave, UnlockRead, lockVars
  <2>1. CASE CheckStatus(t)
    BY <2>1 DEF CheckStatus, IDLE, RUNNING
  <2>2. CASE Start(t)
    BY <2>2 DEF Start, IDLE, RUNNING
  <2>3. CASE CheckSize(t) \/ AddTask(t) \/ TryAddWorker(t)
    BY <2>3 DEF CheckSize, AddTask, TryAddWorker
  <2>4. CASE HandlePoolSizeExceeded(t)
    BY <2>4 DEF HandlePoolSizeExceeded
  <2>5. CASE LoadStarted(t) \/ CompareAndSwap(t)
    BY <2>5 DEF LoadStarted, CompareAndSwap
  <2>6. CASE SpawnWorker(t) \/ AddExtraWorker(t) \/ FinishOnCaller(t)
    BY <2>6 DEF SpawnWorker, AddExtraWorker, FinishOnCaller
  <2> QED
    BY <1>3, <2>1, <2>2, <2>3, <2>4, <2>5, <2>6 DEF ScheduleStep
<1>4. ASSUME NEW s \in Stoppers, BeginStop(s) \/ StopWorkers(s) \/ FinishStop(s)
      PROVE AdmittedReads' /\ StoppedAdmitsNone'
  <2>1. CASE BeginStop(s)
    BY <2>1 DEF BeginStop, StopAt
  <2>2. CASE StopWorkers(s)
    BY <2>2 DEF StopWorkers, StopAt, IDLE, RUNNING, TERMINATING
  <2>3. CASE FinishStop(s)
    BY <2>3 DEF FinishStop, StopAt, RUNNING, TERMINATED
  <2> QED
    BY <1>4, <2>1, <2>2, <2>3
<1>5. ASSUME NEW r \in Resizers, CheckIncrease(r) \/ StoreIncrease(r)
      PROVE AdmittedReads' /\ StoppedAdmitsNone'
  BY <1>5, <1>same DEF CheckIncrease, StoreIncrease, lockVars
<1>6. CASE CancelParent \/ UNCHANGED vars
  BY <1>6, <1>same DEF CancelParent, vars, lockVars
<1> QED
  BY <1>1, <1>2, <1>3, <1>4, <1>5, <1>6 DEF Next

\* A body leaves its worker, or the call it runs in, only by ending.
LEMMA RunsStep == LockInv /\ [Next]_vars => RunsSomewhere'
<1> SUFFICES ASSUME LockInv, [Next]_vars, NEW u \in Tasks
             PROVE  /\ body'[u] = "onWorker" =>
                          \E w \in Tasks : worker'[w] = "run" /\ current'[w] = u
                    /\ body'[u] = "onCaller" => call'[u] = "inline"
  BY DEF RunsSomewhere
<1> DEFINE Goal == /\ body'[u] = "onWorker" =>
                        \E w \in Tasks : worker'[w] = "run" /\ current'[w] = u
                   /\ body'[u] = "onCaller" => call'[u] = "inline"
<1> USE DEF LockInv, CountInv, TypeOK, RunsSomewhere
<1>same. CASE UNCHANGED <<body, worker, current, call>>
  BY <1>same
<1>1. ASSUME NEW t \in Tasks, BeginSchedule(t) PROVE Goal
  BY <1>1 DEF BeginSchedule, CallAt, Goto, workerVars
<1>2. ASSUME NEW t \in Tasks, FinishOnGoroutine(t) PROVE Goal
  BY <1>2 DEF FinishOnGoroutine, Place, Outcome, workerVars
<1>3. ASSUME NEW t \in Tasks, ScheduleStep(t) PROVE Goal
  <2> USE DEF CallAt, Goto, Leave, workerVars
  <2>1. CASE CheckStatus(t) \/ Start(t) \/ CheckSize(t) \/ TryAddWorker(t)
             \/ LoadStarted(t) \/ CompareAndSwap(t)
    BY <2>1 DEF CheckStatus, Start, CheckSize, TryAddWorker, LoadStarted,
       CompareAndSwap
  <2>2. CASE HandlePoolSizeExceeded(t)
    BY <2>2 DEF HandlePoolSizeExceeded, Enqueue, Place
  <2>3. CASE AddTask(t)
    BY <2>3 DEF AddTask, Enqueue, Place
  <2>4. CASE SpawnWorker(t) \/ AddExtraWorker(t)
    <3>1. worker[t] = "none" /\ body' = body /\ current' = current
      BY <2>4 DEF SpawnWorker, AddExtraWorker, StartedOnce
    <3>2. \A w \in Tasks : worker[w] = "run" => worker'[w] = "run"
      BY <2>4, <3>1 DEF SpawnWorker, AddExtraWorker, WorkerGoto
    <3>3. call[u] = "inline" => call'[u] = "inline"
      BY <2>4 DEF SpawnWorker, AddExtraWorker
    <3> QED
      BY <3>1, <3>2, <3>3
  <2>5. CASE FinishOnCaller(t)
    BY <2>5 DEF FinishOnCaller, Place, Outcome
  <2> QED
    BY <1>3, <2>1, <2>2, <2>3, <2>4, <2>5 DEF ScheduleStep
<1>4. ASSUME NEW w \in Tasks, WorkerStep(w) PROVE Goal
  <2>0. call' = call
    BY <1>4 DEF WorkerStep, WorkerStart, CheckContext, GetTask, FinishTask,
       DecrementWorkers, LeaveWaitGroup
  <2>1. CASE WorkerStart(w) \/ CheckContext(w) \/ DecrementWorkers(w) \/ LeaveWaitGroup(w)
    <3>1. body' = body /\ current' = current
      BY <2>1 DEF WorkerStart, CheckContext, DecrementWorkers, LeaveWaitGroup
    <3>2. \A v \in Tasks : worker[v] = "run" => worker'[v] = "run"
      BY <2>1 DEF WorkerStart, CheckContext, DecrementWorkers, LeaveWaitGroup,
         WorkerAt, WorkerGoto
    <3> QED
      BY <2>0, <3>1, <3>2
  <2>2. CASE GetTask(w) /\ tasks # << >>
    <3>1. /\ worker[w] = "get" /\ worker' = [worker EXCEPT ![w] = "run"]
          /\ current' = [current EXCEPT ![w] = Head(tasks)]
          /\ body' = [body EXCEPT ![Head(tasks)] = "onWorker"]
      BY <2>2 DEF GetTask, WorkerAt, WorkerGoto, Place
    <3> QED
      BY <2>0, <3>1
  <2>3. CASE GetTask(w) /\ tasks = << >>
    BY <2>0, <2>3 DEF GetTask, WorkerAt, WorkerGoto
  <2>4. CASE FinishTask(w)
    <3>1. /\ worker[w] = "run" /\ current[w] \in Tasks
          /\ \A v \in Tasks \ {w} : worker'[v] = worker[v] /\ current'[v] = current[v]
      BY <2>4 DEF FinishTask, WorkerAt, WorkerGoto, HasTask
    <3>2. \E o \in {"finished", "aborted"} : body' = [body EXCEPT ![current[w]] = o]
      BY <2>4 DEF FinishTask, Place, Outcome
    <3>3. CASE u = current[w]
      BY <3>1, <3>2, <3>3
    <3>4. CASE u # current[w]
      <4>1. body'[u] = body[u]
        BY <3>2, <3>4
      <4> QED
        BY <2>0, <3>1, <3>4, <4>1
    <3> QED
      BY <3>3, <3>4
  <2> QED
    BY <1>4, <2>1, <2>2, <2>3, <2>4 DEF WorkerStep
<1>5. ASSUME NEW s \in Stoppers, BeginStop(s) \/ StopWorkers(s) \/ FinishStop(s)
      PROVE Goal
  BY <1>5, <1>same DEF BeginStop, StopWorkers, FinishStop, workerVars
<1>6. ASSUME NEW r \in Resizers, CheckIncrease(r) \/ StoreIncrease(r) PROVE Goal
  BY <1>6, <1>same DEF CheckIncrease, StoreIncrease, workerVars
<1>7. CASE CancelParent \/ UNCHANGED vars
  BY <1>7, <1>same DEF CancelParent, vars, workerVars
<1> QED
  BY <1>1, <1>2, <1>3, <1>4, <1>5, <1>6, <1>7 DEF Next

\* A terminated pool gets no worker: only an admitted call starts one.
LEMMA TerminatedStep == LockInv /\ [Next]_vars => TerminatedHasNoWorker'
<1> SUFFICES ASSUME LockInv, [Next]_vars PROVE TerminatedHasNoWorker'
  OBVIOUS
<1> USE DEF LockInv, CountInv, TypeOK, TerminatedHasNoWorker, Grouped
<1>1. ASSUME NEW s \in Stoppers, FinishStop(s) PROVE TerminatedHasNoWorker'
  <2>1. Cardinality(Grouped) = 0
    BY <1>1 DEF FinishStop, WorkerAccounting
  <2>2. Grouped = {}
    BY <2>1, CountedFinite, FS_EmptySet
  <2> QED
    BY <1>1, <2>2 DEF FinishStop, workerVars
<1>2. ASSUME NEW t \in Tasks, SpawnWorker(t) \/ AddExtraWorker(t)
      PROVE TerminatedHasNoWorker'
  <2>1. t \in Admitted /\ status' = status
    BY <1>2 DEF SpawnWorker, AddExtraWorker, CallAt, Admitted
  <2> QED
    BY <2>1 DEF StoppedAdmitsNone, RUNNING, TERMINATED
<1>3. CASE Grouped' \subseteq Grouped /\ status' # TERMINATED
  BY <1>3
<1>4. CASE Grouped' \subseteq Grouped /\ status' = status
  BY <1>4
<1>5. ASSUME NEW w \in Tasks, WorkerStep(w) PROVE TerminatedHasNoWorker'
  <2>1. worker[w] \notin {"none", "gone"} /\ status' = status
    BY <1>5 DEF WorkerStep, WorkerStart, CheckContext, GetTask, FinishTask,
       DecrementWorkers, LeaveWaitGroup, WorkerAt
  <2>2. \E pc \in WorkerPC : worker' = [worker EXCEPT ![w] = pc]
    BY <1>5 DEF WorkerStep, WorkerStart, CheckContext, GetTask, FinishTask,
       DecrementWorkers, LeaveWaitGroup, WorkerGoto, WorkerPC
  <2> QED
    BY <2>1, <2>2, <1>4
<1>6. ASSUME NEW t \in Tasks, Start(t) PROVE TerminatedHasNoWorker'
  BY <1>6 DEF Start, RUNNING, TERMINATED, IDLE, workerVars
<1>7. ASSUME NEW t \in Tasks, BeginSchedule(t) \/ CheckStatus(t) \/ CheckSize(t)
             \/ HandlePoolSizeExceeded(t) \/ AddTask(t) \/ TryAddWorker(t)
             \/ LoadStarted(t) \/ CompareAndSwap(t) \/ FinishOnCaller(t)
             \/ FinishOnGoroutine(t)
      PROVE TerminatedHasNoWorker'
  <2>1. worker' = worker /\ status' = status
    BY <1>7 DEF BeginSchedule, CheckStatus, CheckSize, HandlePoolSizeExceeded,
       AddTask, TryAddWorker, LoadStarted, CompareAndSwap, FinishOnCaller,
       FinishOnGoroutine, workerVars
  <2> QED
    BY <2>1, <1>4
<1>8. ASSUME NEW s \in Stoppers, BeginStop(s) \/ StopWorkers(s)
      PROVE TerminatedHasNoWorker'
  <2>1. worker' = worker /\ (status' = status \/ status' = TERMINATING)
    BY <1>8 DEF BeginStop, StopWorkers, workerVars
  <2> QED
    BY <2>1, <1>3, <1>4 DEF TERMINATING, TERMINATED
<1>9. CASE (\E r \in Resizers : CheckIncrease(r) \/ StoreIncrease(r))
           \/ CancelParent \/ UNCHANGED vars
  <2>1. worker' = worker /\ status' = status
    BY <1>9 DEF CheckIncrease, StoreIncrease, CancelParent, vars, workerVars
  <2> QED
    BY <2>1, <1>4
<1> QED
  BY <1>1, <1>2, <1>5, <1>6, <1>7, <1>8, <1>9 DEF Next, ScheduleStep

LEMMA LockStep == LockInv /\ [Next]_vars => LockInv'
BY CountStep, TypeStep, ShapeStep, AdmissionStep, RunsStep, TerminatedStep
DEF LockInv, CountInv

\* After Stop nothing of the pool is left running, whoever stops it, how often
\* and in whatever state the workers and the calls of schedule are.
THEOREM StopIsQuiet == Spec => []StoppedIsQuiet
<1>1. LockInv => StoppedIsQuiet
  <2> SUFFICES ASSUME LockInv, status = TERMINATED
               PROVE  /\ Grouped = {} /\ numRunningWorkers = 0 /\ Admitted = {}
                      /\ \A t \in Tasks : body[t] \notin {"onWorker", "onCaller"}
    BY DEF StoppedIsQuiet
  <2>1. Grouped = {}
    BY DEF LockInv, TerminatedHasNoWorker
  <2>2. Admitted = {}
    BY DEF LockInv, StoppedAdmitsNone, TERMINATED, RUNNING
  <2>3. Counted = {}
    BY <2>1, <2>2 DEF Counted, Grouped, Admitted
  <2>4. numRunningWorkers = 0
    BY <2>3, FS_EmptySet DEF LockInv, CountInv, WorkerAccounting
  <2>5. \A t \in Tasks : body[t] \notin {"onWorker", "onCaller"}
    BY <2>1, <2>2 DEF LockInv, RunsSomewhere, Grouped, Admitted
  <2> QED
    BY <2>1, <2>2, <2>4, <2>5
<1> QED
  BY LockInit, LockStep, <1>1, PTL DEF Spec

-----------------------------------------------------------------------------
(* OwnInv: a call has not placed its task before it adds it, and holds it     *)
(* while it runs it inline.                                                   *)
FreshUntilAdded ==
  \A t \in Tasks :
    /\ call[t] \in {"idle", "status", "start", "size", "full", "add"} => body[t] = "none"
    /\ call[t] = "inline" => body[t] = "onCaller"

OwnInv == LockInv /\ TaskOwnership /\ FreshUntilAdded

LEMMA OwnInit == Init => OwnInv
<1> SUFFICES ASSUME Init PROVE OwnInv
  OBVIOUS
<1>1. LockInv
  BY LockInit
<1>2. TaskOwnership
  BY DEF Init, TaskOwnership, Busy
<1>3. FreshUntilAdded
  BY DEF Init, FreshUntilAdded
<1> QED
  BY <1>1, <1>2, <1>3 DEF OwnInv

\* Two facts about queues without duplicates: taking the head, and adding what is
\* not there yet, leave no duplicates.
Distinct(s) == \A i, j \in DOMAIN s : s[i] = s[j] => i = j

LEMMA TailDistinct ==
  ASSUME NEW S, NEW s \in Seq(S), s # << >>, Distinct(s)
  PROVE  Distinct(Tail(s))
<1> SUFFICES ASSUME NEW i \in DOMAIN Tail(s), NEW j \in DOMAIN Tail(s),
                    Tail(s)[i] = Tail(s)[j]
             PROVE  i = j
  BY DEF Distinct
<1>1. /\ i + 1 \in DOMAIN s /\ Tail(s)[i] = s[i + 1]
      /\ j + 1 \in DOMAIN s /\ Tail(s)[j] = s[j + 1]
      /\ i \in Nat /\ j \in Nat
  OBVIOUS
<1>2. i + 1 = j + 1
  BY <1>1 DEF Distinct
<1> QED
  BY <1>1, <1>2

LEMMA AppendDistinct ==
  ASSUME NEW S, NEW s \in Seq(S), NEW e \in S, Distinct(s), \A i \in DOMAIN s : s[i] # e
  PROVE  Distinct(Append(s, e))
<1> SUFFICES ASSUME NEW i \in DOMAIN Append(s, e), NEW j \in DOMAIN Append(s, e),
                    Append(s, e)[i] = Append(s, e)[j]
             PROVE  i = j
  BY DEF Distinct
<1>1. \A k \in DOMAIN Append(s, e) :
         \/ k \in DOMAIN s /\ Append(s, e)[k] = s[k]
         \/ k = Len(s) + 1 /\ Append(s, e)[k] = e
  OBVIOUS
<1> QED
  BY <1>1 DEF Distinct

\* addTask puts a task that is nowhere at the end of the queue.
LEMMA EnqueueOwns ==
  ASSUME OwnInv, NEW t \in Tasks, body[t] = "none", tasks' = Append(tasks, t),
         body' = [body EXCEPT ![t] = "queued"], UNCHANGED <<worker, current>>
  PROVE  TaskOwnership'
<1> USE DEF OwnInv, LockInv, CountInv, TypeOK, TaskOwnership, Busy
<1>1. \A i \in DOMAIN tasks : tasks[i] # t
  OBVIOUS
<1>2. /\ DOMAIN tasks' = 1 .. Len(tasks) + 1 /\ DOMAIN tasks = 1 .. Len(tasks)
      /\ Len(tasks) \in Nat
      /\ \A i \in 1 .. Len(tasks) : tasks'[i] = tasks[i]
      /\ tasks'[Len(tasks) + 1] = t
  OBVIOUS
<1>3. \A i, j \in DOMAIN tasks' : tasks'[i] = tasks'[j] => i = j
  <2>1. Distinct(tasks)
    BY DEF Distinct
  <2>2. Distinct(Append(tasks, t))
    BY <1>1, <2>1, AppendDistinct
  <2> QED
    BY ONLY <2>2, tasks' = Append(tasks, t) DEF Distinct
<1>4. \A u \in Tasks : body'[u] = "queued" <=> \E i \in DOMAIN tasks' : tasks'[i] = u
  <2> SUFFICES ASSUME NEW u \in Tasks
               PROVE  body'[u] = "queued" <=> \E i \in DOMAIN tasks' : tasks'[i] = u
    OBVIOUS
  <2>1. CASE u = t
    BY <1>2, <2>1
  <2>2. CASE u # t
    BY <1>2, <2>2
  <2> QED
    BY <2>1, <2>2
<1>5. \A w \in Busy : current[w] # t
  BY DEF HasTask
<1> QED
  BY <1>3, <1>4, <1>5 DEF HasTask

\* getTask moves the oldest task from the queue to one worker.
LEMMA TakeOwns ==
  ASSUME OwnInv, NEW w \in Tasks, worker[w] = "get", tasks # << >>,
         tasks' = Tail(tasks), worker' = [worker EXCEPT ![w] = "run"],
         current' = [current EXCEPT ![w] = Head(tasks)],
         body' = [body EXCEPT ![Head(tasks)] = "onWorker"]
  PROVE  TaskOwnership'
<1> DEFINE h == Head(tasks)
<1> USE DEF OwnInv, LockInv, CountInv, TypeOK, TaskOwnership, Busy
<1>1. /\ DOMAIN tasks = 1 .. Len(tasks) /\ Len(tasks) \in Nat \ {0}
      /\ DOMAIN tasks' = 1 .. Len(tasks) - 1 /\ h = tasks[1] /\ h \in Tasks
      /\ \A i \in 1 .. Len(tasks) - 1 : tasks'[i] = tasks[i + 1]
  OBVIOUS
<1>2. \A i, j \in DOMAIN tasks' : tasks'[i] = tasks'[j] => i = j
  <2>1. Distinct(tasks)
    BY DEF Distinct
  <2>2. Distinct(Tail(tasks))
    BY <2>1, TailDistinct
  <2> QED
    BY ONLY <2>2, tasks' = Tail(tasks) DEF Distinct
<1>3. \A u \in Tasks : body'[u] = "queued" <=> \E i \in DOMAIN tasks' : tasks'[i] = u
  <2> SUFFICES ASSUME NEW u \in Tasks
               PROVE  body'[u] = "queued" <=> \E i \in DOMAIN tasks' : tasks'[i] = u
    OBVIOUS
  <2>1. CASE u = h
    <3>1. body'[u] # "queued"
      BY <1>1, <2>1
    <3>2. \A i \in DOMAIN tasks' : tasks'[i] = tasks[i + 1] /\ i + 1 \in DOMAIN tasks
                                  /\ i + 1 # 1
      BY <1>1
    <3>3. \A k \in DOMAIN tasks : tasks[k] = h => k = 1
      <4>1. 1 \in DOMAIN tasks /\ tasks[1] = h
        BY <1>1
      <4> QED
        BY <4>1
    <3>4. \A i \in DOMAIN tasks' : tasks'[i] # h
      BY <3>2, <3>3
    <3> QED
      BY <2>1, <3>1, <3>4
  <2>2. CASE u # h
    <3>1. body'[u] = body[u]
      BY <2>2
    <3>2. ASSUME NEW i \in DOMAIN tasks, tasks[i] = u
          PROVE  i - 1 \in DOMAIN tasks' /\ tasks'[i - 1] = u
      BY <1>1, <2>2, <3>2
    <3>3. ASSUME NEW i \in DOMAIN tasks', tasks'[i] = u
          PROVE  i + 1 \in DOMAIN tasks /\ tasks[i + 1] = u
      BY <1>1, <3>3
    <3> QED
      BY <3>1, <3>2, <3>3
  <2> QED
    BY <2>1, <2>2
<1>4. body[h] = "queued"
  <2>1. 1 \in DOMAIN tasks /\ tasks[1] = h
    BY <1>1
  <2> QED
    BY <1>1, <2>1
<1>5. \A v \in Busy : current[v] # h
  BY <1>4 DEF HasTask
<1>6. Busy' = Busy \cup {w} /\ w \notin Busy
  OBVIOUS
<1>7. \A v \in Busy' : body'[current'[v]] = "onWorker"
  BY <1>1, <1>5, <1>6 DEF HasTask
<1>8. \A u, v \in Busy' : current'[u] = current'[v] => u = v
  BY <1>1, <1>5, <1>6
<1> QED
  BY <1>2, <1>3, <1>7, <1>8

\* A task that is neither queued nor on a worker may go anywhere else; a worker
\* that is not running may do anything but run.
LEMMA ElsewhereOwns ==
  ASSUME OwnInv, NEW t \in Tasks, body[t] \notin {"queued", "onWorker"},
         NEW p \in Places, p # "queued", body' = [body EXCEPT ![t] = p],
         tasks' = tasks, worker' = worker, current' = current
  PROVE  TaskOwnership'
<1> USE DEF OwnInv, LockInv, CountInv, TypeOK, TaskOwnership, Busy
<1>1. \A w \in Busy : current[w] # t
  OBVIOUS
<1>2. \A u \in Tasks : body'[u] = "queued" <=> body[u] = "queued"
  OBVIOUS
<1> QED
  BY <1>1, <1>2 DEF HasTask

LEMMA SameOwns ==
  ASSUME TaskOwnership, Busy' = Busy, UNCHANGED <<body, tasks, current>>
  PROVE  TaskOwnership'
BY DEF TaskOwnership

\* The worker that ends a task is the only one that had it.
LEMMA FinishOwns ==
  ASSUME OwnInv, NEW w \in Tasks, worker[w] = "run", tasks' = tasks,
         worker' = [worker EXCEPT ![w] = "loop"],
         current' = [current EXCEPT ![w] = NoOne],
         NEW o \in {"finished", "aborted"}, body' = [body EXCEPT ![current[w]] = o]
  PROVE  TaskOwnership'
<1> USE DEF OwnInv, LockInv, CountInv, TypeOK, TaskOwnership, Busy
<1>1. current[w] \in Tasks /\ body[current[w]] = "onWorker"
  BY DEF HasTask
<1>2. Busy' = Busy \ {w} /\ w \in Busy
  OBVIOUS
<1>3. \A u \in Tasks : body'[u] = "queued" <=> body[u] = "queued"
  BY <1>1
<1>4. \A v \in Busy' : current'[v] = current[v] /\ current[v] # current[w]
  BY <1>2
<1>5. \A v \in Busy' : body'[current'[v]] = "onWorker"
  BY <1>2, <1>4 DEF HasTask
<1> QED
  BY <1>2, <1>3, <1>4, <1>5

\* Every action of the code leaves each task in one place.
LEMMA OwnershipStep == OwnInv /\ [Next]_vars => TaskOwnership'
<1> SUFFICES ASSUME OwnInv, [Next]_vars PROVE TaskOwnership'
  OBVIOUS
<1> USE DEF OwnInv, LockInv, CountInv, TypeOK
<1>same. CASE UNCHANGED <<body, tasks, current, worker>>
  BY <1>same, SameOwns DEF Busy
<1>1. ASSUME NEW t \in Tasks, BeginSchedule(t) PROVE TaskOwnership'
  BY <1>1, <1>same DEF BeginSchedule, workerVars
<1>2. ASSUME NEW t \in Tasks, FinishOnGoroutine(t) PROVE TaskOwnership'
  <2>1. /\ body[t] = "onGoroutine" /\ UNCHANGED <<tasks, worker, current>>
        /\ body' = [body EXCEPT ![t] = Outcome(t)]
    BY <1>2 DEF FinishOnGoroutine, Place, workerVars
  <2>2. Outcome(t) \in Places /\ Outcome(t) # "queued"
    BY DEF Outcome, Places
  <2> QED
    BY <2>1, <2>2, ElsewhereOwns
<1>3. ASSUME NEW t \in Tasks, ScheduleStep(t) PROVE TaskOwnership'
  <2>1. CASE CheckStatus(t) \/ Start(t) \/ CheckSize(t) \/ TryAddWorker(t)
             \/ LoadStarted(t) \/ CompareAndSwap(t)
    BY <2>1, <1>same DEF CheckStatus, Start, CheckSize, TryAddWorker, LoadStarted,
       CompareAndSwap, workerVars
  <2>2. CASE AddTask(t) \/ HandlePoolSizeExceeded(t)
    <3>1. body[t] = "none" /\ UNCHANGED <<worker, current>>
      BY <2>2 DEF AddTask, HandlePoolSizeExceeded, CallAt, FreshUntilAdded, workerVars
    <3>2. \/ Enqueue(t)
          \/ UNCHANGED <<tasks, body>>
          \/ \E p \in {"onGoroutine", "onCaller"} : Place(t, p) /\ UNCHANGED tasks
      BY <2>2 DEF AddTask, HandlePoolSizeExceeded
    <3>3. CASE Enqueue(t)
      BY <3>1, <3>3, EnqueueOwns DEF Enqueue, Place
    <3>4. ASSUME NEW p \in {"onGoroutine", "onCaller"}, Place(t, p), UNCHANGED tasks
          PROVE  TaskOwnership'
      BY <3>1, <3>4, ElsewhereOwns DEF Place, Places
    <3> QED
      BY <3>1, <3>2, <3>3, <3>4, <1>same
  <2>3. CASE SpawnWorker(t) \/ AddExtraWorker(t)
    <3>1. worker[t] = "none" /\ worker' = [worker EXCEPT ![t] = "start"]
      BY <2>3 DEF SpawnWorker, AddExtraWorker, CallAt, WorkerGoto, StartedOnce
    <3>2. Busy' = Busy
      BY <3>1 DEF Busy
    <3> QED
      BY <2>3, <3>2, SameOwns DEF SpawnWorker, AddExtraWorker
  <2>4. CASE FinishOnCaller(t)
    <3>1. /\ body[t] = "onCaller" /\ UNCHANGED <<tasks, worker, current>>
          /\ body' = [body EXCEPT ![t] = Outcome(t)]
      BY <2>4 DEF FinishOnCaller, CallAt, Place, FreshUntilAdded, workerVars
    <3>2. Outcome(t) \in Places /\ Outcome(t) # "queued"
      BY DEF Outcome, Places
    <3> QED
      BY <3>1, <3>2, ElsewhereOwns
  <2> QED
    BY <1>3, <2>1, <2>2, <2>3, <2>4 DEF ScheduleStep
<1>4. ASSUME NEW w \in Tasks, WorkerStep(w) PROVE TaskOwnership'
  <2>1. CASE \/ WorkerStart(w) \/ CheckContext(w) \/ DecrementWorkers(w)
             \/ LeaveWaitGroup(w) \/ (GetTask(w) /\ tasks = << >>)
    <3>1. worker[w] # "run" /\ UNCHANGED <<body, tasks, current>>
      BY <2>1 DEF WorkerStart, CheckContext, DecrementWorkers, LeaveWaitGroup,
         GetTask, WorkerAt
    <3>2. \E pc \in WorkerPC \ {"run"} : worker' = [worker EXCEPT ![w] = pc]
      BY <2>1 DEF WorkerStart, CheckContext, DecrementWorkers, LeaveWaitGroup,
         GetTask, WorkerGoto, WorkerPC
    <3>3. Busy' = Busy
      BY <3>1, <3>2 DEF Busy
    <3> QED
      BY <3>1, <3>3, SameOwns
  <2>2. CASE GetTask(w) /\ tasks # << >>
    <3>1. /\ worker[w] = "get" /\ tasks' = Tail(tasks)
          /\ worker' = [worker EXCEPT ![w] = "run"]
          /\ current' = [current EXCEPT ![w] = Head(tasks)]
          /\ body' = [body EXCEPT ![Head(tasks)] = "onWorker"]
      BY <2>2 DEF GetTask, WorkerAt, WorkerGoto, Place
    <3> QED
      BY <2>2, <3>1, TakeOwns
  <2>3. CASE FinishTask(w)
    <3>1. /\ worker[w] = "run" /\ tasks' = tasks
          /\ worker' = [worker EXCEPT ![w] = "loop"]
          /\ current' = [current EXCEPT ![w] = NoOne]
      BY <2>3 DEF FinishTask, WorkerAt, WorkerGoto
    <3>2. \E o \in {"finished", "aborted"} : body' = [body EXCEPT ![current[w]] = o]
      BY <2>3 DEF FinishTask, Place, Outcome
    <3> QED
      BY <3>1, <3>2, FinishOwns
  <2> QED
    BY <1>4, <2>1, <2>2, <2>3 DEF WorkerStep
<1>5. ASSUME NEW s \in Stoppers, BeginStop(s) \/ StopWorkers(s) \/ FinishStop(s)
      PROVE TaskOwnership'
  BY <1>5, <1>same DEF BeginStop, StopWorkers, FinishStop, workerVars
<1>6. ASSUME NEW r \in Resizers, CheckIncrease(r) \/ StoreIncrease(r)
      PROVE TaskOwnership'
  BY <1>6, <1>same DEF CheckIncrease, StoreIncrease, workerVars
<1>7. CASE CancelParent \/ UNCHANGED vars
  BY <1>7, <1>same DEF CancelParent, vars, workerVars
<1> QED
  BY <1>1, <1>2, <1>3, <1>4, <1>5, <1>6, <1>7 DEF Next

\* Only a call's own steps place its task before the queue has it.
LEMMA FreshStep == OwnInv /\ [Next]_vars => FreshUntilAdded'
<1> SUFFICES ASSUME OwnInv, [Next]_vars PROVE FreshUntilAdded'
  OBVIOUS
<1> USE DEF OwnInv, LockInv, CountInv, TypeOK, FreshUntilAdded
<1>same. CASE UNCHANGED <<body, call>>
  BY <1>same
<1>1. ASSUME NEW t \in Tasks, BeginSchedule(t) PROVE FreshUntilAdded'
  BY <1>1 DEF BeginSchedule, CallAt, Goto
<1>2. ASSUME NEW t \in Tasks, FinishOnGoroutine(t) PROVE FreshUntilAdded'
  BY <1>2 DEF FinishOnGoroutine, Place
<1>3. ASSUME NEW t \in Tasks, ScheduleStep(t) PROVE FreshUntilAdded'
  <2> USE DEF CallAt, Goto, Leave
  <2>1. CASE CheckStatus(t) \/ Start(t) \/ CheckSize(t) \/ TryAddWorker(t)
    BY <2>1 DEF CheckStatus, Start, CheckSize, TryAddWorker
  <2>2. CASE LoadStarted(t) \/ CompareAndSwap(t) \/ SpawnWorker(t) \/ AddExtraWorker(t)
    BY <2>2 DEF LoadStarted, CompareAndSwap, SpawnWorker, AddExtraWorker
  <2>3. CASE AddTask(t) \/ HandlePoolSizeExceeded(t)
    BY <2>3 DEF AddTask, HandlePoolSizeExceeded, Enqueue, Place
  <2>4. CASE FinishOnCaller(t)
    BY <2>4 DEF FinishOnCaller, Place
  <2> QED
    BY <1>3, <2>1, <2>2, <2>3, <2>4 DEF ScheduleStep
<1>4. ASSUME NEW w \in Tasks, WorkerStep(w) PROVE FreshUntilAdded'
  <2>1. call' = call
    BY <1>4 DEF WorkerStep, WorkerStart, CheckContext, GetTask, FinishTask,
       DecrementWorkers, LeaveWaitGroup
  <2>2. body' = body
        \/ \E h \in Tasks, p \in Places : /\ body[h] \in {"queued", "onWorker"}
                                         /\ body' = [body EXCEPT ![h] = p]
    <3>1. CASE FinishTask(w)
      <4>1. current[w] \in Tasks /\ body[current[w]] = "onWorker"
        BY <3>1 DEF FinishTask, WorkerAt, HasTask, TaskOwnership, Busy
      <4> QED
        BY <3>1, <4>1 DEF FinishTask, Place, Outcome, Places
    <3>2. CASE GetTask(w) /\ tasks # << >>
      <4>1. Head(tasks) \in Tasks /\ 1 \in DOMAIN tasks /\ tasks[1] = Head(tasks)
        BY <3>2
      <4>2. body[Head(tasks)] = "queued"
        BY <4>1 DEF TaskOwnership
      <4> QED
        BY <3>2, <4>1, <4>2 DEF GetTask, Place, Places
    <3> QED
      BY <1>4, <3>1, <3>2 DEF WorkerStep, WorkerStart, CheckContext, GetTask,
         DecrementWorkers, LeaveWaitGroup
  <2> QED
    BY <2>1, <2>2
<1>5. ASSUME NEW s \in Stoppers, BeginStop(s) \/ StopWorkers(s) \/ FinishStop(s)
      PROVE FreshUntilAdded'
  BY <1>5, <1>same DEF BeginStop, StopWorkers, FinishStop
<1>6. ASSUME NEW r \in Resizers, CheckIncrease(r) \/ StoreIncrease(r)
      PROVE FreshUntilAdded'
  BY <1>6, <1>same DEF CheckIncrease, StoreIncrease
<1>7. CASE CancelParent \/ UNCHANGED vars
  BY <1>7, <1>same DEF CancelParent, vars
<1> QED
  BY <1>1, <1>2, <1>3, <1>4, <1>5, <1>6, <1>7 DEF Next

LEMMA OwnStep == OwnInv /\ [Next]_vars => OwnInv'
BY LockStep, OwnershipStep, FreshStep DEF OwnInv

\* The queue never loses or repeats a task and no two workers run the same one.
THEOREM TasksOwned == Spec => []TaskOwnership
<1>1. OwnInv => TaskOwnership
  BY DEF OwnInv
<1> QED
  BY OwnInit, OwnStep, <1>1, PTL DEF Spec

\* Once Stop has taken the pool over, no step makes it accept a task, start a
\* worker or run again.
THEOREM StopIsFinal == Spec => NoWorkAfterStop
<1> DEFINE Quiet == status > RUNNING =>
              /\ status' > RUNNING
              /\ \A t \in Tasks : body[t] = "none" => body'[t] = "none"
              /\ \A t \in Tasks : worker[t] = "none" => worker'[t] = "none"
<1>1. OwnInv /\ [Next]_vars => [Quiet]_vars
  <2> SUFFICES ASSUME OwnInv, Next, status > RUNNING
               PROVE  /\ status' > RUNNING
                      /\ \A t \in Tasks : body[t] = "none" => body'[t] = "none"
                      /\ \A t \in Tasks : worker[t] = "none" => worker'[t] = "none"
    OBVIOUS
  <2> DEFINE Goal == /\ status' > RUNNING
                     /\ \A t \in Tasks : body[t] = "none" => body'[t] = "none"
                     /\ \A t \in Tasks : worker[t] = "none" => worker'[t] = "none"
  <2> USE DEF OwnInv, LockInv, CountInv, TypeOK
  <2>0. \A t \in Tasks : t \notin Admitted
    BY DEF StoppedAdmitsNone
  <2>1. ASSUME NEW t \in Tasks, ScheduleStep(t) PROVE Goal
    <3>1. CheckStatus(t)
      BY <2>0, <2>1 DEF ScheduleStep, Start, CheckSize, HandlePoolSizeExceeded,
         AddTask, TryAddWorker, LoadStarted, CompareAndSwap, SpawnWorker,
         AddExtraWorker, FinishOnCaller, CallAt, Admitted
    <3> QED
      BY <3>1 DEF CheckStatus, workerVars
  <2>2. ASSUME NEW t \in Tasks, BeginSchedule(t) PROVE Goal
    BY <2>2 DEF BeginSchedule, workerVars
  <2>3. ASSUME NEW t \in Tasks, FinishOnGoroutine(t) PROVE Goal
    BY <2>3 DEF FinishOnGoroutine, Place, workerVars
  <2>4. ASSUME NEW w \in Tasks, WorkerStep(w) PROVE Goal
    <3>1. status' = status
      BY <2>4 DEF WorkerStep, WorkerStart, CheckContext, GetTask, FinishTask,
         DecrementWorkers, LeaveWaitGroup
    <3>2. worker[w] # "none" /\ \A v \in Tasks \ {w} : worker'[v] = worker[v]
      BY <2>4 DEF WorkerStep, WorkerStart, CheckContext, GetTask, FinishTask,
         DecrementWorkers, LeaveWaitGroup, WorkerAt, WorkerGoto
    <3>3. \A t \in Tasks : body[t] = "none" => body'[t] = "none"
      <4>1. CASE FinishTask(w)
        <5>1. current[w] \in Tasks /\ body[current[w]] = "onWorker"
          BY <4>1 DEF FinishTask, WorkerAt, HasTask, TaskOwnership, Busy
        <5> QED
          BY <4>1, <5>1 DEF FinishTask, Place
      <4>2. CASE GetTask(w) /\ tasks # << >>
        <5>1. Head(tasks) \in Tasks /\ 1 \in DOMAIN tasks /\ tasks[1] = Head(tasks)
          BY <4>2
        <5>2. body[Head(tasks)] = "queued"
          BY <5>1 DEF TaskOwnership
        <5> QED
          BY <4>2, <5>1, <5>2 DEF GetTask, Place
      <4> QED
        BY <2>4, <4>1, <4>2 DEF WorkerStep, WorkerStart, CheckContext, GetTask,
           DecrementWorkers, LeaveWaitGroup
    <3> QED
      BY <3>1, <3>2, <3>3
  <2>5. ASSUME NEW s \in Stoppers, BeginStop(s) \/ StopWorkers(s) \/ FinishStop(s)
        PROVE Goal
    BY <2>5 DEF BeginStop, StopWorkers, FinishStop, IDLE, RUNNING, TERMINATING,
       TERMINATED, workerVars
  <2>6. ASSUME NEW r \in Resizers, CheckIncrease(r) \/ StoreIncrease(r) PROVE Goal
    BY <2>6 DEF CheckIncrease, StoreIncrease, workerVars
  <2>7. CASE CancelParent
    BY <2>7 DEF CancelParent, workerVars
  <2> QED
    BY <2>1, <2>2, <2>3, <2>4, <2>5, <2>6, <2>7 DEF Next
<1>2. Spec => []OwnInv
  BY OwnInit, OwnStep, PTL DEF Spec
<1>3. Spec => [][Quiet]_vars
  BY <1>1, <1>2, PTL DEF Spec
<1> QED
  BY <1>3 DEF NoWorkAfterStop

-----------------------------------------------------------------------------
(* LimitInv: with one IncreaseWorkerSizeTo at most the maximum only grows, so *)
(* a value compared with it stays below it until the swap.                    *)
Limited == maxOutPolicy # "Other" /\ \A q, r \in Resizers : q = r

LimitInv ==
  /\ OwnInv
  /\ Limited =>
       /\ numRunningWorkers <= numMaxWorkers
       /\ \A t \in Tasks : call[t] # "extra"
       /\ \A t \in Tasks : call[t] = "cas" => started[t] < numMaxWorkers
       /\ \A r \in Resizers : resize[r] = "store" => ResizeTo[r] > numMaxWorkers

LEMMA PolicyKept == [Next]_vars => UNCHANGED maxOutPolicy
<1> SUFFICES ASSUME [Next]_vars PROVE UNCHANGED maxOutPolicy
  OBVIOUS
<1>1. ASSUME NEW t \in Tasks,
             BeginSchedule(t) \/ ScheduleStep(t) \/ FinishOnGoroutine(t)
      PROVE  UNCHANGED maxOutPolicy
  BY <1>1 DEF BeginSchedule, ScheduleStep, FinishOnGoroutine, CheckStatus, Start,
     CheckSize, HandlePoolSizeExceeded, AddTask, TryAddWorker, LoadStarted,
     CompareAndSwap, SpawnWorker, AddExtraWorker, FinishOnCaller
<1>2. ASSUME NEW w \in Tasks, WorkerStep(w) PROVE UNCHANGED maxOutPolicy
  BY <1>2 DEF WorkerStep, WorkerStart, CheckContext, GetTask, FinishTask,
     DecrementWorkers, LeaveWaitGroup
<1>3. ASSUME NEW s \in Stoppers, BeginStop(s) \/ StopWorkers(s) \/ FinishStop(s)
      PROVE  UNCHANGED maxOutPolicy
  BY <1>3 DEF BeginStop, StopWorkers, FinishStop
<1>4. ASSUME NEW r \in Resizers, CheckIncrease(r) \/ StoreIncrease(r)
      PROVE  UNCHANGED maxOutPolicy
  BY <1>4 DEF CheckIncrease, StoreIncrease
<1>5. CASE CancelParent \/ UNCHANGED vars
  BY <1>5 DEF CancelParent, vars
<1> QED
  BY <1>1, <1>2, <1>3, <1>4, <1>5 DEF Next

LEMMA LimitInit == Init => LimitInv
<1> SUFFICES ASSUME Init PROVE LimitInv
  OBVIOUS
<1>1. OwnInv
  BY OwnInit
<1>2. numRunningWorkers <= numMaxWorkers
  BY PoolAssumption DEF Init, PoolAssumption
<1> QED
  BY <1>1, <1>2 DEF Init, LimitInv

LEMMA LimitStep == LimitInv /\ [Next]_vars => LimitInv'
<1> SUFFICES ASSUME LimitInv, [Next]_vars, Limited
             PROVE  /\ numRunningWorkers' <= numMaxWorkers'
                    /\ \A t \in Tasks : call'[t] # "extra"
                    /\ \A t \in Tasks : call'[t] = "cas" => started'[t] < numMaxWorkers'
                    /\ \A r \in Resizers :
                         resize'[r] = "store" => ResizeTo[r] > numMaxWorkers'
  BY OwnStep, PolicyKept DEF LimitInv, Limited
<1> DEFINE Goal == /\ numRunningWorkers' <= numMaxWorkers'
                   /\ \A t \in Tasks : call'[t] # "extra"
                   /\ \A t \in Tasks : call'[t] = "cas" => started'[t] < numMaxWorkers'
                   /\ \A r \in Resizers :
                        resize'[r] = "store" => ResizeTo[r] > numMaxWorkers'
<1> USE DEF LimitInv, OwnInv, LockInv, CountInv, TypeOK, counterVars
<1>same. CASE UNCHANGED <<numRunningWorkers, numMaxWorkers, call, started, resize>>
  BY <1>same
<1>1. ASSUME NEW t \in Tasks, BeginSchedule(t) PROVE Goal
  BY <1>1 DEF BeginSchedule, Goto
<1>2. ASSUME NEW t \in Tasks, FinishOnGoroutine(t) PROVE Goal
  BY <1>2, <1>same DEF FinishOnGoroutine
<1>3. ASSUME NEW t \in Tasks, ScheduleStep(t) PROVE Goal
  <2> USE DEF CallAt, Goto, Leave, Limited
  <2>1. CASE CheckStatus(t) \/ Start(t) \/ CheckSize(t) \/ AddTask(t) \/ TryAddWorker(t)
             \/ FinishOnCaller(t)
    <3>1. UNCHANGED <<numRunningWorkers, numMaxWorkers, started, resize>>
      BY <2>1 DEF CheckStatus, Start, CheckSize, AddTask, TryAddWorker, FinishOnCaller
    <3>2. \E pc \in CallPC \ {"cas", "extra"} : call' = [call EXCEPT ![t] = pc]
      BY <2>1 DEF CheckStatus, Start, CheckSize, AddTask, TryAddWorker,
         FinishOnCaller, CallPC
    <3> QED
      BY <3>1, <3>2
  <2>2. CASE HandlePoolSizeExceeded(t)
    BY <2>2 DEF HandlePoolSizeExceeded
  <2>3. CASE LoadStarted(t)
    BY <2>3 DEF LoadStarted
  <2>4. CASE CompareAndSwap(t)
    BY <2>4 DEF CompareAndSwap
  <2>5. CASE SpawnWorker(t)
    BY <2>5 DEF SpawnWorker
  <2>6. CASE AddExtraWorker(t)
    BY <2>6 DEF AddExtraWorker
  <2> QED
    BY <1>3, <2>1, <2>2, <2>3, <2>4, <2>5, <2>6 DEF ScheduleStep
<1>4. ASSUME NEW w \in Tasks, WorkerStep(w) PROVE Goal
  <2>1. numRunningWorkers' = numRunningWorkers \/ numRunningWorkers' = numRunningWorkers - 1
    BY <1>4 DEF WorkerStep, WorkerStart, CheckContext, GetTask, FinishTask,
       DecrementWorkers, LeaveWaitGroup
  <2>2. UNCHANGED <<numMaxWorkers, call, started, resize>>
    BY <1>4 DEF WorkerStep, WorkerStart, CheckContext, GetTask, FinishTask,
       DecrementWorkers, LeaveWaitGroup
  <2> QED
    BY <2>1, <2>2
<1>5. ASSUME NEW s \in Stoppers, BeginStop(s) \/ StopWorkers(s) \/ FinishStop(s)
      PROVE Goal
  BY <1>5, <1>same DEF BeginStop, StopWorkers, FinishStop
<1>6. ASSUME NEW r \in Resizers, CheckIncrease(r) PROVE Goal
  <2>1. resize'[r] = "store" => ResizeTo[r] > numMaxWorkers
    BY <1>6 DEF CheckIncrease
  <2> QED
    BY <1>6, <2>1 DEF CheckIncrease, Limited
<1>7. ASSUME NEW r \in Resizers, StoreIncrease(r) PROVE Goal
  <2>1. ResizeTo[r] \in Nat /\ ResizeTo[r] > numMaxWorkers /\ numMaxWorkers' = ResizeTo[r]
    BY <1>7, PoolAssumption DEF PoolAssumption, StoreIncrease
  <2>2. \A q \in Resizers : resize'[q] = "returned"
    BY <1>7 DEF StoreIncrease, Limited
  <2> QED
    BY <1>7, <2>1, <2>2 DEF StoreIncrease
<1>8. CASE CancelParent \/ UNCHANGED vars
  BY <1>8, <1>same DEF CancelParent, vars
<1> QED
  BY <1>1, <1>2, <1>3, <1>4, <1>5, <1>6, <1>7, <1>8 DEF Next

\* No race between callers of tryAddAndRunWorker starts a worker too many.
THEOREM WorkersLimited == Spec => []WorkersWithinMax
<1>1. LimitInv => WorkersWithinMax
  <2> SUFFICES ASSUME LimitInv, Limited
               PROVE  /\ numRunningWorkers <= numMaxWorkers
                      /\ Cardinality(Busy) <= numMaxWorkers
    BY DEF WorkersWithinMax, Limited
  <2>1. Busy \in SUBSET Counted
    BY DEF Busy, Counted
  <2>2. Cardinality(Busy) <= Cardinality(Counted) /\ IsFiniteSet(Busy)
    BY <2>1, CountedFinite, FS_Subset
  <2>3. Cardinality(Busy) \in Nat /\ Cardinality(Counted) \in Nat
    BY <2>2, CountedFinite, FS_CardinalityType
  <2>4. numRunningWorkers = Cardinality(Counted) /\ numMaxWorkers \in Nat
    BY DEF LimitInv, OwnInv, LockInv, CountInv, WorkerAccounting, TypeOK
  <2> QED
    BY <2>2, <2>3, <2>4 DEF LimitInv
<1> QED
  BY LimitInit, LimitStep, <1>1, PTL DEF Spec

-----------------------------------------------------------------------------
(* The pool implements TaskPool.  PoolInv adds that a call past CheckStatus   *)
(* has found the pool started, and that the worker limit keeps to Capacity.   *)
Placing == {"size", "full", "add", "try", "load", "cas", "spawn", "extra", "inline"}

PoolInv ==
  /\ LimitInv
  /\ \A t \in Tasks : call[t] \in Placing => status # IDLE
  /\ maxOutPolicy \in MaxOutPolicies
  /\ LimitKeepsTo(Capacity) => numMaxWorkers <= Capacity

Serving == {t \in Tasks : body[t] = "onWorker"}

LEMMA PoolInvInit == Init => PoolInv
<1> SUFFICES ASSUME Init PROVE PoolInv
  OBVIOUS
<1>1. LimitKeepsTo(Capacity) => numMaxWorkers <= Capacity
  BY DEF Init, LimitKeepsTo
<1> QED
  BY <1>1, LimitInit DEF Init, PoolInv, Placing

\* The status leaves IDLE before a call goes on from CheckStatus, and for good.
LEMMA PoolInvStep == PoolInv /\ [Next]_vars => PoolInv'
<1> SUFFICES ASSUME PoolInv, [Next]_vars PROVE PoolInv'
  OBVIOUS
<1> DEFINE Begun == \A t \in Tasks : call[t] \in Placing => status # IDLE
<1> USE DEF PoolInv, LimitInv, OwnInv, LockInv, CountInv, TypeOK
<1>limit. LimitInv'
  BY LimitStep
<1>policy. maxOutPolicy' \in MaxOutPolicies
  BY PolicyKept
<1>max. LimitKeepsTo(Capacity) => numMaxWorkers' <= Capacity
  <2>1. numMaxWorkers' = numMaxWorkers \/ \E r \in Resizers : numMaxWorkers' = ResizeTo[r]
    <3>1. ASSUME NEW t \in Tasks, BeginSchedule(t) \/ FinishOnGoroutine(t) \/ WorkerStep(t)
          PROVE  numMaxWorkers' = numMaxWorkers
      BY <3>1 DEF BeginSchedule, FinishOnGoroutine, WorkerStep, WorkerStart, CheckContext,
         GetTask, FinishTask, DecrementWorkers, LeaveWaitGroup, counterVars
    <3>2. ASSUME NEW t \in Tasks, ScheduleStep(t) PROVE numMaxWorkers' = numMaxWorkers
      BY <3>2 DEF ScheduleStep, CheckStatus, Start, CheckSize, HandlePoolSizeExceeded,
         AddTask, TryAddWorker, LoadStarted, CompareAndSwap, SpawnWorker, AddExtraWorker,
         FinishOnCaller, counterVars
    <3>3. ASSUME NEW s \in Stoppers, BeginStop(s) \/ StopWorkers(s) \/ FinishStop(s)
          PROVE  numMaxWorkers' = numMaxWorkers
      BY <3>3 DEF BeginStop, StopWorkers, FinishStop, counterVars
    <3>4. ASSUME NEW r \in Resizers, CheckIncrease(r) \/ StoreIncrease(r)
          PROVE  numMaxWorkers' = numMaxWorkers \/ numMaxWorkers' = ResizeTo[r]
      BY <3>4 DEF CheckIncrease, StoreIncrease, counterVars
    <3>5. CASE CancelParent \/ UNCHANGED vars
      BY <3>5 DEF CancelParent, vars, counterVars
    <3> QED
      BY <3>1, <3>2, <3>3, <3>4, <3>5 DEF Next
  <2> QED
    BY <2>1 DEF LimitKeepsTo
<1>begun. Begun'
  <2>same. CASE status # IDLE
    <3>1. status' # IDLE
      <4>1. ASSUME NEW t \in Tasks, BeginSchedule(t) \/ FinishOnGoroutine(t) \/ WorkerStep(t)
            PROVE  status' = status
        BY <4>1 DEF BeginSchedule, FinishOnGoroutine, WorkerStep, WorkerStart,
           CheckContext, GetTask, FinishTask, DecrementWorkers, LeaveWaitGroup
      <4>2. ASSUME NEW t \in Tasks, ScheduleStep(t) PROVE status' = status \/ status' = RUNNING
        BY <4>2 DEF ScheduleStep, CheckStatus, Start, CheckSize, HandlePoolSizeExceeded,
           AddTask, TryAddWorker, LoadStarted, CompareAndSwap, SpawnWorker, AddExtraWorker,
           FinishOnCaller
      <4>3. ASSUME NEW s \in Stoppers, BeginStop(s) \/ StopWorkers(s) \/ FinishStop(s)
            PROVE  status' \in {status, TERMINATING, TERMINATED}
        BY <4>3 DEF BeginStop, StopWorkers, FinishStop
      <4>4. ASSUME NEW r \in Resizers, CheckIncrease(r) \/ StoreIncrease(r)
            PROVE  status' = status
        BY <4>4 DEF CheckIncrease, StoreIncrease
      <4>5. CancelParent \/ UNCHANGED vars => status' = status
        BY DEF CancelParent, vars
      <4>6. status' \in {status, RUNNING, TERMINATING, TERMINATED}
        BY <4>1, <4>2, <4>3, <4>4, <4>5 DEF Next
      <4> QED
        BY ONLY <2>same, <4>6 DEF IDLE, RUNNING, TERMINATING, TERMINATED
    <3> QED
      BY <3>1
  <2>idle. CASE status = IDLE
    <3>0. \A t \in Tasks : call[t] \notin Placing
      BY <2>idle
    <3>1. ASSUME NEW t \in Tasks, BeginSchedule(t) PROVE Begun'
      BY <3>0, <3>1 DEF BeginSchedule, Goto, Placing
    <3>2. ASSUME NEW t \in Tasks, FinishOnGoroutine(t) \/ WorkerStep(t) PROVE call' = call
      BY <3>2 DEF FinishOnGoroutine, WorkerStep, WorkerStart, CheckContext, GetTask,
         FinishTask, DecrementWorkers, LeaveWaitGroup
    <3>3. ASSUME NEW t \in Tasks, CheckStatus(t) PROVE Begun'
      BY <2>idle, <3>0, <3>3 DEF CheckStatus, Goto, Placing, IDLE, RUNNING
    <3>4. ASSUME NEW t \in Tasks, Start(t) PROVE Begun'
      BY <3>4 DEF Start, IDLE, RUNNING
    <3>5. ASSUME NEW t \in Tasks, ScheduleStep(t), ~CheckStatus(t), ~Start(t) PROVE FALSE
      BY <3>0, <3>5 DEF ScheduleStep, CheckSize, HandlePoolSizeExceeded, AddTask,
         TryAddWorker, LoadStarted, CompareAndSwap, SpawnWorker, AddExtraWorker,
         FinishOnCaller, CallAt, Placing
    <3>6. ASSUME NEW s \in Stoppers, BeginStop(s) \/ StopWorkers(s) \/ FinishStop(s)
          PROVE  call' = call
      BY <3>6 DEF BeginStop, StopWorkers, FinishStop
    <3>7. ASSUME NEW r \in Resizers, CheckIncrease(r) \/ StoreIncrease(r) PROVE call' = call
      BY <3>7 DEF CheckIncrease, StoreIncrease
    <3>8. CASE CancelParent \/ UNCHANGED vars
      BY <3>0, <3>8 DEF CancelParent, vars
    <3> QED
      BY <3>0, <3>1, <3>2, <3>3, <3>4, <3>5, <3>6, <3>7, <3>8 DEF Next
  <2> QED
    BY <2>same, <2>idle
<1> QED
  BY <1>limit, <1>policy, <1>max, <1>begun

\* A worker at getTask leaves room for the task it takes: it is one of the
\* workers that count towards the limit and runs nothing yet.
LEMMA RoomToServe ==
  ASSUME PoolInv, NEW w \in Tasks, worker[w] = "get", tasks # << >>
  PROVE  Cardinality(Serving) < Capacity
<1> USE DEF PoolInv, LimitInv, OwnInv, LockInv, CountInv, TypeOK
<1>1. IsFiniteSet(Tasks) /\ Capacity \in Nat
  BY PoolAssumption, CapacityAssumption DEF PoolAssumption, CapacityAssumption
<1>2. CASE LimitKeepsTo(Capacity)
  <2>1. Busy \in SUBSET Counted /\ w \in Counted /\ w \notin Busy
    BY DEF Busy, Counted
  <2>2. /\ IsFiniteSet(Busy) /\ Cardinality(Busy) <= Cardinality(Counted)
        /\ Cardinality(Counted) = Cardinality(Busy) => Counted = Busy
    BY <2>1, CountedFinite, FS_Subset
  <2>3. Cardinality(Busy) \in Nat /\ Cardinality(Counted) \in Nat
    BY <2>2, CountedFinite, FS_CardinalityType
  <2>4. Cardinality(Busy) < Cardinality(Counted)
    BY <2>1, <2>2, <2>3
  <2>5. Cardinality(Serving) <= Cardinality(Busy) /\ IsFiniteSet(Serving)
    <3> DEFINE f == [v \in Busy |-> current[v]]
    <3>1. f \in Surjection(Busy, Serving)
      <4>1. f \in [Busy -> Serving]
        BY DEF Busy, Serving, TaskOwnership, HasTask
      <4>2. \A t \in Serving : \E v \in Busy : f[v] = t
        BY DEF Busy, Serving, RunsSomewhere
      <4> QED
        BY <4>1, <4>2 DEF Surjection
    <3> QED
      BY <2>2, <3>1, FS_Surjection
  <2>6. numRunningWorkers <= numMaxWorkers /\ numMaxWorkers <= Capacity
    BY <1>2 DEF LimitKeepsTo, Limited
  <2>7. Cardinality(Counted) <= numMaxWorkers
    BY <2>6 DEF WorkerAccounting
  <2>8. Cardinality(Serving) \in Nat
    BY <2>5, FS_CardinalityType
  <2> QED
    BY <1>1, <2>3, <2>4, <2>5, <2>6, <2>7, <2>8
<1>3. CASE Cardinality(Tasks) <= Capacity
  <2>1. Head(tasks) \in Tasks /\ 1 \in DOMAIN tasks /\ tasks[1] = Head(tasks)
    OBVIOUS
  <2>2. body[Head(tasks)] = "queued"
    BY <2>1 DEF TaskOwnership
  <2>3. Serving \in SUBSET Tasks /\ Serving # Tasks
    BY <2>1, <2>2 DEF Serving
  <2>4. /\ IsFiniteSet(Serving) /\ Cardinality(Serving) <= Cardinality(Tasks)
        /\ Cardinality(Tasks) = Cardinality(Serving) => Tasks = Serving
    BY <1>1, <2>3, FS_Subset
  <2>5. Cardinality(Serving) \in Nat /\ Cardinality(Tasks) \in Nat
    BY <1>1, <2>4, FS_CardinalityType
  <2> QED
    BY <1>1, <1>3, <2>3, <2>4, <2>5
<1> QED
  BY <1>2, <1>3, CapacityAssumption DEF CapacityAssumption

\* The instance's Cardinality is the one of FiniteSets.
LEMMA PoolCardinality ==
  ASSUME NEW S PROVE Pool!Cardinality(S) = Cardinality(S)
BY DEF Pool!Cardinality, Cardinality

LEMMA PoolInit == Init => Pool!Init
<1> SUFFICES ASSUME Init PROVE Pool!Init
  OBVIOUS
<1>1. status = IDLE /\ tasks = << >> /\ \A t \in Tasks : body[t] = "none"
  BY DEF Init
<1>2. {t \in Tasks : body[t] # "none"} = {} /\ {t \in Tasks : body[t] = "onWorker"} = {}
  BY <1>1
<1> QED
  BY <1>1, <1>2 DEF Pool!Init, IDLE, RUNNING, TERMINATING, TERMINATED

Accepted == {t \in Tasks : body[t] # "none"}

LEMMA PoolStep == PoolInv /\ PoolInv' /\ [Next]_vars => [Pool!Next]_(Pool!vars)
<1> SUFFICES ASSUME PoolInv, PoolInv', [Next]_vars PROVE [Pool!Next]_(Pool!vars)
  OBVIOUS
<1> DEFINE Goal == [Pool!Next]_(Pool!vars)
<1>inv. /\ status \in IDLE .. TERMINATED /\ body \in [Tasks -> Places]
        /\ tasks \in Seq(Tasks) /\ TaskOwnership /\ FreshUntilAdded /\ HasTask
  BY DEF PoolInv, LimitInv, OwnInv, LockInv, CountInv, TypeOK
<1>same. ASSUME status' = status, tasks' = tasks,
                \A t \in Tasks : body'[t] = body[t] \/ ({body[t], body'[t]} \cap {"none", "onWorker"} = {})
         PROVE  Goal
  <2>1. Accepted' = Accepted /\ Serving' = Serving
    BY <1>same DEF Accepted, Serving
  <2>2. UNCHANGED Pool!vars
    BY <1>same, <2>1 DEF Pool!vars, Accepted, Serving
  <2> QED
    BY <2>2
\* A call that places its task has been admitted by a running pool.
<1>open. ASSUME NEW t \in Tasks, call[t] \in {"full", "add"}
         PROVE  status = RUNNING /\ body[t] = "none"
  <2>1. t \in Admitted /\ call[t] \in Placing
    BY <1>open DEF Admitted, Placing
  <2>2. ~(status > RUNNING) /\ status # IDLE
    BY <2>1 DEF PoolInv, LimitInv, OwnInv, LockInv, StoppedAdmitsNone
  <2> QED
    BY <1>open, <1>inv, <2>2 DEF FreshUntilAdded, IDLE, RUNNING, TERMINATED
<1>1. ASSUME NEW t \in Tasks, AddTask(t) \/ HandlePoolSizeExceeded(t) PROVE Goal
  <2>1. status = RUNNING /\ body[t] = "none" /\ status' = status
    BY <1>1, <1>open DEF AddTask, HandlePoolSizeExceeded, CallAt
  <2>2. ASSUME NEW p \in {"queued", "onGoroutine", "onCaller"}, Place(t, p)
        PROVE  Accepted' = Accepted \cup {t} /\ Serving' = Serving /\ t \notin Accepted
    BY <2>1, <2>2, <1>inv DEF Place, Accepted, Serving
  <2>3. \/ Enqueue(t)
        \/ UNCHANGED <<tasks, body>>
        \/ \E p \in {"onGoroutine", "onCaller"} : Place(t, p) /\ UNCHANGED tasks
    BY <1>1 DEF AddTask, HandlePoolSizeExceeded
  <2>4. CASE Enqueue(t)
    <3>1. Pool!Submit(t)
      BY <2>1, <2>2, <2>4 DEF Enqueue, Pool!Submit, Pool!Accept, Accepted, Serving,
         IDLE, RUNNING, TERMINATING, TERMINATED
    <3> QED
      BY <3>1 DEF Pool!Next
  <2>5. ASSUME NEW p \in {"onGoroutine", "onCaller"}, Place(t, p), UNCHANGED tasks
        PROVE  Goal
    <3>1. Pool!Bypass(t)
      BY <2>1, <2>2, <2>5 DEF Pool!Bypass, Pool!Accept, Accepted, Serving,
         IDLE, RUNNING, TERMINATING, TERMINATED
    <3> QED
      BY <3>1 DEF Pool!Next
  <2>6. CASE UNCHANGED <<tasks, body>>
    BY <1>same, <2>1, <2>6
  <2> QED
    BY <2>3, <2>4, <2>5, <2>6
<1>2. ASSUME NEW t \in Tasks, Start(t) PROVE Goal
  <2>1. CASE status = IDLE
    <3>1. Pool!Open
      BY <1>2, <2>1 DEF Start, Pool!Open, workerVars, IDLE, RUNNING, TERMINATING, TERMINATED
    <3> QED
      BY <3>1 DEF Pool!Next
  <2>2. CASE status # IDLE
    BY <1>2, <1>inv, <1>same, <2>2 DEF Start, IDLE
  <2> QED
    BY <2>1, <2>2
<1>3. ASSUME NEW t \in Tasks, FinishOnCaller(t) \/ FinishOnGoroutine(t) PROVE Goal
  <2>1. body[t] \in {"onCaller", "onGoroutine"} /\ Place(t, Outcome(t))
        /\ status' = status /\ tasks' = tasks
    BY <1>3, <1>inv DEF FinishOnCaller, FinishOnGoroutine, CallAt, FreshUntilAdded
  <2>2. body' = [body EXCEPT ![t] = Outcome(t)] /\ Outcome(t) \in {"aborted", "finished"}
    BY <2>1 DEF Place, Outcome
  <2>3. \A u \in Tasks : body'[u] = body[u]
          \/ ({body[u], body'[u]} \cap {"none", "onWorker"} = {})
    BY <2>1, <2>2, <1>inv
  <2> QED
    BY <2>1, <2>3, <1>same
<1>4. ASSUME NEW t \in Tasks,
             \/ BeginSchedule(t) \/ CheckStatus(t) \/ CheckSize(t) \/ TryAddWorker(t)
             \/ LoadStarted(t) \/ CompareAndSwap(t) \/ SpawnWorker(t) \/ AddExtraWorker(t)
             \/ WorkerStart(t) \/ CheckContext(t) \/ DecrementWorkers(t)
             \/ LeaveWaitGroup(t) \/ (GetTask(t) /\ tasks = << >>)
      PROVE  Goal
  BY <1>4, <1>same DEF BeginSchedule, CheckStatus, CheckSize, TryAddWorker, LoadStarted,
     CompareAndSwap, SpawnWorker, AddExtraWorker, WorkerStart, CheckContext,
     DecrementWorkers, LeaveWaitGroup, GetTask
<1>5. ASSUME NEW w \in Tasks, GetTask(w), tasks # << >> PROVE Goal
  <2>1. /\ worker[w] = "get" /\ tasks' = Tail(tasks) /\ status' = status
        /\ body' = [body EXCEPT ![Head(tasks)] = "onWorker"]
    BY <1>5 DEF GetTask, WorkerAt, Place
  <2>2. Head(tasks) \in Tasks /\ 1 \in DOMAIN tasks /\ tasks[1] = Head(tasks)
    BY <1>5, <1>inv
  <2>3. body[Head(tasks)] = "queued"
    BY <2>2, <1>inv DEF TaskOwnership
  <2>4. Serving' = Serving \cup {Head(tasks)} /\ Accepted' = Accepted
    BY <2>1, <2>2, <2>3, <1>inv DEF Serving, Accepted
  <2>5. status # TERMINATED
    BY <2>1 DEF PoolInv, LimitInv, OwnInv, LockInv, TerminatedHasNoWorker, Grouped
  <2>6. Cardinality(Serving) < Capacity
    BY <1>5, <2>1, RoomToServe
  <2>7. Pool!Serve
    BY <1>5, <1>inv, <2>1, <2>4, <2>5, <2>6, PoolCardinality
    DEF Pool!Serve, Serving, Accepted, IDLE, RUNNING, TERMINATING, TERMINATED
  <2> QED
    BY <2>7 DEF Pool!Next
<1>6. ASSUME NEW w \in Tasks, FinishTask(w) PROVE Goal
  <2>1. PICK t \in Tasks : t = current[w]
    BY <1>6, <1>inv DEF FinishTask, WorkerAt, HasTask
  <2>2. body[t] = "onWorker"
    BY <1>6, <2>1, <1>inv DEF FinishTask, WorkerAt, TaskOwnership, Busy
  <2>3. body' = [body EXCEPT ![t] = Outcome(t)] /\ Outcome(t) \in {"aborted", "finished"}
    BY <1>6, <2>1 DEF FinishTask, Place, Outcome
  <2>4. Serving' = Serving \ {t} /\ Accepted' = Accepted /\ t \in Serving
    BY <2>2, <2>3, <1>inv DEF Serving, Accepted
  <2>5. Pool!Complete(t)
    BY <1>6, <2>4 DEF FinishTask, Pool!Complete, Serving, Accepted
  <2> QED
    BY <2>5 DEF Pool!Next
<1>7. ASSUME NEW s \in Stoppers, BeginStop(s) PROVE Goal
  BY <1>7, <1>same DEF BeginStop
<1>8. ASSUME NEW s \in Stoppers, StopWorkers(s) PROVE Goal
  <2>1. CASE status = IDLE
    BY <1>8, <2>1, <1>same DEF StopWorkers
  <2>2. CASE status # IDLE
    <3>1. Pool!Close
      BY <1>8, <2>2, <1>inv DEF StopWorkers, Pool!Close,
         IDLE, RUNNING, TERMINATING, TERMINATED
    <3> QED
      BY <3>1 DEF Pool!Next
  <2> QED
    BY <2>1, <2>2
<1>9. ASSUME NEW s \in Stoppers, FinishStop(s) PROVE Goal
  <2>1. status > RUNNING /\ status' = TERMINATED /\ UNCHANGED <<tasks, body>>
    BY <1>9 DEF FinishStop, StopAt, PoolInv, LimitInv, OwnInv, LockInv, StoppedAdmitsNone
  <2>2. CASE status = TERMINATED
    BY <2>1, <2>2, <1>same
  <2>3. CASE status = TERMINATING
    <3>1. \A t \in Tasks : body'[t] # "onWorker"
      BY <2>1 DEF PoolInv, LimitInv, OwnInv, LockInv, TerminatedHasNoWorker, RunsSomewhere,
         Grouped
    <3>2. Serving = {}
      BY <3>1, <2>1 DEF Serving
    <3>3. Pool!Closed
      BY <2>1, <2>3, <3>2 DEF Pool!Closed, Serving, IDLE, RUNNING, TERMINATING, TERMINATED
    <3> QED
      BY <3>3 DEF Pool!Next
  <2> QED
    BY <2>1, <2>2, <2>3, <1>inv DEF IDLE, RUNNING, TERMINATING, TERMINATED
<1>10. ASSUME NEW r \in Resizers, CheckIncrease(r) \/ StoreIncrease(r) PROVE Goal
  BY <1>10, <1>same DEF CheckIncrease, StoreIncrease
<1>11. CASE CancelParent \/ UNCHANGED vars
  BY <1>11, <1>same DEF CancelParent, vars
<1>12. ASSUME NEW t \in Tasks, BeginSchedule(t) \/ ScheduleStep(t)
                                 \/ FinishOnGoroutine(t) \/ WorkerStep(t)
       PROVE  Goal
  BY <1>1, <1>2, <1>3, <1>4, <1>5, <1>6, <1>12 DEF ScheduleStep, WorkerStep
<1> QED
  BY <1>7, <1>8, <1>9, <1>10, <1>11, <1>12 DEF Next

\* Every behaviour of the code is one of the abstract pool, under every policy
\* and every interleaving: accepted while running, each task once, served first
\* in first out and within the limit, and none once it is terminated.
THEOREM AsyncPoolIsAPool == Spec => ImplementsTaskPool
<1>1. Spec => []PoolInv
  BY PoolInvInit, PoolInvStep, PTL DEF Spec
<1>2. PoolInv /\ PoolInv' /\ [Next]_vars => [Pool!Next]_(Pool!vars)
  BY PoolStep
<1> QED
  BY <1>1, <1>2, PoolInit, PTL DEF Spec, ImplementsTaskPool, Pool!Spec
=============================================================================
