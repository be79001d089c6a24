--------------------------- MODULE HttpClientProofs ---------------------------
(***************************************************************************)
(* Theorems about HttpClient, for any requests, workers, calls of Stop,    *)
(* queue size, number of retries and interceptors: types and the wait      *)
(* group, what a stopped client owes nobody any more, what a caller is     *)
(* told, and that the client is a TaskPool.                                *)
(*                                                                         *)
(* The inductive invariant IInv has one part per question: what a worker   *)
(* holds, what the wait group counts, how far Stop has come, why a worker  *)
(* has left, where each accepted request is, and who has answered it.      *)
(***************************************************************************)
EXTENDS HttpClient, FiniteSetTheorems, TLAPS

Busy     == {"execute", "complete", "panicking"}
Stopping == {"cancel", "wait", "set"}
Alive    == {w \in Workers : worker[w] # "gone"}

\* A worker holds a request exactly while it works on it, and begins a new one
\* with its attempts uncounted.
HoldsWhileBusy ==
  \A w \in Workers :
    /\ executing[w] # NoOne <=> worker[w] \in Busy
    /\ worker[w] \notin Busy => attempt[w] = 0
    /\ worker[w] = "execute" => attempt[w] < MaxRetries

\* stopWg counts the workers that have not left.
GroupCounts == stopWg = Cardinality(Alive)

\* The context ends, and workers drain, after the status has changed; one Stop
\* at a time is under way, and it sets the status when all have left.
StopOrder ==
  /\ done => status # "running"
  /\ draining # {} => done
  /\ \A w \in Workers : worker[w] = "drain" => w \in draining
  /\ \A s \in Stoppers : stop[s] \in Stopping => status = "terminating"
  /\ \A s, t \in Stoppers : stop[s] \in Stopping /\ stop[t] \in Stopping => s = t
  /\ status = "stopped" \/ (\E s \in Stoppers : stop[s] = "set") =>
       \A w \in Workers : worker[w] = "gone"

\* A worker leaves because it was ended by a panic, or after the last request.
LeavesDrained ==
  \A w \in Workers : worker[w] \in {"leave", "gone"} =>
    w \in crashed \/ (status # "running" /\ queue = << >>)

\* A request is queued once or held by one worker, never both.
OnePlace ==
  /\ \A i, j \in DOMAIN queue : queue[i] = queue[j] => i = j
  /\ \A v, w \in Workers : executing[v] = executing[w] /\ executing[v] # NoOne => v = w
  /\ \A r \in Requests, w \in Workers : executing[w] = r => ~InQueue(r)

\* Only an accepted request is queued or held; it is accepted once, and its
\* answer comes after its caller has handed it over and after the queue.
AcceptedFirst ==
  /\ \A r \in Requests : InQueue(r) => r \in accepted /\ response[r] = "pending"
  /\ \A w \in Workers : executing[w] # NoOne => executing[w] \in accepted
  /\ \A r \in Requests : request[r] \in {"idle", "refused"} =>
       r \notin accepted /\ response[r] = "pending"
  /\ \A r \in Requests : response[r] = "resolved" => r \in accepted

\* A request that is neither queued nor held has its answer, unless it panicked.
Answered(r) == response[r] # "pending" \/ Interceptor[r] = "panics"
Accounted ==
  \A r \in accepted : InQueue(r) \/ (\E w \in Workers : executing[w] = r) \/ Answered(r)
WorkEnds ==
  \A w \in Workers :
    /\ worker[w] = "complete" => response[executing[w]] # "pending"
    /\ worker[w] = "panicking" => Answered(executing[w])
Released ==
  \A r \in Requests :
    response[r] # "pending" /\ (\A w \in Workers : executing[w] # r) => r \in ended
SomewhereOrAnswered == Accounted /\ WorkEnds /\ Released

IInv ==
  /\ TypeOK /\ HoldsWhileBusy /\ GroupCounts /\ StopOrder /\ LeavesDrained
  /\ OnePlace /\ AcceptedFirst /\ SomewhereOrAnswered

-----------------------------------------------------------------------------
(* The queue and the sets that are counted *)

\* A send puts one request at the end and moves no other.
LEMMA EnqueueAdds ==
  ASSUME NEW r \in Requests, queue \in Seq(Requests), queue' = Append(queue, r)
  PROVE  /\ \A x \in Requests : InQueue(x)' <=> InQueue(x) \/ x = r
         /\ (\A i, j \in DOMAIN queue : queue[i] = queue[j] => i = j) /\ ~InQueue(r) =>
              \A i, j \in DOMAIN queue' : queue'[i] = queue'[j] => i = j
<1>1. /\ DOMAIN queue = 1 .. Len(queue) /\ Len(queue) \in Nat
      /\ DOMAIN queue' = 1 .. Len(queue) + 1
      /\ \A i \in 1 .. Len(queue) : queue'[i] = queue[i]
      /\ queue'[Len(queue) + 1] = r
  OBVIOUS
<1>2. \A i \in DOMAIN queue' : i \in DOMAIN queue \/ i = Len(queue) + 1
  BY <1>1
<1>3. DOMAIN queue \subseteq DOMAIN queue' /\ Len(queue) + 1 \in DOMAIN queue'
  BY <1>1
<1>4. \A x \in Requests : InQueue(x)' <=> InQueue(x) \/ x = r
  BY <1>1, <1>2, <1>3 DEF InQueue
<1>5. ASSUME \A i, j \in DOMAIN queue : queue[i] = queue[j] => i = j, ~InQueue(r)
      PROVE  \A i, j \in DOMAIN queue' : queue'[i] = queue'[j] => i = j
  BY <1>1, <1>2, <1>5 DEF InQueue
<1> QED
  BY <1>4, <1>5

\* A receive takes the first request and leaves the others in their order.
LEMMA TakeRemoves ==
  ASSUME queue \in Seq(Requests), queue # << >>, queue' = Tail(queue),
         \A i, j \in DOMAIN queue : queue[i] = queue[j] => i = j
  PROVE  /\ Head(queue) \in Requests /\ InQueue(Head(queue))
         /\ \A x \in Requests : InQueue(x)' <=> InQueue(x) /\ x # Head(queue)
         /\ \A i, j \in DOMAIN queue' : queue'[i] = queue'[j] => i = j
<1>1. /\ DOMAIN queue = 1 .. Len(queue) /\ Len(queue) \in Nat \ {0}
      /\ Len(queue') = Len(queue) - 1 /\ DOMAIN queue' = 1 .. Len(queue) - 1
      /\ \A i \in 1 .. Len(queue) - 1 : queue'[i] = queue[i + 1]
      /\ Head(queue) = queue[1] /\ 1 \in DOMAIN queue
  OBVIOUS
<1>2. \A i \in DOMAIN queue' : i \in Nat /\ i + 1 \in DOMAIN queue /\ i + 1 # 1
                                 /\ queue'[i] = queue[i + 1]
  BY <1>1
<1>3. \A i \in DOMAIN queue : i # 1 => i - 1 \in DOMAIN queue' /\ queue'[i - 1] = queue[i]
  BY <1>1
<1>4. Head(queue) \in Requests /\ InQueue(Head(queue))
  BY <1>1 DEF InQueue
<1>5. ASSUME NEW x \in Requests PROVE InQueue(x)' <=> InQueue(x) /\ x # Head(queue)
  <2>1. InQueue(x)' => InQueue(x) /\ x # Head(queue)
    BY <1>1, <1>2 DEF InQueue
  <2>2. InQueue(x) /\ x # Head(queue) => InQueue(x)'
    BY <1>1, <1>3 DEF InQueue
  <2> QED
    BY <2>1, <2>2
<1>6. \A i, j \in DOMAIN queue' : queue'[i] = queue'[j] => i = j
  <2> SUFFICES ASSUME NEW i \in DOMAIN queue', NEW j \in DOMAIN queue', queue'[i] = queue'[j]
               PROVE  i = j
    OBVIOUS
  <2>1. i + 1 = j + 1
    BY <1>2
  <2> QED
    BY <2>1, <1>2
<1> QED
  BY <1>4, <1>5, <1>6

\* An empty queue holds no request, and a send leaves none empty.
LEMMA EmptyQueue ==
  ASSUME queue \in Seq(Requests)
  PROVE  queue = << >> => \A r \in Requests : ~InQueue(r)
BY DEF InQueue

LEMMA AliveFinite == IsFiniteSet(Alive) /\ Cardinality(Alive) \in Nat
<1>1. Alive \in SUBSET Workers
  BY DEF Alive
<1> QED
  BY <1>1, HttpClientAssumption, FS_Subset, FS_CardinalityType DEF HttpClientAssumption

-----------------------------------------------------------------------------
(* Types and the wait group *)

LEMMA InitInv == Init => IInv
<1> SUFFICES ASSUME Init PROVE IInv
  OBVIOUS
<1> USE DEF Init
<1>1. Alive = Workers
  BY DEF Alive
<1>2. Cardinality(Workers) \in Nat /\ Workers # {} /\ MaxRetries \in Nat \ {0}
  BY HttpClientAssumption, FS_CardinalityType DEF HttpClientAssumption
<1>3. TypeOK
  <2>1. queue \in Seq(Requests) /\ stopWg \in Nat
    BY <1>2
  <2>2. /\ worker \in [Workers -> {"select", "drain", "execute", "complete", "panicking",
                                   "leave", "gone"}]
        /\ executing \in [Workers -> Requests \cup {NoOne}]
        /\ attempt \in [Workers -> 0 .. MaxRetries]
    BY <1>2
  <2>3. /\ request \in [Requests -> {"idle", "refused", "get", "returned"}]
        /\ response \in [Requests -> {"pending", "resolved", "rejected"}]
        /\ stop \in [Stoppers -> {"idle", "cancel", "wait", "set", "returned"}]
    OBVIOUS
  <2> QED
    BY <2>1, <2>2, <2>3 DEF TypeOK
<1>4. HoldsWhileBusy /\ GroupCounts
  BY <1>1, <1>2 DEF HoldsWhileBusy, GroupCounts, Busy
<1>5. StopOrder /\ LeavesDrained
  BY DEF StopOrder, LeavesDrained, Stopping
<1>6. \A r \in Requests : ~InQueue(r)
  BY EmptyQueue DEF InQueue
<1>7. OnePlace /\ AcceptedFirst /\ SomewhereOrAnswered
  BY <1>6 DEF OnePlace, AcceptedFirst, SomewhereOrAnswered, Accounted, WorkEnds, Released
<1> QED
  BY <1>3, <1>4, <1>5, <1>7 DEF IInv

\* The wait group is told of a worker once, when the worker leaves.
LEMMA GroupStep == IInv /\ [Next]_vars => GroupCounts'
<1> SUFFICES ASSUME IInv, [Next]_vars PROVE GroupCounts'
  OBVIOUS
<1> USE DEF IInv
<1>same. CASE Alive' = Alive /\ stopWg' = stopWg
  BY <1>same DEF GroupCounts
<1>1. ASSUME NEW w \in Workers, CompleteWorker(w) PROVE GroupCounts'
  <2>1. w \in Alive /\ Alive' = Alive \ {w} /\ stopWg' = stopWg - 1
    BY <1>1 DEF CompleteWorker, WorkerGoto, Alive, TypeOK
  <2> QED
    BY <2>1, AliveFinite, FS_RemoveElement DEF GroupCounts
<1>2. ASSUME NEW w \in Workers, Select(w) \/ Drain(w) \/ Attempt(w) \/ Complete(w)
      PROVE  GroupCounts'
  <2>1. \A v \in Workers : worker[v] = "gone" <=> worker'[v] = "gone"
    BY <1>2 DEF Select, Drain, Attempt, Complete, Take, Succeed, Fail, Panic,
       WorkerGoto, TypeOK
  <2>2. Alive' = Alive /\ stopWg' = stopWg
    BY <1>2, <2>1 DEF Select, Drain, Attempt, Complete, Alive
  <2> QED
    BY <2>2, <1>same
<1>3. ASSUME NEW r \in Requests, Submit(r) \/ RequestStep(r) \/ Expire(r)
      PROVE  GroupCounts'
  BY <1>3, <1>same DEF Submit, RequestStep, Reject, Get, Expire, workVars, Alive
<1>4. ASSUME NEW s \in Stoppers, BeginStop(s) \/ StopStep(s)
      PROVE  GroupCounts'
  BY <1>4, <1>same DEF BeginStop, StopStep, Cancel, WaitWorkers, SetStopped, workVars,
     Alive
<1>5. CASE UNCHANGED vars
  BY <1>5, <1>same DEF vars, workVars, Alive
<1> QED
  BY <1>1, <1>2, <1>3, <1>4, <1>5 DEF Next, WorkerStep

\* A worker that takes a request was free, and begins with no attempt made.
LEMMA HoldsStep == IInv /\ [Next]_vars => HoldsWhileBusy'
<1> SUFFICES ASSUME IInv, [Next]_vars PROVE HoldsWhileBusy'
  OBVIOUS
<1> USE DEF IInv, Busy
<1>no. NoOne \notin Requests /\ MaxRetries \in Nat \ {0}
  BY HttpClientAssumption DEF HttpClientAssumption
<1>1. ASSUME NEW w \in Workers, Select(w) \/ Drain(w) PROVE HoldsWhileBusy'
  <2>1. CASE Take(w)
    <3>1. Head(queue) \in Requests
      BY <2>1 DEF Take, TypeOK
    <3>2. attempt' = attempt /\ worker[w] \in {"select", "drain"}
      BY <1>1 DEF Select, Drain
    <3> QED
      BY <2>1, <3>1, <3>2, <1>no DEF Take, WorkerGoto, HoldsWhileBusy, TypeOK
  <2>2. CASE ~Take(w)
    BY <1>1, <2>2 DEF Select, Drain, WorkerGoto, HoldsWhileBusy, TypeOK
  <2> QED
    BY <2>1, <2>2
<1>2. ASSUME NEW w \in Workers, Attempt(w) PROVE HoldsWhileBusy'
  <2>1. executing' = executing /\ worker[w] = "execute"
        /\ worker' = [worker EXCEPT ![w] = worker'[w]] /\ worker'[w] \in Busy
    BY <1>2 DEF Attempt, Succeed, Fail, Panic, WorkerGoto, TypeOK
  <2>2. attempt' = attempt \/ attempt' = [attempt EXCEPT ![w] = @ + 1]
    BY <1>2 DEF Attempt, Succeed, Fail, Panic
  <2>3. worker'[w] = "execute" => attempt'[w] < MaxRetries
    BY <1>2 DEF Attempt, Succeed, Fail, Panic, WorkerGoto, TypeOK
  <2> QED
    BY <2>1, <2>2, <2>3 DEF HoldsWhileBusy, TypeOK
<1>3. ASSUME NEW w \in Workers, Complete(w) PROVE HoldsWhileBusy'
  BY <1>3 DEF Complete, WorkerGoto, HoldsWhileBusy, TypeOK
<1>4. ASSUME NEW w \in Workers, CompleteWorker(w) PROVE HoldsWhileBusy'
  BY <1>4 DEF CompleteWorker, WorkerGoto, HoldsWhileBusy, TypeOK
<1>5. CASE UNCHANGED workVars
  BY <1>5 DEF workVars, HoldsWhileBusy
<1>6. ASSUME NEW r \in Requests, Submit(r) \/ RequestStep(r) \/ Expire(r)
      PROVE  UNCHANGED workVars
  BY <1>6 DEF Submit, RequestStep, Reject, Get, Expire
<1>7. ASSUME NEW s \in Stoppers, BeginStop(s) \/ StopStep(s) PROVE UNCHANGED workVars
  BY <1>7 DEF BeginStop, StopStep, Cancel, WaitWorkers, SetStopped
<1>8. UNCHANGED vars => UNCHANGED workVars
  BY DEF vars
<1> QED
  BY <1>1, <1>2, <1>3, <1>4, <1>5, <1>6, <1>7, <1>8 DEF Next, WorkerStep

\* Every action leaves every variable in its type; the wait group because it counts.
LEMMA TypeStep == IInv /\ [Next]_vars => TypeOK'
<1> SUFFICES ASSUME IInv, [Next]_vars PROVE TypeOK'
  OBVIOUS
<1>count. stopWg' \in Nat
  <2>1. GroupCounts' /\ Alive' \in SUBSET Workers
    BY GroupStep DEF Alive
  <2> QED
    BY <2>1, HttpClientAssumption, FS_Subset, FS_CardinalityType
    DEF GroupCounts, HttpClientAssumption
<1> USE <1>count DEF IInv, TypeOK
<1>1. ASSUME NEW r \in Requests, Submit(r) PROVE TypeOK'
  <2>1. queue' \in Seq(Requests) /\ accepted' \subseteq Requests
    <3>1. CASE Enqueue(r)
      BY <3>1 DEF Enqueue
    <3>2. CASE Refuse(r)
      BY <3>2 DEF Refuse
    <3> QED
      BY <1>1, <3>1, <3>2 DEF Submit
  <2>2. request' \in [Requests -> {"idle", "refused", "get", "returned"}]
    <3>1. PICK pc \in {"get", "refused"} : request' = [request EXCEPT ![r] = pc]
      BY <1>1 DEF Submit, Enqueue, Refuse, Goto
    <3> QED
      BY <3>1
  <2> QED
    BY <1>1, <2>1, <2>2 DEF Submit, workVars
<1>2. ASSUME NEW r \in Requests, RequestStep(r) \/ Expire(r) PROVE TypeOK'
  <2>1. CASE Reject(r)
    BY <2>1 DEF Reject, Goto, Answer, workVars
  <2>2. CASE Get(r)
    BY <2>2 DEF Get, Goto, workVars
  <2>3. CASE Expire(r)
    BY <2>3 DEF Expire, workVars, clientVars
  <2> QED
    BY <1>2, <2>1, <2>2, <2>3 DEF RequestStep
<1>3. ASSUME NEW w \in Workers, Select(w) \/ Drain(w) PROVE TypeOK'
  <2>1. queue' \in Seq(Requests) /\ executing' \in [Workers -> Requests \cup {NoOne}]
    <3>1. CASE Take(w)
      <4>1. Head(queue) \in Requests /\ Tail(queue) \in Seq(Requests)
        BY <3>1 DEF Take
      <4> QED
        BY <3>1, <4>1 DEF Take
    <3>2. CASE ~Take(w)
      BY <1>3, <3>2 DEF Select, Drain
    <3> QED
      BY <3>1, <3>2
  <2>2. worker' \in [Workers -> {"select", "drain", "execute", "complete", "panicking",
                                  "leave", "gone"}]
    BY <1>3 DEF Select, Drain, Take, WorkerGoto
  <2>3. draining' \subseteq Workers
    BY <1>3 DEF Select, Drain
  <2>4. UNCHANGED <<status, done, stopWg, attempt, crashed, request, accepted, response,
                    ended, stop>>
    BY <1>3 DEF Select, Drain, clientVars
  <2> QED
    BY <2>1, <2>2, <2>3, <2>4
<1>4. ASSUME NEW w \in Workers, Attempt(w) PROVE TypeOK'
  <2>1. executing[w] \in Requests /\ attempt[w] < MaxRetries
    BY <1>4 DEF Attempt, HoldsWhileBusy, Busy
  <2>2. response' \in [Requests -> {"pending", "resolved", "rejected"}]
    BY <1>4, <2>1 DEF Attempt, Succeed, Fail, Panic, Answer
  <2>3. attempt' \in [Workers -> 0 .. MaxRetries]
    <3>1. attempt' = attempt \/ attempt' = [attempt EXCEPT ![w] = @ + 1]
      BY <1>4 DEF Attempt, Succeed, Fail, Panic
    <3>2. attempt[w] + 1 \in 0 .. MaxRetries
      BY <2>1, HttpClientAssumption DEF HttpClientAssumption
    <3> QED
      BY <3>1, <3>2
  <2>4. worker' \in [Workers -> {"select", "drain", "execute", "complete", "panicking",
                                  "leave", "gone"}]
    <3>1. PICK pc \in Busy : worker' = [worker EXCEPT ![w] = pc]
      BY <1>4 DEF Attempt, Succeed, Fail, Panic, WorkerGoto, Busy
    <3> QED
      BY <3>1 DEF Busy
  <2> QED
    BY <1>4, <2>2, <2>3, <2>4 DEF Attempt, clientVars
<1>5. ASSUME NEW w \in Workers, Complete(w) PROVE TypeOK'
  <2>1. executing[w] \in Requests /\ 0 \in 0 .. MaxRetries
    BY <1>5, HttpClientAssumption DEF Complete, HoldsWhileBusy, Busy, HttpClientAssumption
  <2> QED
    BY <1>5, <2>1 DEF Complete, WorkerGoto, clientVars
<1>6. ASSUME NEW w \in Workers, CompleteWorker(w) PROVE TypeOK'
  BY <1>6 DEF CompleteWorker, WorkerGoto, clientVars
<1>7. ASSUME NEW s \in Stoppers, BeginStop(s) \/ StopStep(s) PROVE TypeOK'
  BY <1>7 DEF BeginStop, StopStep, Cancel, WaitWorkers, SetStopped, StopGoto, workVars,
     clientVars
<1>8. CASE UNCHANGED vars
  BY <1>8 DEF vars, workVars, clientVars
<1> QED
  BY <1>1, <1>2, <1>3, <1>4, <1>5, <1>6, <1>7, <1>8 DEF Next, WorkerStep

-----------------------------------------------------------------------------
(* Stop and the workers *)

\* The wait group is at zero when every worker has left.
LEMMA NoneAlive ==
  ASSUME GroupCounts, stopWg = 0 PROVE \A w \in Workers : worker[w] = "gone"
<1>1. Alive = {}
  BY AliveFinite, FS_EmptySet DEF GroupCounts
<1> QED
  BY <1>1 DEF Alive

LEMMA StopOrderStep == IInv /\ [Next]_vars => StopOrder'
<1> SUFFICES ASSUME IInv, [Next]_vars PROVE StopOrder'
  OBVIOUS
<1> USE DEF IInv
<1>1. ASSUME NEW r \in Requests, Submit(r) \/ RequestStep(r) \/ Expire(r)
      PROVE  StopOrder'
  BY <1>1 DEF Submit, RequestStep, Reject, Get, Expire, workVars, StopOrder
<1>2. ASSUME NEW w \in Workers, WorkerStep(w) PROVE StopOrder'
  <2>1. worker[w] # "gone" /\ worker' = [worker EXCEPT ![w] = worker'[w]]
    BY <1>2 DEF WorkerStep, Select, Drain, Attempt, Complete, CompleteWorker, Take,
       Succeed, Fail, Panic, WorkerGoto, TypeOK
  <2>2. UNCHANGED <<status, done, stop>>
    BY <1>2 DEF WorkerStep, Select, Drain, Attempt, Complete, CompleteWorker
  <2>3. draining' = draining \/ (done /\ draining' = draining \cup {w})
    BY <1>2 DEF WorkerStep, Select, Drain, Attempt, Complete, CompleteWorker
  <2>4. worker'[w] = "drain" => w \in draining'
    BY <1>2 DEF WorkerStep, Select, Drain, Attempt, Complete, CompleteWorker, Take,
       Succeed, Fail, Panic, WorkerGoto, TypeOK
  <2>5. \A v \in Workers : worker'[v] = "drain" => v \in draining'
    BY <2>1, <2>3, <2>4 DEF StopOrder, TypeOK
  <2>6. draining' # {} => done
    BY <2>3 DEF StopOrder
  <2>7. ~(status = "stopped" \/ \E s \in Stoppers : stop[s] = "set")
    BY <2>1 DEF StopOrder
  <2> QED
    BY <2>2, <2>5, <2>6, <2>7 DEF StopOrder
<1>3. ASSUME NEW s \in Stoppers, BeginStop(s) PROVE StopOrder'
  BY <1>3 DEF BeginStop, StopGoto, workVars, StopOrder, Stopping, TypeOK
<1>4. ASSUME NEW s \in Stoppers, Cancel(s) PROVE StopOrder'
  BY <1>4 DEF Cancel, StopGoto, workVars, StopOrder, Stopping, TypeOK
<1>5. ASSUME NEW s \in Stoppers, WaitWorkers(s) PROVE StopOrder'
  <2>1. \A w \in Workers : worker[w] = "gone"
    BY <1>5, NoneAlive DEF WaitWorkers
  <2> QED
    BY <1>5, <2>1 DEF WaitWorkers, StopGoto, workVars, StopOrder, Stopping, TypeOK
<1>6. ASSUME NEW s \in Stoppers, SetStopped(s) PROVE StopOrder'
  BY <1>6 DEF SetStopped, StopGoto, workVars, StopOrder, Stopping, TypeOK
<1>7. CASE UNCHANGED vars
  BY <1>7 DEF vars, workVars, StopOrder
<1> QED
  BY <1>1, <1>2, <1>3, <1>4, <1>5, <1>6, <1>7 DEF Next, StopStep

\* Once the status has changed nothing is queued any more, so the queue a worker
\* has left empty stays so.
LEMMA LeavesStep == IInv /\ [Next]_vars => LeavesDrained'
<1> SUFFICES ASSUME IInv, [Next]_vars PROVE LeavesDrained'
  OBVIOUS
<1> USE DEF IInv
<1>1. ASSUME NEW r \in Requests, Submit(r) PROVE LeavesDrained'
  <2>1. queue' = queue \/ status = "running"
    BY <1>1 DEF Submit, Refuse
  <2> QED
    BY <1>1, <2>1 DEF Submit, workVars, LeavesDrained
<1>2. ASSUME NEW r \in Requests, RequestStep(r) \/ Expire(r) PROVE LeavesDrained'
  BY <1>2 DEF RequestStep, Reject, Get, Expire, workVars, LeavesDrained
<1>3. ASSUME NEW w \in Workers, Select(w) \/ Drain(w) PROVE LeavesDrained'
  <2>1. queue = << >> => queue' = << >>
    BY <1>3 DEF Select, Drain, Take
  <2>2. worker[w] \notin {"leave", "gone"} /\ worker' = [worker EXCEPT ![w] = worker'[w]]
    BY <1>3 DEF Select, Drain, Take, WorkerGoto, TypeOK
  <2>3. worker'[w] \in {"leave", "gone"} => queue' = << >> /\ done
    BY <1>3 DEF Select, Drain, Take, WorkerGoto, TypeOK, StopOrder
  <2>4. UNCHANGED <<status, crashed>> /\ (done => status # "running")
    BY <1>3 DEF Select, Drain, StopOrder
  <2> QED
    BY <2>1, <2>2, <2>3, <2>4 DEF LeavesDrained, TypeOK
<1>4. ASSUME NEW w \in Workers, Attempt(w) PROVE LeavesDrained'
  BY <1>4 DEF Attempt, Succeed, Fail, Panic, WorkerGoto, LeavesDrained, TypeOK
<1>5. ASSUME NEW w \in Workers, Complete(w) PROVE LeavesDrained'
  BY <1>5 DEF Complete, WorkerGoto, LeavesDrained, TypeOK
<1>6. ASSUME NEW w \in Workers, CompleteWorker(w) PROVE LeavesDrained'
  BY <1>6 DEF CompleteWorker, WorkerGoto, LeavesDrained, TypeOK
<1>7. ASSUME NEW s \in Stoppers, BeginStop(s) \/ StopStep(s) PROVE LeavesDrained'
  BY <1>7 DEF BeginStop, StopStep, Cancel, WaitWorkers, SetStopped, workVars,
     LeavesDrained
<1>8. CASE UNCHANGED vars
  BY <1>8 DEF vars, workVars, LeavesDrained
<1> QED
  BY <1>1, <1>2, <1>3, <1>4, <1>5, <1>6, <1>7, <1>8 DEF Next, WorkerStep

-----------------------------------------------------------------------------
(* Where a request is and who has answered it *)

Places == OnePlace /\ AcceptedFirst /\ SomewhereOrAnswered

\* A request is queued once because it is submitted once.
LEMMA SubmitPlaces ==
  ASSUME IInv, NEW r \in Requests, Submit(r) PROVE Places'
<1> USE DEF IInv
<1>1. /\ request[r] = "idle" /\ r \notin accepted /\ ~InQueue(r)
      /\ \A w \in Workers : executing[w] # r
      /\ response[r] = "pending"
  <2>1. NoOne # r
    BY HttpClientAssumption DEF HttpClientAssumption
  <2> QED
    BY <2>1 DEF Submit, AcceptedFirst
<1>2. UNCHANGED <<worker, executing, response, ended>>
  BY DEF Submit, workVars
<1>3. CASE Enqueue(r)
  <2>1. /\ \A x \in Requests : InQueue(x)' <=> InQueue(x) \/ x = r
        /\ \A i, j \in DOMAIN queue' : queue'[i] = queue'[j] => i = j
    BY <1>1, <1>3, EnqueueAdds DEF Enqueue, OnePlace, TypeOK
  <2>2. accepted' = accepted \cup {r}
    BY <1>3 DEF Enqueue
  <2>3. request' = [request EXCEPT ![r] = "get"]
    BY <1>3 DEF Enqueue, Goto
  <2>4. OnePlace'
    BY <1>1, <1>2, <2>1 DEF OnePlace
  <2>5. AcceptedFirst'
    BY <1>1, <1>2, <2>1, <2>2, <2>3 DEF AcceptedFirst, TypeOK
  <2>6. SomewhereOrAnswered'
    BY <1>1, <1>2, <2>1, <2>2 DEF SomewhereOrAnswered, Accounted, WorkEnds, Released, Answered, TypeOK
  <2> QED
    BY <2>4, <2>5, <2>6 DEF Places
<1>4. CASE Refuse(r)
  <2>1. UNCHANGED <<queue, accepted>> /\ \A x \in Requests : InQueue(x)' = InQueue(x)
    BY <1>4 DEF Refuse, InQueue
  <2>2. request' = [request EXCEPT ![r] = "refused"]
    BY <1>4 DEF Refuse, Goto
  <2>4. OnePlace'
    BY <1>2, <2>1 DEF OnePlace
  <2>5. AcceptedFirst'
    BY <1>1, <1>2, <2>1, <2>2 DEF AcceptedFirst, TypeOK
  <2>6. SomewhereOrAnswered'
    BY <1>2, <2>1 DEF SomewhereOrAnswered, Accounted, WorkEnds, Released, Answered, TypeOK
  <2> QED
    BY <2>4, <2>5, <2>6 DEF Places
<1> QED
  BY <1>3, <1>4 DEF Submit

\* A worker takes the first request out of the queue, and no other has it.
LEMMA TakePlaces ==
  ASSUME IInv, NEW w \in Workers, Select(w) \/ Drain(w) PROVE Places'
<1> USE DEF IInv
<1>1. UNCHANGED <<request, accepted, response, ended>> /\ worker[w] \notin Busy
  BY DEF Select, Drain, clientVars, Busy
<1>2. executing[w] = NoOne /\ NoOne \notin Requests
  BY <1>1, HttpClientAssumption DEF HoldsWhileBusy, HttpClientAssumption
<1>3. CASE Take(w)
  <2> DEFINE r == Head(queue)
  <2>1. /\ r \in Requests /\ InQueue(r)
        /\ \A x \in Requests : InQueue(x)' <=> InQueue(x) /\ x # r
        /\ \A i, j \in DOMAIN queue' : queue'[i] = queue'[j] => i = j
    BY <1>3, TakeRemoves DEF Take, OnePlace, TypeOK
  <2>2. /\ executing' = [executing EXCEPT ![w] = r]
        /\ worker' = [worker EXCEPT ![w] = "execute"]
    BY <1>3 DEF Take, WorkerGoto
  <2> HIDE DEF r
  <2>3. r \in accepted /\ response[r] = "pending" /\ \A v \in Workers : executing[v] # r
    BY <2>1 DEF AcceptedFirst, OnePlace
  <2>4. OnePlace'
    BY <1>2, <2>1, <2>2, <2>3 DEF OnePlace, TypeOK
  <2>5. AcceptedFirst'
    BY <1>1, <2>1, <2>2, <2>3 DEF AcceptedFirst, TypeOK
  <2>6. executing'[w] = r /\ \A v \in Workers \ {w} : executing'[v] = executing[v]
    BY <2>2 DEF TypeOK
  <2>7. Accounted'
    <3> SUFFICES ASSUME NEW x \in accepted, ~InQueue(x)', ~Answered(x)
                 PROVE  \E v \in Workers : executing'[v] = x
      BY <1>1 DEF Answered, Accounted
    <3>1. CASE x = r
      BY <3>1, <2>6
    <3>2. CASE x # r
      BY <3>2, <1>2, <2>1, <2>6 DEF SomewhereOrAnswered, Accounted, WorkEnds, Released, TypeOK
    <3> QED
      BY <3>1, <3>2
  <2>8. Released'
    BY <1>1, <1>2, <2>1, <2>3, <2>6 DEF SomewhereOrAnswered, Accounted, WorkEnds, Released
  <2>9. WorkEnds'
    BY <1>1, <2>2 DEF SomewhereOrAnswered, Accounted, WorkEnds, Released, Answered, TypeOK
  <2> QED
    BY <2>4, <2>5, <2>7, <2>8, <2>9 DEF Places, SomewhereOrAnswered
<1>4. CASE ~Take(w)
  <2>1. UNCHANGED <<queue, executing>> /\ \A x \in Requests : InQueue(x)' = InQueue(x)
    BY <1>4 DEF Select, Drain, InQueue
  <2>2. \A v \in Workers : worker'[v] \in Busy => worker'[v] = worker[v]
    BY <1>4 DEF Select, Drain, WorkerGoto, TypeOK, Busy
  <2>3. OnePlace' /\ AcceptedFirst'
    BY <1>1, <2>1 DEF OnePlace, AcceptedFirst
  <2>4. SomewhereOrAnswered'
    BY <1>1, <2>1, <2>2 DEF SomewhereOrAnswered, Accounted, WorkEnds, Released, Answered, Busy, TypeOK
  <2> QED
    BY <2>3, <2>4 DEF Places
<1> QED
  BY <1>3, <1>4

\* An attempt answers nobody but the request the worker holds.
LEMMA AttemptPlaces ==
  ASSUME IInv, NEW w \in Workers, Attempt(w) PROVE Places'
<1> DEFINE r == executing[w]
<1> USE DEF IInv
<1>1. /\ UNCHANGED <<queue, executing, request, accepted, ended>>
      /\ \A x \in Requests : InQueue(x)' = InQueue(x)
  BY DEF Attempt, clientVars, InQueue
<1>2. r \in Requests /\ r \in accepted /\ ~InQueue(r)
  BY DEF Attempt, HoldsWhileBusy, Busy, AcceptedFirst, OnePlace, TypeOK
<1>3. PICK how \in {"resolved", "rejected"} :
        response' = response \/ (Interceptor[r] # "panics" /\ Answer(r, how))
  BY DEF Attempt, Succeed, Fail, Panic
<1>4. /\ \A x \in Requests \ {r} : response'[x] = response[x]
      /\ \A x \in Requests : response[x] # "pending" => response'[x] = response[x]
  BY <1>3, <1>2 DEF Answer, TypeOK
<1>5. PICK pc \in Busy : worker' = [worker EXCEPT ![w] = pc]
  BY DEF Attempt, Succeed, Fail, Panic, WorkerGoto, Busy
<1>6. worker'[w] = "complete" => response'[r] # "pending"
  BY <1>2 DEF Attempt, Succeed, Fail, Panic, Answer, WorkerGoto, TypeOK
<1>7. worker'[w] = "panicking" => response'[r] # "pending" \/ Interceptor[r] = "panics"
  BY <1>2 DEF Attempt, Succeed, Fail, Panic, Answer, WorkerGoto, TypeOK
<1> HIDE DEF r
<1>8. \A v \in Workers : executing[v] # NoOne /\ v # w => executing[v] # r
  BY DEF OnePlace, r
<1>9. OnePlace'
  BY <1>1 DEF OnePlace
<1>10. AcceptedFirst'
  BY <1>1, <1>2, <1>4 DEF AcceptedFirst
<1>11. Accounted'
  BY <1>1, <1>4 DEF SomewhereOrAnswered, Accounted, WorkEnds, Released, Answered, TypeOK
<1>12. WorkEnds'
  <2> SUFFICES ASSUME NEW v \in Workers
               PROVE  /\ worker'[v] = "complete" => response'[executing[v]] # "pending"
                      /\ worker'[v] = "panicking" =>
                           response'[executing[v]] # "pending" \/ Interceptor[executing[v]] = "panics"
    BY <1>1 DEF Answered, WorkEnds
  <2>1. CASE v = w
    BY <2>1, <1>6, <1>7 DEF r
  <2>2. CASE v # w
    <3>1. worker'[v] = worker[v]
      BY <2>2, <1>5 DEF TypeOK
    <3>2. worker[v] \in Busy => executing[v] \in Requests
      BY DEF HoldsWhileBusy, TypeOK
    <3> QED
      BY <3>1, <3>2, <1>4 DEF SomewhereOrAnswered, Accounted, WorkEnds, Released, Answered, Busy
  <2> QED
    BY <2>1, <2>2
<1>13. Released'
  BY <1>1, <1>4 DEF SomewhereOrAnswered, Accounted, WorkEnds, Released, r
<1> QED
  BY <1>9, <1>10, <1>11, <1>12, <1>13 DEF Places, SomewhereOrAnswered

\* A request leaves its worker with its answer and its context released.
LEMMA CompletePlaces ==
  ASSUME IInv, NEW w \in Workers, Complete(w) PROVE Places'
<1> DEFINE r == executing[w]
<1> USE DEF IInv
<1>1. /\ UNCHANGED <<queue, request, accepted, response>>
      /\ \A x \in Requests : InQueue(x)' = InQueue(x)
  BY DEF Complete, clientVars, InQueue
<1>2. /\ ended' = ended \cup {r} /\ executing' = [executing EXCEPT ![w] = NoOne]
      /\ NoOne \notin Requests
  BY HttpClientAssumption DEF Complete, HttpClientAssumption
<1>3. r \in Requests /\ Answered(r)
  BY DEF Complete, HoldsWhileBusy, Busy, SomewhereOrAnswered, WorkEnds, TypeOK, Answered
<1>4. PICK pc \in {"leave", "drain", "select"} : worker' = [worker EXCEPT ![w] = pc]
  BY DEF Complete, WorkerGoto
<1> HIDE DEF r
<1>5. executing'[w] = NoOne /\ \A v \in Workers \ {w} : executing'[v] = executing[v]
  BY <1>2 DEF TypeOK
<1>6. OnePlace'
  BY <1>1, <1>2, <1>5 DEF OnePlace
<1>7. AcceptedFirst'
  BY <1>1, <1>5 DEF AcceptedFirst
<1>8. Accounted'
  <2> SUFFICES ASSUME NEW x \in accepted, ~InQueue(x), ~Answered(x)
               PROVE  \E v \in Workers : executing'[v] = x
    BY <1>1 DEF Answered, Accounted, TypeOK
  <2>1. PICK v \in Workers : executing[v] = x
    BY DEF SomewhereOrAnswered, Accounted
  <2> QED
    BY <2>1, <1>3, <1>5 DEF r
<1>9. WorkEnds'
  <2>1. \A v \in Workers : worker'[v] \in {"complete", "panicking"} =>
                              v # w /\ worker'[v] = worker[v]
    BY <1>4 DEF TypeOK
  <2> QED
    BY <2>1, <1>1, <1>5 DEF SomewhereOrAnswered, Accounted, WorkEnds, Released, Answered
<1>10. Released'
  BY <1>1, <1>2, <1>5 DEF SomewhereOrAnswered, Accounted, WorkEnds, Released, r
<1> QED
  BY <1>6, <1>7, <1>8, <1>9, <1>10 DEF Places, SomewhereOrAnswered

\* A refused request is answered and released by its caller.
LEMMA RejectPlaces ==
  ASSUME IInv, NEW r \in Requests, Reject(r) PROVE Places'
<1> USE DEF IInv
<1>1. /\ UNCHANGED <<queue, worker, executing, accepted>>
      /\ \A x \in Requests : InQueue(x)' = InQueue(x)
  BY DEF Reject, workVars, InQueue
<1>2. request' = [request EXCEPT ![r] = "get"] /\ ended' = ended \cup {r}
  BY DEF Reject, Goto
<1>3. r \notin accepted
  BY DEF Reject, AcceptedFirst
<1>4. /\ \A x \in Requests \ {r} : response'[x] = response[x]
      /\ response'[r] \in {response[r], "rejected"}
      /\ \A x \in Requests : response[x] # "pending" => response'[x] = response[x]
  BY DEF Reject, Answer, TypeOK
<1>5. OnePlace'
  BY <1>1 DEF OnePlace
<1>6. AcceptedFirst'
  BY <1>1, <1>2, <1>3, <1>4 DEF AcceptedFirst, TypeOK
<1>7. SomewhereOrAnswered'
  <2>1. \A v \in Workers : executing[v] # NoOne => executing[v] \in Requests
    BY DEF TypeOK
  <2>2. \A v \in Workers : worker[v] \in Busy => executing[v] \in Requests
    BY <2>1 DEF HoldsWhileBusy
  <2> QED
    BY <1>1, <1>2, <1>4, <2>2 DEF SomewhereOrAnswered, Accounted, WorkEnds, Released, Answered, TypeOK, Busy
<1> QED
  BY <1>5, <1>6, <1>7 DEF Places

LEMMA PlacesStep == IInv /\ [Next]_vars => Places'
<1> SUFFICES ASSUME IInv, [Next]_vars PROVE Places'
  OBVIOUS
<1> USE DEF IInv
<1>same. ASSUME UNCHANGED <<queue, executing, accepted, response>>,
                ended \subseteq ended',
                \A x \in Requests : request'[x] \in {"idle", "refused"} => request'[x] = request[x],
                \A v \in Workers : worker'[v] \in Busy => worker'[v] = worker[v]
         PROVE  Places'
  <2>1. \A x \in Requests : InQueue(x)' = InQueue(x)
    BY <1>same DEF InQueue
  <2>2. OnePlace' /\ AcceptedFirst'
    BY <1>same, <2>1 DEF OnePlace, AcceptedFirst
  <2>3. SomewhereOrAnswered'
    BY <1>same, <2>1 DEF SomewhereOrAnswered, Accounted, WorkEnds, Released, Answered, Busy, TypeOK
  <2> QED
    BY <2>2, <2>3 DEF Places
<1>1. ASSUME NEW r \in Requests, Get(r) PROVE Places'
  BY <1>1, <1>same DEF Get, Goto, workVars, TypeOK
<1>2. ASSUME NEW r \in Requests, Expire(r) PROVE Places'
  BY <1>2, <1>same DEF Expire, workVars, clientVars
<1>3. ASSUME NEW w \in Workers, CompleteWorker(w) PROVE Places'
  BY <1>3, <1>same DEF CompleteWorker, WorkerGoto, clientVars, TypeOK, Busy
<1>4. ASSUME NEW s \in Stoppers, BeginStop(s) \/ StopStep(s) PROVE Places'
  BY <1>4, <1>same DEF BeginStop, StopStep, Cancel, WaitWorkers, SetStopped, workVars,
     clientVars
<1>5. CASE UNCHANGED vars
  BY <1>5, <1>same DEF vars, workVars, clientVars
<1> QED
  BY <1>1, <1>2, <1>3, <1>4, <1>5, SubmitPlaces, TakePlaces, AttemptPlaces,
     CompletePlaces, RejectPlaces DEF Next, RequestStep, WorkerStep

\* IInv is inductive.
LEMMA StepInv == IInv /\ [Next]_vars => IInv'
BY TypeStep, HoldsStep, GroupStep, StopOrderStep, LeavesStep, PlacesStep DEF IInv, Places

LEMMA Inductive == Spec => []IInv
<1> QED
  BY InitInv, StepInv, PTL DEF Spec

-----------------------------------------------------------------------------

\* Types; the wait group is never told more often than it was promised, which
\* Go answers with a panic.
THEOREM TypesCorrect == Spec => []TypeOK
<1>1. IInv => TypeOK
  BY DEF IInv
<1> QED
  BY <1>1, Inductive, PTL

\* Stop drains: a client that is stopped has no worker left, and of what it
\* accepted it owes only what panics cost.
THEOREM StopDrains == Spec => []StoppedIsDrained
<1>1. IInv => StoppedIsDrained
  <2> SUFFICES ASSUME IInv, status = "stopped" PROVE
         /\ \A w \in Workers : worker[w] = "gone"
         /\ \A r \in accepted : Answered(r) \/ (crashed = Workers /\ InQueue(r))
    BY DEF StoppedIsDrained, Answered
  <2> USE DEF IInv
  <2>1. \A w \in Workers : worker[w] = "gone"
    BY DEF StopOrder
  <2>2. \A w \in Workers : executing[w] = NoOne
    BY <2>1 DEF HoldsWhileBusy, Busy
  <2>3. ASSUME NEW r \in accepted, InQueue(r) PROVE crashed = Workers
    <3>1. queue # << >>
      BY <2>3, EmptyQueue DEF TypeOK
    <3>2. \A w \in Workers : w \in crashed
      BY <2>1, <3>1 DEF LeavesDrained
    <3> QED
      BY <3>2 DEF TypeOK
  <2>4. ASSUME NEW r \in accepted, ~InQueue(r) PROVE Answered(r)
    <3>1. r \in Requests /\ NoOne \notin Requests
      BY HttpClientAssumption DEF HttpClientAssumption, TypeOK
    <3> QED
      BY <2>2, <2>4, <3>1 DEF SomewhereOrAnswered, Accounted, WorkEnds, Released
  <2> QED
    BY <2>1, <2>3, <2>4 DEF Answered
<1> QED
  BY <1>1, Inductive, PTL

\* A caller is told the truth: a refused request is never sent, a response
\* belongs to an attempt made for its request, and its context is released.
THEOREM CallersToldTruth == Spec => []AnswersAreTrue
<1>1. IInv => AnswersAreTrue
  BY DEF IInv, AnswersAreTrue, AcceptedFirst, SomewhereOrAnswered, Released, HasBeenTaken
<1> QED
  BY <1>1, Inductive, PTL

-----------------------------------------------------------------------------
(* The client implements TaskPool *)

Serving == {executing[w] : w \in Workers} \ {NoOne}
Holders == {w \in Workers : executing[w] # NoOne}

\* No more requests are being served than workers hold one.
LEMMA ServingCounted ==
  IsFiniteSet(Serving) /\ Cardinality(Serving) <= Cardinality(Holders)
<1> DEFINE f == [w \in Holders |-> executing[w]]
<1>1. f \in Surjection(Holders, Serving)
  <2>1. f \in [Holders -> Serving]
    BY DEF Holders, Serving
  <2>2. \A r \in Serving : \E w \in Holders : f[w] = r
    BY DEF Holders, Serving
  <2> QED
    BY <2>1, <2>2 DEF Surjection
<1>2. IsFiniteSet(Holders)
  BY HttpClientAssumption, FS_Subset DEF HttpClientAssumption, Holders
<1> QED
  BY <1>1, <1>2, FS_Surjection

\* A worker that takes a request was free, so fewer than Workers are served.
LEMMA CapacityLeft ==
  ASSUME NEW w \in Workers, executing[w] = NoOne
  PROVE  Cardinality(Serving) < Cardinality(Workers)
<1>1. Holders \in SUBSET Workers /\ Holders # Workers
  BY DEF Holders
<1>2. IsFiniteSet(Workers)
  BY HttpClientAssumption DEF HttpClientAssumption
<1>3. /\ Cardinality(Holders) <= Cardinality(Workers)
      /\ Cardinality(Workers) = Cardinality(Holders) => Workers = Holders
      /\ Cardinality(Holders) \in Nat /\ Cardinality(Workers) \in Nat
      /\ Cardinality(Serving) \in Nat
  BY <1>1, <1>2, FS_Subset, FS_CardinalityType, ServingCounted
<1> QED
  BY <1>1, <1>3, ServingCounted

\* The instance's Cardinality is the one of FiniteSets.
LEMMA PoolCardinality ==
  ASSUME NEW S PROVE Pool!Cardinality(S) = Cardinality(S)
BY DEF Pool!Cardinality, Cardinality

LEMMA PoolInit == Init => Pool!Init
BY HttpClientAssumption DEF HttpClientAssumption, Init, Pool!Init

LEMMA PoolStep == IInv /\ IInv' /\ [Next]_vars => [Pool!Next]_(Pool!vars)
<1> SUFFICES ASSUME IInv, IInv', [Next]_vars PROVE [Pool!Next]_(Pool!vars)
  OBVIOUS
<1> USE DEF IInv
<1>no. NoOne \notin Requests
  BY HttpClientAssumption DEF HttpClientAssumption
<1>same. ASSUME UNCHANGED <<status, accepted, queue, executing>>
         PROVE  UNCHANGED Pool!vars
  BY <1>same DEF Pool!vars
<1>1. ASSUME NEW r \in Requests, Submit(r) PROVE [Pool!Next]_(Pool!vars)
  <2>1. CASE Enqueue(r)
    <3>1. status = "running" /\ r \notin accepted
      BY <1>1, <2>1 DEF Submit, AcceptedFirst, Enqueue, Refuse, Goto, TypeOK
    <3>2. Pool!Submit(r)
      BY <1>1, <2>1, <3>1 DEF Submit, Enqueue, workVars, Pool!Submit, Pool!Accept
    <3> QED
      BY <3>2 DEF Pool!Next
  <2>2. CASE Refuse(r)
    BY <1>1, <2>2, <1>same DEF Submit, Refuse, workVars
  <2> QED
    BY <1>1, <2>1, <2>2 DEF Submit
<1>2. ASSUME NEW w \in Workers, Select(w) \/ Drain(w) PROVE [Pool!Next]_(Pool!vars)
  <2>0. UNCHANGED <<status, accepted>> /\ executing[w] = NoOne /\ status # "stopped"
    BY <1>2 DEF Select, Drain, clientVars, HoldsWhileBusy, Busy, StopOrder
  <2>1. CASE Take(w)
    <3>1. queue # << >> /\ queue' = Tail(queue) /\ Head(queue) \in Requests
          /\ executing' = [executing EXCEPT ![w] = Head(queue)]
      BY <2>1 DEF Take, TypeOK
    <3>2. Serving' = Serving \cup {Head(queue)}
      BY <3>1, <2>0, <1>no DEF Serving, TypeOK
    <3>3. Cardinality(Serving) < Cardinality(Workers)
      BY <2>0, CapacityLeft
    <3>4. Pool!Serve
      BY <2>0, <3>1, <3>2, <3>3, PoolCardinality DEF Pool!Serve, Serving, TypeOK
    <3> QED
      BY <3>4 DEF Pool!Next
  <2>2. CASE ~Take(w)
    BY <1>2, <2>0, <2>2, <1>same DEF Select, Drain
  <2> QED
    BY <2>1, <2>2
<1>3. ASSUME NEW w \in Workers, Complete(w) PROVE [Pool!Next]_(Pool!vars)
  <2>1. PICK r \in Requests : r = executing[w]
    BY <1>3 DEF Complete, HoldsWhileBusy, Busy, TypeOK
  <2>2. executing' = [executing EXCEPT ![w] = NoOne]
    BY <1>3 DEF Complete
  <2>3. r \in Serving /\ \A v \in Workers \ {w} : executing[v] # r
    BY <2>1, <1>no DEF OnePlace, Serving
  <2>4. Serving' = Serving \ {r}
    BY <2>1, <2>2, <2>3 DEF Serving, TypeOK
  <2>5. Pool!Complete(r)
    BY <1>3, <2>3, <2>4 DEF Complete, clientVars, Pool!Complete, Serving
  <2> QED
    BY <2>5 DEF Pool!Next
<1>4. ASSUME NEW s \in Stoppers, BeginStop(s) PROVE [Pool!Next]_(Pool!vars)
  <2>1. CASE status = "running"
    <3>1. Pool!Close
      BY <1>4, <2>1 DEF BeginStop, workVars, clientVars, Pool!Close
    <3> QED
      BY <3>1 DEF Pool!Next
  <2>2. CASE status # "running"
    BY <1>4, <2>2, <1>same DEF BeginStop, workVars, clientVars
  <2> QED
    BY <2>1, <2>2
<1>5. ASSUME NEW s \in Stoppers, SetStopped(s) PROVE [Pool!Next]_(Pool!vars)
  <2>1. status = "terminating" /\ \A w \in Workers : worker[w] = "gone"
    BY <1>5 DEF SetStopped, StopOrder, Stopping
  <2>2. \A w \in Workers : executing[w] = NoOne
    BY <2>1 DEF HoldsWhileBusy, Busy
  <2>3. Serving = {}
    BY <2>2 DEF Serving
  <2>4. Pool!Closed
    BY <1>5, <2>1, <2>3 DEF SetStopped, workVars, clientVars, Pool!Closed, Serving
  <2> QED
    BY <2>4 DEF Pool!Next
<1>6. ASSUME NEW r \in Requests, RequestStep(r) \/ Expire(r) PROVE UNCHANGED Pool!vars
  BY <1>6, <1>same DEF RequestStep, Reject, Get, Expire, workVars, clientVars
<1>7. ASSUME NEW w \in Workers, Attempt(w) \/ CompleteWorker(w) PROVE UNCHANGED Pool!vars
  BY <1>7, <1>same DEF Attempt, CompleteWorker, clientVars
<1>8. ASSUME NEW s \in Stoppers, Cancel(s) \/ WaitWorkers(s) PROVE UNCHANGED Pool!vars
  BY <1>8, <1>same DEF Cancel, WaitWorkers, workVars, clientVars
<1>9. CASE UNCHANGED vars
  BY <1>9, <1>same DEF vars, workVars, clientVars
<1> QED
  BY <1>1, <1>2, <1>3, <1>4, <1>5, <1>6, <1>7, <1>8, <1>9
  DEF Next, WorkerStep, StopStep

\* Every behaviour of the client is one of the abstract pool: requests are
\* taken in while it is open, each once, served first in first out and at most
\* as many at a time as there are workers, and none once it is closed.
THEOREM ClientIsAPool == Spec => ImplementsTaskPool
<1>1. IInv /\ IInv' /\ [Next]_vars => [Pool!Next]_(Pool!vars)
  BY PoolStep
<1> QED
  BY <1>1, PoolInit, Inductive, PTL DEF Spec, ImplementsTaskPool, Pool!Spec
=============================================================================
