------------------------------ MODULE HttpClient ------------------------------
(***************************************************************************)
(* The client of http/client.go: a bounded queue of requests, a fixed      *)
(* number of workers that take them through the interceptors (a            *)
(* RetryInterceptor among them), and Stop, which lets the workers drain    *)
(* the queue.                                                              *)
(*                                                                         *)
(* A member of Requests is one call of Request, DoRequest or RequestAsync  *)
(* followed by Get.  What the lock of the client protects is one step.     *)
(***************************************************************************)
EXTENDS Naturals, Sequences, FiniteSets

CONSTANTS
  Requests,
  Workers,        \* workerSize of them
  Stoppers,       \* calls of Stop
  MaxQueueSize,
  MaxRetries,     \* attempts of the RetryInterceptor, the first included
  Deadlines,      \* the requests whose context may end by itself
  Interceptor,    \* what it does: "passes", "panics", "returnsNil"
  NoOne

ASSUME HttpClientAssumption ==
  /\ IsFiniteSet(Workers) /\ Workers # {}
  /\ MaxQueueSize \in Nat \ {0} /\ MaxRetries \in Nat \ {0}
  /\ Deadlines \subseteq Requests
  /\ Interceptor \in [Requests -> {"passes", "panics", "returnsNil"}]
  /\ NoOne \notin Requests

VARIABLES
  status,      \* "running", "terminating" or "stopped"
  done,        \* the client's context is cancelled
  queue,
  stopWg,
  worker,      \* program counter of each worker
  draining,    \* the workers in the loop that empties the queue
  executing,   \* the request each worker holds
  attempt,     \* the attempts each worker has made for it
  crashed,     \* history: the workers that a panic has ended
  request,     \* program counter of each call
  accepted,    \* the requests that entered the queue
  response,    \* "pending" until done is closed, then "resolved" or "rejected"
  ended,       \* the requests whose context is done: expired or completed
  stop         \* program counter of each Stop call

workVars   == <<worker, draining, executing, attempt, crashed>>
clientVars == <<request, accepted>>
vars == <<status, done, queue, stopWg, workVars, clientVars, response, ended, stop>>

Init ==
  /\ status = "running" /\ done = FALSE
  /\ queue = << >>
  /\ stopWg = Cardinality(Workers)
  /\ worker = [w \in Workers |-> "select"]
  /\ draining = {}
  /\ executing = [w \in Workers |-> NoOne]
  /\ attempt = [w \in Workers |-> 0]
  /\ crashed = {}
  /\ request = [r \in Requests |-> "idle"]
  /\ accepted = {}
  /\ response = [r \in Requests |-> "pending"]
  /\ ended = {}
  /\ stop = [s \in Stoppers |-> "idle"]

WorkerGoto(w, pc) == worker' = [worker EXCEPT ![w] = pc]
Goto(r, pc)       == request' = [request EXCEPT ![r] = pc]
StopGoto(s, pc)   == stop' = [stop EXCEPT ![s] = pc]

\* resolve and reject, under the response's sync.Once
Answer(r, how) ==
  response' = [response EXCEPT ![r] = IF @ = "pending" THEN how ELSE @]

-----------------------------------------------------------------------------
(* request and Get *)

Enqueue(r) ==
  /\ queue' = Append(queue, r)
  /\ accepted' = accepted \cup {r}
  /\ Goto(r, "get")

Refuse(r) == Goto(r, "refused") /\ UNCHANGED <<queue, accepted>>

\* Mutant: the request that fills the queue is queued and refused.
SubmitThenLook(r) ==
  /\ request[r] = "idle"
  /\ \/ /\ status = "running" /\ Len(queue) < MaxQueueSize - 1
        /\ Enqueue(r)
     \/ /\ status = "running" /\ Len(queue) = MaxQueueSize - 1
        /\ queue' = Append(queue, r)
        /\ accepted' = accepted \cup {r}
        /\ Goto(r, "refused")
     \/ /\ status # "running" \/ Len(queue) >= MaxQueueSize
        /\ Refuse(r)
  /\ UNCHANGED <<status, done, stopWg, workVars, response, ended, stop>>

\* The section of request under the lock: a status check and a send that does
\* not block.
Submit(r) ==
  /\ request[r] = "idle"
  /\ \/ status = "running" /\ Len(queue) < MaxQueueSize /\ Enqueue(r)
     \/ (status # "running" \/ Len(queue) >= MaxQueueSize) /\ Refuse(r)
  /\ UNCHANGED <<status, done, stopWg, workVars, response, ended, stop>>

\* A refused request is rejected and completed by its caller.
Reject(r) ==
  /\ request[r] = "refused"
  /\ Answer(r, "rejected")
  /\ ended' = ended \cup {r}
  /\ Goto(r, "get")
  /\ UNCHANGED <<status, done, queue, stopWg, workVars, accepted, stop>>

Get(r) ==
  /\ request[r] = "get" /\ response[r] # "pending"
  /\ Goto(r, "returned")
  /\ UNCHANGED <<status, done, queue, stopWg, workVars, accepted, response,
                 ended, stop>>

\* The caller's context, or the request's timeout, ends.
Expire(r) ==
  /\ r \in Deadlines \ ended /\ request[r] # "idle"
  /\ ended' = ended \cup {r}
  /\ UNCHANGED <<status, done, queue, stopWg, workVars, clientVars, response, stop>>

-----------------------------------------------------------------------------
(* workerRoutine and executeRequest *)

\* Mutant: the newest request first.
TakeLast(w) ==
  /\ queue # << >>
  /\ executing' = [executing EXCEPT ![w] = queue[Len(queue)]]
  /\ queue' = SubSeq(queue, 1, Len(queue) - 1)
  /\ WorkerGoto(w, "execute")

Take(w) ==
  /\ queue # << >>
  /\ executing' = [executing EXCEPT ![w] = Head(queue)]
  /\ queue' = Tail(queue)
  /\ WorkerGoto(w, "execute")

\* Mutant: a worker that sees the context done leaves at once.
SelectOrLeave(w) ==
  /\ worker[w] = "select"
  /\ \/ Take(w) /\ UNCHANGED draining
     \/ /\ done
        /\ WorkerGoto(w, "leave")
        /\ UNCHANGED <<draining, executing, queue>>
  /\ UNCHANGED <<status, done, stopWg, attempt, crashed, clientVars, response,
                 ended, stop>>

\* The outer select: either of its cases, when both are ready.
Select(w) ==
  /\ worker[w] = "select"
  /\ \/ Take(w) /\ UNCHANGED draining
     \/ /\ done
        /\ WorkerGoto(w, "drain")
        /\ draining' = draining \cup {w}
        /\ UNCHANGED <<executing, queue>>
  /\ UNCHANGED <<status, done, stopWg, attempt, crashed, clientVars, response,
                 ended, stop>>

\* The inner select: the next request, or the end.
Drain(w) ==
  /\ worker[w] = "drain"
  /\ \/ Take(w)
     \/ queue = << >> /\ WorkerGoto(w, "leave") /\ UNCHANGED <<executing, queue>>
  /\ UNCHANGED <<status, done, stopWg, draining, attempt, crashed, clientVars,
                 response, ended, stop>>

\* Mutant: the error of the last attempt is not passed on.
FailSilently(w, r) ==
  /\ attempt' = [attempt EXCEPT ![w] = @ + 1]
  /\ WorkerGoto(w, IF attempt'[w] < MaxRetries THEN "execute" ELSE "complete")
  /\ UNCHANGED response

\* An attempt fails: the request's context is done, the transfer fails, or the
\* status code is one to retry.  The last failure, or one that the retry
\* conditions do not name, rejects the request.
Fail(w, r) ==
  /\ attempt' = [attempt EXCEPT ![w] = @ + 1]
  /\ \/ attempt'[w] < MaxRetries /\ WorkerGoto(w, "execute") /\ UNCHANGED response
     \/ Answer(r, "rejected") /\ WorkerGoto(w, "complete")

\* A response comes back and resolves the request.
Succeed(w, r) ==
  /\ r \notin ended
  /\ Answer(r, "resolved")
  /\ WorkerGoto(w, "complete")
  /\ UNCHANGED attempt

\* An interceptor panics, or answers for the transfer with (nil, nil): that
\* resolves the request, and the code read from the nil response panics.
Panic(w, r) ==
  /\ \/ Interceptor[r] = "panics" /\ UNCHANGED response
     \/ Interceptor[r] = "returnsNil" /\ Answer(r, "resolved")
  /\ WorkerGoto(w, "panicking")
  /\ UNCHANGED attempt

\* One attempt, through the interceptors.
Attempt(w) ==
  /\ worker[w] = "execute"
  /\ LET r == executing[w] IN
     \/ Interceptor[r] = "passes" /\ (Succeed(w, r) \/ Fail(w, r))
     \/ Interceptor[r] # "passes" /\ Panic(w, r)
  /\ UNCHANGED <<status, done, queue, stopWg, draining, executing, crashed,
                 clientVars, ended, stop>>

\* The deferred request.complete(); a panic goes on to end the worker.
Complete(w) ==
  /\ worker[w] \in {"complete", "panicking"}
  /\ ended' = ended \cup {executing[w]}
  /\ executing' = [executing EXCEPT ![w] = NoOne]
  /\ WorkerGoto(w, IF worker[w] = "panicking" THEN "leave"
                   ELSE IF w \in draining THEN "drain" ELSE "select")
  /\ attempt' = [attempt EXCEPT ![w] = 0]
  /\ crashed' = IF worker[w] = "panicking" THEN crashed \cup {w} ELSE crashed
  /\ UNCHANGED <<status, done, queue, stopWg, draining, clientVars, response, stop>>

\* Mutant: the wait group is told twice.
LeaveTwice(w) ==
  /\ worker[w] = "leave"
  /\ stopWg' = stopWg - 2
  /\ WorkerGoto(w, "gone")
  /\ UNCHANGED <<status, done, queue, draining, executing, attempt, crashed,
                 clientVars, response, ended, stop>>

\* completeWorker, deferred: recovers the panic
CompleteWorker(w) ==
  /\ worker[w] = "leave"
  /\ stopWg' = stopWg - 1
  /\ WorkerGoto(w, "gone")
  /\ UNCHANGED <<status, done, queue, draining, executing, attempt, crashed,
                 clientVars, response, ended, stop>>

-----------------------------------------------------------------------------
(* Stop *)

\* Only the first call goes on; the others return at once.
BeginStop(s) ==
  /\ stop[s] = "idle"
  /\ \/ /\ status = "running"
        /\ status' = "terminating"
        /\ StopGoto(s, "cancel")
     \/ status # "running" /\ StopGoto(s, "returned") /\ UNCHANGED status
  /\ UNCHANGED <<done, queue, stopWg, workVars, clientVars, response, ended>>

Cancel(s) ==
  /\ stop[s] = "cancel"
  /\ done' = TRUE
  /\ StopGoto(s, "wait")
  /\ UNCHANGED <<status, queue, stopWg, workVars, clientVars, response, ended>>

WaitWorkers(s) ==
  /\ stop[s] = "wait" /\ stopWg = 0
  /\ StopGoto(s, "set")
  /\ UNCHANGED <<status, done, queue, stopWg, workVars, clientVars, response, ended>>

SetStopped(s) ==
  /\ stop[s] = "set"
  /\ status' = "stopped"
  /\ StopGoto(s, "returned")
  /\ UNCHANGED <<done, queue, stopWg, workVars, clientVars, response, ended>>

-----------------------------------------------------------------------------

RequestStep(r) == Reject(r) \/ Get(r)
WorkerStep(w)  == \/ Select(w) \/ Drain(w) \/ Attempt(w) \/ Complete(w)
                  \/ CompleteWorker(w)
StopStep(s)    == Cancel(s) \/ WaitWorkers(s) \/ SetStopped(s)

Next ==
  \/ \E r \in Requests : Submit(r) \/ RequestStep(r) \/ Expire(r)
  \/ \E w \in Workers : WorkerStep(w)
  \/ \E s \in Stoppers : BeginStop(s) \/ StopStep(s)

Spec == Init /\ [][Next]_vars

\* Goroutines run; a transfer ends, by an answer, an error or a timeout; nobody
\* has to call.
FairSpec ==
  /\ Spec
  /\ \A r \in Requests : WF_vars(RequestStep(r))
  /\ \A w \in Workers : WF_vars(WorkerStep(w))
  /\ \A s \in Stoppers : WF_vars(StopStep(s))

-----------------------------------------------------------------------------
(* Properties *)

\* Types; the wait group never goes below zero.
TypeOK ==
  /\ status \in {"running", "terminating", "stopped"}
  /\ done \in BOOLEAN
  /\ queue \in Seq(Requests)
  /\ stopWg \in Nat
  /\ worker \in [Workers -> {"select", "drain", "execute", "complete", "panicking",
                             "leave", "gone"}]
  /\ draining \subseteq Workers
  /\ executing \in [Workers -> Requests \cup {NoOne}]
  /\ attempt \in [Workers -> 0 .. MaxRetries]
  /\ crashed \subseteq Workers
  /\ request \in [Requests -> {"idle", "refused", "get", "returned"}]
  /\ accepted \subseteq Requests
  /\ response \in [Requests -> {"pending", "resolved", "rejected"}]
  /\ ended \subseteq Requests
  /\ stop \in [Stoppers -> {"idle", "cancel", "wait", "set", "returned"}]

InQueue(r) == \E i \in DOMAIN queue : queue[i] = r
HasBeenTaken(r) == r \in accepted /\ ~InQueue(r)

\* Stop drains: when the client is stopped its workers are gone and every
\* request it accepted is answered, however the last Submits fell between the
\* status change, the cancellation and the workers' last look at the queue.
\* What panics cost: their own requests and, when they have ended every worker,
\* the queue.
StoppedIsDrained ==
  status = "stopped" =>
    /\ \A w \in Workers : worker[w] = "gone"
    /\ \A r \in accepted :
         \/ response[r] # "pending"
         \/ Interceptor[r] = "panics"
         \/ crashed = Workers /\ InQueue(r)

\* A caller is told the truth: a request that is refused is never sent, a
\* response it gets is of an attempt made for it, and its context is released by whoever
\* is left with it.
AnswersAreTrue ==
  \A r \in Requests :
    /\ request[r] = "refused" => r \notin accepted
    /\ response[r] = "resolved" => HasBeenTaken(r)
    /\ response[r] # "pending" /\ (\A w \in Workers : executing[w] # r) => r \in ended

\* Every call of Stop comes back, and every Get, unless the interceptor of the
\* request panics or panics have ended all its workers.
CallsReturn ==
  /\ \A s \in Stoppers : stop[s] # "idle" ~> stop[s] = "returned"
  /\ \A r \in Requests :
       request[r] # "idle" ~> \/ request[r] = "returned"
                              \/ Interceptor[r] = "panics"
                              \/ crashed = Workers

-----------------------------------------------------------------------------
(* The client is a TaskPool that is open from the start. *)

Pool == INSTANCE TaskPool WITH
  Tasks    <- Requests,
  Capacity <- Cardinality(Workers),
  phase    <- CASE status = "running"     -> "open"
                [] status = "terminating" -> "closing"
                [] status = "stopped"     -> "closed",
  waiting  <- queue,
  serving  <- {executing[w] : w \in Workers} \ {NoOne}

\* Every behaviour of the client is one of the abstract pool.
ImplementsTaskPool == Pool!Spec
=============================================================================
