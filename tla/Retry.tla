-------------------------------- MODULE Retry --------------------------------
(***************************************************************************)
(* retry/retry.go: one call of RetryWithBackoffContext, which the other    *)
(* functions of the package call, with a context that may end at any time. *)
(***************************************************************************)
EXTENDS Integers

CONSTANT Requested  \* the values that MaxRetries is set to

VARIABLES
  requested,  \* the MaxRetries of this call
  ended,      \* the context has ended
  waits,      \* the interval is positive
  attempts, pc,
  err,        \* what the task, or else the context, has said
  late        \* history: the attempts begun after the end of the context

vars == <<requested, ended, waits, attempts, pc, err, late>>

\* validateAndFixRetryOption
Validated(n) == IF n <= 0 THEN 1 ELSE n

Init ==
  /\ requested \in Requested /\ waits \in BOOLEAN
  /\ ended = FALSE /\ attempts = 0 /\ pc = "check" /\ err = "nil" /\ late = 0

Cancel ==
  /\ ~ended /\ pc # "returned"
  /\ ended' = TRUE
  /\ UNCHANGED <<requested, waits, attempts, pc, err, late>>

Return(e) == pc' = "returned" /\ err' = e

\* The head of the loop.
Check ==
  /\ pc = "check"
  /\ CASE attempts >= Validated(requested) -> Return(err)
       [] attempts < Validated(requested) /\ ended -> Return("context")
       [] OTHER -> pc' = "task" /\ UNCHANGED err
  /\ UNCHANGED <<requested, ended, waits, attempts, late>>

\* The task succeeds, or fails with an error that the conditions retry or do not.
RunTask(outcome) ==
  /\ pc = "task"
  /\ attempts' = attempts + 1
  /\ late' = IF ended THEN late + 1 ELSE late
  /\ err' = outcome
  /\ pc' = IF outcome = "nil" THEN "returned" ELSE "failed"
  /\ UNCHANGED <<requested, ended, waits>>

Failed ==
  /\ pc = "failed"
  /\ CASE ended -> Return("context")
       [] ~ended /\ err = "final" -> Return(err)
       [] OTHER -> /\ pc' = IF attempts < Validated(requested) THEN "wait" ELSE "check"
                   /\ UNCHANGED err
  /\ UNCHANGED <<requested, ended, waits, attempts, late>>

\* wait; then the backoff, which can round the interval to zero and, by overflowing,
\* make it negative or positive.
Wait ==
  /\ pc = "wait"
  /\ \/ ended /\ Return("context") /\ UNCHANGED waits
     \/ (ended => waits) /\ pc' = "check" /\ err' = "nil" /\ waits' \in BOOLEAN
  /\ UNCHANGED <<requested, ended, attempts, late>>

Step == Check \/ (\E o \in {"nil", "retryable", "final"} : RunTask(o)) \/ Failed \/ Wait

Next == Cancel \/ Step

\* The caller is scheduled, and tasks and timers end.
FairSpec == Init /\ [][Next]_vars /\ WF_vars(Step)

-----------------------------------------------------------------------------
\* Types.
TypeOK ==
  /\ requested \in Requested /\ ended \in BOOLEAN /\ waits \in BOOLEAN
  /\ attempts \in Nat /\ late \in Nat
  /\ pc \in {"check", "task", "failed", "wait", "returned"}
  /\ err \in {"nil", "retryable", "final", "context"}

\* The task is run at least once unless the context has ended before, and at most as
\* often as it was asked for; nil is returned only after an attempt, an error that is
\* retried only when all attempts are used, an error of the context only when it has
\* ended; and at most one attempt begins after that.
RetryAgrees ==
  /\ attempts <= 1 \/ attempts <= requested
  /\ late <= 1
  /\ pc = "returned" =>
       /\ err = "context" => ended
       /\ attempts = 0 => err = "context"
       /\ err = "retryable" => attempts >= requested

\* The call returns.
Settled == pc = "returned"
==============================================================================
