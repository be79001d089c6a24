---------------------------- MODULE BufferedWriter ----------------------------
(***************************************************************************)
(* io/writer.go: callers send items on a channel, one goroutine collects   *)
(* them and flushes them through retry.RetryWithBackoff, which calls       *)
(* retry.Retry, until the context ends.                                    *)
(***************************************************************************)
EXTENDS Naturals, Sequences

CONSTANTS
  Writers,         \* calls of Write, each with one item
  Waiters,         \* calls of Wait
  FlushThreshold,  \* also the capacity of the channel
  Ticking,         \* flushDuration > 0
  MaxAttempts,     \* the square of MaxRetries
  MayCancel        \* whether the context may end

VARIABLES
  itemChan, closed, canceled,
  buffer, pc,      \* of the consumer
  attempt,         \* calls of writeFunc in this flush
  writer, waiter,  \* per call: where it is
  sent,            \* history: the items sent, in order
  done             \* history: the items written or given up after the retries

vars == <<itemChan, closed, canceled, buffer, pc, attempt, writer, waiter, sent, done>>
consumer == <<itemChan, closed, buffer, pc, attempt, done>>

NewBufferedWriter ==
  /\ itemChan = << >> /\ closed = FALSE /\ canceled = FALSE
  /\ buffer = << >> /\ pc = "select" /\ attempt = 0
  /\ writer = [w \in Writers |-> "idle"] /\ waiter = [w \in Waiters |-> "idle"]
  /\ sent = << >> /\ done = << >>

\* A full channel makes the call wait; a closed one makes it panic, waiting or not.
Write(w) ==
  /\ writer[w] = "idle"
  /\ \/ /\ ~closed /\ Len(itemChan) < FlushThreshold
        /\ itemChan' = Append(itemChan, w) /\ sent' = Append(sent, w)
        /\ writer' = [writer EXCEPT ![w] = "sent"]
     \/ /\ closed
        /\ writer' = [writer EXCEPT ![w] = "panicked"]
        /\ UNCHANGED <<itemChan, sent>>
  /\ UNCHANGED <<closed, canceled, buffer, pc, attempt, waiter, done>>

Cancel ==
  /\ MayCancel /\ ~canceled /\ canceled' = TRUE
  /\ UNCHANGED <<consumer, writer, waiter, sent>>

\* Wait: its goroutine waits for the wait group and then sends on a channel of its own.
Wait(w) ==
  /\ waiter[w] = "idle"
  /\ waiter' = [waiter EXCEPT ![w] = "waiting"]
  /\ UNCHANGED <<consumer, canceled, writer, sent>>

Complete(w) ==
  /\ waiter[w] = "waiting" /\ pc = "done"
  /\ waiter' = [waiter EXCEPT ![w] = "complete"]
  /\ UNCHANGED <<consumer, canceled, writer, sent>>

\* After the timeout that channel is closed, so the goroutine panics when it sends.
Timeout(w) ==
  /\ waiter[w] = "waiting"
  /\ waiter' = [waiter EXCEPT ![w] = "timeout"]
  /\ UNCHANGED <<consumer, canceled, writer, sent>>

LateComplete(w) ==
  /\ waiter[w] = "timeout" /\ pc = "done"
  /\ waiter' = [waiter EXCEPT ![w] = "panicked"]
  /\ UNCHANGED <<consumer, canceled, writer, sent>>

-----------------------------------------------------------------------------
(* The consumer.  Its select takes any case that is ready. *)

\* Mutant: the buffer is emptied before it is flushed.
ReceiveReset ==
  /\ pc = "select" /\ itemChan # << >>
  /\ itemChan' = Tail(itemChan)
  /\ IF Len(buffer) + 1 >= FlushThreshold
     THEN pc' = "flush" /\ buffer' = <<Head(itemChan)>>
     ELSE pc' = "select" /\ buffer' = Append(buffer, Head(itemChan))
  /\ UNCHANGED <<closed, canceled, attempt, writer, waiter, sent, done>>

Receive ==
  /\ pc = "select" /\ itemChan # << >>
  /\ itemChan' = Tail(itemChan)
  /\ buffer' = Append(buffer, Head(itemChan))
  /\ pc' = IF Len(buffer') >= FlushThreshold THEN "flush" ELSE "select"
  /\ UNCHANGED <<closed, canceled, attempt, writer, waiter, sent, done>>

Tick ==
  /\ Ticking /\ pc = "select" /\ buffer # << >>
  /\ pc' = "flush"
  /\ UNCHANGED <<itemChan, closed, canceled, buffer, attempt, writer, waiter, sent, done>>

\* With items queued, the range over the channel begins.
SeeDone ==
  /\ pc = "select" /\ canceled
  /\ pc' = IF itemChan # << >> THEN "drain" ELSE "close"
  /\ UNCHANGED <<itemChan, closed, canceled, buffer, attempt, writer, waiter, sent, done>>

\* It would end if the channel were closed, which nobody does before it ends.
Drain ==
  /\ pc = "drain" /\ (itemChan # << >> \/ closed)
  /\ IF itemChan # << >>
     THEN /\ itemChan' = Tail(itemChan) /\ buffer' = Append(buffer, Head(itemChan))
          /\ UNCHANGED pc
     ELSE pc' = "close" /\ UNCHANGED <<itemChan, buffer>>
  /\ UNCHANGED <<closed, canceled, attempt, writer, waiter, sent, done>>

Close ==
  /\ pc = "close"
  /\ closed' = TRUE
  /\ pc' = IF buffer # << >> THEN "lastFlush" ELSE "done"
  /\ UNCHANGED <<itemChan, canceled, buffer, attempt, writer, waiter, sent, done>>

\* One call of writeFunc: success, an error that is retried, or the last one.
Attempt(ok) ==
  /\ pc \in {"flush", "lastFlush"}
  /\ IF ok \/ attempt + 1 = MaxAttempts
     THEN /\ done' = done \o buffer /\ buffer' = << >> /\ attempt' = 0
          /\ pc' = IF pc = "flush" THEN "select" ELSE "done"
     ELSE /\ attempt' = attempt + 1 /\ UNCHANGED <<done, buffer, pc>>
  /\ UNCHANGED <<itemChan, closed, canceled, writer, waiter, sent>>

Consume == Receive \/ Tick \/ SeeDone \/ Drain \/ Close \/ \E ok \in BOOLEAN : Attempt(ok)

Next ==
  \/ \E w \in Writers : Write(w)
  \/ \E w \in Waiters : Wait(w) \/ Complete(w) \/ Timeout(w) \/ LateComplete(w)
  \/ Cancel \/ Consume

\* The consumer is scheduled.
FairSpec == NewBufferedWriter /\ [][Next]_vars /\ WF_vars(Consume)

-----------------------------------------------------------------------------
\* Types.
TypeOK ==
  /\ itemChan \in Seq(Writers) /\ buffer \in Seq(Writers) /\ Len(itemChan) <= FlushThreshold
  /\ pc \in {"select", "flush", "drain", "close", "lastFlush", "done"}
  /\ attempt \in 0 .. MaxAttempts - 1
  /\ writer \in [Writers -> {"idle", "sent", "panicked"}]
  /\ waiter \in [Waiters -> {"idle", "waiting", "complete", "timeout", "panicked"}]

\* What was sent is, in this order, what was handled, what is buffered and what is
\* queued; the buffer stays under the threshold except to be flushed or drained; and
\* only a Write that follows the cancellation or a Wait that has timed out panics.
NothingLost ==
  /\ sent = done \o buffer \o itemChan
  /\ pc = "select" => Len(buffer) < FlushThreshold
  /\ (closed \/ \E w \in Writers : writer[w] = "panicked") => canceled
  /\ pc = "done" => buffer = << >>

\* While the context lives a ticking writer handles every item: with finitely many of
\* them it has, again and again, handled all that were sent.
Settled == canceled \/ ~Ticking \/ done = sent

\* writer_test.go:81-91 writes all its items, cancels the context and expects Wait, and
\* so the consumer, to end.
CanceledWriterEnds ==
  <>(~canceled /\ \A w \in Writers : writer[w] = "sent") => (canceled ~> pc = "done")
===============================================================================
