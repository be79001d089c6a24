-------------------------- MODULE OpenObserveWriter --------------------------
(***************************************************************************)
(* logging/contrib/open_observe_writer.go: log records go through a        *)
(* channel to a goroutine that posts them in batches, three attempts each. *)
(* Sizes are counted in records.                                           *)
(***************************************************************************)
EXTENDS Naturals, Sequences

CONSTANTS
  Writers,         \* calls of Write, each with one record
  Room,            \* the capacity of the channel
  FlushThreshold

VARIABLES
  ch, canceled,
  buffer, pc, attempt,  \* of the consumer
  writer,               \* per call: where it is
  sent,                 \* history: the records taken over, in order
  done                  \* history: the records posted or given up

vars == <<ch, canceled, buffer, pc, attempt, writer, sent, done>>

Attempts == 3

NewOpenObserveWriter ==
  /\ ch = << >> /\ canceled = FALSE /\ buffer = << >> /\ pc = "select" /\ attempt = 0
  /\ writer = [w \in Writers |-> "idle"] /\ sent = << >> /\ done = << >>

Cancel == /\ ~canceled /\ canceled' = TRUE
          /\ UNCHANGED <<ch, buffer, pc, attempt, writer, sent, done>>

\* The select may send although the context has ended.
Write(w) ==
  /\ writer[w] = "idle"
  /\ \/ /\ canceled /\ writer' = [writer EXCEPT ![w] = "refused"]
        /\ UNCHANGED <<ch, sent>>
     \/ /\ Len(ch) < Room /\ writer' = [writer EXCEPT ![w] = "sent"]
        /\ ch' = Append(ch, w) /\ sent' = Append(sent, w)
  /\ UNCHANGED <<canceled, buffer, pc, attempt, done>>

Receive ==
  /\ pc = "select" /\ ch # << >>
  /\ ch' = Tail(ch) /\ buffer' = Append(buffer, Head(ch))
  /\ pc' = IF Len(buffer') >= FlushThreshold THEN "flush" ELSE "select"
  /\ UNCHANGED <<canceled, attempt, writer, sent, done>>

Tick ==
  /\ pc = "select" /\ buffer # << >> /\ pc' = "flush"
  /\ UNCHANGED <<ch, canceled, buffer, attempt, writer, sent, done>>

\* The records in the channel are left there.
SeeDone ==
  /\ pc = "select" /\ canceled
  /\ pc' = IF buffer # << >> THEN "lastFlush" ELSE "done"
  /\ UNCHANGED <<ch, canceled, buffer, attempt, writer, sent, done>>

\* One request of flush; after the third the batch is dropped.
Attempt(ok) ==
  /\ pc \in {"flush", "lastFlush"}
  /\ IF ok \/ attempt + 1 = Attempts
     THEN /\ done' = done \o buffer /\ buffer' = << >> /\ attempt' = 0
          /\ pc' = IF pc = "flush" THEN "select" ELSE "done"
     ELSE attempt' = attempt + 1 /\ UNCHANGED <<done, buffer, pc>>
  /\ UNCHANGED <<ch, canceled, writer, sent>>

Consume == Receive \/ Tick \/ SeeDone \/ \E ok \in BOOLEAN : Attempt(ok)

Next == (\E w \in Writers : Write(w)) \/ Cancel \/ Consume

FairSpec == NewOpenObserveWriter /\ [][Next]_vars /\ WF_vars(Consume)

-----------------------------------------------------------------------------
\* Types.
TypeOK ==
  /\ ch \in Seq(Writers) /\ Len(ch) <= Room /\ buffer \in Seq(Writers)
  /\ pc \in {"select", "flush", "lastFlush", "done"} /\ attempt \in 0 .. Attempts - 1
  /\ writer \in [Writers -> {"idle", "sent", "refused"}]

\* What was taken over is, in this order, what was handled, buffered and queued; only
\* a context that has ended makes Write refuse.
NothingLost ==
  /\ sent = done \o buffer \o ch
  /\ (\E w \in Writers : writer[w] = "refused") \/ pc = "done" => canceled
  /\ pc = "done" => buffer = << >>

\* While the context lives every record is handled, and afterwards the consumer ends.
Settled == IF canceled THEN pc = "done" ELSE done = sent
===============================================================================
