------------------------------ MODULE SafeQueue ------------------------------
(***************************************************************************)
(* data_structures/queue.go: a linked queue under a mutex whose size is    *)
(* changed after the mutex is released.  The elements are numbered in the  *)
(* order in which Enqueue takes the mutex.                                 *)
(***************************************************************************)
EXTENDS Integers, Sequences

CONSTANTS
  Callers,     \* goroutines, each with one call after another
  MaxElements  \* how many elements are ever enqueued

VARIABLES
  head, tail,  \* nodes: the number of their element, or Nil
  next,        \* the field next of every node
  size,
  pc,          \* per caller: "idle", or the amount incrSizeBy is still to add, or "dead"
  held,        \* the mutex is held for ever: a call has panicked inside
  added,       \* history: how many elements have been enqueued
  taken,       \* history: the elements Dequeue has returned, in the order of the mutex
  overlapped   \* history: a call has begun while another one was unfinished

vars == <<head, tail, next, size, pc, held, added, taken, overlapped>>

Nil == 0
Elements == 1 .. MaxElements

NewSafeQueue ==
  /\ head = Nil /\ tail = Nil /\ size = 0 /\ next = [e \in Elements |-> Nil]
  /\ pc = [c \in Callers |-> "idle"] /\ held = FALSE
  /\ added = 0 /\ taken = << >> /\ overlapped = FALSE

Begin(c, then) ==
  /\ pc[c] = "idle" /\ ~held
  /\ pc' = [pc EXCEPT ![c] = then]
  /\ overlapped' = (overlapped \/ \E d \in Callers : pc[d] # "idle")

Enqueue(c) ==
  /\ Begin(c, "+1") /\ added < MaxElements
  /\ LET e == added + 1 IN
     /\ added' = e /\ tail' = e
     /\ \/ size = 0 /\ head' = e /\ UNCHANGED next
        \/ size # 0 /\ next' = [next EXCEPT ![tail] = e] /\ UNCHANGED head
  /\ UNCHANGED <<size, held, taken>>

\* An empty queue returns the zero value.
Dequeue(c) ==
  /\ Begin(c, "-1") /\ size # 0 /\ head # Nil
  /\ taken' = Append(taken, head)
  /\ head' = next[head]
  /\ UNCHANGED <<tail, next, size, held, added>>

\* The size promises an element that is not there.
DequeuePanics(c) ==
  /\ Begin(c, "dead") /\ size # 0 /\ head = Nil
  /\ held' = TRUE
  /\ UNCHANGED <<head, tail, next, size, added, taken>>

IncrSizeBy(c) ==
  /\ pc[c] \in {"+1", "-1"}
  /\ size' = IF pc[c] = "+1" THEN size + 1 ELSE size - 1
  /\ pc' = [pc EXCEPT ![c] = "idle"]
  /\ UNCHANGED <<head, tail, next, held, added, taken, overlapped>>

Next == \E c \in Callers : Enqueue(c) \/ Dequeue(c) \/ DequeuePanics(c) \/ IncrSizeBy(c)

Spec == NewSafeQueue /\ [][Next]_vars

-----------------------------------------------------------------------------
\* Types.
TypeOK == /\ head \in Elements \cup {Nil} /\ tail \in Elements \cup {Nil}
          /\ next \in [Elements -> Elements \cup {Nil}] /\ size \in Int
          /\ pc \in [Callers -> {"idle", "+1", "-1", "dead"}]
          /\ held \in BOOLEAN /\ added \in 0 .. MaxElements
          /\ taken \in Seq(Elements) /\ overlapped \in BOOLEAN

\* Whatever overlaps, an element comes out at most once and never before one that went
\* in earlier comes out; and when no calls have overlapped, every element comes
\* out in its turn, the size is right and Dequeue does not panic.
FirstInFirstOut ==
  /\ \A i, j \in DOMAIN taken : i < j => taken[i] < taken[j]
  /\ ~overlapped =>
       /\ \A i \in DOMAIN taken : taken[i] = i
       /\ ~held
       /\ (\A c \in Callers : pc[c] = "idle") =>
            /\ size = added - Len(taken)
            /\ size > 0 => head = Len(taken) + 1
===============================================================================
