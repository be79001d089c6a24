------------------------------ MODULE TaskPool ------------------------------
(***************************************************************************)
(* What a task pool promises its clients, without goroutines, locks or     *)
(* counters: tasks are accepted only while the pool is open, each at most  *)
(* once, served first in first out and at most Capacity at a time, and     *)
(* once the pool is closed none is being served.                           *)
(***************************************************************************)
EXTENDS Naturals, Sequences, FiniteSets

CONSTANTS Tasks, Capacity

VARIABLES
  phase,      \* "idle" until the first task, "open", "closing", "closed"
  accepted,   \* every task the pool has taken responsibility for
  waiting,    \* those not yet served, oldest first
  serving     \* those being served

vars == <<phase, accepted, waiting, serving>>

\* Some pools are open from the start, others open with their first task.
Init ==
  /\ phase \in {"idle", "open"}
  /\ accepted = {} /\ waiting = << >> /\ serving = {}

Open ==
  /\ phase = "idle" /\ phase' = "open"
  /\ UNCHANGED <<accepted, waiting, serving>>

Accept(t) ==
  /\ phase = "open" /\ t \notin accepted
  /\ accepted' = accepted \cup {t}
  /\ UNCHANGED <<phase, serving>>

Submit(t) == Accept(t) /\ waiting' = Append(waiting, t)

\* A full pool hands the task to another goroutine.
Bypass(t) == Accept(t) /\ UNCHANGED waiting

Serve ==
  /\ phase # "closed" /\ waiting # << >>
  /\ Cardinality(serving) < Capacity
  /\ waiting' = Tail(waiting)
  /\ serving' = serving \cup {Head(waiting)}
  /\ UNCHANGED <<phase, accepted>>

Complete(t) ==
  /\ t \in serving /\ serving' = serving \ {t}
  /\ UNCHANGED <<phase, accepted, waiting>>

Close ==
  /\ phase # "idle" /\ phase' = "closing"
  /\ UNCHANGED <<accepted, waiting, serving>>

Closed ==
  /\ phase = "closing" /\ serving = {} /\ phase' = "closed"
  /\ UNCHANGED <<accepted, waiting, serving>>

Next ==
  \/ Open \/ Serve \/ Close \/ Closed
  \/ \E t \in Tasks : Submit(t) \/ Bypass(t) \/ Complete(t)

Spec == Init /\ [][Next]_vars
=============================================================================
