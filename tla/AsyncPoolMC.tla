---------------------------- MODULE AsyncPoolMC ----------------------------
(* Small instances of AsyncPool for TLC. *)
EXTENDS AsyncPool

CONSTANTS t1, t2, t3, s1, s2, r1

\* Every call comes from a goroutine outside the pool.
FromClients == [x \in Calls |-> Client]

\* The body of t1 schedules t2.
NestedSchedule == [x \in Calls |-> IF x = t2 THEN t1 ELSE Client]

\* The last resort of a pool owner: grow it to two workers.
GrowToTwo == [r \in Resizers |-> 2]
=============================================================================
