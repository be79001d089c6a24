-------------------------------- MODULE Logger --------------------------------
(***************************************************************************)
(* logging/default.go: a tree of loggers.  A logger made from another has  *)
(* a copy of its settings; the ...WithPropogate calls set one of them in a *)
(* logger and everything made from it.  One setting stands for the prefix, *)
(* the writer or the water mark.                                           *)
(***************************************************************************)
EXTENDS Sequences

CONSTANTS
  Root,         \* the first logger
  Makers,       \* calls of WithPrefix and its like; the logger is named for the call
  Propagators   \* calls of PrefixWithPropogate and its like, or of Prefix, SetWriter or
                \* SetWaterMark; the value is named for the call

VARIABLES
  setting,      \* of each logger
  subLoggers,
  maker, from,  \* per call of With...: where it is, and the logger it is called on
  pc, todo,     \* per propagation: where it is, and the loggers it has yet to visit
  target,       \* history, per propagation: the loggers below it when it began
  later         \* history, per propagation: the loggers that others have set since

vars == <<setting, subLoggers, maker, from, pc, todo, target, later>>

Loggers == {Root} \cup Makers

Init ==
  /\ setting = [l \in Loggers |-> Root] /\ subLoggers = [l \in Loggers |-> << >>]
  /\ maker = [m \in Makers |-> "idle"] /\ from = [m \in Makers |-> Root]
  /\ pc = [p \in Propagators |-> "idle"] /\ todo = [p \in Propagators |-> << >>]
  /\ target = [p \in Propagators |-> {}] /\ later = [p \in Propagators |-> {}]

Existing == {Root} \cup {m \in Makers : maker[m] = "returned"}

\* The loggers that were made from l, from one of those, and so on: the smallest set
\* that has l and whatever was made from its members.
Below(l) ==
  LET closed == {S \in SUBSET Loggers :
        l \in S /\ \A m \in Makers : maker[m] = "returned" /\ from[m] \in S => m \in S}
  IN  {m \in Loggers : \A S \in closed : m \in S}

\* copy(), then one setting of the copy may be changed.
Copy(m, l, own) ==
  /\ maker[m] = "idle" /\ l \in Existing
  /\ maker' = [maker EXCEPT ![m] = "copied"] /\ from' = [from EXCEPT ![m] = l]
  /\ setting' = [setting EXCEPT ![m] = IF own THEN m ELSE setting[l]]
  /\ UNCHANGED <<subLoggers, pc, todo, target, later>>

registerSubLogger(m) ==
  /\ maker[m] = "copied"
  /\ maker' = [maker EXCEPT ![m] = "returned"]
  /\ subLoggers' = [subLoggers EXCEPT ![from[m]] = Append(@, m)]
  /\ UNCHANGED <<setting, from, pc, todo, target, later>>

\* And its like.
WithPrefix(m) == registerSubLogger(m) \/ \E l \in Loggers, own \in BOOLEAN : Copy(m, l, own)

Assign(l, v) ==
  /\ setting' = [setting EXCEPT ![l] = v]
  /\ later' = [p \in Propagators |->
       IF p # v /\ pc[p] # "idle" THEN later[p] \cup {l} ELSE later[p]]

Set(p, l) ==
  /\ pc[p] = "idle" /\ l \in Existing
  /\ pc' = [pc EXCEPT ![p] = "returned"]
  /\ Assign(l, p)
  /\ UNCHANGED <<subLoggers, maker, from, todo, target>>

Propagate(p, l) ==
  /\ pc[p] = "idle" /\ l \in Existing
  /\ pc' = [pc EXCEPT ![p] = "running"] /\ todo' = [todo EXCEPT ![p] = <<l>>]
  /\ target' = [target EXCEPT ![p] = Below(l)]
  /\ UNCHANGED <<setting, subLoggers, maker, from, later>>

\* One logger: its setting and the copy of its sub-loggers, under its lock; then them,
\* depth first.
Visit(p) ==
  /\ todo[p] # << >>
  /\ LET l == Head(todo[p])
     IN  /\ Assign(l, p)
         /\ todo' = [todo EXCEPT ![p] = subLoggers[l] \o Tail(@)]
  /\ UNCHANGED <<subLoggers, maker, from, pc, target>>

Return(p) ==
  /\ pc[p] = "running" /\ todo[p] = << >>
  /\ pc' = [pc EXCEPT ![p] = "returned"]
  /\ UNCHANGED <<setting, subLoggers, maker, from, todo, target, later>>

Next ==
  \/ \E m \in Makers : WithPrefix(m)
  \/ \E p \in Propagators : \/ \E l \in Loggers : Set(p, l) \/ Propagate(p, l)
                            \/ Visit(p) \/ Return(p)

Spec == Init /\ [][Next]_vars

-----------------------------------------------------------------------------
\* Types.
TypeOK ==
  /\ setting \in [Loggers -> Loggers \cup Propagators]
  /\ subLoggers \in [Loggers -> Seq(Makers)]
  /\ maker \in [Makers -> {"idle", "copied", "returned"}]
  /\ pc \in [Propagators -> {"idle", "running", "returned"}]
  /\ todo \in [Propagators -> Seq(Loggers)]

\* A propagation that has returned has set every logger that was made from its own
\* before it began, whatever was made meanwhile, unless someone else has set that
\* logger since.
PropagationReaches ==
  \A p \in Propagators : pc[p] = "returned" =>
    \A l \in target[p] : setting[l] = p \/ l \in later[p]
===============================================================================
