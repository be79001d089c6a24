-------------------------------- MODULE Timer --------------------------------
(***************************************************************************)
(* timer/timer.go: one goroutine starts, stops and resets a timer, others  *)
(* wait for it, and the function runs on goroutines of the runtime.        *)
(***************************************************************************)
EXTENDS Naturals, Sequences

CONSTANTS
  Waiters,
  MaxCalls,  \* bound of the calls of Start, Repeat and Reset
  MaxRuns    \* bound of the runs of the function

VARIABLES
  handle,     \* t.timer: the number of a runtime timer, 0 for nil
  mode,       \* for each runtime timer made: whether its function repeats
  pending,    \* the runtime timers that are armed
  runs,       \* each run of the function: [pc, repeat]
  ctl,        \* where the controlling goroutine is
  calls,
  isOpen, sleepers, waiter,  \* t.b and the calls of Wait
  stopped,    \* history: the last call was a Stop that returned true
  disturbed,  \* history: a run began before Start returned, or a Reset came during a run
  panicked    \* run has called Reset on nil

gateVars == <<isOpen, sleepers>>
historyVars == <<stopped, disturbed, panicked>>
vars == <<handle, mode, pending, runs, ctl, calls, gateVars, waiter, historyVars>>

New ==
  /\ handle = 0 /\ mode = << >> /\ pending = {} /\ runs = << >> /\ ctl = "idle" /\ calls = 0
  /\ isOpen = TRUE /\ sleepers = {} /\ waiter = [w \in Waiters |-> "idle"]
  /\ stopped = FALSE /\ disturbed = FALSE /\ panicked = FALSE

Active == {r \in DOMAIN runs : runs[r].pc # "ended"}
Goto(r, p) == runs' = [runs EXCEPT ![r].pc = p]

Open == isOpen' = TRUE /\ sleepers' = {}
Lock == isOpen' = FALSE /\ UNCHANGED sleepers

-----------------------------------------------------------------------------
(* The controller *)

\* Start and Repeat: the runtime timer is armed before t.timer is set.
Start(repeat) ==
  /\ ctl = "idle" /\ handle = 0 /\ calls < MaxCalls
  /\ Lock
  /\ mode' = Append(mode, repeat) /\ pending' = pending \cup {Len(mode) + 1}
  /\ ctl' = "assign" /\ calls' = calls + 1 /\ stopped' = FALSE
  /\ UNCHANGED <<handle, runs, waiter, disturbed, panicked>>

Assign ==
  /\ ctl = "assign"
  /\ handle' = Len(mode) /\ ctl' = "idle"
  /\ UNCHANGED <<mode, pending, runs, calls, gateVars, waiter, historyVars>>

\* Mutant: what the runtime's Stop returns is ignored.
StopAnyway ==
  /\ ctl = "idle" /\ handle # 0
  /\ pending' = pending \ {handle} /\ ctl' = "setNil"
  /\ UNCHANGED <<handle, mode, runs, calls, gateVars, waiter, historyVars>>

\* A timer that has fired is left as it is, and so is one that will be armed again.
Stop ==
  /\ ctl = "idle" /\ handle \in pending
  /\ pending' = pending \ {handle} /\ ctl' = "setNil"
  /\ UNCHANGED <<handle, mode, runs, calls, gateVars, waiter, historyVars>>

SetNil ==
  /\ ctl = "setNil"
  /\ handle' = 0 /\ ctl' = "open"
  /\ UNCHANGED <<mode, pending, runs, calls, gateVars, waiter, historyVars>>

\* Mutant: those who wait are left asleep.
StopSilently ==
  /\ ctl = "open"
  /\ ctl' = "idle" /\ stopped' = TRUE
  /\ UNCHANGED <<handle, mode, pending, runs, calls, gateVars, waiter, disturbed, panicked>>

OpenStopped ==
  /\ ctl = "open"
  /\ Open /\ ctl' = "idle" /\ stopped' = TRUE
  /\ UNCHANGED <<handle, mode, pending, runs, calls, waiter, disturbed, panicked>>

\* Reset arms the timer even if its function is running or has run.
Reset ==
  /\ ctl = "idle" /\ handle # 0 /\ calls < MaxCalls
  /\ pending' = pending \cup {handle} /\ calls' = calls + 1
  /\ disturbed' = (disturbed \/ Active # {})
  /\ UNCHANGED <<handle, mode, runs, ctl, gateVars, waiter, stopped, panicked>>

-----------------------------------------------------------------------------
(* The runtime and run *)

Fire(t) ==
  /\ t \in pending /\ Len(runs) < MaxRuns
  /\ pending' = pending \ {t}
  /\ runs' = Append(runs, [pc |-> "fn", repeat |-> mode[t]])
  /\ disturbed' = (disturbed \/ ctl = "assign")
  /\ UNCHANGED <<handle, mode, ctl, calls, gateVars, waiter, stopped, panicked>>

OpenAfterFn(r) ==
  /\ runs[r].pc = "fn"
  /\ Open /\ Goto(r, IF runs[r].repeat THEN "lock" ELSE "ended")
  /\ UNCHANGED <<handle, mode, pending, ctl, calls, waiter, historyVars>>

LockAgain(r) ==
  /\ runs[r].pc = "lock"
  /\ Lock /\ Goto(r, "reset")
  /\ UNCHANGED <<handle, mode, pending, ctl, calls, waiter, historyVars>>

Rearm(r) ==
  /\ runs[r].pc = "reset"
  /\ pending' = IF handle = 0 THEN pending ELSE pending \cup {handle}
  /\ panicked' = (panicked \/ handle = 0)
  /\ Goto(r, "ended")
  /\ UNCHANGED <<handle, mode, ctl, calls, gateVars, waiter, stopped, disturbed>>

-----------------------------------------------------------------------------
(* Wait *)

Test(w) ==
  \/ isOpen /\ waiter' = [waiter EXCEPT ![w] = "returned"] /\ UNCHANGED sleepers
  \/ ~isOpen /\ waiter' = [waiter EXCEPT ![w] = "asleep"] /\ sleepers' = sleepers \cup {w}

Wait(w) ==
  /\ waiter[w] = "idle"
  /\ IF handle = 0 THEN waiter' = [waiter EXCEPT ![w] = "returned"] /\ UNCHANGED sleepers
                   ELSE Test(w)
  /\ UNCHANGED <<handle, mode, pending, runs, ctl, calls, isOpen, historyVars>>

Wake(w) ==
  /\ waiter[w] = "asleep" /\ w \notin sleepers /\ Test(w)
  /\ UNCHANGED <<handle, mode, pending, runs, ctl, calls, isOpen, historyVars>>

Runtime ==
  \/ \E t \in pending : Fire(t)
  \/ \E r \in DOMAIN runs : OpenAfterFn(r) \/ LockAgain(r) \/ Rearm(r)
Finish == Assign \/ SetNil \/ OpenStopped

Next ==
  \/ \E repeat \in BOOLEAN : Start(repeat)
  \/ Stop \/ Reset \/ Finish \/ Runtime
  \/ \E w \in Waiters : Wait(w) \/ Wake(w)

\* Runtime timers fire, and goroutines that can go on are scheduled.
FairSpec ==
  /\ New /\ [][Next]_vars /\ WF_vars(Finish) /\ WF_vars(Runtime)
  /\ \A w \in Waiters : WF_vars(Wake(w))

-----------------------------------------------------------------------------
\* Types.
TypeOK ==
  /\ mode \in Seq(BOOLEAN) /\ handle \in 0 .. Len(mode) /\ pending \subseteq 1 .. Len(mode)
  /\ \A r \in DOMAIN runs : runs[r].pc \in {"fn", "lock", "reset", "ended"}
  /\ ctl \in {"idle", "assign", "setNil", "open"} /\ calls \in 0 .. MaxCalls
  /\ sleepers \subseteq Waiters /\ waiter \in [Waiters -> {"idle", "asleep", "returned"}]

OneShots == \A t \in DOMAIN mode : ~mode[t]

\* Unless a Reset arms the timer while its function runs, or it fires before Start has
\* returned, runs do not overlap, run finds its timer, and no run is going once a Stop
\* has returned true.  One-shot timers never panic, and run at most once per Start
\* and Reset.
TimerAgrees ==
  /\ ~disturbed => /\ (\A r, q \in Active : r = q) /\ ~panicked
                   /\ stopped => Active = {}
  /\ OneShots => ~panicked /\ Len(runs) <= calls

\* Whoever waits for a timer that does not repeat is released, also by Stop.
Settled == OneShots => \A w \in Waiters : waiter[w] # "asleep"
==============================================================================
