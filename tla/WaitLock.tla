------------------------------- MODULE WaitLock -------------------------------
(***************************************************************************)
(* async/barrier.go: the gate that goroutines wait at, built from a        *)
(* sync.Cond and an atomic flag, and the StatefulBarrier that lets the     *)
(* opener hand a value to those who wait.                                  *)
(*                                                                         *)
(* Every method of WaitLock is one critical section of the condition's     *)
(* mutex, except Wait, which leaves it while it sleeps.                    *)
(***************************************************************************)
EXTENDS Naturals, FiniteSets

CONSTANTS
  Waiters,      \* calls of Wait or Get
  Openers,      \* calls of OpenWith
  Lockers,      \* calls of Lock
  Value,        \* Value[o]: what o opens the barrier with
  TypeOf,       \* the dynamic type of each value
  Nil           \* nil, both the value and the empty atomic.Value

VARIABLES
  isOpen,
  sleepers,     \* the goroutines in cond.Wait
  state,        \* StatefulBarrier.state
  waiter,       \* program counter of each waiter
  opener,       \* program counter of each opener
  locked,       \* the Lock calls made
  got,          \* what each Get returned
  early         \* history: the openers that found the barrier closed

vars == <<isOpen, sleepers, state, waiter, opener, locked, got, early>>

Init ==
  /\ isOpen = FALSE
  /\ sleepers = {}
  /\ state = Nil
  /\ waiter = [w \in Waiters |-> "idle"]
  /\ opener = [o \in Openers |-> "idle"]
  /\ locked = {}
  /\ got = [w \in Waiters |-> Nil]
  /\ early = {}

-----------------------------------------------------------------------------
(* Wait and Get *)

\* The loop's test under the mutex; cond.Wait adds the sleeper and unlocks.
Test(w) ==
  \/ isOpen /\ waiter' = [waiter EXCEPT ![w] = "passed"] /\ UNCHANGED sleepers
  \/ /\ ~isOpen
     /\ waiter' = [waiter EXCEPT ![w] = "asleep"]
     /\ sleepers' = sleepers \cup {w}

Wait(w) ==
  /\ waiter[w] = "idle"
  /\ Test(w)
  /\ UNCHANGED <<isOpen, state, opener, locked, got, early>>

\* A woken goroutine takes the mutex back and tests again.
Wake(w) ==
  /\ waiter[w] = "asleep" /\ w \notin sleepers
  /\ Test(w)
  /\ UNCHANGED <<isOpen, state, opener, locked, got, early>>

\* Get loads the state once Wait has returned.
Get(w) ==
  /\ waiter[w] = "passed"
  /\ got' = [got EXCEPT ![w] = state]
  /\ waiter' = [waiter EXCEPT ![w] = "returned"]
  /\ UNCHANGED <<isOpen, sleepers, state, opener, locked, early>>

-----------------------------------------------------------------------------
(* OpenWith, Open and Lock *)

\* Mutant: OpenWith does not look at IsOpen.
OpenUnchecked(o) ==
  /\ opener[o] = "idle"
  /\ opener' = [opener EXCEPT ![o] = "store"]
  /\ early' = IF isOpen THEN early ELSE early \cup {o}
  /\ UNCHANGED <<isOpen, sleepers, state, waiter, locked, got>>

CheckOpen(o) ==
  /\ opener[o] = "idle"
  /\ opener' = [opener EXCEPT ![o] = IF isOpen THEN "returned" ELSE "store"]
  /\ early' = IF isOpen THEN early ELSE early \cup {o}
  /\ UNCHANGED <<isOpen, sleepers, state, waiter, locked, got>>

\* atomic.Value.Store panics on nil and on a change of the dynamic type.
Storable(v) == v # Nil /\ (state # Nil => TypeOf[v] = TypeOf[state])

StoreState(o) ==
  /\ opener[o] = "store"
  /\ \/ /\ Storable(Value[o])
        /\ state' = Value[o]
        /\ opener' = [opener EXCEPT ![o] = "open"]
     \/ /\ ~Storable(Value[o])
        /\ opener' = [opener EXCEPT ![o] = "panicked"]
        /\ UNCHANGED state
  /\ UNCHANGED <<isOpen, sleepers, waiter, locked, got, early>>

\* Mutant: the flag is set and nobody is woken.
OpenSilently(o) ==
  /\ opener[o] = "open"
  /\ isOpen' = TRUE
  /\ opener' = [opener EXCEPT ![o] = "returned"]
  /\ UNCHANGED <<sleepers, state, waiter, locked, got, early>>

\* Open: Broadcast, if the flag was down, empties the condition's queue.
Open(o) ==
  /\ opener[o] = "open"
  /\ isOpen' = TRUE
  /\ sleepers' = IF isOpen THEN sleepers ELSE {}
  /\ opener' = [opener EXCEPT ![o] = "returned"]
  /\ UNCHANGED <<state, waiter, locked, got, early>>

Lock(l) ==
  /\ l \notin locked
  /\ isOpen' = FALSE
  /\ locked' = locked \cup {l}
  /\ UNCHANGED <<sleepers, state, waiter, opener, got, early>>

-----------------------------------------------------------------------------

WaiterStep(w) == Wake(w) \/ Get(w)
OpenerStep(o) == StoreState(o) \/ Open(o)

Next ==
  \/ \E w \in Waiters : Wait(w) \/ WaiterStep(w)
  \/ \E o \in Openers : CheckOpen(o) \/ OpenerStep(o)
  \/ \E l \in Lockers : Lock(l)

Spec == Init /\ [][Next]_vars

\* Goroutines that can run do; a waiter or an opener need not come.
FairSpec == /\ Spec
            /\ \A w \in Waiters : WF_vars(WaiterStep(w))
            /\ \A o \in Openers : WF_vars(OpenerStep(o))

-----------------------------------------------------------------------------
(* Properties *)

\* Types, and cond.Wait's own discipline: only sleeping goroutines are queued.
TypeOK ==
  /\ isOpen \in BOOLEAN
  /\ sleepers \subseteq {w \in Waiters : waiter[w] = "asleep"}
  /\ state \in {Value[o] : o \in Openers} \cup {Nil}
  /\ waiter \in [Waiters -> {"idle", "asleep", "passed", "returned"}]
  /\ opener \in [Openers -> {"idle", "store", "open", "returned", "panicked"}]
  /\ locked \subseteq Lockers
  /\ got \in [Waiters -> {Value[o] : o \in Openers} \cup {Nil}]
  /\ early \subseteq Openers

\* No wake-up is lost: while the gate is open nobody sleeps at it, so a Wait
\* that tested the flag just before Open is woken by its Broadcast.
NoSleeperWhenOpen == isOpen => sleepers = {}

\* Get returns a value that an opener brought, never nil; and one that comes
\* once the barrier is open is ignored, unless it has been locked again.  (Two
\* openers that race past the check can both be seen, by different waiters.)
GetReturnsAValue ==
  \A w \in Waiters : waiter[w] = "returned" =>
    /\ got[w] # Nil
    /\ \E o \in Openers : got[w] = Value[o] /\ (locked = {} => o \in early)

\* A gate that is finally left open releases everyone who waits at it, however
\* often it was opened and locked again before.
OpenReleases ==
  \A w \in Waiters : (<>[]isOpen) => (waiter[w] = "asleep" ~> waiter[w] = "returned")
=============================================================================
