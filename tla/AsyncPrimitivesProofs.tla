------------------------- MODULE AsyncPrimitivesProofs -------------------------
(***************************************************************************)
(* Theorems about the two primitives that AsyncPrimitivesMC puts beside    *)
(* each other, SingleRequest and WaitLock, for any calls, keys, panicking  *)
(* functions, waiters, openers and values: that a key has one execution    *)
(* whose result is fresh, types, and what a StatefulBarrier promises those *)
(* who wait.                                                               *)
(***************************************************************************)
EXTENDS AsyncPrimitivesMC, TLAPS

-----------------------------------------------------------------------------
(* The inductive invariant of the request group *)

\* A state that is not over is the one the map holds, and the map holds no
\* other: this is what the second look in create preserves.
MapHoldsExecuting ==
  /\ \A c \in Calls : Executing(c) => calls[KeyOf[c]] = c
  /\ \A k \in Keys : calls[k] # None => KeyOf[calls[k]] = k /\ calls[k] \notin isOpen
  /\ \A c \in Calls : pc[c] \in {"idle", "create", "fn", "publish"} => c \notin isOpen

\* A call joins a state for its key, which was closed when the call began.
JoinsClosed ==
  \A c \in Calls :
    /\ before[c] \subseteq isOpen
    /\ pc[c] \in {"fn", "publish", "wait", "returned"} =>
         /\ joined[c] \in Calls /\ KeyOf[joined[c]] = KeyOf[c]
         /\ joined[c] \notin before[c]

\* A state is open only when its results are there.
OpenHasResult ==
  /\ isOpen \subseteq res
  /\ \A c \in Calls : /\ pc[c] = "publish" => c \in res
                      /\ pc[c] = "returned" => joined[c] \in isOpen

IInv == TypeOK /\ MapHoldsExecuting /\ JoinsClosed /\ OpenHasResult

LEMMA InitInv == Init => IInv
BY SingleRequestAssumption
DEF SingleRequestAssumption, Init, IInv, TypeOK, MapHoldsExecuting, JoinsClosed,
    OpenHasResult, Executing

LEMMA StepInv == IInv /\ [Next]_vars => IInv'
<1> SUFFICES ASSUME IInv, [Next]_vars PROVE IInv'
  OBVIOUS
<1>key. \A c \in Calls : KeyOf[c] \in Keys /\ c # None
  BY SingleRequestAssumption DEF SingleRequestAssumption
<1> USE <1>key DEF IInv, TypeOK, Goto, Join
<1>1. ASSUME NEW c \in Calls, Get(c) PROVE IInv'
  <2>1. TypeOK'
    BY <1>1 DEF Get
  <2>2. MapHoldsExecuting'
    BY <1>1 DEF Get, MapHoldsExecuting, Executing
  <2>3. JoinsClosed'
    BY <1>1 DEF Get, MapHoldsExecuting, JoinsClosed
  <2>4. OpenHasResult'
    BY <1>1 DEF Get, OpenHasResult
  <2> QED
    BY <2>1, <2>2, <2>3, <2>4
<1>2. ASSUME NEW c \in Calls, Create(c) PROVE IInv'
  <2>1. TypeOK'
    BY <1>2 DEF Create
  <2>2. MapHoldsExecuting'
    BY <1>2 DEF Create, MapHoldsExecuting, Executing
  <2>3. JoinsClosed'
    BY <1>2 DEF Create, MapHoldsExecuting, JoinsClosed
  <2>4. OpenHasResult'
    BY <1>2 DEF Create, OpenHasResult
  <2> QED
    BY <2>1, <2>2, <2>3, <2>4
<1>3. ASSUME NEW c \in Calls, RunFn(c) PROVE IInv'
  <2>1. TypeOK'
    BY <1>3 DEF RunFn
  <2>2. MapHoldsExecuting'
    BY <1>3 DEF RunFn, MapHoldsExecuting, Executing
  <2>3. JoinsClosed'
    BY <1>3 DEF RunFn, JoinsClosed
  <2>4. OpenHasResult'
    BY <1>3 DEF RunFn, OpenHasResult
  <2> QED
    BY <2>1, <2>2, <2>3, <2>4
<1>4. ASSUME NEW c \in Calls, Publish(c) PROVE IInv'
  <2>1. TypeOK'
    BY <1>4 DEF Publish
  <2>2. MapHoldsExecuting'
    BY <1>4 DEF Publish, MapHoldsExecuting, Executing
  <2>3. JoinsClosed'
    BY <1>4 DEF Publish, JoinsClosed
  <2>4. OpenHasResult'
    BY <1>4 DEF Publish, OpenHasResult
  <2> QED
    BY <2>1, <2>2, <2>3, <2>4
<1>5. ASSUME NEW c \in Calls, WaitAndGet(c) PROVE IInv'
  <2>1. TypeOK'
    BY <1>5 DEF WaitAndGet
  <2>2. MapHoldsExecuting'
    BY <1>5 DEF WaitAndGet, MapHoldsExecuting, Executing
  <2>3. JoinsClosed'
    BY <1>5 DEF WaitAndGet, JoinsClosed
  <2>4. OpenHasResult'
    BY <1>5 DEF WaitAndGet, OpenHasResult
  <2> QED
    BY <2>1, <2>2, <2>3, <2>4
<1>6. CASE UNCHANGED vars
  BY <1>6 DEF vars, MapHoldsExecuting, JoinsClosed, OpenHasResult, Executing
<1> QED
  BY <1>1, <1>2, <1>3, <1>4, <1>5, <1>6 DEF Next, DoStep

\* However many calls of Do compete for a key, at most one runs its function.
THEOREM RunsOnce == Spec => []OneExecution
<1>1. IInv => OneExecution
  BY DEF IInv, MapHoldsExecuting, OneExecution
<1> QED
  BY InitInv, StepInv, <1>1, PTL DEF Spec

\* What Do returns was computed for its key by an execution that was not over
\* when Do was called.
THEOREM ReturnsFresh == Spec => []FreshResult
<1>1. IInv => FreshResult
  BY DEF IInv, JoinsClosed, FreshResult
<1> QED
  BY InitInv, StepInv, <1>1, PTL DEF Spec

\* The unsynchronised fields of a callState are read after they are written.
THEOREM ReadsWritten == Spec => []ReadsAfterWrite
<1>1. IInv => ReadsAfterWrite
  BY DEF IInv, OpenHasResult, ReadsAfterWrite
<1> QED
  BY InitInv, StepInv, <1>1, PTL DEF Spec

-----------------------------------------------------------------------------
(* The inductive invariant of the barrier *)

\* Who has passed the test of OpenWith found the barrier closed; what is stored
\* was brought by one of them.
StateBrought ==
  /\ \A o \in Openers : opener[o] \in {"store", "open"} => o \in early
  /\ state # Nil => \E o \in early : state = Value[o]

\* The value is stored before the gate opens, and never taken out again.
StateFirst ==
  (\/ gateOpen
   \/ \E o \in Openers : opener[o] = "open"
   \/ \E w \in Waiters : waiter[w] \in {"passed", "returned"}) => state # Nil

GotBrought ==
  \A w \in Waiters : waiter[w] = "returned" =>
    got[w] # Nil /\ \E o \in early : got[w] = Value[o]

GateInv ==
  Gate!TypeOK /\ Gate!NoSleeperWhenOpen /\ StateBrought /\ StateFirst /\ GotBrought

LEMMA GateInvInit == Gate!Init => GateInv
BY DEF Gate!Init, GateInv, Gate!TypeOK, Gate!NoSleeperWhenOpen, StateBrought, StateFirst,
       GotBrought

\* A waiter tests the flag under the mutex: it passes an open gate or is queued
\* at a closed one.
LEMMA TestStep ==
  ASSUME GateInv, NEW w \in Waiters, w \notin sleepers, Gate!Test(w),
         waiter[w] \in {"idle", "asleep"},
         UNCHANGED <<gateOpen, state, opener, locked, got, early>>
  PROVE  GateInv'
<1> USE DEF GateInv, Gate!TypeOK
<1>1. Gate!TypeOK'
  BY DEF Gate!Test
<1>2. Gate!NoSleeperWhenOpen'
  BY DEF Gate!Test, Gate!NoSleeperWhenOpen
<1>3. StateBrought'
  BY DEF StateBrought
<1>4. StateFirst'
  BY DEF Gate!Test, StateFirst
<1>5. GotBrought'
  BY DEF Gate!Test, GotBrought
<1> QED
  BY <1>1, <1>2, <1>3, <1>4, <1>5

LEMMA GateInvStep == GateInv /\ [Gate!Next]_gateVars => GateInv'
<1> SUFFICES ASSUME GateInv, [Gate!Next]_gateVars PROVE GateInv'
  OBVIOUS
<1>1. ASSUME NEW w \in Waiters, Gate!Wait(w) \/ Gate!Wake(w) PROVE GateInv'
  <2>1. w \notin sleepers
    BY <1>1 DEF GateInv, Gate!TypeOK, Gate!Wait, Gate!Wake
  <2> QED
    BY <1>1, <2>1, TestStep DEF Gate!Wait, Gate!Wake
<1> USE DEF GateInv, Gate!TypeOK
<1>2. ASSUME NEW w \in Waiters, Gate!Get(w) PROVE GateInv'
  <2>1. Gate!TypeOK'
    BY <1>2 DEF Gate!Get, StateBrought
  <2>2. Gate!NoSleeperWhenOpen' /\ StateBrought' /\ StateFirst'
    BY <1>2 DEF Gate!Get, Gate!NoSleeperWhenOpen, StateBrought, StateFirst
  <2>3. GotBrought'
    BY <1>2 DEF Gate!Get, StateBrought, StateFirst, GotBrought
  <2> QED
    BY <2>1, <2>2, <2>3
<1>3. ASSUME NEW o \in Openers, Gate!CheckOpen(o) PROVE GateInv'
  <2>1. Gate!TypeOK' /\ early \subseteq early'
    BY <1>3 DEF Gate!CheckOpen
  <2>2. Gate!NoSleeperWhenOpen'
    BY <1>3 DEF Gate!CheckOpen, Gate!NoSleeperWhenOpen
  <2>3. StateBrought'
    BY <1>3 DEF Gate!CheckOpen, StateBrought
  <2>4. StateFirst'
    BY <1>3 DEF Gate!CheckOpen, StateFirst
  <2>5. GotBrought'
    BY <1>3, <2>1 DEF Gate!CheckOpen, GotBrought
  <2> QED
    BY <2>1, <2>2, <2>3, <2>4, <2>5
<1>4. ASSUME NEW o \in Openers, Gate!StoreState(o) PROVE GateInv'
  <2>1. Gate!TypeOK'
    BY <1>4 DEF Gate!StoreState
  <2>2. Gate!NoSleeperWhenOpen'
    BY <1>4 DEF Gate!StoreState, Gate!NoSleeperWhenOpen
  <2>3. StateBrought'
    BY <1>4 DEF Gate!StoreState, StateBrought
  <2>4. StateFirst'
    BY <1>4 DEF Gate!StoreState, Gate!Storable, StateFirst
  <2>5. GotBrought'
    BY <1>4 DEF Gate!StoreState, GotBrought
  <2> QED
    BY <2>1, <2>2, <2>3, <2>4, <2>5
<1>5. ASSUME NEW o \in Openers, Gate!Open(o) PROVE GateInv'
  <2>1. Gate!TypeOK'
    BY <1>5 DEF Gate!Open
  <2>2. Gate!NoSleeperWhenOpen'
    BY <1>5 DEF Gate!Open, Gate!NoSleeperWhenOpen
  <2>3. StateBrought'
    BY <1>5 DEF Gate!Open, StateBrought
  <2>4. StateFirst'
    BY <1>5 DEF Gate!Open, StateFirst
  <2>5. GotBrought'
    BY <1>5 DEF Gate!Open, GotBrought
  <2> QED
    BY <2>1, <2>2, <2>3, <2>4, <2>5
<1>6. ASSUME NEW l \in Lockers, Gate!Lock(l) PROVE GateInv'
  BY <1>6 DEF Gate!Lock, Gate!NoSleeperWhenOpen, StateBrought, StateFirst, GotBrought
<1>7. CASE UNCHANGED gateVars
  BY <1>7 DEF gateVars, Gate!NoSleeperWhenOpen, StateBrought, StateFirst, GotBrought
<1> QED
  BY <1>1, <1>2, <1>3, <1>4, <1>5, <1>6, <1>7
     DEF Gate!Next, Gate!WaiterStep, Gate!OpenerStep

-----------------------------------------------------------------------------
(* Both modules *)

LEMMA BothSteps == [BothNext]_bothVars => [Next]_vars /\ [Gate!Next]_gateVars
BY DEF BothNext, bothVars, InRequest, InGate, Next, DoStep, Gate!Next, Gate!WaiterStep,
       Gate!OpenerStep

\* Both invariants hold of every behaviour.
THEOREM BothInvariants == BothSpec => [](IInv /\ GateInv)
<1>1. BothInit => IInv /\ GateInv
  BY InitInv, GateInvInit DEF BothInit
<1>2. IInv /\ GateInv /\ [BothNext]_bothVars => IInv' /\ GateInv'
  BY StepInv, GateInvStep, BothSteps
<1> QED
  BY <1>1, <1>2, PTL DEF BothSpec

\* Every variable keeps its type, and only sleeping goroutines are queued at the
\* condition of a WaitLock (barrier.go:25).
THEOREM TypesCorrect == BothSpec => []TypesOK
<1>1. IInv /\ GateInv => TypesOK
  BY DEF IInv, GateInv, TypesOK
<1> QED
  BY <1>1, BothInvariants, PTL

\* No wake-up is lost at a WaitLock, however often it is opened and locked again;
\* and Get of a StatefulBarrier (barrier.go:75) never returns nil, whatever the
\* openers bring and however they race, but a value that one brought which found
\* the barrier closed.
THEOREM GateKeeps == BothSpec => []GateKept
<1>1. GateInv => GateKept
  <2> SUFFICES ASSUME GateInv PROVE GateKept
    OBVIOUS
  <2>1. early \subseteq Openers
    BY DEF GateInv, Gate!TypeOK
  <2> QED
    BY <2>1 DEF GateInv, GateKept, GotBrought, Gate!GetReturnsAValue
<1> QED
  BY <1>1, BothInvariants, PTL
=============================================================================
