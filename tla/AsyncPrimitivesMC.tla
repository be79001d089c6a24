-------------------------- MODULE AsyncPrimitivesMC --------------------------
(* Small instances of SingleRequest and WaitLock, checked in one run: each     *)
(* behaviour is of the one or of the other, as focus says.                     *)
EXTENDS SingleRequest, TLC

CONSTANTS c1, c2, c3, c4, k1, k2, w1, w2, o1, o2, o3, o4, l1, l2, v1, v2, v3

\* The constants of WaitLock.
CONSTANTS Waiters, Openers, Lockers, Value, TypeOf, Nil

\* Three calls compete for one key, the fourth has its own.
MostlyOneKey == [c \in Calls |-> IF c = c4 THEN k2 ELSE k1]

\* Two openers with values of one type, one with another, one with nil.
Values  == (o1 :> v1 @@ o2 :> v2 @@ o3 :> v3 @@ o4 :> Nil)
TypesOf == (v1 :> "int" @@ v2 :> "int" @@ v3 :> "error")

VARIABLES focus, gateOpen, sleepers, state, waiter, opener, locked, got, early

gateVars == <<gateOpen, sleepers, state, waiter, opener, locked, got, early>>

Gate == INSTANCE WaitLock WITH isOpen <- gateOpen

InRequest == focus = "request" /\ UNCHANGED <<focus, gateVars>>
InGate    == focus = "gate" /\ UNCHANGED <<focus, vars>>

BothInit == Init /\ Gate!Init /\ focus \in {"request", "gate"}

BothNext ==
  \/ \E c \in Calls : \/ InRequest /\ Get(c)
                      \/ InRequest /\ Create(c)
                      \/ InRequest /\ RunFn(c)
                      \/ InRequest /\ Publish(c)
                      \/ InRequest /\ WaitAndGet(c)
  \/ \E w \in Waiters : \/ InGate /\ Gate!Wait(w)
                        \/ InGate /\ Gate!Wake(w)
                        \/ InGate /\ Gate!Get(w)
  \/ \E o \in Openers : \/ InGate /\ Gate!CheckOpen(o)
                        \/ InGate /\ Gate!StoreState(o)
                        \/ InGate /\ Gate!Open(o)
  \/ \E l \in Lockers : InGate /\ Gate!Lock(l)

bothVars == <<focus, vars, gateVars>>

\* The fairness of SingleRequest!FairSpec and WaitLock!FairSpec.
BothSpec ==
  /\ BothInit /\ [][BothNext]_bothVars
  /\ \A c \in Calls : WF_bothVars(InRequest /\ DoStep(c))
  /\ \A w \in Waiters : WF_bothVars(InGate /\ Gate!WaiterStep(w))
  /\ \A o \in Openers : WF_bothVars(InGate /\ Gate!OpenerStep(o))

\* Types of both modules.
TypesOK == TypeOK /\ Gate!TypeOK

\* WaitLock, StatefulBarrier: an open gate has no sleeper, so no wake-up is lost, and Get
\* returns a value that an opener in time has brought.
GateKept == Gate!NoSleeperWhenOpen /\ Gate!GetReturnsAValue

\* WaitLock: a gate that is left open releases everyone who waits.
OpenReleases == Gate!OpenReleases
=============================================================================
