------------------------------ MODULE Observable ------------------------------
(***************************************************************************)
(* observable/observable.go: SafeObservable, an Observable under an        *)
(* RWMutex.  A goroutine sets a value, or registers an observer, removes   *)
(* it by its disposer, calls Once, or disposes of all observers.           *)
(***************************************************************************)
EXTENDS Naturals, Sequences, FiniteSets

CONSTANTS
  Setters,       \* calls of Set; the value is the caller
  Registrars,    \* calls of On, each followed by its disposer at any time
  OnceCallers,   \* calls of Once
  Disposers,     \* calls of Dispose
  Getting,       \* the registrars whose observer calls Get
  NoOne

VARIABLES
  value,
  observerMap,   \* from the ids in use to the registrar whose observer has it
  id,            \* per registrar: the id its disposer removes
  writer,        \* who holds the lock for writing or waits for its readers to leave
  readers,       \* the calls of Set that hold it for reading
  pc,
  todo,          \* per call of Set: the observers it has yet to call
  seen,          \* history, per registrar: the values its observer was called with
  stores,        \* history: the values in the order in which they were stored
  registered,    \* history: whose observer is neither turned off nor disposed of
  due,           \* history, per call of Set: the observers it owes a call
  overlapped,    \* history: two calls of Set overlapped
  clash          \* history: an id was given again before its disposer was done with it

lockVars    == <<writer, readers>>
historyVars == <<seen, stores, registered, due, overlapped, clash>>
vars == <<value, observerMap, id, lockVars, pc, todo, historyVars>>

Actors == Setters \cup Registrars \cup OnceCallers \cup Disposers

NewSafeObservable ==
  /\ value = NoOne /\ observerMap = [i \in {} |-> NoOne]
  /\ id = [r \in Registrars |-> NoOne]
  /\ writer = NoOne /\ readers = {} /\ pc = [a \in Actors |-> "idle"]
  /\ todo = [s \in Setters |-> {}] /\ seen = [r \in Registrars |-> << >>]
  /\ stores = << >> /\ due = [s \in Setters |-> {}] /\ registered = {}
  /\ overlapped = FALSE /\ clash = FALSE

Goto(a, p) == pc' = [pc EXCEPT ![a] = p]
Observers == {observerMap[i] : i \in DOMAIN observerMap}
Setting == {s \in Setters : pc[s] \notin {"idle", "returned"}}

-----------------------------------------------------------------------------
(* The lock: a writer keeps new readers out from when it waits. *)

\* Set, On, a disposer, Once or Dispose begins.
Call(a) ==
  /\ writer = NoOne
  /\ \/ pc[a] = "idle" /\ Goto(a, "lock")
     \/ a \in Registrars /\ pc[a] = "on" /\ Goto(a, "lockAgain")
  /\ writer' = a
  /\ overlapped' = (overlapped \/ (a \in Setters /\ Setting # {}))
  /\ due' = [s \in Setters |-> IF s = a THEN registered ELSE due[s] \ {a}]
  /\ registered' = registered \ {a}
  /\ UNCHANGED <<value, observerMap, id, readers, todo, seen, stores, clash>>

Locked(a, p) == writer = a /\ readers = {} /\ pc[a] = p
Unlock == writer' = NoOne /\ UNCHANGED readers

-----------------------------------------------------------------------------
Store(s) ==
  /\ s \in Setters /\ Locked(s, "lock")
  /\ value' = s /\ stores' = Append(stores, s)
  /\ Unlock /\ Goto(s, "stored")
  /\ UNCHANGED <<observerMap, id, todo, seen, registered, due, overlapped, clash>>

RLock(s) ==
  /\ pc[s] = "stored" /\ writer = NoOne
  /\ readers' = readers \cup {s} /\ todo' = [todo EXCEPT ![s] = Observers]
  /\ Goto(s, "notify")
  /\ UNCHANGED <<value, observerMap, id, writer, historyVars>>

\* The map is walked in any order.  An observer that calls Get takes the lock again.
Notify(s, r) ==
  /\ pc[s] = "notify" /\ r \in todo[s]
  /\ r \in Getting => writer = NoOne
  /\ todo' = [todo EXCEPT ![s] = @ \ {r}] /\ seen' = [seen EXCEPT ![r] = Append(@, s)]
  /\ UNCHANGED <<value, observerMap, id, lockVars, pc, stores, registered, due, overlapped, clash>>

RUnlock(s) ==
  /\ pc[s] = "notify" /\ todo[s] = {}
  /\ readers' = readers \ {s} /\ Goto(s, "returned")
  /\ UNCHANGED <<value, observerMap, id, writer, todo, historyVars>>

\* The id is the address of a parameter that is garbage once On has returned, so it may
\* be that of an earlier call.
On(r, i) ==
  /\ r \in Registrars /\ Locked(r, "lock")
  /\ i = r \/ \E q \in Registrars : i = id[q] /\ id[q] # NoOne
  /\ clash' = (clash \/ \E q \in Registrars : id[q] = i /\ pc[q] # "off")
  /\ observerMap' = [j \in DOMAIN observerMap \cup {i} |-> IF j = i THEN r ELSE observerMap[j]]
  /\ id' = [id EXCEPT ![r] = i] /\ registered' = registered \cup {r}
  /\ Unlock /\ Goto(r, "on")
  /\ UNCHANGED <<value, todo, seen, stores, due, overlapped>>

\* Mutant: the disposer does not find its observer.
DisposerMisses(r) ==
  /\ r \in Registrars /\ Locked(r, "lockAgain")
  /\ Unlock /\ Goto(r, "off")
  /\ UNCHANGED <<value, observerMap, id, todo, historyVars>>

Disposer(r) ==
  /\ r \in Registrars /\ Locked(r, "lockAgain")
  /\ observerMap' = [i \in DOMAIN observerMap \ {id[r]} |-> observerMap[i]]
  /\ Unlock /\ Goto(r, "off")
  /\ UNCHANGED <<value, id, todo, historyVars>>

\* Once locks and calls On, which waits for the lock that its caller holds.
Once(c) ==
  /\ c \in OnceCallers /\ Locked(c, "lock")
  /\ Goto(c, "stuck")
  /\ UNCHANGED <<value, observerMap, id, lockVars, todo, historyVars>>

Dispose(d) ==
  /\ d \in Disposers /\ Locked(d, "lock")
  /\ observerMap' = [i \in {} |-> NoOne]
  /\ Unlock /\ Goto(d, "returned")
  /\ due' = [s \in Setters |-> {}] /\ registered' = {}
  /\ UNCHANGED <<value, id, todo, seen, stores, overlapped, clash>>

SetterStep(s) == Store(s) \/ RLock(s) \/ RUnlock(s) \/ \E r \in Registrars : Notify(s, r)
WriterStep == \/ \E r \in Registrars : Disposer(r) \/ \E i \in Registrars : On(r, i)
              \/ \E c \in OnceCallers : Once(c)
              \/ \E d \in Disposers : Dispose(d)

Next == \/ \E a \in Actors : Call(a)
        \/ \E s \in Setters : SetterStep(s)
        \/ WriterStep

\* Goroutines that can go on are scheduled, and observers return.
FairSpec == /\ NewSafeObservable /\ [][Next]_vars
            /\ WF_vars(WriterStep) /\ \A s \in Setters : WF_vars(SetterStep(s))

-----------------------------------------------------------------------------
\* Types.
TypeOK ==
  /\ value \in Setters \cup {NoOne} /\ observerMap \in [DOMAIN observerMap -> Registrars]
  /\ id \in [Registrars -> Registrars \cup {NoOne}] /\ DOMAIN observerMap \subseteq Registrars
  /\ writer \in Actors \cup {NoOne} /\ readers \subseteq Setters
  /\ pc \in [Actors -> {"idle", "lock", "stored", "notify", "on", "lockAgain", "off",
                        "stuck", "returned"}]
  /\ todo \in [Setters -> SUBSET Registrars] /\ seen \in [Registrars -> Seq(Setters)]

\* Who is registered when a Set begins and not turned off before it returns is called
\* with its value, unless an id was given twice; who was turned off is no longer called;
\* and while no two Sets overlap observers see values in the order of the stores, once.
NotifiedOnce ==
  /\ ~clash => \A s \in Setters : pc[s] = "returned" =>
       \A r \in due[s] : \E n \in DOMAIN seen[r] : seen[r][n] = s
  /\ \A r \in Registrars : pc[r] = "off" => \A s \in Setters : r \notin todo[s]
  /\ \A r \in Registrars : ~overlapped =>
       \A m, n \in DOMAIN seen[r] : m < n =>
         \E i, j \in DOMAIN stores : i < j /\ stores[i] = seen[r][m] /\ stores[j] = seen[r][n]

\* Somebody has called Once, or somebody waits to write while an observer waits to read.
Stuck == \/ \E c \in OnceCallers : pc[c] = "stuck"
         \/ writer # NoOne /\ \E s \in Setters : todo[s] \cap Getting # {}

\* Set returns unless Once was called or an observer that calls Get meets a writer.
Settled == Stuck \/ Setting = {}
===============================================================================
