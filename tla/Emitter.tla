------------------------------- MODULE Emitter -------------------------------
(***************************************************************************)
(* notification/notification_emitter.go for one event: a list of listeners *)
(* under an RWMutex, a goroutine for each listener of a snapshot, and      *)
(* removal by the code pointer of a listener, which all functions made at  *)
(* one place of the source share, the wrappers that Once makes among them. *)
(***************************************************************************)
EXTENDS Naturals, Sequences, FiniteSets

CONSTANTS
  Listeners,  \* the calls of On and Once
  Onces,      \* those of Once
  Site,       \* Site[l]: where the function that is registered was made
  Panicking,  \* the listeners that panic
  Notifiers,  \* the calls of Notify
  Asyncs,     \* the calls of NotifyAsync
  MaxListeners

VARIABLES
  listeners,   \* the registered listeners, in order
  reg,         \* per listener: where its registration is
  once,        \* per listener of Once: its sync.Once
  notifier,    \* per notification: where it is
  routine,     \* the goroutines: <<notification, listener>> |-> where it is
  ran,         \* history: how often each listener of Once ran
  cleared      \* history: the listeners that were registered when OffAll was called

vars == <<listeners, reg, once, notifier, routine, ran, cleared>>

Calls == Notifiers \cup Asyncs

New ==
  /\ listeners = << >> /\ reg = [l \in Listeners |-> "idle"]
  /\ once = [l \in Onces |-> "new"] /\ notifier = [n \in Calls |-> "idle"]
  /\ routine = [g \in {} |-> "call"] /\ ran = [l \in Onces |-> 0] /\ cleared = {}

Registered == {listeners[i] : i \in DOMAIN listeners}

-----------------------------------------------------------------------------
(* Under the write lock *)

\* Mutant: the length of the list is not looked at.
OnUnbounded(l) ==
  /\ reg[l] = "idle"
  /\ reg' = [reg EXCEPT ![l] = "on"] /\ listeners' = Append(listeners, l)
  /\ UNCHANGED <<once, notifier, routine, ran, cleared>>

\* On and Once; the list may be full.
On(l) ==
  /\ reg[l] = "idle"
  /\ IF Len(listeners) < MaxListeners
     THEN reg' = [reg EXCEPT ![l] = "on"] /\ listeners' = Append(listeners, l)
     ELSE reg' = [reg EXCEPT ![l] = "refused"] /\ UNCHANGED listeners
  /\ UNCHANGED <<once, notifier, routine, ran, cleared>>

\* removeMessageListener takes the first listener with the code pointer out.
Without(l) ==
  IF \A m \in Registered : Site[m] # Site[l] THEN listeners
  ELSE LET i == CHOOSE j \in DOMAIN listeners :
                  /\ Site[listeners[j]] = Site[l]
                  /\ \A k \in 1 .. j - 1 : Site[listeners[k]] # Site[l]
       IN  SubSeq(listeners, 1, i - 1) \o SubSeq(listeners, i + 1, Len(listeners))

\* The Disposable that On or Once returned.
Off(l) ==
  /\ reg[l] = "on"
  /\ reg' = [reg EXCEPT ![l] = "off"] /\ listeners' = Without(l)
  /\ UNCHANGED <<once, notifier, routine, ran, cleared>>

OffAll ==
  /\ listeners # << >>
  /\ listeners' = << >> /\ cleared' = cleared \cup Registered
  /\ UNCHANGED <<reg, once, notifier, routine, ran>>

-----------------------------------------------------------------------------
(* Notify and NotifyAsync *)

\* copyListeners, and a goroutine (or a task of the executor) for each of the copy.
Notify(n) ==
  /\ notifier[n] = "idle"
  /\ notifier' = [notifier EXCEPT ![n] =
       IF listeners = << >> \/ n \in Asyncs THEN "returned" ELSE "waiting"]
  /\ routine' = [g \in DOMAIN routine \cup {<<n, l>> : l \in Registered} |->
       IF g \in DOMAIN routine THEN routine[g] ELSE "call"]
  /\ UNCHANGED <<listeners, reg, once, ran, cleared>>

Goto(g, p) == routine' = [routine EXCEPT ![g] = p]

\* The goroutine calls a listener of On, which returns or panics.
Run(g) ==
  /\ g \in DOMAIN routine /\ routine[g] = "call" /\ g[2] \notin Onces
  /\ Goto(g, "ended")
  /\ UNCHANGED <<listeners, reg, once, notifier, ran, cleared>>

\* Or it enters the sync.Once of one of Once: the first goroutine runs it, others wait
\* for that one to leave.
Enter(g) ==
  /\ g \in DOMAIN routine /\ routine[g] = "call" /\ g[2] \in Onces
  /\ \/ /\ once[g[2]] = "new"
        /\ once' = [once EXCEPT ![g[2]] = "busy"] /\ Goto(g, "run")
     \/ /\ once[g[2]] = "done"
        /\ Goto(g, "ended") /\ UNCHANGED once
  /\ UNCHANGED <<listeners, reg, notifier, ran, cleared>>

\* A panic leaves the sync.Once done and, since Off is not reached, the listener listed.
RunOnce(g) ==
  /\ g \in DOMAIN routine /\ routine[g] = "run"
  /\ ran' = [ran EXCEPT ![g[2]] = @ + 1]
  /\ IF g[2] \in Panicking
     THEN Goto(g, "ended") /\ once' = [once EXCEPT ![g[2]] = "done"]
     ELSE Goto(g, "off") /\ UNCHANGED once
  /\ UNCHANGED <<listeners, reg, notifier, cleared>>

OffAfterOnce(g) ==
  /\ g \in DOMAIN routine /\ routine[g] = "off"
  /\ listeners' = Without(g[2])
  /\ once' = [once EXCEPT ![g[2]] = "done"] /\ Goto(g, "ended")
  /\ UNCHANGED <<reg, notifier, ran, cleared>>

\* wg.Wait
Return(n) ==
  /\ notifier[n] = "waiting"
  /\ \A g \in DOMAIN routine : g[1] = n => routine[g] = "ended"
  /\ notifier' = [notifier EXCEPT ![n] = "returned"]
  /\ UNCHANGED <<listeners, reg, once, routine, ran, cleared>>

Step(n) ==
  \/ Return(n)
  \/ \E l \in Listeners : Run(<<n, l>>) \/ Enter(<<n, l>>) \/ RunOnce(<<n, l>>) \/ OffAfterOnce(<<n, l>>)

Next ==
  \/ \E l \in Listeners : On(l) \/ Off(l)
  \/ OffAll
  \/ \E n \in Calls : Notify(n) \/ Step(n)

\* Goroutines that can go on are scheduled, and listeners return.
FairSpec == New /\ [][Next]_vars /\ \A n \in Calls : WF_vars(Step(n))

-----------------------------------------------------------------------------
\* Types.
TypeOK ==
  /\ listeners \in Seq(Listeners) /\ Len(listeners) <= MaxListeners
  /\ \A i, j \in DOMAIN listeners : listeners[i] = listeners[j] => i = j
  /\ reg \in [Listeners -> {"idle", "on", "refused", "off"}]
  /\ once \in [Onces -> {"new", "busy", "done"}]
  /\ notifier \in [Calls -> {"idle", "waiting", "returned"}]
  /\ routine \in [DOMAIN routine -> {"call", "run", "off", "ended"}]

\* A listener of Once runs at most once, whoever notifies.  A registered listener whose
\* code pointer is its own stays until it is turned off, has run as one of Once, or
\* OffAll; one that was turned off is not listed; and of the listeners that share a code
\* pointer as many are gone as were turned off.
ListenersKept ==
  /\ \A l \in Onces : ran[l] <= 1
  /\ \A l \in Listeners :
       LET alone == \A m \in Listeners \ {l} :
                      Site[m] = Site[l] => reg[m] \in {"idle", "refused"}
       IN  /\ reg[l] = "on" /\ alone /\ l \notin Registered =>
                l \in cleared \/ (l \in Onces /\ ran[l] = 1)
           /\ reg[l] = "off" /\ alone => l \notin Registered
  /\ cleared = {} =>
       \A s \in {Site[l] : l \in Listeners} :
         LET here == {l \in Listeners : Site[l] = s}
             gone == {l \in here : reg[l] = "off"}
             over == {l \in here \cap Onces : l \notin Panicking /\ ran[l] = 1}
         IN  Cardinality({l \in here : reg[l] \in {"on", "off"}})
               <= Cardinality(here \cap Registered) + Cardinality(gone) + Cardinality(over)

\* Notify returns once its listeners have.
Settled == \A n \in Calls : notifier[n] # "waiting"
==============================================================================
