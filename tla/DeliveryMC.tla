----------------------------- MODULE DeliveryMC -----------------------------
(* Small instances of what hands values on, checked in one run: each behaviour *)
(* is of a call of retry, a safe observable, a notification emitter, a timer,  *)
(* a tree of loggers, a buffered writer, the OpenObserve writer (which share   *)
(* their variables), or log files, as kind says.                               *)
EXTENDS Integers, Sequences, FiniteSets, TLC

CONSTANTS l1, l2, l3, Kinds

\* The constants of Retry, Observable, Emitter, Timer, Logger, BufferedWriter and
\* OpenObserveWriter (Writers are those of both), and FileWriter.
CONSTANTS
  Requested,
  Setters, Registrars, OnceCallers, Disposers, Getting, NoOne,
  Listeners, Onces, Site, Panicking, Notifiers, Asyncs, MaxListeners,
  TimerWaiters, MaxCalls, MaxRuns,
  Root, Makers, Propagators,
  Writers, Waiters, FlushThreshold, Ticking, MaxAttempts, MayCancel, Room,
  Prefixes, Matches, LogDataSize, MaxRecords

\* Calls of different kinds are different goroutines, a prefix begins with itself.
ASSUME DeliveryAssumption ==
  /\ Requested \subseteq Int /\ Requested # {}
  /\ Setters \cap (Registrars \cup OnceCallers \cup Disposers) = {}
  /\ Registrars \cap (OnceCallers \cup Disposers) = {} /\ OnceCallers \cap Disposers = {}
  /\ NoOne \notin Setters \cup Registrars \cup OnceCallers \cup Disposers
  /\ IsFiniteSet(Listeners) /\ Onces \subseteq Listeners /\ MaxListeners \in Nat
  /\ Notifiers \cap Asyncs = {}
  /\ MaxCalls \in Nat /\ MaxRuns \in Nat
  /\ Root \notin Makers
  /\ FlushThreshold \in Nat \ {0} /\ MaxAttempts \in Nat \ {0} /\ Room \in Nat
  /\ Matches \in [Prefixes -> SUBSET Prefixes]
  /\ \A w \in Prefixes : w \in Matches[w]
  /\ LogDataSize \in Nat /\ MaxRecords \in Nat

VARIABLES
  kind,
  requested, ended, waits, attempts, retryPc, err, late,
  value, observerMap, id, rwWriter, readers, actorPc, toCall, seen, stores, registered,
  due, overlapped, clash,
  listeners, reg, once, notifier, routine, ran, cleared,
  handle, mode, pending, runs, ctl, calls, isOpen, sleepers, waiter, stopped, disturbed,
  panicked,
  setting, subLoggers, maker, from, callPc, toVisit, target, later,
  itemChan, closed, canceled, buffer, consumerPc, attempt, writer, complete, sent, done,
  files, modified, current, size, records, written, failed

retryVars  == <<requested, ended, waits, attempts, retryPc, err, late>>
observerVars == <<value, observerMap, id, rwWriter, readers, actorPc, toCall, seen, stores,
                  registered, due, overlapped, clash>>
emitterVars == <<listeners, reg, once, notifier, routine, ran, cleared>>
timerVars  == <<handle, mode, pending, runs, ctl, calls, isOpen, sleepers, waiter, stopped,
                disturbed, panicked>>
loggerVars == <<setting, subLoggers, maker, from, callPc, toVisit, target, later>>
writerVars == <<itemChan, closed, canceled, buffer, consumerPc, attempt, writer, complete,
                sent, done>>
fileVars   == <<files, modified, current, size, records, written, failed>>
vars == <<kind, retryVars, observerVars, emitterVars, timerVars, loggerVars, writerVars,
          fileVars>>

\* Two listeners of Once, whose wrappers have one code pointer; one of them panics, and
\* so does the listener of On.
SiteOf == (l1 :> "wrapper" @@ l2 :> "wrapper" @@ l3 :> "closure")

\* The name of a file of one prefix begins with another prefix.
PrefixMatches == [app |-> {"app", "apperr"}, apperr |-> {"apperr"}, web |-> {"web"}]

Try      == INSTANCE Retry WITH pc <- retryPc
Obs      == INSTANCE Observable WITH writer <- rwWriter, pc <- actorPc, todo <- toCall
Emit     == INSTANCE Emitter
Timer    == INSTANCE Timer WITH Waiters <- TimerWaiters
Log      == INSTANCE Logger WITH pc <- callPc, todo <- toVisit
Buffered == INSTANCE BufferedWriter WITH pc <- consumerPc, waiter <- complete
Remote   == INSTANCE OpenObserveWriter WITH ch <- itemChan, pc <- consumerPc
File     == INSTANCE FileWriter WITH Writers <- Prefixes

Init ==
  /\ kind \in Kinds
  /\ Try!Init /\ (kind # "retry" => requested = (CHOOSE n \in Requested : TRUE) /\ waits)
  /\ Obs!NewSafeObservable /\ Emit!New /\ Timer!New /\ Log!Init
  /\ Buffered!NewBufferedWriter /\ Remote!NewOpenObserveWriter /\ File!Init

InRetry    == kind = "retry" /\ UNCHANGED <<kind, observerVars, emitterVars, timerVars, loggerVars, writerVars, fileVars>>
InObserver == kind = "observable" /\ UNCHANGED <<kind, retryVars, emitterVars, timerVars, loggerVars, writerVars, fileVars>>
InEmitter  == kind = "emitter" /\ UNCHANGED <<kind, retryVars, observerVars, timerVars, loggerVars, writerVars, fileVars>>
InTimer    == kind = "timer" /\ UNCHANGED <<kind, retryVars, observerVars, emitterVars, loggerVars, writerVars, fileVars>>
InLogger   == kind = "logger" /\ UNCHANGED <<kind, retryVars, observerVars, emitterVars, timerVars, writerVars, fileVars>>
InBuffered == kind = "buffered" /\ UNCHANGED <<kind, retryVars, observerVars, emitterVars, timerVars, loggerVars, fileVars>>
InRemote   == kind = "remote" /\ UNCHANGED <<kind, retryVars, observerVars, emitterVars, timerVars, loggerVars, fileVars, closed, complete>>
InFile     == kind = "file" /\ UNCHANGED <<kind, retryVars, observerVars, emitterVars, timerVars, loggerVars, writerVars>>

RetryNext ==
  \/ InRetry /\ Try!Cancel
  \/ InRetry /\ Try!Check
  \/ \E o \in {"nil", "retryable", "final"} : InRetry /\ Try!RunTask(o)
  \/ InRetry /\ Try!Failed
  \/ InRetry /\ Try!Wait

ObserverNext ==
  \/ \E a \in Obs!Actors : InObserver /\ Obs!Call(a)
  \/ \E s \in Setters : \/ InObserver /\ Obs!Store(s)
                        \/ InObserver /\ Obs!RLock(s)
                        \/ InObserver /\ Obs!RUnlock(s)
  \/ \E s \in Setters, r \in Registrars : InObserver /\ Obs!Notify(s, r)
  \/ \E r \in Registrars : InObserver /\ Obs!Disposer(r)
  \/ \E r, i \in Registrars : InObserver /\ Obs!On(r, i)
  \/ \E c \in OnceCallers : InObserver /\ Obs!Once(c)
  \/ \E d \in Disposers : InObserver /\ Obs!Dispose(d)

EmitterNext ==
  \/ \E l \in Listeners : InEmitter /\ Emit!On(l)
  \/ \E l \in Listeners : InEmitter /\ Emit!Off(l)
  \/ InEmitter /\ Emit!OffAll
  \/ \E n \in Emit!Calls : InEmitter /\ Emit!Notify(n)
  \/ \E n \in Emit!Calls : InEmitter /\ Emit!Return(n)
  \/ \E g \in Emit!Calls \X Listeners : \/ InEmitter /\ Emit!Run(g)
                                        \/ InEmitter /\ Emit!Enter(g)
                                        \/ InEmitter /\ Emit!RunOnce(g)
                                        \/ InEmitter /\ Emit!OffAfterOnce(g)

TimerNext ==
  \/ \E repeat \in BOOLEAN : InTimer /\ Timer!Start(repeat)
  \/ InTimer /\ Timer!Assign
  \/ InTimer /\ Timer!Stop
  \/ InTimer /\ Timer!SetNil
  \/ InTimer /\ Timer!OpenStopped
  \/ InTimer /\ Timer!Reset
  \/ \E t \in pending : InTimer /\ Timer!Fire(t)
  \/ \E r \in DOMAIN runs : \/ InTimer /\ Timer!OpenAfterFn(r)
                            \/ InTimer /\ Timer!LockAgain(r)
                            \/ InTimer /\ Timer!Rearm(r)
  \/ \E w \in TimerWaiters : InTimer /\ Timer!Wait(w)
  \/ \E w \in TimerWaiters : InTimer /\ Timer!Wake(w)

LoggerNext ==
  \/ \E m \in Makers, l \in Log!Loggers, own \in BOOLEAN : InLogger /\ Log!Copy(m, l, own)
  \/ \E m \in Makers : InLogger /\ Log!registerSubLogger(m)
  \/ \E p \in Propagators, l \in Log!Loggers : InLogger /\ Log!Set(p, l)
  \/ \E p \in Propagators, l \in Log!Loggers : InLogger /\ Log!Propagate(p, l)
  \/ \E p \in Propagators : InLogger /\ Log!Visit(p)
  \/ \E p \in Propagators : InLogger /\ Log!Return(p)

BufferedNext ==
  \/ \E w \in Writers : InBuffered /\ Buffered!Write(w)
  \/ InBuffered /\ Buffered!Cancel
  \/ \E w \in Waiters : \/ InBuffered /\ Buffered!Wait(w)
                        \/ InBuffered /\ Buffered!Complete(w)
                        \/ InBuffered /\ Buffered!Timeout(w)
                        \/ InBuffered /\ Buffered!LateComplete(w)
  \/ InBuffered /\ Buffered!Receive
  \/ InBuffered /\ Buffered!Tick
  \/ InBuffered /\ Buffered!SeeDone
  \/ InBuffered /\ Buffered!Drain
  \/ InBuffered /\ Buffered!Close
  \/ \E ok \in BOOLEAN : InBuffered /\ Buffered!Attempt(ok)

RemoteNext ==
  \/ \E w \in Writers : InRemote /\ Remote!Write(w)
  \/ InRemote /\ Remote!Cancel
  \/ InRemote /\ Remote!Receive
  \/ InRemote /\ Remote!Tick
  \/ InRemote /\ Remote!SeeDone
  \/ \E ok \in BOOLEAN : InRemote /\ Remote!Attempt(ok)

FileNext ==
  \/ \E w \in Prefixes, canRotate \in BOOLEAN : InFile /\ File!Write(w, canRotate)
  \/ \E w \in Prefixes : InFile /\ File!WriteFails(w)
  \/ \E w \in Prefixes : InFile /\ File!NewFileWriter(w)

Next == \/ RetryNext \/ ObserverNext \/ EmitterNext \/ TimerNext
        \/ LoggerNext \/ BufferedNext \/ RemoteNext \/ FileNext

\* The fairness of each module's FairSpec.  A behaviour is of one kind, so that one
\* condition can stand for one of each module.
ConsumerStep ==
  \/ InRetry /\ Try!Step
  \/ InObserver /\ Obs!WriterStep
  \/ InTimer /\ Timer!Finish
  \/ InBuffered /\ Buffered!Consume
  \/ InRemote /\ Remote!Consume

Spec ==
  /\ Init /\ [][Next]_vars
  /\ WF_vars(ConsumerStep)
  /\ \A s \in Setters : WF_vars(InObserver /\ Obs!SetterStep(s))
  /\ \A n \in Emit!Calls : WF_vars(InEmitter /\ Emit!Step(n))
  /\ \A w \in TimerWaiters : WF_vars(InTimer /\ Timer!Wake(w))
  /\ WF_vars(InTimer /\ Timer!Runtime)

-----------------------------------------------------------------------------
\* Types of every module.
TypesOK ==
  /\ Try!TypeOK /\ Obs!TypeOK /\ Emit!TypeOK /\ Timer!TypeOK /\ Log!TypeOK /\ File!TypeOK
  /\ IF kind = "remote" THEN Remote!TypeOK ELSE Buffered!TypeOK

\* BufferedWriter, OpenObserveWriter, FileWriter: what was taken over is, in its order,
\* what was handled, buffered and queued, or what the log files hold.
NothingLost ==
  /\ kind = "buffered" => Buffered!NothingLost
  /\ kind = "remote" => Remote!NothingLost
  /\ kind = "file" => File!RecordsInOrder

\* Observable, Emitter: who is registered is called, who is turned off is not, and a
\* listener of Once is called once.
CalledAsRegistered == Obs!NotifiedOnce /\ Emit!ListenersKept

\* Retry, Timer, Logger: attempts, runs and propagated settings are those asked for.
DoneAsAsked == Try!RetryAgrees /\ Timer!TimerAgrees /\ Log!PropagationReaches

\* Items are handled while the context lives, and calls return, where the code lets them:
\* what each module calls settled comes again and again.
Settled ==
  CASE kind = "retry" -> Try!Settled
    [] kind = "observable" -> Obs!Settled
    [] kind = "emitter" -> Emit!Settled
    [] kind = "timer" -> Timer!Settled
    [] kind = "buffered" -> Buffered!Settled
    [] kind = "remote" -> Remote!Settled
    [] OTHER -> TRUE
EverythingSettles == []<>Settled

\* BufferedWriter: when all items are written and then the context ends, the consumer ends.
CanceledWriterEnds == Buffered!CanceledWriterEnds
==============================================================================
