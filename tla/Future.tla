-------------------------------- MODULE Future --------------------------------
(***************************************************************************)
(* The futures of async/future.go.  An executor that runs a task directly  *)
(* runs it inside the call that settles its predecessor, so each goroutine *)
(* has a stack of the functions it is in.  A frame holds the function (pc),*)
(* its future and the successors it has still to deal with.                *)
(*                                                                         *)
(* A call of the API runs on a goroutine of its own; the goroutine that an *)
(* executor starts for a future has the name of the future.                *)
(***************************************************************************)
EXTENDS Naturals, Sequences, FiniteSets

CONSTANTS
  Futures,
  Kind,         \* what the task of each future is, see Kinds
  Executor,     \* "direct" or "goroutine"
  Outcomes,     \* what the user's function may end with, see Results
  Inner,        \* of an "async" future, the one its callback returns
  Link,         \* of an "async" future, the one that passes the result on
  Programs,     \* sets of calls; a behaviour makes those of one set
  NoFuture

\* "own": a task without a predecessor; "then", "onError", "mapError" and
\* "async": the tasks of Then, OnError, MapError and ThenAsync; "link": the
\* task ThenAsync attaches to the future its callback returns.
Kinds   == {"own", "then", "onError", "mapError", "async", "link"}
Results == {"value", "nil", "error", "panic"}
Ops     == {"then", "get", "cancel", "onPanic", "mapPanic"}

Callables == UNION Programs
FutureAssumption ==
  /\ NoFuture \notin Futures
  /\ Kind \in [Futures -> Kinds]
  /\ Executor \in [Futures -> {"direct", "goroutine"}]
  /\ Outcomes \in [Futures -> SUBSET Results]
  /\ Inner \in [Futures -> Futures \cup {NoFuture}]
  /\ Link \in [Futures -> Futures \cup {NoFuture}]
  /\ Callables \subseteq [op : Ops, on : Futures, next : Futures \cup {NoFuture}]
  /\ \A c \in Callables : c.op = "then" => c.next \in Futures
  /\ \A f \in Futures : Kind[f] = "async" =>
       Link[f] \in Futures /\ Inner[f] \in Futures /\ Kind[Inner[f]] = "own"
  /\ \A l \in Futures : Kind[l] = "link" => \E f \in Futures : Link[f] = l
  /\ Callables \cap Futures = {}
ASSUME FutureAssumption

VARIABLES
  calls,        \* the calls of this behaviour
  issued,       \* those that have been made
  stack,        \* of each goroutine, the innermost frame first
  hasResult, hasError, hasPanic,   \* the futures whose field is set
  isRunning, isOpen,               \* isOpen: their wait lock is open
  canceled,     \* the futures whose task Cancel has replaced
  called,       \* history: the futures whose function was called
  runs,         \* history: how often each future was handed to its executor
  prevFuture, nextFutures,
  onPanic,      \* "none", "observe" or "map"
  propagate,    \* propogatePanic: panics go on to the successors
  stranded      \* history: the futures nothing will settle any more

settledVars == <<hasResult, hasError, hasPanic>>
stateVars   == <<isRunning, isOpen, canceled, called, runs>>
linkVars    == <<prevFuture, nextFutures>>
panicVars   == <<onPanic, propagate>>
vars == <<calls, issued, stack, settledVars, stateVars, linkVars, panicVars, stranded>>

Goroutines == Callables \cup Futures

Frame(pc, f) == [pc |-> pc, on |-> f, next |-> << >>, each |-> "run"]

Init ==
  /\ calls \in Programs
  /\ issued = {}
  /\ stack = [g \in calls \cup Futures |-> << >>]
  /\ hasResult = {} /\ hasError = {} /\ hasPanic = {}
  /\ isRunning = {} /\ isOpen = {}
  /\ canceled = {} /\ called = {}
  /\ runs = [f \in Futures |-> 0]
  /\ prevFuture = [f \in Futures |-> NoFuture]
  /\ nextFutures = [f \in Futures |-> << >>]
  /\ onPanic = [f \in Futures |-> "none"]
  /\ propagate = Futures
  /\ stranded = {}

At(g, pc) == g \in DOMAIN stack /\ stack[g] # << >> /\ Head(stack[g]).pc = pc
On(g)     == Head(stack[g]).on
NextOf(g) == Head(stack[g]).next

\* The innermost frame gives way to some frames; it returns when there are none.
Becomes(g, frames) == stack' = [stack EXCEPT ![g] = frames \o Tail(@)]

-----------------------------------------------------------------------------
(* The API *)

\* A future made by Then and its like is known when that call has returned.
Finished(c) == c \in issued /\ stack[c] = << >>
Known(f)    == Kind[f] = "own" \/ \E c \in calls : c.op = "then" /\ c.next = f /\ Finished(c)

Issue(c) ==
  /\ c \in calls \ issued /\ Known(c.on)
  /\ issued' = issued \cup {c}
  /\ stack' = [stack EXCEPT ![c] =
       CASE c.op = "then" -> << [Frame("then", c.on) EXCEPT !.next = <<c.next>>] >>
         [] c.op = "get"  -> << Frame("start", c.on), Frame("wait", c.on) >>
         [] OTHER         -> << Frame(c.op, c.on) >>]
  /\ UNCHANGED <<calls, settledVars, stateVars, linkVars, panicVars, stranded>>

\* Wait: the wait lock is open.
WaitOpen(g) ==
  /\ At(g, "wait") /\ On(g) \in isOpen
  /\ Becomes(g, << >>)
  /\ UNCHANGED <<calls, issued, settledVars, stateVars, linkVars, panicVars, stranded>>

\* Between the copy of its successors and the opening of its lock.
IsClosing(f) == \E g \in DOMAIN stack : \E i \in DOMAIN stack[g] :
                  stack[g][i].pc = "open" /\ stack[g][i].on = f

\* Mutant: a future that is not running is not started.
ThenLazily(g) ==
  /\ At(g, "then")
  /\ LET f == On(g)  nf == Head(NextOf(g)) IN
       /\ nextFutures' = [nextFutures EXCEPT ![f] = Append(@, nf)]
       /\ prevFuture' = [prevFuture EXCEPT ![nf] = f]
       /\ Becomes(g, IF f \notin isOpen THEN << >>
                     ELSE IF f \in hasPanic THEN << Frame("handlePanic", nf) >>
                     ELSE << Frame("run", nf) >>)
       /\ stranded' = IF IsClosing(f) /\ f \notin isOpen THEN stranded \cup {nf}
                      ELSE stranded
  /\ UNCHANGED <<calls, issued, settledVars, stateVars, panicVars>>

\* A successor that comes too late for the copy and too early for the lock is
\* left to nobody.
Then(g) ==
  /\ At(g, "then")
  /\ LET f == On(g)  nf == Head(NextOf(g)) IN
       /\ nextFutures' = [nextFutures EXCEPT ![f] = Append(@, nf)]
       /\ prevFuture' = [prevFuture EXCEPT ![nf] = f]
       /\ Becomes(g, IF f \notin isOpen
                     THEN IF f \in isRunning THEN << >> ELSE << Frame("start", f) >>
                     ELSE IF f \in hasPanic THEN << Frame("handlePanic", nf) >>
                     ELSE << Frame("run", nf) >>)
       /\ stranded' = IF IsClosing(f) /\ f \notin isOpen THEN stranded \cup {nf}
                      ELSE stranded
  /\ UNCHANGED <<calls, issued, settledVars, stateVars, panicVars>>

\* Mutant: a running future can be cancelled.
CancelRunning(g) ==
  /\ At(g, "cancel")
  /\ LET f == On(g) IN
     \/ /\ f \in isOpen
        /\ Becomes(g, << [Frame("successors", f) EXCEPT !.next = nextFutures[f],
                                                        !.each = "cancel"] >>)
        /\ UNCHANGED canceled
     \/ /\ f \notin isOpen
        /\ canceled' = canceled \cup {f}
        /\ Becomes(g, << >>)
  /\ UNCHANGED <<calls, issued, settledVars, isRunning, isOpen, called, runs,
                 linkVars, panicVars, stranded>>

\* A future that runs or is done passes the cancellation on.
Cancel(g) ==
  /\ At(g, "cancel")
  /\ LET f == On(g) IN
     \/ /\ f \in isRunning \cup isOpen
        /\ Becomes(g, << [Frame("successors", f) EXCEPT !.next = nextFutures[f],
                                                        !.each = "cancel"] >>)
        /\ UNCHANGED canceled
     \/ /\ f \notin isRunning \cup isOpen
        /\ canceled' = canceled \cup {f}
        /\ Becomes(g, << >>)
  /\ UNCHANGED <<calls, issued, settledVars, isRunning, isOpen, called, runs,
                 linkVars, panicVars, stranded>>

StopPropagating(g) ==
  /\ At(g, "mapPanic")
  /\ propagate' = propagate \ {On(g)}
  /\ Becomes(g, << Frame("onPanicMap", On(g)) >>)
  /\ UNCHANGED <<calls, issued, settledVars, stateVars, linkVars, onPanic, stranded>>

\* OnPanic, called by MapPanic with a callback that maps the panic to a result.
OnPanic(g) ==
  /\ At(g, "onPanic") \/ At(g, "onPanicMap")
  /\ LET f == On(g) IN
       /\ onPanic' = [onPanic EXCEPT ![f] = IF At(g, "onPanic") THEN "observe" ELSE "map"]
       /\ Becomes(g, IF f \in isOpen /\ f \in hasPanic THEN << Frame("handlePanic", f) >>
                     ELSE << >>)
  /\ UNCHANGED <<calls, issued, settledVars, stateVars, linkVars, propagate, stranded>>

-----------------------------------------------------------------------------
(* start, run and execute *)

\* Mutant: start goes up by one, whether there is one or not.
StartPrevious(g) ==
  /\ At(g, "start")
  /\ Becomes(g, << Frame("run", prevFuture[On(g)]) >>)
  /\ UNCHANGED <<calls, issued, settledVars, stateVars, linkVars, panicVars, stranded>>

\* start goes up, a predecessor at a time, and runs the first of the chain.
Start(g) ==
  /\ At(g, "start")
  /\ LET f == On(g) IN
     \/ prevFuture[f] # NoFuture /\ Becomes(g, << Frame("start", prevFuture[f]) >>)
     \/ prevFuture[f] = NoFuture /\ Becomes(g, << Frame("run", f) >>)
  /\ UNCHANGED <<calls, issued, settledVars, stateVars, linkVars, panicVars, stranded>>

Run(g) ==
  /\ At(g, "run")
  /\ LET f == On(g) IN
     \/ /\ f \in isRunning \cup isOpen
        /\ Becomes(g, << >>)
        /\ UNCHANGED <<isRunning, runs>>
     \/ /\ f \notin isRunning \cup isOpen
        /\ isRunning' = isRunning \cup {f}
        /\ runs' = [runs EXCEPT ![f] = @ + 1]
        /\ IF Executor[f] = "direct" \/ f \in canceled
           THEN Becomes(g, << Frame("execute", f) >>)
           ELSE stack' = [stack EXCEPT ![g] = Tail(@), ![f] = << Frame("execute", f) >>]
  /\ UNCHANGED <<calls, issued, settledVars, isOpen, canceled, called, linkVars,
                 panicVars, stranded>>

\* The task ends with nil and no error: nothing settles the future.
EndWithNil(g, f) == Becomes(g, << >>) /\ stranded' = stranded \cup {f}

\* The user's function is called, and ends.  Without a future to attach to,
\* ThenAsync panics.
CallFunction(g, f) ==
  /\ called' = called \cup {f}
  /\ \E o \in Outcomes[f] :
       \/ o = "nil" /\ Kind[f] # "async" /\ EndWithNil(g, f)
       \/ o = "error" /\ Becomes(g, << Frame("acceptError", f) >>) /\ UNCHANGED stranded
       \/ /\ o = "panic" \/ (o = "nil" /\ Kind[f] = "async")
          /\ Becomes(g, << Frame("acceptPanic", f) >>)
          /\ UNCHANGED stranded
       \/ /\ o = "value"
          /\ Becomes(g, IF Kind[f] = "async"
                        THEN << [Frame("then", Inner[f]) EXCEPT !.next = <<Link[f]>>] >>
                        ELSE << Frame("acceptResult", f) >>)
          /\ UNCHANGED stranded

\* The task is read under the lock, so a cancellation is seen or comes too late.
Execute(g) ==
  /\ At(g, "execute")
  /\ LET f == On(g) IN
     \/ /\ f \in canceled
        /\ Becomes(g, << Frame("acceptPanic", f) >>)
        /\ UNCHANGED <<called, stranded>>
     \/ f \notin canceled /\ Kind[f] = "own" /\ CallFunction(g, f)
     \/ /\ f \notin canceled /\ Kind[f] # "own"
        /\ Becomes(g, << Frame("start", prevFuture[f]), Frame("input", f) >>)
        /\ UNCHANGED <<called, stranded>>
  /\ UNCHANGED <<calls, issued, settledVars, isRunning, isOpen, canceled, runs,
                 linkVars, panicVars>>

\* The one that f settles: itself, or for a link the future it belongs to.
Target(f) == IF Kind[f] = "link" THEN CHOOSE a \in Futures : Link[a] = f ELSE f

\* ThenAsync drops the error of its predecessor.
SeesError(f, p) == p \in hasError /\ Kind[f] # "async"

\* Get of the predecessor inside the task, and what the task makes of it.
Input(g) ==
  /\ At(g, "input") /\ prevFuture[On(g)] \in isOpen
  /\ LET f == On(g)  p == prevFuture[f] IN
     \/ /\ p \in hasPanic
        /\ Becomes(g, << Frame("acceptPanic", f) >>)
        /\ UNCHANGED <<called, stranded>>
     \/ /\ p \notin hasPanic /\ SeesError(f, p)
        /\ Becomes(g, << Frame(IF Kind[f] = "mapError" THEN "acceptResult"
                               ELSE "acceptError", Target(f)) >>)
        /\ UNCHANGED <<called, stranded>>
     \/ /\ p \notin hasPanic /\ ~SeesError(f, p)
        /\ \/ Kind[f] \in {"then", "async"} /\ CallFunction(g, f)
           \/ /\ Kind[f] \notin {"then", "async"} /\ p \in hasResult
              /\ Becomes(g, << Frame("acceptResult", Target(f)) >>)
              /\ UNCHANGED <<called, stranded>>
           \/ /\ Kind[f] \notin {"then", "async"} /\ p \notin hasResult
              /\ EndWithNil(g, Target(f))
              /\ UNCHANGED called
  /\ UNCHANGED <<calls, issued, settledVars, isRunning, isOpen, canceled, runs,
                 linkVars, panicVars>>

-----------------------------------------------------------------------------
(* Settling *)

\* openWaitLockAndStopRunning, then each of the successors copied before.
Open(f, next, each) == [pc |-> "open", on |-> f, next |-> next, each |-> each]

AcceptResult(g) ==
  /\ At(g, "acceptResult")
  /\ LET f == On(g) IN
     \/ f \in hasResult /\ Becomes(g, << >>) /\ UNCHANGED hasResult
     \/ /\ f \notin hasResult
        /\ hasResult' = hasResult \cup {f}
        /\ Becomes(g, << Open(f, nextFutures[f], "run") >>)
  /\ UNCHANGED <<calls, issued, hasError, hasPanic, stateVars, linkVars, panicVars,
                 stranded>>

AcceptError(g) ==
  /\ At(g, "acceptError")
  /\ LET f == On(g) IN
     \/ f \in hasError /\ Becomes(g, << >>) /\ UNCHANGED hasError
     \/ /\ f \notin hasError
        /\ hasError' = hasError \cup {f}
        /\ Becomes(g, << Open(f, nextFutures[f], "run") >>)
  /\ UNCHANGED <<calls, issued, hasResult, hasPanic, stateVars, linkVars, panicVars,
                 stranded>>

AcceptPanic(g) ==
  /\ At(g, "acceptPanic")
  /\ hasPanic' = hasPanic \cup {On(g)}
  /\ Becomes(g, IF On(g) \in hasPanic THEN << >> ELSE << Frame("handlePanic", On(g)) >>)
  /\ UNCHANGED <<calls, issued, hasResult, hasError, stateVars, linkVars, panicVars,
                 stranded>>

\* The fields of a successor that a panic is passed to stay empty.
HandlePanic(g) ==
  /\ At(g, "handlePanic")
  /\ LET f    == On(g)
         next == IF f \in propagate THEN nextFutures[f] ELSE << >>
         open == Open(f, next, "handlePanic")
     IN /\ Becomes(g, IF onPanic[f] = "map" THEN << Frame("acceptResult", f), open >>
                      ELSE << open >>)
        /\ stranded' = IF f \in propagate \/ onPanic[f] = "map" THEN stranded
                       ELSE stranded \cup {nextFutures[f][i] : i \in DOMAIN nextFutures[f]}
  /\ UNCHANGED <<calls, issued, settledVars, stateVars, linkVars, panicVars>>

\* Mutant: the running flag is cleared and the lock left as it is.
StopUnopened(g) ==
  /\ At(g, "open")
  /\ isRunning' = isRunning \ {On(g)}
  /\ Becomes(g, << [Head(stack[g]) EXCEPT !.pc = "stopRunning"] >>)
  /\ UNCHANGED <<calls, issued, settledVars, isOpen, canceled, called, runs,
                 linkVars, panicVars, stranded>>

OpenWaitLock(g) ==
  /\ At(g, "open")
  /\ isOpen' = isOpen \cup {On(g)}
  /\ Becomes(g, << [Head(stack[g]) EXCEPT !.pc = "stopRunning"] >>)
  /\ UNCHANGED <<calls, issued, settledVars, isRunning, canceled, called, runs,
                 linkVars, panicVars, stranded>>

StopRunning(g) ==
  /\ At(g, "stopRunning")
  /\ isRunning' = isRunning \ {On(g)}
  /\ Becomes(g, << [Head(stack[g]) EXCEPT !.pc = "successors"] >>)
  /\ UNCHANGED <<calls, issued, settledVars, isOpen, canceled, called, runs,
                 linkVars, panicVars, stranded>>

\* runNextFutures and the loops of handlePanic and Cancel, one successor a step.
Successors(g) ==
  /\ At(g, "successors")
  /\ LET next == NextOf(g)
         each == Head(stack[g]).each
         rest == [Head(stack[g]) EXCEPT !.next = Tail(@)]
     IN Becomes(g, IF next = << >> THEN << >>
                   ELSE IF each # "cancel" /\ Head(next) \in isRunning THEN << rest >>
                   ELSE << Frame(each, Head(next)), rest >>)
  /\ UNCHANGED <<calls, issued, settledVars, stateVars, linkVars, panicVars, stranded>>

-----------------------------------------------------------------------------

Step(g) ==
  \/ WaitOpen(g) \/ Then(g) \/ Cancel(g) \/ StopPropagating(g) \/ OnPanic(g)
  \/ Start(g) \/ Run(g) \/ Execute(g) \/ Input(g)
  \/ AcceptResult(g) \/ AcceptError(g) \/ AcceptPanic(g) \/ HandlePanic(g)
  \/ OpenWaitLock(g) \/ StopRunning(g) \/ Successors(g)

Next ==
  \/ \E c \in Callables : Issue(c)
  \/ \E g \in Goroutines : Step(g)

Spec == Init /\ [][Next]_vars

\* Some goroutine that can run does run, and the users' functions end; nobody
\* has to make a call.  The calls are finite, so no goroutine is left behind.
FairSpec == Spec /\ WF_vars(\E g \in Goroutines : Step(g))

-----------------------------------------------------------------------------
(* Properties *)

PCs == Ops \cup {"wait", "onPanicMap", "start", "run", "execute", "input", "acceptResult",
                 "acceptError", "acceptPanic", "handlePanic", "open", "stopRunning",
                 "successors"}

Frames == [pc : PCs, on : Futures, next : Seq(Futures),
           each : {"run", "handlePanic", "cancel"}]

\* Types.
TypeOK ==
  /\ calls \in Programs /\ issued \subseteq calls
  /\ stack \in [calls \cup Futures -> Seq(Frames)]
  /\ hasResult \subseteq Futures /\ hasError \subseteq Futures /\ hasPanic \subseteq Futures
  /\ isRunning \subseteq Futures /\ isOpen \subseteq Futures
  /\ canceled \subseteq Futures /\ called \subseteq Futures
  /\ runs \in [Futures -> Nat]
  /\ prevFuture \in [Futures -> Futures \cup {NoFuture}]
  /\ nextFutures \in [Futures -> Seq(Futures)]
  /\ onPanic \in [Futures -> {"none", "observe", "map"}]
  /\ propagate \subseteq Futures /\ stranded \subseteq Futures

\* A task runs once, although its predecessor, a late Then, a Get and a panic
\* of the predecessor may all come to run it.
TaskRunsOnce == \A f \in Futures : runs[f] <= 1

\* A cancellation that is not passed on has come in time: the function of the
\* future is never called.
CanceledIsNeverCalled == canceled \cap called = {}

\* The futures f waits for.
Depends(f) == {prevFuture[f]} \cup IF f \in called THEN {Inner[f], Link[f]} ELSE {}
DependsOn(f) ==
  LET reach[n \in 0 .. Cardinality(Futures)] ==
        IF n = 0 THEN {f}
        ELSE LET known == reach[n - 1]
             IN  known \cup UNION {Depends(d) : d \in known \ {NoFuture}}
  IN  reach[Cardinality(Futures)] \ {NoFuture}

\* Nobody settles a future that is stranded, or whose inner future panics.
IsStranded(f) == \E d \in DependsOn(f) : d \in stranded \/ (Kind[d] = "link" /\ d \in isOpen)

IsWaiting(c) == c.op = "get" /\ c \in issued /\ ~Finished(c)

\* No Get waits for ever: the chain is started, and each future that settles
\* wakes its waiters and passes its result, error or panic on.
GetReturns == \A c \in Callables : []<>~(IsWaiting(c) /\ ~IsStranded(c.on))

\* What the tests expect of chains whose functions return values.
ChainCompletes == \A c \in Callables : []<>~IsWaiting(c)
=============================================================================
