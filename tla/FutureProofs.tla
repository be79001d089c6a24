----------------------------- MODULE FutureProofs -----------------------------
(***************************************************************************)
(* Theorems about Future, for any futures, executors, programs of calls    *)
(* and ways the users' functions end: types, that a task runs once however *)
(* many goroutines come to run it, and that a cancelled task is never      *)
(* called.                                                                 *)
(*                                                                         *)
(* The state that matters is on the goroutines' stacks, so the inductive   *)
(* invariant says of each frame what the function in it relies on          *)
(* (Sound), and a step is proved by saying which frames it pushes.         *)
(***************************************************************************)
EXTENDS Future, TLAPS

-----------------------------------------------------------------------------
(* The inductive invariant *)

\* A future made by Then and its like is attached before anybody can run it.
Ready(f) == Kind[f] = "own" \/ prevFuture[f] # NoFuture
Begun    == isRunning \cup isOpen

\* What a function of the stack relies on: futures that are attached, a task that
\* has begun and was not cancelled, a lock that is open before the running flag
\* is cleared.
Sound(fr) ==
  /\ fr.pc \in {"then", "start", "run", "execute", "input"} => Ready(fr.on)
  /\ fr.pc = "then" => fr.next # << >>
  /\ fr.pc # "then" => \A i \in DOMAIN fr.next : Ready(fr.next[i])
  /\ fr.pc \in {"execute", "input"} => fr.on \in Begun
  /\ fr.pc = "input" => Kind[fr.on] # "own" /\ fr.on \notin canceled
  /\ fr.pc = "stopRunning" => fr.on \in isOpen

OnStack(fr) == \E g \in calls \cup Futures : \E i \in DOMAIN stack[g] : stack[g][i] = fr
FramesSound == \A fr \in Frames : OnStack(fr) => Sound(fr)

\* Predecessors and successors are attached themselves, all the way up and down.
Attached ==
  /\ \A f \in Futures : prevFuture[f] # NoFuture => Ready(prevFuture[f])
  /\ \A f \in Futures : \A i \in DOMAIN nextFutures[f] : Ready(nextFutures[f][i])

\* A Then that has not attached its future yet is still on its stack.
ThenFrame(c) == [Frame("then", c.on) EXCEPT !.next = <<c.next>>]
IssuedThen ==
  \A c \in issued : c.op = "then" =>
    prevFuture[c.next] # NoFuture \/ stack[c] = << ThenFrame(c) >>

\* A task that was run or called is running or done, for good.
BegunOnce ==
  /\ \A f \in Futures : runs[f] <= 1 /\ (f \notin Begun => runs[f] = 0)
  /\ called \subseteq Begun /\ canceled \cap called = {}

IInv == TypeOK /\ FramesSound /\ Attached /\ IssuedThen /\ BegunOnce

-----------------------------------------------------------------------------
(* Stacks *)

Stacks == [calls \cup Futures -> Seq(Frames)]

\* When frames replace the innermost one, every frame is a new one or an old one.
MadeOf(r, s, t) ==
  /\ r \in Seq(Frames)
  /\ \A i \in DOMAIN r : (\E j \in DOMAIN s : r[i] = s[j]) \/ (\E j \in DOMAIN t : r[i] = t[j])

LEMMA Replaced ==
  ASSUME NEW s \in Seq(Frames), NEW t \in Seq(Frames), t # << >>, NEW r,
         r = s \o Tail(t)
  PROVE  MadeOf(r, s, t)
<1>1. PICK u : u = Tail(t)
  OBVIOUS
<1>2. /\ u \in Seq(Frames) /\ Len(u) = Len(t) - 1
      /\ \A j \in 1 .. Len(u) : u[j] = t[j + 1] /\ j + 1 \in DOMAIN t
  BY <1>1
<1>3. /\ r \in Seq(Frames) /\ DOMAIN r = 1 .. Len(s) + Len(u)
      /\ \A i \in 1 .. Len(s) + Len(u) : r[i] = IF i <= Len(s) THEN s[i] ELSE u[i - Len(s)]
  BY <1>1, <1>2
<1>4. ASSUME NEW i \in DOMAIN r
      PROVE  (\E j \in DOMAIN s : r[i] = s[j]) \/ (\E j \in DOMAIN t : r[i] = t[j])
  <2>1. CASE i <= Len(s)
    BY <1>3, <2>1
  <2>2. CASE ~(i <= Len(s))
    <3>1. i - Len(s) \in 1 .. Len(u)
      BY <1>2, <1>3, <2>2
    <3> QED
      BY <1>2, <1>3, <2>2, <3>1
  <2> QED
    BY <2>1, <2>2
<1> QED
  BY <1>3, <1>4 DEF MadeOf

\* The innermost frame of a goroutine.
LEMMA Innermost ==
  ASSUME IInv, NEW g, NEW pc, At(g, pc)
  PROVE  /\ g \in calls \cup Futures /\ stack[g] # << >> /\ stack[g] \in Seq(Frames)
         /\ Head(stack[g]) \in Frames /\ Head(stack[g]) = stack[g][1]
         /\ Sound(Head(stack[g])) /\ Head(stack[g]).pc = pc
         /\ On(g) \in Futures /\ NextOf(g) \in Seq(Futures)
<1>1. /\ g \in calls \cup Futures /\ stack[g] # << >> /\ stack[g] \in Seq(Frames)
      /\ Head(stack[g]).pc = pc
  BY DEF IInv, TypeOK, At
<1>2. Head(stack[g]) \in Frames /\ Head(stack[g]) = stack[g][1] /\ 1 \in DOMAIN stack[g]
  BY <1>1
<1> QED
  BY <1>1, <1>2 DEF IInv, FramesSound, OnStack, On, NextOf, Frames

\* What no step takes back: attachments, open locks, tasks that have begun; and
\* a task is cancelled only before it begins.
Grows ==
  /\ \A f \in Futures : prevFuture[f] # NoFuture => prevFuture'[f] # NoFuture
  /\ isOpen \subseteq isOpen' /\ Begun \subseteq Begun'
  /\ canceled' \cap Begun \subseteq canceled

LEMMA SoundStays ==
  ASSUME Grows, NEW fr \in Frames, Sound(fr) PROVE Sound(fr)'
<1>1. \A f \in Futures : Ready(f) => Ready(f)'
  BY DEF Grows, Ready
<1>2. fr.on \in Futures /\ fr.next \in Seq(Futures)
  BY DEF Frames
<1>3. \A i \in DOMAIN fr.next : fr.next[i] \in Futures
  BY <1>2
<1> QED
  BY <1>1, <1>2, <1>3 DEF Sound, Grows

\* The frames that replace the innermost one have to be sound.
FitNext(new) ==
  new \in Seq(Frames) /\ \A fr \in Frames : (\E i \in DOMAIN new : new[i] = fr) => Sound(fr)'

\* And a call of Then has to have attached its future.
LEMMA StepKeeps ==
  ASSUME IInv, Grows, UNCHANGED <<calls, issued>>,
         NEW g \in calls \cup Futures, stack[g] # << >>,
         NEW new, FitNext(new), Becomes(g, new),
         Head(stack[g]).pc = "then" => prevFuture'[Head(Head(stack[g]).next)] # NoFuture
  PROVE  stack' \in Stacks' /\ FramesSound' /\ IssuedThen'
<1>1. /\ stack \in Stacks /\ FramesSound /\ IssuedThen
      /\ issued \subseteq calls /\ calls \in Programs
  BY DEF IInv, TypeOK, Stacks
<1>2. stack[g] \in Seq(Frames)
  BY <1>1 DEF Stacks
<1>3. new \in Seq(Frames) /\ \A fr \in Frames : (\E i \in DOMAIN new : new[i] = fr) => Sound(fr)'
  BY DEF FitNext
<1>4. /\ stack'[g] = new \o Tail(stack[g])
      /\ \A h \in (calls \cup Futures) \ {g} : stack'[h] = stack[h]
      /\ stack' = [stack EXCEPT ![g] = new \o Tail(stack[g])]
  BY <1>1 DEF Becomes, Stacks
<1>5. /\ stack'[g] \in Seq(Frames)
      /\ \A i \in DOMAIN stack'[g] : \/ \E j \in DOMAIN new : stack'[g][i] = new[j]
                                     \/ \E j \in DOMAIN stack[g] : stack'[g][i] = stack[g][j]
  <2>1. PICK t \in Seq(Frames) : t = stack[g] /\ t # << >>
    BY <1>2
  <2>2. PICK s : s = new \o Tail(t)
    OBVIOUS
  <2>3. MadeOf(s, new, t)
    BY <1>3, <2>1, <2>2, Replaced
  <2>4. stack'[g] = s
    BY <1>4, <2>1, <2>2
  <2> QED
    BY <2>1, <2>3, <2>4 DEF MadeOf
<1>6. stack' \in Stacks'
  BY <1>1, <1>4, <1>5 DEF Stacks
<1>7. FramesSound'
  <2> SUFFICES ASSUME NEW fr \in Frames, OnStack(fr)' PROVE Sound(fr)'
    BY DEF FramesSound
  <2>1. PICK h \in calls \cup Futures : \E i \in DOMAIN stack'[h] : stack'[h][i] = fr
    BY DEF OnStack
  <2>2. ASSUME OnStack(fr) PROVE Sound(fr)'
    BY <1>1, <2>2, SoundStays DEF FramesSound
  <2>3. CASE h # g
    BY <1>4, <2>1, <2>2, <2>3 DEF OnStack
  <2>4. CASE h = g
    BY <1>3, <1>5, <2>1, <2>2, <2>4 DEF OnStack
  <2> QED
    BY <2>3, <2>4
<1>8. IssuedThen'
  <2> SUFFICES ASSUME NEW c \in issued, c.op = "then", prevFuture'[c.next] = NoFuture
               PROVE  stack'[c] = << ThenFrame(c) >>
    BY DEF IssuedThen, ThenFrame, Frame
  <2>1. c \in Callables /\ c.next \in Futures
    BY <1>1, FutureAssumption DEF FutureAssumption, Callables
  <2>2. stack[c] = << ThenFrame(c) >>
    BY <1>1, <2>1 DEF IssuedThen, Grows
  <2>3. Head(stack[c]).pc = "then" /\ Head(Head(stack[c]).next) = c.next
    BY <2>2 DEF ThenFrame, Frame
  <2>4. c # g
    BY <2>3
  <2> QED
    BY <1>1, <1>4, <2>2, <2>4
<1> QED
  BY <1>6, <1>7, <1>8

\* One frame, two or none in the place of the innermost one.
LEMMA PopKeeps ==
  ASSUME IInv, Grows, UNCHANGED <<calls, issued>>, NEW g, NEW pc, At(g, pc), pc # "then",
         Becomes(g, << >>)
  PROVE  stack' \in Stacks' /\ FramesSound' /\ IssuedThen'
<1>1. FitNext(<< >>)
  BY DEF FitNext
<1>2. g \in calls \cup Futures /\ stack[g] # << >> /\ Head(stack[g]).pc # "then"
  BY Innermost
<1> QED
  BY <1>1, <1>2, StepKeeps

LEMMA OneKeeps ==
  ASSUME IInv, Grows, UNCHANGED <<calls, issued>>, NEW g, NEW pc, At(g, pc),
         pc = "then" => prevFuture'[Head(Head(stack[g]).next)] # NoFuture,
         NEW fr \in Frames, Becomes(g, << fr >>), Sound(fr)'
  PROVE  stack' \in Stacks' /\ FramesSound' /\ IssuedThen'
<1>1. PICK new : new = << fr >>
  OBVIOUS
<1>2. new \in Seq(Frames) /\ \A i \in DOMAIN new : new[i] = fr
  BY <1>1
<1>3. FitNext(new)
  BY <1>2 DEF FitNext
<1>4. Becomes(g, new)
  BY <1>1
<1>5. g \in calls \cup Futures /\ stack[g] # << >> /\ Head(stack[g]).pc = pc
  BY Innermost
<1> QED
  BY <1>3, <1>4, <1>5, StepKeeps

LEMMA TwoKeep ==
  ASSUME IInv, Grows, UNCHANGED <<calls, issued>>, NEW g, NEW pc, At(g, pc), pc # "then",
         NEW fr \in Frames, NEW gr \in Frames, Becomes(g, << fr, gr >>), Sound(fr)', Sound(gr)'
  PROVE  stack' \in Stacks' /\ FramesSound' /\ IssuedThen'
<1>1. PICK new : new = << fr, gr >>
  OBVIOUS
<1>2. new \in Seq(Frames) /\ \A i \in DOMAIN new : new[i] = fr \/ new[i] = gr
  BY <1>1
<1>3. FitNext(new)
  BY <1>2 DEF FitNext
<1>4. Becomes(g, new)
  BY <1>1
<1>5. g \in calls \cup Futures /\ stack[g] # << >> /\ Head(stack[g]).pc # "then"
  BY Innermost
<1> QED
  BY <1>3, <1>4, <1>5, StepKeeps

-----------------------------------------------------------------------------
(* The steps *)

Fields ==
  /\ calls \in Programs /\ issued \subseteq calls
  /\ hasResult \subseteq Futures /\ hasError \subseteq Futures /\ hasPanic \subseteq Futures
  /\ isRunning \subseteq Futures /\ isOpen \subseteq Futures
  /\ canceled \subseteq Futures /\ called \subseteq Futures
  /\ runs \in [Futures -> Nat]
  /\ prevFuture \in [Futures -> Futures \cup {NoFuture}]
  /\ nextFutures \in [Futures -> Seq(Futures)]
  /\ onPanic \in [Futures -> {"none", "observe", "map"}]
  /\ propagate \subseteq Futures /\ stranded \subseteq Futures

LEMMA Parts ==
  ASSUME stack' \in Stacks', FramesSound', IssuedThen', Fields', Attached', BegunOnce'
  PROVE  IInv'
BY DEF IInv, TypeOK, Stacks, Fields

\* Most steps change neither the chain nor what has begun.
Quiet == UNCHANGED <<calls, issued, stateVars, linkVars>>

LEMMA QuietStep ==
  ASSUME IInv, Quiet PROVE Grows /\ Attached' /\ BegunOnce'
<1>1. Attached /\ BegunOnce
  BY DEF IInv
<1> QED
  BY <1>1 DEF Quiet, stateVars, linkVars, Grows, Attached, Ready, BegunOnce, Begun

\* A frame of a function that relies on nothing.
Relying == {"then", "start", "run", "execute", "input", "stopRunning"}
LEMMA PlainSound ==
  ASSUME NEW f \in Futures, NEW pc \in PCs \ Relying
  PROVE  Frame(pc, f) \in Frames /\ Sound(Frame(pc, f))
BY DEF Frames, Frame, Sound, Relying

LEMMA WaitOpenStep == ASSUME IInv, NEW g, WaitOpen(g) PROVE IInv'
<1>1. Quiet /\ At(g, "wait") /\ Becomes(g, << >>)
  BY DEF WaitOpen, Quiet
<1>2. stack' \in Stacks' /\ FramesSound' /\ IssuedThen'
  BY <1>1, QuietStep, PopKeeps DEF Quiet
<1>3. Fields'
  BY DEF IInv, TypeOK, WaitOpen, Fields, settledVars, stateVars, linkVars, panicVars
<1> QED
  BY <1>1, <1>2, <1>3, QuietStep, Parts

LEMMA StartStep == ASSUME IInv, NEW g, Start(g) PROVE IInv'
<1>1. Quiet /\ At(g, "start")
  BY DEF Start, Quiet
<1>2. PICK f \in Futures : f = On(g) /\ Ready(f)
  BY <1>1, Innermost DEF Sound, On
<1>3. PICK fr : /\ Becomes(g, << fr >>)
                /\ fr = IF prevFuture[f] # NoFuture THEN Frame("start", prevFuture[f])
                        ELSE Frame("run", f)
  BY <1>2 DEF Start
<1>4. prevFuture[f] # NoFuture => prevFuture[f] \in Futures /\ Ready(prevFuture[f])
  BY DEF IInv, TypeOK, Attached
<1>5. fr \in Frames /\ Sound(fr)
  BY <1>2, <1>3, <1>4 DEF Frames, Frame, Sound, PCs, Ops
<1>6. Sound(fr)'
  BY <1>1, <1>5, QuietStep, SoundStays
<1>7. stack' \in Stacks' /\ FramesSound' /\ IssuedThen'
  BY <1>1, <1>3, <1>5, <1>6, QuietStep, OneKeeps DEF Quiet
<1>8. Fields'
  BY DEF IInv, TypeOK, Start, Fields, settledVars, stateVars, linkVars, panicVars
<1> QED
  BY <1>1, <1>7, <1>8, QuietStep, Parts

LEMMA StopPropagatingStep == ASSUME IInv, NEW g, StopPropagating(g) PROVE IInv'
<1>1. Quiet /\ At(g, "mapPanic")
  BY DEF StopPropagating, Quiet
<1>2. PICK f \in Futures : f = On(g)
  BY <1>1, Innermost
<1>3. PICK fr : Becomes(g, << fr >>) /\ fr = Frame("onPanicMap", f)
  BY <1>2 DEF StopPropagating
<1>4. fr \in Frames /\ Sound(fr)
  BY <1>3, PlainSound DEF PCs, Relying
<1>5. Sound(fr)'
  BY <1>1, <1>4, QuietStep, SoundStays
<1>6. stack' \in Stacks' /\ FramesSound' /\ IssuedThen'
  BY <1>1, <1>3, <1>4, <1>5, QuietStep, OneKeeps DEF Quiet
<1>7. Fields'
  BY DEF IInv, TypeOK, StopPropagating, Fields, settledVars, stateVars, linkVars
<1> QED
  BY <1>1, <1>6, <1>7, QuietStep, Parts

LEMMA OnPanicStep == ASSUME IInv, NEW g, OnPanic(g) PROVE IInv'
<1>1. Quiet
  BY DEF OnPanic, Quiet
<1>2. PICK pc \in {"onPanic", "onPanicMap"} : At(g, pc)
  BY DEF OnPanic
<1>3. PICK f \in Futures : f = On(g)
  BY <1>2, Innermost
<1>4. PICK fr : /\ Becomes(g, << >>) \/ Becomes(g, << fr >>)
                /\ fr = Frame("handlePanic", f)
  BY <1>3 DEF OnPanic
<1>5. fr \in Frames /\ Sound(fr)
  BY <1>4, PlainSound DEF PCs, Relying
<1>6. Sound(fr)'
  BY <1>1, <1>5, QuietStep, SoundStays
<1>7. stack' \in Stacks' /\ FramesSound' /\ IssuedThen'
  <2>1. CASE Becomes(g, << >>)
    BY <1>1, <1>2, <2>1, QuietStep, PopKeeps DEF Quiet
  <2>2. CASE Becomes(g, << fr >>)
    BY <1>1, <1>2, <1>5, <1>6, <2>2, QuietStep, OneKeeps DEF Quiet
  <2> QED
    BY <1>4, <2>1, <2>2
<1>8. Fields'
  <2>1. onPanic' \in [Futures -> {"none", "observe", "map"}]
    BY DEF IInv, TypeOK, OnPanic
  <2> QED
    BY <2>1 DEF IInv, TypeOK, OnPanic, Fields, settledVars, stateVars, linkVars
<1> QED
  BY <1>1, <1>7, <1>8, QuietStep, Parts

\* A future and its successors that a function goes on to deal with.
LEMMA ListSound ==
  ASSUME NEW fr \in Frames, fr.pc \in {"open", "successors"} \/ (fr.pc = "stopRunning" /\ fr.on \in isOpen),
         \A i \in DOMAIN fr.next : Ready(fr.next[i])
  PROVE  Sound(fr)
BY DEF Sound

LEMMA AcceptResultStep == ASSUME IInv, NEW g, AcceptResult(g) PROVE IInv'
<1>1. Quiet /\ At(g, "acceptResult")
  BY DEF AcceptResult, Quiet
<1>2. PICK f \in Futures : f = On(g)
  BY <1>1, Innermost
<1>3. PICK fr : /\ Becomes(g, << >>) \/ Becomes(g, << fr >>)
                /\ fr = Open(f, nextFutures[f], "run")
  BY <1>2 DEF AcceptResult
<1>4. fr \in Frames /\ Sound(fr)
  BY <1>3, ListSound DEF IInv, TypeOK, Attached, Frames, Open, PCs
<1>5. Sound(fr)'
  BY <1>1, <1>4, QuietStep, SoundStays
<1>6. stack' \in Stacks' /\ FramesSound' /\ IssuedThen'
  <2>1. CASE Becomes(g, << >>)
    BY <1>1, <2>1, QuietStep, PopKeeps DEF Quiet
  <2>2. CASE Becomes(g, << fr >>)
    BY <1>1, <1>4, <1>5, <2>2, QuietStep, OneKeeps DEF Quiet
  <2> QED
    BY <1>3, <2>1, <2>2
<1>7. Fields'
  <2>1. hasResult' \subseteq Futures
    BY <1>2 DEF IInv, TypeOK, AcceptResult
  <2> QED
    BY <2>1 DEF IInv, TypeOK, AcceptResult, Fields, stateVars, linkVars, panicVars
<1> QED
  BY <1>1, <1>6, <1>7, QuietStep, Parts

LEMMA AcceptErrorStep == ASSUME IInv, NEW g, AcceptError(g) PROVE IInv'
<1>1. Quiet /\ At(g, "acceptError")
  BY DEF AcceptError, Quiet
<1>2. PICK f \in Futures : f = On(g)
  BY <1>1, Innermost
<1>3. PICK fr : /\ Becomes(g, << >>) \/ Becomes(g, << fr >>)
                /\ fr = Open(f, nextFutures[f], "run")
  BY <1>2 DEF AcceptError
<1>4. fr \in Frames /\ Sound(fr)
  BY <1>3, ListSound DEF IInv, TypeOK, Attached, Frames, Open, PCs
<1>5. Sound(fr)'
  BY <1>1, <1>4, QuietStep, SoundStays
<1>6. stack' \in Stacks' /\ FramesSound' /\ IssuedThen'
  <2>1. CASE Becomes(g, << >>)
    BY <1>1, <2>1, QuietStep, PopKeeps DEF Quiet
  <2>2. CASE Becomes(g, << fr >>)
    BY <1>1, <1>4, <1>5, <2>2, QuietStep, OneKeeps DEF Quiet
  <2> QED
    BY <1>3, <2>1, <2>2
<1>7. Fields'
  <2>1. hasError' \subseteq Futures
    BY <1>2 DEF IInv, TypeOK, AcceptError
  <2> QED
    BY <2>1 DEF IInv, TypeOK, AcceptError, Fields, stateVars, linkVars, panicVars
<1> QED
  BY <1>1, <1>6, <1>7, QuietStep, Parts

LEMMA AcceptPanicStep == ASSUME IInv, NEW g, AcceptPanic(g) PROVE IInv'
<1>1. Quiet /\ At(g, "acceptPanic")
  BY DEF AcceptPanic, Quiet
<1>2. PICK f \in Futures : f = On(g)
  BY <1>1, Innermost
<1>3. PICK fr : /\ Becomes(g, << >>) \/ Becomes(g, << fr >>)
                /\ fr = Frame("handlePanic", f)
  BY <1>2 DEF AcceptPanic
<1>4. fr \in Frames /\ Sound(fr)
  BY <1>3, PlainSound DEF PCs, Relying
<1>5. Sound(fr)'
  BY <1>1, <1>4, QuietStep, SoundStays
<1>6. stack' \in Stacks' /\ FramesSound' /\ IssuedThen'
  <2>1. CASE Becomes(g, << >>)
    BY <1>1, <2>1, QuietStep, PopKeeps DEF Quiet
  <2>2. CASE Becomes(g, << fr >>)
    BY <1>1, <1>4, <1>5, <2>2, QuietStep, OneKeeps DEF Quiet
  <2> QED
    BY <1>3, <2>1, <2>2
<1>7. Fields'
  <2>1. hasPanic' \subseteq Futures
    BY <1>2 DEF IInv, TypeOK, AcceptPanic
  <2> QED
    BY <2>1 DEF IInv, TypeOK, AcceptPanic, Fields, stateVars, linkVars, panicVars
<1> QED
  BY <1>1, <1>6, <1>7, QuietStep, Parts

LEMMA HandlePanicStep == ASSUME IInv, NEW g, HandlePanic(g) PROVE IInv'
<1>1. Quiet /\ At(g, "handlePanic")
  BY DEF HandlePanic, Quiet
<1>2. PICK f \in Futures : f = On(g)
  BY <1>1, Innermost
<1>3. PICK next : next = IF f \in propagate THEN nextFutures[f] ELSE << >>
  OBVIOUS
<1>4. PICK fr, gr : /\ Becomes(g, << gr >>) \/ Becomes(g, << fr, gr >>)
                    /\ fr = Frame("acceptResult", f)
                    /\ gr = Open(f, next, "handlePanic")
  BY <1>2, <1>3 DEF HandlePanic
<1>5. fr \in Frames /\ Sound(fr)
  BY <1>4, PlainSound DEF PCs, Relying
<1>6. next \in Seq(Futures) /\ \A i \in DOMAIN next : Ready(next[i])
  BY <1>2, <1>3 DEF IInv, TypeOK, Attached
<1>7. gr \in Frames /\ Sound(gr)
  BY <1>4, <1>6, ListSound DEF Frames, Open, PCs
<1>8. Sound(fr)' /\ Sound(gr)'
  BY <1>1, <1>5, <1>7, QuietStep, SoundStays
<1>9. stack' \in Stacks' /\ FramesSound' /\ IssuedThen'
  <2>1. CASE Becomes(g, << gr >>)
    BY <1>1, <1>7, <1>8, <2>1, QuietStep, OneKeeps DEF Quiet
  <2>2. CASE Becomes(g, << fr, gr >>)
    BY <1>1, <1>5, <1>7, <1>8, <2>2, QuietStep, TwoKeep DEF Quiet
  <2> QED
    BY <1>4, <2>1, <2>2
<1>10. Fields'
  <2>1. {nextFutures[f][i] : i \in DOMAIN nextFutures[f]} \subseteq Futures
    BY <1>2 DEF IInv, TypeOK
  <2>2. stranded' \subseteq Futures
    BY <1>2, <2>1 DEF IInv, TypeOK, HandlePanic
  <2> QED
    BY <2>2 DEF IInv, TypeOK, HandlePanic, Fields, settledVars, stateVars, linkVars, panicVars
<1> QED
  BY <1>1, <1>9, <1>10, QuietStep, Parts

LEMMA SuccessorsStep == ASSUME IInv, NEW g, Successors(g) PROVE IInv'
<1>1. Quiet /\ At(g, "successors")
  BY DEF Successors, Quiet
<1>2. PICK hd \in Frames : hd = Head(stack[g]) /\ Sound(hd) /\ hd.pc = "successors"
  BY <1>1, Innermost
<1>3. PICK fr, gr :
        /\ Becomes(g, << >>) \/ (hd.next # << >> /\ Becomes(g, << gr >>))
                             \/ (hd.next # << >> /\ Becomes(g, << fr, gr >>))
        /\ fr = Frame(hd.each, Head(hd.next))
        /\ gr = [hd EXCEPT !.next = Tail(@)]
  BY <1>2 DEF Successors, NextOf
<1>4. /\ hd.next \in Seq(Futures) /\ hd.each \in {"run", "handlePanic", "cancel"}
      /\ \A i \in DOMAIN hd.next : Ready(hd.next[i])
  BY <1>2 DEF Frames, Sound
<1>5. ASSUME hd.next # << >> PROVE fr \in Frames /\ Sound(fr) /\ gr \in Frames /\ Sound(gr)
  <2>1. Head(hd.next) \in Futures /\ Ready(Head(hd.next))
    BY <1>4, <1>5
  <2>2. fr \in Frames /\ Sound(fr)
    BY <1>3, <1>4, <2>1 DEF Frames, Frame, Sound, PCs, Ops
  <2>3. PICK tl : tl = Tail(hd.next)
    OBVIOUS
  <2>4. tl \in Seq(Futures) /\ \A i \in DOMAIN tl : Ready(tl[i])
    BY <1>4, <1>5, <2>3
  <2>5. gr = [hd EXCEPT !.next = tl]
    BY <1>2, <1>3, <2>3
  <2>6. gr \in Frames /\ gr.pc = "successors" /\ gr.next = tl
    BY <1>2, <2>4, <2>5 DEF Frames
  <2>7. Sound(gr)
    BY <2>4, <2>6, ListSound
  <2> QED
    BY <2>2, <2>6, <2>7
<1>6. stack' \in Stacks' /\ FramesSound' /\ IssuedThen'
  <2>1. CASE Becomes(g, << >>)
    BY <1>1, <2>1, QuietStep, PopKeeps DEF Quiet
  <2>2. CASE hd.next # << >> /\ Becomes(g, << gr >>)
    <3>1. Sound(gr)'
      BY <1>1, <1>5, <2>2, QuietStep, SoundStays
    <3> QED
      BY <1>1, <1>5, <2>2, <3>1, QuietStep, OneKeeps DEF Quiet
  <2>3. CASE hd.next # << >> /\ Becomes(g, << fr, gr >>)
    <3>1. Sound(fr)' /\ Sound(gr)'
      BY <1>1, <1>5, <2>3, QuietStep, SoundStays
    <3> QED
      BY <1>1, <1>5, <2>3, <3>1, QuietStep, TwoKeep DEF Quiet
  <2> QED
    BY <1>3, <2>1, <2>2, <2>3
<1>7. Fields'
  BY DEF IInv, TypeOK, Successors, Fields, settledVars, stateVars, linkVars, panicVars
<1> QED
  BY <1>1, <1>6, <1>7, QuietStep, Parts

LEMMA OpenWaitLockStep == ASSUME IInv, NEW g, OpenWaitLock(g) PROVE IInv'
<1>1. At(g, "open") /\ UNCHANGED <<calls, issued>>
  BY DEF OpenWaitLock
<1>2. PICK hd \in Frames : hd = Head(stack[g]) /\ Sound(hd) /\ hd.pc = "open"
  BY <1>1, Innermost
<1>3. PICK fr : Becomes(g, << fr >>) /\ fr = [hd EXCEPT !.pc = "stopRunning"]
  BY <1>2 DEF OpenWaitLock
<1>4. /\ isOpen' = isOpen \cup {hd.on} /\ hd.on \in Futures
      /\ UNCHANGED <<isRunning, canceled, called, runs, linkVars>>
  BY <1>2 DEF OpenWaitLock, On, Frames
<1>5. Grows /\ Attached' /\ BegunOnce'
  BY <1>4 DEF IInv, Grows, Attached, Ready, BegunOnce, Begun, linkVars
<1>6. fr \in Frames /\ fr.pc = "stopRunning" /\ fr.on = hd.on /\ fr.next = hd.next
  BY <1>2, <1>3 DEF Frames, PCs
<1>7. /\ \A i \in DOMAIN fr.next : Ready(fr.next[i])
      /\ \A f \in Futures : Ready(f) = Ready(f)'
  BY <1>2, <1>4, <1>6 DEF Sound, Ready, linkVars
<1>8. Sound(fr)'
  <2>1. \A i \in DOMAIN fr.next : fr.next[i] \in Futures
    BY <1>6 DEF Frames
  <2> QED
    BY <1>4, <1>6, <1>7, <2>1 DEF Sound
<1>9. stack' \in Stacks' /\ FramesSound' /\ IssuedThen'
  BY <1>1, <1>3, <1>5, <1>6, <1>8, OneKeeps
<1>10. Fields'
  BY <1>4 DEF IInv, TypeOK, OpenWaitLock, Fields, settledVars, stateVars, linkVars, panicVars
<1> QED
  BY <1>5, <1>9, <1>10, Parts

LEMMA StopRunningStep == ASSUME IInv, NEW g, StopRunning(g) PROVE IInv'
<1>1. At(g, "stopRunning") /\ UNCHANGED <<calls, issued>>
  BY DEF StopRunning
<1>2. PICK hd \in Frames : hd = Head(stack[g]) /\ Sound(hd) /\ hd.pc = "stopRunning"
  BY <1>1, Innermost
<1>3. PICK fr : Becomes(g, << fr >>) /\ fr = [hd EXCEPT !.pc = "successors"]
  BY <1>2 DEF StopRunning
<1>4. /\ isRunning' = isRunning \ {hd.on} /\ hd.on \in isOpen
      /\ UNCHANGED <<isOpen, canceled, called, runs, linkVars>>
  BY <1>2 DEF StopRunning, On, Sound
<1>5. Grows /\ Attached' /\ BegunOnce'
  BY <1>4 DEF IInv, Grows, Attached, Ready, BegunOnce, Begun, linkVars
<1>6. fr \in Frames /\ fr.pc = "successors" /\ fr.next = hd.next
  BY <1>2, <1>3 DEF Frames, PCs
<1>7. \A i \in DOMAIN fr.next : Ready(fr.next[i])
  BY <1>2, <1>6 DEF Sound
<1>8. Sound(fr)'
  BY <1>5, <1>6, <1>7, ListSound, SoundStays
<1>9. stack' \in Stacks' /\ FramesSound' /\ IssuedThen'
  BY <1>1, <1>3, <1>5, <1>6, <1>8, OneKeeps
<1>10. Fields'
  BY <1>4 DEF IInv, TypeOK, StopRunning, Fields, settledVars, stateVars, linkVars, panicVars
<1> QED
  BY <1>5, <1>9, <1>10, Parts

LEMMA CancelStep == ASSUME IInv, NEW g, Cancel(g) PROVE IInv'
<1>1. At(g, "cancel") /\ UNCHANGED <<calls, issued, isRunning, isOpen, called, runs, linkVars>>
  BY DEF Cancel
<1>2. PICK f \in Futures : f = On(g)
  BY <1>1, Innermost
<1>3. PICK fr : fr = [Frame("successors", f) EXCEPT !.next = nextFutures[f], !.each = "cancel"]
  OBVIOUS
<1>4. \/ Becomes(g, << fr >>) /\ UNCHANGED canceled
      \/ Becomes(g, << >>) /\ canceled' = canceled \cup {f} /\ f \notin Begun
  BY <1>2, <1>3 DEF Cancel, Begun
<1>5. Grows
  BY <1>1, <1>4 DEF Grows, Begun, linkVars
<1>6. Attached' /\ BegunOnce'
  BY <1>1, <1>4 DEF IInv, Attached, Ready, BegunOnce, Begun, linkVars
<1>7. /\ fr \in Frames /\ fr.pc = "successors"
      /\ \A i \in DOMAIN fr.next : Ready(fr.next[i])
  BY <1>2, <1>3 DEF IInv, TypeOK, Attached, Frames, Frame, PCs
<1>8. Sound(fr)'
  BY <1>5, <1>7, ListSound, SoundStays
<1>9. stack' \in Stacks' /\ FramesSound' /\ IssuedThen'
  <2>1. CASE Becomes(g, << fr >>)
    BY <1>1, <1>5, <1>7, <1>8, <2>1, OneKeeps
  <2>2. CASE Becomes(g, << >>)
    BY <1>1, <1>5, <2>2, PopKeeps
  <2> QED
    BY <1>4, <2>1, <2>2
<1>10. Fields'
  <2>1. canceled' \subseteq Futures
    BY <1>4 DEF IInv, TypeOK
  <2> QED
    BY <2>1 DEF IInv, TypeOK, Cancel, Fields, settledVars, linkVars, panicVars
<1> QED
  BY <1>6, <1>9, <1>10, Parts

\* The predecessor is read by a function that runs, so it is attached; the new
\* future counts as attached from here on.
LEMMA ThenStep == ASSUME IInv, NEW g, Then(g) PROVE IInv'
<1>1. At(g, "then") /\ UNCHANGED <<calls, issued, settledVars, stateVars, panicVars>>
  BY DEF Then
<1>2. PICK hd \in Frames : hd = Head(stack[g]) /\ Sound(hd) /\ hd.pc = "then"
  BY <1>1, Innermost
<1>3. PICK f, nf : f = hd.on /\ nf = Head(hd.next)
  OBVIOUS
<1>4. f \in Futures /\ nf \in Futures /\ Ready(f)
  BY <1>2, <1>3 DEF Frames, Sound
<1>5. /\ nextFutures' = [nextFutures EXCEPT ![f] = Append(@, nf)]
      /\ prevFuture' = [prevFuture EXCEPT ![nf] = f]
  BY <1>2, <1>3 DEF Then, On, NextOf
<1>6. PICK fr : /\ Becomes(g, << >>) \/ Becomes(g, << fr >>)
                /\ \/ fr = Frame("start", f) \/ fr = Frame("handlePanic", nf)
                   \/ fr = Frame("run", nf)
  BY <1>2, <1>3 DEF Then, On, NextOf
<1>7. /\ prevFuture \in [Futures -> Futures \cup {NoFuture}]
      /\ nextFutures \in [Futures -> Seq(Futures)]
  BY DEF IInv, TypeOK
<1>8. prevFuture'[nf] # NoFuture /\ \A x \in Futures : Ready(x) => Ready(x)'
  BY <1>4, <1>5, <1>7, FutureAssumption DEF FutureAssumption, Ready
<1>9. Ready(nf)' /\ Ready(f)'
  BY <1>4, <1>8 DEF Ready
<1>10. Grows
  BY <1>1, <1>4, <1>5, <1>7, FutureAssumption DEF FutureAssumption, Grows, Begun, stateVars
<1>11. Attached'
  <2>1. Attached
    BY DEF IInv
  <2>2. ASSUME NEW x \in Futures, prevFuture'[x] # NoFuture PROVE Ready(prevFuture[x])'
    <3>1. PICK y : y = prevFuture'[x]
      OBVIOUS
    <3>2. y = f \/ (y \in Futures /\ Ready(y))
      BY <1>4, <1>5, <1>7, <2>1, <2>2, <3>1 DEF Attached
    <3>3. Ready(y)'
      BY <1>8, <1>9, <3>2
    <3> QED
      BY <3>1, <3>3 DEF Ready
  <2>3. ASSUME NEW x \in Futures, NEW i \in DOMAIN nextFutures'[x]
        PROVE  Ready(nextFutures[x][i])'
    <3>1. PICK y : y = nextFutures'[x][i]
      OBVIOUS
    <3>2. PICK q \in Seq(Futures) : q = nextFutures[x]
      BY <1>7
    <3>3. nextFutures'[x] = IF x = f THEN Append(q, nf) ELSE q
      BY <1>4, <1>5, <1>7, <3>2
    <3>4. y = nf \/ (i \in DOMAIN q /\ y = q[i] /\ q[i] \in Futures)
      BY <1>4, <2>3, <3>1, <3>2, <3>3
    <3>5. y = nf \/ (y \in Futures /\ Ready(y))
      BY <2>1, <3>2, <3>4 DEF Attached
    <3>6. Ready(y)'
      BY <1>8, <1>9, <3>5
    <3> QED
      BY <3>1, <3>6 DEF Ready
  <2> QED
    BY <2>2, <2>3 DEF Attached
<1>12. BegunOnce'
  BY <1>1 DEF IInv, BegunOnce, Begun, stateVars
<1>13. fr \in Frames
  <2>1. \A x \in Futures, pc \in PCs : Frame(pc, x) \in Frames
    BY DEF Frames, Frame
  <2>2. {"start", "handlePanic", "run"} \subseteq PCs
    BY DEF PCs
  <2> QED
    BY <1>4, <1>6, <2>1, <2>2
<1>14. Sound(fr)'
  BY <1>6, <1>9 DEF Frame, Sound
<1>15. stack' \in Stacks' /\ FramesSound' /\ IssuedThen'
  <2>1. CASE Becomes(g, << fr >>)
    BY <1>1, <1>2, <1>3, <1>8, <1>10, <1>13, <1>14, <2>1, OneKeeps
  <2>2. CASE Becomes(g, << >>)
    <3>1. FitNext(<< >>) /\ prevFuture'[Head(Head(stack[g]).next)] # NoFuture
      BY <1>2, <1>3, <1>8 DEF FitNext
    <3>2. g \in calls \cup Futures /\ stack[g] # << >>
      BY <1>1, Innermost
    <3> QED
      BY <1>1, <1>10, <2>2, <3>1, <3>2, StepKeeps
  <2> QED
    BY <1>6, <2>1, <2>2
<1>16. Fields'
  <2>1. prevFuture' \in [Futures -> Futures \cup {NoFuture}]
    BY <1>4, <1>5, <1>7
  <2>2. nextFutures' \in [Futures -> Seq(Futures)]
    BY <1>4, <1>5, <1>7
  <2>3. stranded' = stranded \/ stranded' = stranded \cup {nf}
    BY <1>2, <1>3 DEF Then, On, NextOf
  <2>4. stranded' \subseteq Futures
    BY <1>4, <2>3 DEF IInv, TypeOK
  <2> QED
    BY <1>1, <2>1, <2>2, <2>4 DEF IInv, TypeOK, Fields, settledVars, stateVars, panicVars
<1> QED
  BY <1>11, <1>12, <1>15, <1>16, Parts

\* A future whose executor has goroutines runs on the one that has its name.
LEMMA ElsewhereKeeps ==
  ASSUME IInv, Grows, UNCHANGED <<calls, issued>>, NEW g, NEW pc, At(g, pc), pc # "then",
         NEW f \in Futures, NEW fr \in Frames, Sound(fr)',
         stack' = [stack EXCEPT ![g] = Tail(@), ![f] = << fr >>]
  PROVE  stack' \in Stacks' /\ FramesSound' /\ IssuedThen'
<1>1. /\ stack \in Stacks /\ FramesSound /\ IssuedThen
      /\ issued \subseteq calls /\ calls \in Programs
  BY DEF IInv, TypeOK, Stacks
<1>2. /\ g \in calls \cup Futures /\ stack[g] \in Seq(Frames) /\ stack[g] # << >>
      /\ Head(stack[g]).pc = pc
  BY Innermost
<1>3. PICK t, u, r : /\ t \in Seq(Frames) /\ t = stack[g] /\ t # << >>
                    /\ u = Tail(t) /\ r = << fr >>
  BY <1>2
<1>4. /\ u \in Seq(Frames) /\ \A i \in DOMAIN u : i + 1 \in DOMAIN t /\ u[i] = t[i + 1]
      /\ r \in Seq(Frames) /\ \A i \in DOMAIN r : r[i] = fr
  BY <1>3
<1>5. /\ stack' = [stack EXCEPT ![g] = u, ![f] = r]
      /\ \A h \in calls \cup Futures :
           stack'[h] = IF h = f THEN r ELSE IF h = g THEN u ELSE stack[h]
  BY <1>1, <1>2, <1>3 DEF Stacks
<1>6. stack' \in Stacks'
  BY <1>1, <1>2, <1>4, <1>5 DEF Stacks
<1>7. FramesSound'
  <2> SUFFICES ASSUME NEW x \in Frames, OnStack(x)' PROVE Sound(x)'
    BY DEF FramesSound
  <2>1. PICK h \in calls \cup Futures : \E i \in DOMAIN stack'[h] : stack'[h][i] = x
    BY DEF OnStack
  <2>2. ASSUME OnStack(x) PROVE Sound(x)'
    BY <1>1, <2>2, SoundStays DEF FramesSound
  <2>3. CASE h = f
    BY <1>4, <1>5, <2>1, <2>3
  <2>4. CASE h # f /\ h = g
    <3>1. PICK i \in DOMAIN u : u[i] = x
      BY <1>5, <2>1, <2>4
    <3>2. i + 1 \in DOMAIN t /\ t[i + 1] = x
      BY <1>4, <3>1
    <3> QED
      BY <1>2, <1>3, <2>2, <3>2 DEF OnStack
  <2>5. CASE h # f /\ h # g
    BY <1>5, <2>1, <2>2, <2>5 DEF OnStack
  <2> QED
    BY <2>3, <2>4, <2>5
<1>8. IssuedThen'
  <2> SUFFICES ASSUME NEW c \in issued, c.op = "then", prevFuture'[c.next] = NoFuture
               PROVE  stack'[c] = << ThenFrame(c) >>
    BY DEF IssuedThen, ThenFrame, Frame
  <2>1. c \in Callables /\ c.next \in Futures /\ c # f
    BY <1>1, FutureAssumption DEF FutureAssumption, Callables
  <2>2. stack[c] = << ThenFrame(c) >>
    BY <1>1, <2>1 DEF IssuedThen, Grows
  <2>3. Head(stack[c]).pc = "then"
    BY <2>2 DEF ThenFrame, Frame
  <2>4. c # g
    BY <1>2, <2>3
  <2> QED
    BY <1>1, <1>5, <2>1, <2>2, <2>4
<1> QED
  BY <1>6, <1>7, <1>8

\* A future is handed to its executor only while it has not begun.
LEMMA RunStep == ASSUME IInv, NEW g, Run(g) PROVE IInv'
<1>1. At(g, "run") /\ UNCHANGED <<calls, issued, isOpen, canceled, called, linkVars>>
  BY DEF Run
<1>2. PICK f \in Futures : f = On(g) /\ Ready(f)
  BY <1>1, Innermost DEF Sound, On
<1>3. PICK fr : fr = Frame("execute", f)
  OBVIOUS
<1>4. \/ Becomes(g, << >>) /\ UNCHANGED <<isRunning, runs>>
      \/ /\ f \notin Begun /\ isRunning' = isRunning \cup {f}
         /\ runs' = [runs EXCEPT ![f] = @ + 1]
         /\ \/ Becomes(g, << fr >>)
            \/ stack' = [stack EXCEPT ![g] = Tail(@), ![f] = << fr >>]
  BY <1>2, <1>3 DEF Run, Begun
<1>5. Grows /\ Attached'
  BY <1>1, <1>4 DEF IInv, Grows, Begun, Attached, Ready, linkVars
<1>6. BegunOnce' /\ runs' \in [Futures -> Nat] /\ isRunning' \subseteq Futures
  <2> USE DEF IInv, TypeOK, BegunOnce
  <2>1. CASE UNCHANGED <<isRunning, runs>>
    BY <1>1, <2>1 DEF Begun
  <2>2. CASE /\ f \notin Begun /\ isRunning' = isRunning \cup {f}
             /\ runs' = [runs EXCEPT ![f] = @ + 1]
    <3>1. runs[f] = 0 /\ runs'[f] = 1 /\ \A x \in Futures \ {f} : runs'[x] = runs[x]
      BY <2>2
    <3>2. Begun' = Begun \cup {f}
      BY <1>1, <2>2 DEF Begun
    <3> QED
      BY <1>1, <2>2, <3>1, <3>2
  <2> QED
    BY <1>4, <2>1, <2>2
<1>7. fr \in Frames
  BY <1>3 DEF Frames, Frame, PCs
<1>8. f \notin Begun /\ isRunning' = isRunning \cup {f} => Sound(fr)'
  BY <1>1, <1>2, <1>3 DEF Sound, Frame, Ready, Begun, linkVars
<1>9. stack' \in Stacks' /\ FramesSound' /\ IssuedThen'
  <2>1. CASE Becomes(g, << >>)
    BY <1>1, <1>5, <2>1, PopKeeps
  <2>2. CASE Becomes(g, << fr >>) /\ Sound(fr)'
    BY <1>1, <1>5, <1>7, <2>2, OneKeeps
  <2>3. CASE stack' = [stack EXCEPT ![g] = Tail(@), ![f] = << fr >>] /\ Sound(fr)'
    BY <1>1, <1>5, <1>7, <2>3, ElsewhereKeeps
  <2> QED
    BY <1>4, <1>8, <2>1, <2>2, <2>3
<1>10. Fields'
  BY <1>6 DEF IInv, TypeOK, Run, Fields, settledVars, linkVars, panicVars
<1> QED
  BY <1>5, <1>6, <1>9, <1>10, Parts

\* The function that calls the user's has begun and is not cancelled.
Calls == UNCHANGED <<calls, issued, settledVars, isRunning, isOpen, canceled, runs,
                     linkVars, panicVars>>

LEMMA CallStep ==
  ASSUME IInv, Calls, NEW g, NEW pc \in {"execute", "input"}, At(g, pc), On(g) \notin canceled,
         CallFunction(g, On(g))
  PROVE  IInv'
<1>1. PICK f \in Futures : f = On(g) /\ f \in Begun /\ f \notin canceled
  BY Innermost DEF Sound, On
<1>2. called' = called \cup {f} /\ UNCHANGED <<calls, issued>>
  BY <1>1 DEF CallFunction, Calls
<1>3. Grows /\ Attached' /\ BegunOnce'
  BY <1>1, <1>2 DEF IInv, Calls, Grows, Attached, Ready, BegunOnce, Begun, linkVars
<1>4. PICK fr :
        /\ \/ Becomes(g, << >>) /\ stranded' = stranded \cup {f}
           \/ Becomes(g, << fr >>) /\ UNCHANGED stranded
        /\ \/ fr \in {Frame("acceptError", f), Frame("acceptPanic", f), Frame("acceptResult", f)}
           \/ /\ Kind[f] = "async"
              /\ fr = [Frame("then", Inner[f]) EXCEPT !.next = << Link[f] >>]
  BY <1>1 DEF CallFunction, EndWithNil
<1>5. fr \in Frames /\ Sound(fr)
  <2>1. CASE fr \in {Frame("acceptError", f), Frame("acceptPanic", f), Frame("acceptResult", f)}
    BY <2>1, PlainSound DEF PCs, Relying
  <2>2. CASE Kind[f] = "async" /\ fr = [Frame("then", Inner[f]) EXCEPT !.next = << Link[f] >>]
    <3>1. Link[f] \in Futures /\ Inner[f] \in Futures /\ Kind[Inner[f]] = "own"
      BY <1>1, <2>2, FutureAssumption DEF FutureAssumption
    <3>2. PICK next : next = << Link[f] >>
      OBVIOUS
    <3>3. next \in Seq(Futures) /\ next # << >>
      BY <3>1, <3>2
    <3> QED
      BY <2>2, <3>1, <3>2, <3>3 DEF Frames, Frame, Sound, Ready, PCs, Ops
  <2> QED
    BY <1>4, <2>1, <2>2
<1>6. Sound(fr)'
  BY <1>3, <1>5, SoundStays
<1>7. stack' \in Stacks' /\ FramesSound' /\ IssuedThen'
  <2>1. CASE Becomes(g, << >>)
    BY <1>2, <1>3, <2>1, PopKeeps
  <2>2. CASE Becomes(g, << fr >>)
    BY <1>2, <1>3, <1>5, <1>6, <2>2, OneKeeps
  <2> QED
    BY <1>4, <2>1, <2>2
<1>8. Fields'
  <2>1. called' \subseteq Futures /\ stranded' \subseteq Futures
    BY <1>2, <1>4 DEF IInv, TypeOK
  <2> QED
    BY <2>1 DEF IInv, TypeOK, Calls, Fields, settledVars, linkVars, panicVars
<1> QED
  BY <1>3, <1>7, <1>8, Parts

LEMMA ExecuteStep == ASSUME IInv, NEW g, Execute(g) PROVE IInv'
<1>1. At(g, "execute") /\ Calls
  BY DEF Execute, Calls
<1>2. PICK f \in Futures : f = On(g) /\ Ready(f) /\ f \in Begun
  BY <1>1, Innermost DEF Sound, On
<1>3. CASE f \notin canceled /\ CallFunction(g, f)
  BY <1>1, <1>2, <1>3, CallStep
<1>4. CASE f \in canceled /\ Becomes(g, << Frame("acceptPanic", f) >>) /\ UNCHANGED <<called, stranded>>
  <2>1. Quiet
    BY <1>1, <1>4 DEF Calls, Quiet, stateVars
  <2>2. PICK fr \in Frames : fr = Frame("acceptPanic", f) /\ Sound(fr)
    BY PlainSound DEF PCs, Relying
  <2>3. Sound(fr)'
    BY <2>1, <2>2, QuietStep, SoundStays
  <2>4. stack' \in Stacks' /\ FramesSound' /\ IssuedThen'
    BY <1>1, <1>4, <2>1, <2>2, <2>3, QuietStep, OneKeeps DEF Quiet
  <2>5. Fields'
    BY <1>1, <1>4 DEF IInv, TypeOK, Calls, Fields, settledVars, linkVars, panicVars
  <2> QED
    BY <2>1, <2>4, <2>5, QuietStep, Parts
<1>5. CASE /\ f \notin canceled /\ Kind[f] # "own" /\ UNCHANGED <<called, stranded>>
           /\ Becomes(g, << Frame("start", prevFuture[f]), Frame("input", f) >>)
  <2>1. Quiet
    BY <1>1, <1>5 DEF Calls, Quiet, stateVars
  <2>2. PICK fr, gr : fr = Frame("start", prevFuture[f]) /\ gr = Frame("input", f)
    OBVIOUS
  <2>3. prevFuture[f] \in Futures /\ Ready(prevFuture[f])
    BY <1>2, <1>5 DEF IInv, TypeOK, Attached, Ready
  <2>4. fr \in Frames /\ Sound(fr) /\ gr \in Frames /\ Sound(gr)
    BY <1>2, <1>5, <2>2, <2>3 DEF Frames, Frame, Sound, PCs
  <2>5. Sound(fr)' /\ Sound(gr)'
    BY <2>1, <2>4, QuietStep, SoundStays
  <2>6. stack' \in Stacks' /\ FramesSound' /\ IssuedThen'
    BY <1>1, <1>5, <2>1, <2>2, <2>4, <2>5, QuietStep, TwoKeep DEF Quiet
  <2>7. Fields'
    BY <1>1, <1>5 DEF IInv, TypeOK, Calls, Fields, settledVars, linkVars, panicVars
  <2> QED
    BY <2>1, <2>6, <2>7, QuietStep, Parts
<1> QED
  BY <1>2, <1>3, <1>4, <1>5 DEF Execute

LEMMA TargetIsFuture == ASSUME NEW f \in Futures PROVE Target(f) \in Futures
BY FutureAssumption DEF FutureAssumption, Target

LEMMA InputStep == ASSUME IInv, NEW g, Input(g) PROVE IInv'
<1>1. At(g, "input") /\ Calls
  BY DEF Input, Calls
<1>2. PICK f \in Futures : f = On(g) /\ f \notin canceled
  BY <1>1, Innermost DEF Sound, On
<1>3. CASE CallFunction(g, f)
  BY <1>1, <1>2, <1>3, CallStep
<1>4. PICK t \in Futures : t = Target(f)
  BY TargetIsFuture
<1>5. \/ CallFunction(g, f)
      \/ UNCHANGED called /\ Becomes(g, << >>) /\ stranded' = stranded \cup {t}
      \/ /\ UNCHANGED <<called, stranded>>
         /\ \E pc \in {"acceptPanic", "acceptError", "acceptResult"}, x \in {f, t} :
              Becomes(g, << Frame(pc, x) >>)
  BY <1>2, <1>4 DEF Input, EndWithNil
<1>6. CASE UNCHANGED called /\ Becomes(g, << >>) /\ stranded' = stranded \cup {t}
  <2>1. Quiet
    BY <1>1, <1>6 DEF Calls, Quiet, stateVars
  <2>2. stack' \in Stacks' /\ FramesSound' /\ IssuedThen'
    BY <1>1, <1>6, <2>1, QuietStep, PopKeeps DEF Quiet
  <2>3. stranded' \subseteq Futures
    BY <1>6 DEF IInv, TypeOK
  <2>4. Fields'
    BY <1>1, <1>6, <2>3 DEF IInv, TypeOK, Calls, Fields, settledVars, linkVars, panicVars
  <2> QED
    BY <2>1, <2>2, <2>4, QuietStep, Parts
<1>7. ASSUME UNCHANGED <<called, stranded>>,
             NEW pc \in {"acceptPanic", "acceptError", "acceptResult"}, NEW x \in {f, t},
             Becomes(g, << Frame(pc, x) >>)
      PROVE  IInv'
  <2>1. Quiet
    BY <1>1, <1>7 DEF Calls, Quiet, stateVars
  <2>2. PICK fr \in Frames : fr = Frame(pc, x) /\ Sound(fr)
    BY PlainSound DEF PCs, Relying
  <2>3. Sound(fr)'
    BY <2>1, <2>2, QuietStep, SoundStays
  <2>4. stack' \in Stacks' /\ FramesSound' /\ IssuedThen'
    BY <1>1, <1>7, <2>1, <2>2, <2>3, QuietStep, OneKeeps DEF Quiet
  <2>5. Fields'
    BY <1>1, <1>7 DEF IInv, TypeOK, Calls, Fields, settledVars, linkVars, panicVars
  <2> QED
    BY <2>1, <2>4, <2>5, QuietStep, Parts
<1> QED
  BY <1>3, <1>5, <1>6, <1>7

\* A call is made of a future of its own or of one that a finished Then has
\* attached.
LEMMA IssueStep == ASSUME IInv, NEW c, Issue(c) PROVE IInv'
<1>1. /\ stack \in Stacks /\ FramesSound /\ IssuedThen
      /\ issued \subseteq calls /\ calls \in Programs
  BY DEF IInv, TypeOK, Stacks
<1>2. /\ c \in calls /\ c \notin issued /\ issued' = issued \cup {c} /\ UNCHANGED calls
      /\ c \in Callables /\ c.op \in Ops /\ c.on \in Futures
      /\ c.op = "then" => c.next \in Futures
  BY <1>1, FutureAssumption DEF Issue, FutureAssumption, Callables
<1>3. Quiet \/ UNCHANGED <<calls, stateVars, linkVars>>
  BY DEF Issue
<1>4. Grows /\ Attached' /\ BegunOnce'
  BY DEF IInv, Issue, Grows, Attached, Ready, BegunOnce, Begun, stateVars, linkVars
<1>5. Ready(c.on)
  <2>1. CASE Kind[c.on] = "own"
    BY <2>1 DEF Ready
  <2>2. CASE Kind[c.on] # "own"
    <3>1. PICK d \in issued : d.op = "then" /\ d.next = c.on /\ stack[d] = << >>
      BY <2>2 DEF Issue, Known, Finished
    <3>2. stack[d] # << ThenFrame(d) >>
      BY <3>1
    <3> QED
      BY <1>1, <3>1, <3>2 DEF IssuedThen, Ready
  <2> QED
    BY <2>1, <2>2
<1>6. PICK r : /\ stack' = [stack EXCEPT ![c] = r]
               /\ \/ c.op = "then" /\ r = << ThenFrame(c) >>
                  \/ c.op = "get" /\ r = << Frame("start", c.on), Frame("wait", c.on) >>
                  \/ c.op \in Ops \ {"then", "get"} /\ r = << Frame(c.op, c.on) >>
  BY <1>2 DEF Issue, ThenFrame
<1>7. r \in Seq(Frames) /\ \A i \in DOMAIN r : Sound(r[i])
  <2>1. CASE c.op = "then" /\ r = << ThenFrame(c) >>
    <3>1. PICK next : next = << c.next >>
      OBVIOUS
    <3>2. next \in Seq(Futures) /\ next # << >>
      BY <1>2, <2>1, <3>1
    <3>3. ThenFrame(c) \in Frames /\ Sound(ThenFrame(c))
      BY <1>2, <1>5, <2>1, <3>1, <3>2 DEF ThenFrame, Frames, Frame, Sound, PCs, Ops
    <3> QED
      BY <2>1, <3>3
  <2>2. CASE c.op = "get" /\ r = << Frame("start", c.on), Frame("wait", c.on) >>
    <3>1. /\ Frame("start", c.on) \in Frames /\ Frame("wait", c.on) \in Frames
          /\ Sound(Frame("start", c.on)) /\ Sound(Frame("wait", c.on))
      BY <1>2, <1>5 DEF Frames, Frame, Sound, PCs
    <3> QED
      BY <2>2, <3>1
  <2>3. CASE c.op \in Ops \ {"then", "get"} /\ r = << Frame(c.op, c.on) >>
    <3>1. Frame(c.op, c.on) \in Frames /\ Sound(Frame(c.op, c.on))
      BY <1>2, <2>3, PlainSound DEF PCs, Ops, Relying
    <3> QED
      BY <2>3, <3>1
  <2> QED
    BY <1>6, <2>1, <2>2, <2>3
<1>8. /\ stack'[c] = r /\ \A h \in (calls \cup Futures) \ {c} : stack'[h] = stack[h]
      /\ stack' \in Stacks'
  BY <1>1, <1>2, <1>6, <1>7 DEF Stacks
<1>9. FramesSound'
  <2> SUFFICES ASSUME NEW fr \in Frames, OnStack(fr)' PROVE Sound(fr)'
    BY DEF FramesSound
  <2>1. PICK h \in calls \cup Futures : \E i \in DOMAIN stack'[h] : stack'[h][i] = fr
    BY <1>2 DEF OnStack
  <2>2. Sound(fr)
    BY <1>1, <1>7, <1>8, <2>1 DEF FramesSound, OnStack
  <2> QED
    BY <1>4, <2>2, SoundStays
<1>10. IssuedThen'
  <2> SUFFICES ASSUME NEW d \in issued', d.op = "then", prevFuture[d.next] = NoFuture
               PROVE  stack'[d] = << ThenFrame(d) >>
    BY DEF IssuedThen, ThenFrame, Frame, Issue, linkVars
  <2>1. CASE d = c
    BY <1>6, <1>8, <2>1
  <2>2. CASE d # c
    BY <1>1, <1>2, <1>8, <2>2 DEF IssuedThen
  <2> QED
    BY <2>1, <2>2
<1>11. Fields'
  BY <1>2 DEF IInv, TypeOK, Issue, Fields, settledVars, stateVars, linkVars, panicVars
<1> QED
  BY <1>4, <1>8, <1>9, <1>10, <1>11, Parts

-----------------------------------------------------------------------------
(* The invariant is inductive *)

LEMMA InvInit == Init => IInv
<1> SUFFICES ASSUME Init PROVE IInv
  OBVIOUS
<1>1. TypeOK
  <2>1. << >> \in Seq(Frames) /\ << >> \in Seq(Futures)
    OBVIOUS
  <2> QED
    BY <2>1 DEF Init, TypeOK
<1>2. \A fr : ~OnStack(fr)
  BY DEF Init, OnStack
<1> QED
  BY <1>1, <1>2 DEF Init, IInv, FramesSound, Attached, IssuedThen, BegunOnce

LEMMA InvNext == IInv /\ [Next]_vars => IInv'
<1> SUFFICES ASSUME IInv, [Next]_vars PROVE IInv'
  OBVIOUS
<1>1. CASE UNCHANGED vars
  <2>1. Quiet /\ UNCHANGED <<stack, settledVars, panicVars, stranded>>
    BY <1>1 DEF vars, Quiet
  <2>2. stack' \in Stacks' /\ Fields' /\ FramesSound' /\ IssuedThen'
    BY <2>1 DEF IInv, TypeOK, Quiet, Stacks, Fields, FramesSound, OnStack, Sound, Ready, Begun,
                IssuedThen, settledVars, stateVars, linkVars, panicVars
  <2> QED
    BY <2>1, <2>2, QuietStep, Parts
<1>2. ASSUME NEW c \in Callables, Issue(c) PROVE IInv'
  BY <1>2, IssueStep
<1>3. ASSUME NEW g \in Goroutines, Step(g) PROVE IInv'
  BY <1>3, WaitOpenStep, ThenStep, CancelStep, StopPropagatingStep, OnPanicStep, StartStep,
     RunStep, ExecuteStep, InputStep, AcceptResultStep, AcceptErrorStep, AcceptPanicStep,
     HandlePanicStep, OpenWaitLockStep, StopRunningStep, SuccessorsStep DEF Step
<1> QED
  BY <1>1, <1>2, <1>3 DEF Next

\* The invariant holds of every behaviour.
THEOREM Invariant == Spec => []IInv
<1>1. Init => IInv
  BY InvInit
<1>2. IInv /\ [Next]_vars => IInv'
  BY InvNext
<1> QED
  BY <1>1, <1>2, PTL DEF Spec

\* The fields of a future and the stacks of the goroutines keep their types: in
\* particular start (future.go:109) and the task of a Then (future.go:282) only
\* ever come to a future that exists, since a future is attached to its
\* predecessor before anybody can run it.
THEOREM TypesCorrect == Spec => []TypeOK
BY Invariant, PTL DEF IInv

\* However many goroutines come to run a future, its task is handed to the
\* executor at most once: run (future.go:316) sets isRunning under the lock, and
\* openWaitLockAndStopRunning (future.go:421) clears it when the wait lock is open.
THEOREM RunsOnce == Spec => []TaskRunsOnce
<1>1. IInv => TaskRunsOnce
  BY DEF IInv, BegunOnce, TaskRunsOnce
<1> QED
  BY <1>1, Invariant, PTL

\* A future that Cancel (future.go:116) has given the task that panics never
\* calls its function: Cancel finds it neither running nor done, and the
\* function is called by a future that has begun.
THEOREM CanceledNeverCalled == Spec => []CanceledIsNeverCalled
<1>1. IInv => CanceledIsNeverCalled
  BY DEF IInv, BegunOnce, CanceledIsNeverCalled
<1> QED
  BY <1>1, Invariant, PTL
=============================================================================
