----------------------------- MODULE DeliveryProofs -----------------------------
(***************************************************************************)
(* Theorems about the modules that DeliveryMC puts beside each other.      *)
(***************************************************************************)
EXTENDS DeliveryMC, FiniteSetTheorems, WellFoundedInduction, TLAPS

-----------------------------------------------------------------------------
(* Retry *)

\* The number of attempts is bounded while the loop runs, and only the attempt that was
\* begun before the context ended can end after it.
RetryInv ==
  /\ Try!TypeOK
  /\ attempts <= Try!Validated(requested)
  /\ retryPc = "task" => attempts < Try!Validated(requested)
  /\ late <= 1 /\ (late = 1 => ended /\ retryPc \in {"failed", "returned"})
  /\ err = "context" => ended
  /\ retryPc = "failed" => attempts > 0
  /\ retryPc = "returned" => /\ attempts = 0 => err = "context"
                             /\ err = "retryable" => attempts >= Try!Validated(requested)

LEMMA RetryInit == Try!Init => RetryInv
<1> SUFFICES ASSUME Try!Init PROVE RetryInv
  OBVIOUS
<1>1. requested \in Int /\ Try!Validated(requested) \in Nat \ {0}
  BY DeliveryAssumption DEF DeliveryAssumption, Try!Init, Try!Validated
<1>2. Try!TypeOK
  BY DEF Try!Init, Try!TypeOK
<1> QED
  BY <1>1, <1>2 DEF Try!Init, RetryInv

LEMMA RetryStep == RetryInv /\ [Try!Next]_retryVars => RetryInv'
<1> SUFFICES ASSUME RetryInv, [Try!Next]_retryVars PROVE RetryInv'
  OBVIOUS
<1>1. requested \in Int /\ Try!Validated(requested) \in Nat \ {0}
  BY DeliveryAssumption DEF DeliveryAssumption, RetryInv, Try!TypeOK, Try!Validated
<1>2. CASE Try!Cancel
  BY <1>2 DEF Try!Cancel, RetryInv, Try!TypeOK, Try!Validated
<1>3. CASE Try!Check
  BY <1>1, <1>3 DEF Try!Check, Try!Return, RetryInv, Try!TypeOK, Try!Validated
<1>4. ASSUME NEW o \in {"nil", "retryable", "final"}, Try!RunTask(o) PROVE RetryInv'
  BY <1>1, <1>4 DEF Try!RunTask, RetryInv, Try!TypeOK, Try!Validated
<1>5. CASE Try!Failed
  BY <1>1, <1>5 DEF Try!Failed, Try!Return, RetryInv, Try!TypeOK, Try!Validated
<1>6. CASE Try!Wait
  BY <1>1, <1>6 DEF Try!Wait, Try!Return, RetryInv, Try!TypeOK, Try!Validated
<1>7. CASE UNCHANGED retryVars
  BY <1>7 DEF retryVars, RetryInv, Try!TypeOK, Try!Validated
<1> QED
  BY <1>2, <1>3, <1>4, <1>5, <1>6, <1>7 DEF Try!Next, Try!Step

LEMMA RetryAgreed == RetryInv => Try!RetryAgrees
BY DeliveryAssumption
   DEF DeliveryAssumption, RetryInv, Try!RetryAgrees, Try!TypeOK, Try!Validated

-----------------------------------------------------------------------------
(* BufferedWriter and OpenObserveWriter *)

\* An item sent comes last; the consumer moves the first of the queue to its buffer.
SentLast(a, b, c, x) == Append(a \o b \o c, x) = a \o b \o Append(c, x)
FirstMoved(a, b, c, S) ==
  /\ a \o b \o c = a \o Append(b, Head(c)) \o Tail(c)
  /\ Append(b, Head(c)) \in Seq(S) /\ Tail(c) \in Seq(S)
  /\ Len(Append(b, Head(c))) = Len(b) + 1 /\ Len(Tail(c)) = Len(c) - 1

LEMMA SendLast ==
  ASSUME NEW S, NEW a \in Seq(S), NEW b \in Seq(S), NEW c \in Seq(S), NEW x \in S
  PROVE  SentLast(a, b, c, x)
BY DEF SentLast

LEMMA MoveFirst ==
  ASSUME NEW S, NEW a \in Seq(S), NEW b \in Seq(S), NEW c \in Seq(S), c # << >>
  PROVE  FirstMoved(a, b, c, S)
<1>1. a \o b \o c = a \o Append(b, Head(c)) \o Tail(c)
  BY SMTT(60)
<1>2. /\ Append(b, Head(c)) \in Seq(S) /\ Tail(c) \in Seq(S)
      /\ Len(Append(b, Head(c))) = Len(b) + 1 /\ Len(Tail(c)) = Len(c) - 1
  OBVIOUS
<1> QED
  BY <1>1, <1>2 DEF FirstMoved

LEMMA FlushAll ==
  ASSUME NEW S, NEW a \in Seq(S), NEW b \in Seq(S), NEW c \in Seq(S)
  PROVE  a \o b \o c = (a \o b) \o << >> \o c /\ a \o b \in Seq(S)
OBVIOUS

BufferedInv ==
  /\ Buffered!TypeOK /\ Buffered!NothingLost
  /\ sent \in Seq(Writers) /\ done \in Seq(Writers)
  /\ consumerPc \in {"drain", "close", "lastFlush", "done"} => canceled

LEMMA BufferedInit == Buffered!NewBufferedWriter => BufferedInv
BY DeliveryAssumption
   DEF DeliveryAssumption, Buffered!NewBufferedWriter, BufferedInv, Buffered!TypeOK,
       Buffered!NothingLost

LEMMA BufferedStep == BufferedInv /\ [Buffered!Next]_writerVars => BufferedInv'
<1> SUFFICES ASSUME BufferedInv, [Buffered!Next]_writerVars PROVE BufferedInv'
  OBVIOUS
<1> USE DEF BufferedInv, Buffered!TypeOK, Buffered!NothingLost
<1>0. done \in Seq(Writers) /\ buffer \in Seq(Writers) /\ itemChan \in Seq(Writers)
  OBVIOUS
<1>1. ASSUME NEW w \in Writers, Buffered!Write(w) PROVE BufferedInv'
  <2>1. CASE /\ ~closed /\ Len(itemChan) < FlushThreshold
             /\ itemChan' = Append(itemChan, w) /\ sent' = Append(sent, w)
             /\ writer' = [writer EXCEPT ![w] = "sent"]
    <3>1. SentLast(done, buffer, itemChan, w)
      BY <1>0, SendLast
    <3>2. sent' \in Seq(Writers) /\ itemChan' \in Seq(Writers) /\ Len(itemChan') <= FlushThreshold
      BY <2>1, DeliveryAssumption DEF DeliveryAssumption
    <3> QED
      BY <1>1, <2>1, <3>1, <3>2 DEF Buffered!Write, SentLast
  <2>2. CASE closed /\ writer' = [writer EXCEPT ![w] = "panicked"] /\ UNCHANGED <<itemChan, sent>>
    BY <1>1, <2>2 DEF Buffered!Write
  <2> QED
    BY <1>1, <2>1, <2>2 DEF Buffered!Write
<1>2. CASE Buffered!Cancel
  BY <1>2 DEF Buffered!Cancel, Buffered!consumer
<1>3. ASSUME NEW w \in Waiters,
             Buffered!Wait(w) \/ Buffered!Complete(w) \/ Buffered!Timeout(w) \/ Buffered!LateComplete(w)
      PROVE  BufferedInv'
  <2>1. /\ complete' \in [Waiters -> {"idle", "waiting", "complete", "timeout", "panicked"}]
        /\ UNCHANGED <<itemChan, closed, canceled, buffer, consumerPc, attempt, writer, sent, done>>
    <3>1. CASE Buffered!Wait(w)
      BY <3>1 DEF Buffered!Wait, Buffered!consumer
    <3>2. CASE Buffered!Complete(w)
      BY <3>2 DEF Buffered!Complete, Buffered!consumer
    <3>3. CASE Buffered!Timeout(w)
      BY <3>3 DEF Buffered!Timeout, Buffered!consumer
    <3>4. CASE Buffered!LateComplete(w)
      BY <3>4 DEF Buffered!LateComplete, Buffered!consumer
    <3> QED
      BY <1>3, <3>1, <3>2, <3>3, <3>4
  <2> QED
    BY <2>1
<1>4. CASE Buffered!Receive
  <2>1. itemChan # << >> /\ itemChan' = Tail(itemChan) /\ buffer' = Append(buffer, Head(itemChan))
    BY <1>4 DEF Buffered!Receive
  <2>2. FirstMoved(done, buffer, itemChan, Writers)
    BY <1>0, <2>1, MoveFirst
  <2>3. Len(Tail(itemChan)) <= FlushThreshold
    BY <2>1, <2>2, DeliveryAssumption DEF DeliveryAssumption, FirstMoved
  <2> QED
    BY <1>4, <2>1, <2>2, <2>3, DeliveryAssumption DEF Buffered!Receive, DeliveryAssumption, FirstMoved
<1>5. CASE Buffered!Tick
  BY <1>5 DEF Buffered!Tick
<1>6. CASE Buffered!SeeDone
  BY <1>6 DEF Buffered!SeeDone
<1>7. CASE Buffered!Drain
  <2>1. CASE itemChan # << >>
    <3>1. itemChan' = Tail(itemChan) /\ buffer' = Append(buffer, Head(itemChan))
      BY <1>7, <2>1 DEF Buffered!Drain
    <3>2. FirstMoved(done, buffer, itemChan, Writers)
      BY <1>0, <2>1, MoveFirst
    <3>3. Len(Tail(itemChan)) <= FlushThreshold
      BY <2>1, <3>2, DeliveryAssumption DEF DeliveryAssumption, FirstMoved
    <3> QED
      BY <1>7, <2>1, <3>1, <3>2, <3>3 DEF Buffered!Drain, FirstMoved
  <2>2. CASE itemChan = << >>
    BY <1>7, <2>2 DEF Buffered!Drain
  <2> QED
    BY <2>1, <2>2
<1>8. CASE Buffered!Close
  BY <1>8 DEF Buffered!Close
<1>9. ASSUME NEW ok \in BOOLEAN, Buffered!Attempt(ok) PROVE BufferedInv'
  <2>1. CASE /\ done' = done \o buffer /\ buffer' = << >> /\ attempt' = 0
             /\ consumerPc' = IF consumerPc = "flush" THEN "select" ELSE "done"
    <3>1. sent' = done' \o buffer' \o itemChan' /\ done' \in Seq(Writers)
      BY <1>9, <2>1, FlushAll DEF Buffered!Attempt
    <3>2. buffer' \in Seq(Writers) /\ Len(buffer') < FlushThreshold /\ attempt' \in 0 .. MaxAttempts - 1
      BY <2>1, DeliveryAssumption DEF DeliveryAssumption
    <3> QED
      BY <1>9, <2>1, <3>1, <3>2 DEF Buffered!Attempt
  <2>2. CASE attempt + 1 # MaxAttempts /\ attempt' = attempt + 1 /\ UNCHANGED <<done, buffer, consumerPc>>
    BY <1>9, <2>2, DeliveryAssumption DEF Buffered!Attempt, DeliveryAssumption
  <2> QED
    BY <1>9, <2>1, <2>2 DEF Buffered!Attempt
<1>10. CASE UNCHANGED writerVars
  BY <1>10 DEF writerVars
<1> QED
  BY <1>1, <1>2, <1>3, <1>4, <1>5, <1>6, <1>7, <1>8, <1>9, <1>10 DEF Buffered!Next, Buffered!Consume

RemoteInv ==
  /\ Remote!TypeOK /\ Remote!NothingLost
  /\ sent \in Seq(Writers) /\ done \in Seq(Writers)
  /\ consumerPc = "lastFlush" => canceled

LEMMA RemoteInit == Remote!NewOpenObserveWriter => RemoteInv
BY DeliveryAssumption
   DEF DeliveryAssumption, Remote!NewOpenObserveWriter, RemoteInv, Remote!TypeOK,
       Remote!NothingLost, Remote!Attempts

LEMMA RemoteStep == RemoteInv /\ [Remote!Next]_writerVars => RemoteInv'
<1> SUFFICES ASSUME RemoteInv, [Remote!Next]_writerVars PROVE RemoteInv'
  OBVIOUS
<1> USE DEF RemoteInv, Remote!TypeOK, Remote!NothingLost, Remote!Attempts
<1>0. done \in Seq(Writers) /\ buffer \in Seq(Writers) /\ itemChan \in Seq(Writers)
  OBVIOUS
<1>1. ASSUME NEW w \in Writers, Remote!Write(w) PROVE RemoteInv'
  <2>1. CASE /\ Len(itemChan) < Room /\ writer' = [writer EXCEPT ![w] = "sent"]
             /\ itemChan' = Append(itemChan, w) /\ sent' = Append(sent, w)
    <3>1. SentLast(done, buffer, itemChan, w)
      BY <1>0, SendLast
    <3>2. sent' \in Seq(Writers) /\ itemChan' \in Seq(Writers) /\ Len(itemChan') <= Room
      BY <2>1, DeliveryAssumption DEF DeliveryAssumption
    <3> QED
      BY <1>1, <2>1, <3>1, <3>2 DEF Remote!Write, SentLast
  <2>2. CASE canceled /\ writer' = [writer EXCEPT ![w] = "refused"] /\ UNCHANGED <<itemChan, sent>>
    BY <1>1, <2>2 DEF Remote!Write
  <2> QED
    BY <1>1, <2>1, <2>2 DEF Remote!Write
<1>2. CASE Remote!Cancel
  BY <1>2 DEF Remote!Cancel
<1>3. CASE Remote!Receive
  <2>1. itemChan # << >> /\ itemChan' = Tail(itemChan) /\ buffer' = Append(buffer, Head(itemChan))
    BY <1>3 DEF Remote!Receive
  <2>2. FirstMoved(done, buffer, itemChan, Writers)
    BY <1>0, <2>1, MoveFirst
  <2>3. Len(Tail(itemChan)) <= Room
    BY <2>1, <2>2, DeliveryAssumption DEF DeliveryAssumption, FirstMoved
  <2> QED
    BY <1>3, <2>1, <2>2, <2>3 DEF Remote!Receive, FirstMoved
<1>4. CASE Remote!Tick
  BY <1>4 DEF Remote!Tick
<1>5. CASE Remote!SeeDone
  BY <1>5 DEF Remote!SeeDone
<1>6. ASSUME NEW ok \in BOOLEAN, Remote!Attempt(ok) PROVE RemoteInv'
  <2>1. CASE /\ done' = done \o buffer /\ buffer' = << >> /\ attempt' = 0
             /\ consumerPc' = IF consumerPc = "flush" THEN "select" ELSE "done"
    <3>1. sent' = done' \o buffer' \o itemChan' /\ done' \in Seq(Writers)
      BY <1>6, <2>1, FlushAll DEF Remote!Attempt
    <3>2. buffer' \in Seq(Writers) /\ attempt' \in 0 .. 2
      BY <2>1
    <3> QED
      BY <1>6, <2>1, <3>1, <3>2 DEF Remote!Attempt
  <2>2. CASE attempt + 1 # 3 /\ attempt' = attempt + 1 /\ UNCHANGED <<done, buffer, consumerPc>>
    BY <1>6, <2>2 DEF Remote!Attempt
  <2> QED
    BY <1>6, <2>1, <2>2 DEF Remote!Attempt
<1>7. CASE UNCHANGED writerVars
  BY <1>7 DEF writerVars
<1> QED
  BY <1>1, <1>2, <1>3, <1>4, <1>5, <1>6, <1>7 DEF Remote!Next, Remote!Consume

-----------------------------------------------------------------------------
(* Logger *)

Elements(s) == {s[i] : i \in DOMAIN s}

LEMMA ElementsIn ==
  ASSUME NEW S, NEW s \in Seq(S)
  PROVE  Elements(s) \subseteq S
<1>1. \A i \in DOMAIN s : s[i] \in S
  OBVIOUS
<1> QED
  BY <1>1 DEF Elements

LEMMA ElementsAppend ==
  ASSUME NEW S, NEW s \in Seq(S), NEW x
  PROVE  Elements(Append(s, x)) = Elements(s) \cup {x}
<1>1. Append(s, x)[Len(s) + 1] = x /\ Len(s) + 1 \in DOMAIN Append(s, x)
  OBVIOUS
<1>2. \A i \in DOMAIN s : Append(s, x)[i] = s[i] /\ i \in DOMAIN Append(s, x)
  OBVIOUS
<1>3. \A i \in DOMAIN Append(s, x) : i \in DOMAIN s \/ i = Len(s) + 1
  OBVIOUS
<1> QED
  BY <1>1, <1>2, <1>3 DEF Elements

\* r has what s and t have.
Joined(r, s, t) == Elements(r) = Elements(s) \cup Elements(t)

LEMMA ElementsConcat ==
  ASSUME NEW S, NEW s \in Seq(S), NEW t \in Seq(S)
  PROVE  Joined(s \o t, s, t)
<1> USE DEF Joined
<1>1. \A i \in DOMAIN s : (s \o t)[i] = s[i] /\ i \in DOMAIN (s \o t)
  OBVIOUS
<1>2. \A i \in DOMAIN t : (s \o t)[Len(s) + i] = t[i] /\ Len(s) + i \in DOMAIN (s \o t)
  OBVIOUS
<1>3. \A i \in DOMAIN (s \o t) : i \notin DOMAIN s =>
        i - Len(s) \in DOMAIN t /\ (s \o t)[i] = t[i - Len(s)]
  OBVIOUS
<1>4. ASSUME NEW x \in Elements(s \o t) PROVE x \in Elements(s) \cup Elements(t)
  <2> PICK i \in DOMAIN (s \o t) : (s \o t)[i] = x
    BY <1>4 DEF Elements
  <2> QED
    BY <1>1, <1>3 DEF Elements
<1>5. Elements(s) \cup Elements(t) \subseteq Elements(s \o t)
  <2>1. Elements(s) \subseteq Elements(s \o t)
    BY <1>1 DEF Elements
  <2>2. ASSUME NEW j \in DOMAIN t PROVE t[j] \in Elements(s \o t)
    BY <1>2 DEF Elements
  <2> QED
    BY <2>1, <2>2 DEF Elements
<1> QED
  BY <1>4, <1>5

LEMMA ElementsTail ==
  ASSUME NEW S, NEW s \in Seq(S), s # << >>
  PROVE  Elements(s) = {Head(s)} \cup Elements(Tail(s))
<1>1. Head(s) = s[1] /\ 1 \in DOMAIN s
  OBVIOUS
<1>2. \A i \in DOMAIN Tail(s) : Tail(s)[i] = s[i + 1] /\ i + 1 \in DOMAIN s
  OBVIOUS
<1>3. \A i \in DOMAIN s : i # 1 => i - 1 \in DOMAIN Tail(s) /\ Tail(s)[i - 1] = s[i]
  OBVIOUS
<1>4. ASSUME NEW i \in DOMAIN s PROVE s[i] \in {Head(s)} \cup Elements(Tail(s))
  BY <1>1, <1>3 DEF Elements
<1>5. ASSUME NEW i \in DOMAIN Tail(s) PROVE Tail(s)[i] \in Elements(s)
  BY <1>2 DEF Elements
<1> QED
  BY <1>1, <1>4, <1>5 DEF Elements

\* The loggers that the propagation p has set, or that another has set since.
Marked(p) == {l \in Log!Loggers : setting[l] = p \/ l \in later[p]}

\* Of the loggers that p is to reach, those in V are set, and what was made from the others
\* is met on the way from those it has yet to visit.
Reaching(p, V) ==
  /\ V \subseteq Marked(p) \cap Log!Existing
  /\ \A S \in SUBSET Log!Loggers :
       /\ V \cup Elements(toVisit[p]) \subseteq S
       /\ \A m \in target[p] \cap Makers : from[m] \in S \ V => m \in S
       => target[p] \subseteq S

LoggerTypes ==
  /\ Log!TypeOK
  /\ from \in [Makers -> Log!Loggers]
  /\ target \in [Propagators -> SUBSET Log!Loggers]
  /\ later \in [Propagators -> SUBSET Log!Loggers]

\* Whatever has been made from a logger is registered with it, and nothing else is.
Registered ==
  /\ \A m \in Makers : maker[m] = "returned" => m \in Elements(subLoggers[from[m]])
  /\ \A l \in Log!Loggers : Elements(subLoggers[l]) \subseteq Log!Existing

Reached(p) ==
  /\ Elements(toVisit[p]) \subseteq Log!Existing /\ target[p] \subseteq Log!Existing
  /\ callPc[p] # "running" => toVisit[p] = << >>
  /\ callPc[p] = "idle" => target[p] = {}
  /\ callPc[p] = "returned" => target[p] \subseteq Marked(p)
  /\ callPc[p] = "running" => \E V \in SUBSET Log!Loggers : Reaching(p, V)

LoggerInv == LoggerTypes /\ Registered /\ \A p \in Propagators : Reached(p)

LEMMA LoggerInit == Log!Init => LoggerInv
<1> SUFFICES ASSUME Log!Init PROVE LoggerInv
  OBVIOUS
<1>1. LoggerTypes
  BY DEF Log!Init, LoggerTypes, Log!TypeOK, Log!Loggers
<1>2. Registered
  BY DEF Log!Init, Registered, Log!Loggers, Elements
<1>3. \A p \in Propagators : Reached(p)
  BY DEF Log!Init, Reached, Elements
<1> QED
  BY <1>1, <1>2, <1>3 DEF LoggerInv

\* Setting a logger unmarks none for those that have begun.
LEMMA AssignMarks ==
  ASSUME LoggerTypes, NEW l \in Log!Loggers, NEW v \in Propagators, Log!Assign(l, v)
  PROVE  /\ setting' \in [Log!Loggers -> Log!Loggers \cup Propagators]
         /\ later' \in [Propagators -> SUBSET Log!Loggers]
         /\ \A p \in Propagators : callPc[p] # "idle" => Marked(p) \subseteq Marked(p)'
         /\ l \in Marked(v)'
<1> USE DEF LoggerTypes, Log!TypeOK
<1>1. setting' \in [Log!Loggers -> Log!Loggers \cup Propagators] /\ setting' = [setting EXCEPT ![l] = v]
  BY DEF Log!Assign
<1>2. /\ later' \in [Propagators -> SUBSET Log!Loggers]
      /\ \A p \in Propagators : later'[p] = IF p # v /\ callPc[p] # "idle" THEN later[p] \cup {l} ELSE later[p]
  BY DEF Log!Assign
<1>3. ASSUME NEW p \in Propagators, callPc[p] # "idle" PROVE Marked(p) \subseteq Marked(p)'
  <2> SUFFICES ASSUME NEW k \in Log!Loggers, setting[k] = p \/ k \in later[p]
               PROVE  setting'[k] = p \/ k \in later'[p]
    BY DEF Marked
  <2>1. later[p] \subseteq later'[p] /\ (p # v => l \in later'[p])
    BY <1>2, <1>3
  <2>2. CASE k = l
    BY <1>1, <2>1, <2>2
  <2>3. CASE k # l
    BY <1>1, <2>1, <2>3
  <2> QED
    BY <2>2, <2>3
<1>4. l \in Marked(v)'
  BY <1>1 DEF Marked
<1> QED
  BY <1>1, <1>2, <1>3, <1>4

\* What leaves the visits and the made loggers alone keeps a propagation reaching.
LEMMA ReachedKept ==
  ASSUME NEW p \in Propagators, Reached(p),
         UNCHANGED <<toVisit[p], target[p], callPc[p]>>,
         Log!Existing \subseteq Log!Existing',
         \A m \in Makers : maker[m] = "returned" => from'[m] = from[m],
         \A l \in Log!Existing : callPc[p] # "idle" /\ l \in Marked(p) => l \in Marked(p)',
         DeliveryAssumption
  PROVE  Reached(p)'
<1> USE DEF Reached
<1>1. CASE callPc[p] = "running"
  <2> PICK V \in SUBSET Log!Loggers : Reaching(p, V)
    BY <1>1
  <2>1. V \subseteq Marked(p)' \cap Log!Existing'
    BY <1>1 DEF Reaching
  <2>2. \A m \in target[p] \cap Makers : from'[m] = from[m]
    BY DEF Log!Existing, DeliveryAssumption
  <2>3. Reaching(p, V)'
    <3> SUFFICES ASSUME NEW S \in SUBSET Log!Loggers,
                        V \cup Elements(toVisit[p]) \subseteq S,
                        \A m \in target[p] \cap Makers : from'[m] \in S \ V => m \in S
                 PROVE  target[p] \subseteq S
      BY <2>1 DEF Reaching, Log!Loggers
    <3>1. \A m \in target[p] \cap Makers : from[m] \in S \ V => m \in S
      BY <2>2
    <3> QED
      BY <3>1 DEF Reaching
  <2>4. Log!Loggers' = Log!Loggers
    BY DEF Log!Loggers
  <2> QED
    BY <1>1, <2>3, <2>4
<1>2. CASE callPc[p] # "running"
  <2>1. callPc[p] = "returned" => target[p] \subseteq Marked(p)'
    BY <1>2
  <2> QED
    BY <1>2, <2>1
<1> QED
  BY <1>1, <1>2

LEMMA VisitReaches ==
  ASSUME LoggerInv, DeliveryAssumption, NEW p \in Propagators, Log!Visit(p)
  PROVE  Reached(p)'
<1> PICK l : l = Head(toVisit[p])
  OBVIOUS
<1>0. LoggerTypes /\ Registered /\ Reached(p)
  BY DEF LoggerInv
<1>1. /\ toVisit[p] # << >> /\ toVisit[p] \in Seq(Log!Loggers) /\ l \in Log!Loggers
      /\ toVisit' = [toVisit EXCEPT ![p] = subLoggers[l] \o Tail(toVisit[p])]
      /\ Log!Assign(l, p) /\ UNCHANGED <<subLoggers, maker, from, callPc, target>>
  <2>1. toVisit[p] # << >> /\ toVisit[p] \in Seq(Log!Loggers)
    BY <1>0 DEF Log!Visit, LoggerTypes, Log!TypeOK
  <2>2. l \in Log!Loggers
    BY <2>1
  <2> QED
    BY <2>1, <2>2 DEF Log!Visit
<1>2. /\ subLoggers[l] \in Seq(Log!Loggers) /\ Tail(toVisit[p]) \in Seq(Log!Loggers)
      /\ toVisit'[p] = subLoggers[l] \o Tail(toVisit[p])
  <2>1. subLoggers[l] \in Seq(Makers) /\ toVisit \in [Propagators -> Seq(Log!Loggers)]
    BY <1>0, <1>1 DEF LoggerTypes, Log!TypeOK
  <2>2. subLoggers[l] \in Seq(Log!Loggers)
    BY <2>1 DEF Log!Loggers
  <2> QED
    BY <1>1, <2>1, <2>2
<1>3. /\ Elements(toVisit'[p]) = Elements(subLoggers[l]) \cup Elements(Tail(toVisit[p]))
      /\ Elements(toVisit[p]) = {l} \cup Elements(Tail(toVisit[p]))
  <2>1. Joined(subLoggers[l] \o Tail(toVisit[p]), subLoggers[l], Tail(toVisit[p]))
    BY <1>2, ElementsConcat
  <2>2. Elements(toVisit[p]) = {l} \cup Elements(Tail(toVisit[p]))
    BY <1>1, ElementsTail
  <2> QED
    BY <1>2, <2>1, <2>2 DEF Joined
<1>4. Elements(toVisit'[p]) \subseteq Log!Existing /\ l \in Log!Existing
  BY <1>0, <1>1, <1>3 DEF Registered, Reached
<1>5. callPc[p] = "running" /\ Log!Existing' = Log!Existing
  BY <1>0, <1>1 DEF Reached, Log!Existing
<1> PICK V \in SUBSET Log!Loggers : Reaching(p, V)
  BY <1>0, <1>5 DEF Reached
<1>6. V \cup {l} \subseteq Marked(p)' \cap Log!Existing
  BY <1>0, <1>1, <1>4, <1>5, AssignMarks DEF Reaching
<1>7. ASSUME NEW S \in SUBSET Log!Loggers, V \cup {l} \cup Elements(toVisit'[p]) \subseteq S,
             \A m \in target[p] \cap Makers : from[m] \in S \ (V \cup {l}) => m \in S
      PROVE  target[p] \subseteq S
  <2>1. V \cup Elements(toVisit[p]) \subseteq S
    BY <1>3, <1>7
  <2>2. ASSUME NEW m \in target[p] \cap Makers, from[m] \in S \ V PROVE m \in S
    <3>1. maker[m] = "returned"
      BY <1>0, DeliveryAssumption DEF Reached, Log!Existing, DeliveryAssumption
    <3>2. CASE from[m] = l
      BY <1>0, <1>3, <1>7, <3>1, <3>2 DEF Registered
    <3> QED
      BY <1>7, <2>2, <3>2
  <2> QED
    BY <2>1, <2>2 DEF Reaching
<1> PICK W : W = V \cup {l}
  OBVIOUS
<1>8. Reaching(p, W)'
  <2>1. UNCHANGED <<target, from>> /\ Log!Loggers' = Log!Loggers
    BY <1>1 DEF Log!Loggers
  <2>2. W \subseteq Marked(p)' \cap Log!Existing'
    BY <1>5, <1>6
  <2>3. ASSUME NEW S \in SUBSET Log!Loggers, W \cup Elements(toVisit'[p]) \subseteq S,
               \A m \in target'[p] \cap Makers : from'[m] \in S \ W => m \in S
        PROVE  target'[p] \subseteq S
    BY <1>7, <2>1, <2>3
  <2> QED
    BY <2>1, <2>2, <2>3 DEF Reaching
<1>9. W \in SUBSET Log!Loggers' /\ target[p] \subseteq Log!Existing
  BY <1>0, <1>1 DEF Log!Loggers, Reached
<1> QED
  BY <1>1, <1>4, <1>5, <1>8, <1>9 DEF Reached

LEMMA PropagateReaches ==
  ASSUME LoggerInv, DeliveryAssumption, NEW p \in Propagators, NEW l \in Log!Loggers, Log!Propagate(p, l)
  PROVE  Reached(p)'
<1>0. LoggerTypes /\ l \in Log!Existing
  BY DEF LoggerInv, Log!Propagate
<1>1. /\ callPc'[p] = "running" /\ toVisit'[p] = <<l>> /\ target'[p] = Log!Below(l)
      /\ UNCHANGED <<maker, from>>
  BY <1>0 DEF Log!Propagate, LoggerTypes, Log!TypeOK
<1>2. Elements(<<l>>) = {l}
  BY DEF Elements
<1>3. Log!Below(l) \subseteq Log!Existing
  <2>1. \A m \in Makers : maker[m] = "returned" /\ from[m] \in Log!Existing => m \in Log!Existing
    BY DEF Log!Existing
  <2>2. Log!Existing \in SUBSET Log!Loggers
    BY DEF Log!Existing, Log!Loggers
  <2> QED
    BY <1>0, <2>1, <2>2 DEF Log!Below
<1>4. ASSUME NEW S \in SUBSET Log!Loggers, l \in S,
             \A m \in Log!Below(l) \cap Makers : from[m] \in S => m \in S
      PROVE  Log!Below(l) \subseteq S
  <2> DEFINE T == S \cap Log!Below(l)
  <2>1. l \in T
    BY <1>4 DEF Log!Below
  <2>2. ASSUME NEW m \in Makers, maker[m] = "returned", from[m] \in T PROVE m \in T
    <3>1. m \in Log!Below(l)
      BY <2>2 DEF Log!Below, Log!Loggers
    <3> QED
      BY <1>4, <2>2, <3>1
  <2>3. T \in SUBSET Log!Loggers
    OBVIOUS
  <2> HIDE DEF T
  <2>4. Log!Below(l) \subseteq T
    BY <2>1, <2>2, <2>3 DEF Log!Below
  <2> QED
    BY <2>4 DEF T
<1>5. Reaching(p, {})'
  BY <1>1, <1>2, <1>4 DEF Reaching, Log!Loggers
<1>6. Log!Existing' = Log!Existing /\ {} \in SUBSET Log!Loggers'
  BY <1>1 DEF Log!Existing
<1> QED
  BY <1>0, <1>1, <1>2, <1>3, <1>5, <1>6 DEF Reached

LEMMA LoggerStep == LoggerInv /\ [Log!Next]_loggerVars => LoggerInv'
<1> SUFFICES ASSUME LoggerInv, [Log!Next]_loggerVars PROVE LoggerInv'
  OBVIOUS
<1>0. LoggerTypes /\ Registered /\ (\A p \in Propagators : Reached(p)) /\ DeliveryAssumption
  BY DeliveryAssumption DEF LoggerInv
<1>1. ASSUME NEW m \in Makers, NEW l \in Log!Loggers, NEW own \in BOOLEAN, Log!Copy(m, l, own)
      PROVE  LoggerInv'
  <2>1. /\ m \notin Log!Existing /\ Log!Existing' = Log!Existing
        /\ \A k \in Makers : k # m => from'[k] = from[k] /\ (maker'[k] = "returned" <=> maker[k] = "returned")
        /\ maker[m] = "idle" /\ maker'[m] = "copied"
        /\ \A k \in Log!Loggers : k # m => setting'[k] = setting[k]
        /\ UNCHANGED <<subLoggers, callPc, toVisit, target, later>>
    BY <1>0, <1>1 DEF Log!Copy, LoggerTypes, Log!TypeOK, Log!Existing, Log!Loggers, DeliveryAssumption
  <2>2. LoggerTypes'
    BY <1>0, <1>1 DEF Log!Copy, LoggerTypes, Log!TypeOK, Log!Loggers
  <2>3. Registered'
    BY <1>0, <2>1 DEF Registered, Log!Loggers
  <2>4. ASSUME NEW p \in Propagators PROVE Reached(p)'
    <3>1. \A k \in Log!Existing : k \in Marked(p) => k \in Marked(p)'
      BY <2>1 DEF Marked, Log!Loggers
    <3>2. \A k \in Makers : maker[k] = "returned" => from'[k] = from[k]
      BY <2>1
    <3> QED
      BY <1>0, <2>1, <3>1, <3>2, ReachedKept
  <2> QED
    BY <2>2, <2>3, <2>4 DEF LoggerInv
<1>2. ASSUME NEW m \in Makers, Log!registerSubLogger(m) PROVE LoggerInv'
  <2> DEFINE f == from[m]
  <2>1. /\ f \in Log!Loggers /\ subLoggers[f] \in Seq(Makers)
        /\ subLoggers' = [subLoggers EXCEPT ![f] = Append(subLoggers[f], m)]
        /\ maker' = [maker EXCEPT ![m] = "returned"]
        /\ UNCHANGED <<setting, from, callPc, toVisit, target, later>>
    BY <1>0, <1>2 DEF Log!registerSubLogger, LoggerTypes, Log!TypeOK
  <2> HIDE DEF f
  <2>2. Elements(Append(subLoggers[f], m)) = Elements(subLoggers[f]) \cup {m}
    BY <2>1, ElementsAppend
  <2>3. Log!Existing' = Log!Existing \cup {m}
    BY <1>0, <2>1 DEF Log!Existing, LoggerTypes, Log!TypeOK
  <2>4. LoggerTypes'
    BY <1>0, <2>1 DEF LoggerTypes, Log!TypeOK, Log!Loggers
  <2>5. /\ subLoggers'[f] = Append(subLoggers[f], m)
        /\ \A k \in Log!Loggers : k # f => subLoggers'[k] = subLoggers[k]
    BY <1>0, <2>1 DEF LoggerTypes, Log!TypeOK
  <2>6. \A k \in Log!Loggers : /\ Elements(subLoggers[k]) \subseteq Elements(subLoggers'[k])
                               /\ Elements(subLoggers'[k]) \subseteq Elements(subLoggers[k]) \cup {m}
    BY <2>2, <2>5
  <2>7. ASSUME NEW k \in Makers, maker'[k] = "returned" PROVE k \in Elements(subLoggers'[from[k]])
    <3>1. CASE k = m
      BY <2>2, <2>5, <3>1 DEF f
    <3>2. CASE k # m
      <4>1. maker[k] = "returned" /\ from[k] \in Log!Loggers
        BY <1>0, <2>1, <2>7, <3>2 DEF LoggerTypes, Log!TypeOK
      <4> QED
        BY <1>0, <2>6, <4>1 DEF Registered
    <3> QED
      BY <3>1, <3>2
  <2>8. Registered'
    BY <1>0, <2>1, <2>3, <2>6, <2>7 DEF Registered, Log!Loggers
  <2>9. ASSUME NEW p \in Propagators PROVE Reached(p)'
    <3>1. \A k \in Log!Existing : k \in Marked(p) => k \in Marked(p)'
      BY <2>1 DEF Marked, Log!Loggers
    <3> QED
      BY <1>0, <2>1, <2>3, <3>1, ReachedKept
  <2> QED
    BY <2>4, <2>8, <2>9 DEF LoggerInv
<1>3. ASSUME NEW p \in Propagators, NEW l \in Log!Loggers, Log!Set(p, l) PROVE LoggerInv'
  <2>1. /\ Log!Assign(l, p) /\ callPc' = [callPc EXCEPT ![p] = "returned"] /\ callPc[p] = "idle"
        /\ UNCHANGED <<subLoggers, maker, from, toVisit, target>>
    BY <1>3 DEF Log!Set
  <2>2. /\ setting' \in [Log!Loggers -> Log!Loggers \cup Propagators]
        /\ later' \in [Propagators -> SUBSET Log!Loggers]
        /\ \A q \in Propagators : callPc[q] # "idle" => Marked(q) \subseteq Marked(q)'
    BY <1>0, <2>1, AssignMarks
  <2>3. LoggerTypes'
    BY <1>0, <2>1, <2>2 DEF LoggerTypes, Log!TypeOK, Log!Loggers
  <2>4. Log!Existing' = Log!Existing /\ Log!Loggers' = Log!Loggers
    BY <2>1 DEF Log!Existing, Log!Loggers
  <2>5. Registered'
    BY <1>0, <2>1, <2>4 DEF Registered
  <2>6. Reached(p)'
    BY <1>0, <2>1, <2>4 DEF Reached, LoggerTypes, Log!TypeOK
  <2>7. ASSUME NEW q \in Propagators, q # p PROVE Reached(q)'
    <3>1. callPc'[q] = callPc[q]
      BY <1>0, <2>1, <2>7 DEF LoggerTypes, Log!TypeOK
    <3> QED
      BY <1>0, <2>1, <2>2, <2>4, <3>1, ReachedKept
  <2> QED
    BY <2>3, <2>5, <2>6, <2>7 DEF LoggerInv
<1>4. ASSUME NEW p \in Propagators, NEW l \in Log!Loggers, Log!Propagate(p, l) PROVE LoggerInv'
  <2>1. /\ callPc' = [callPc EXCEPT ![p] = "running"] /\ toVisit' = [toVisit EXCEPT ![p] = <<l>>]
        /\ target' = [target EXCEPT ![p] = Log!Below(l)]
        /\ UNCHANGED <<setting, subLoggers, maker, from, later>>
    BY <1>4 DEF Log!Propagate
  <2>2. Log!Below(l) \in SUBSET Log!Loggers
    BY DEF Log!Below
  <2>3. LoggerTypes'
    BY <1>0, <2>1, <2>2 DEF LoggerTypes, Log!TypeOK, Log!Loggers
  <2>4. Log!Existing' = Log!Existing /\ Log!Loggers' = Log!Loggers /\ \A q : Marked(q)' = Marked(q)
    BY <2>1 DEF Log!Existing, Log!Loggers, Marked
  <2>5. Registered'
    BY <1>0, <2>1, <2>4 DEF Registered
  <2>6. Reached(p)'
    BY <1>0, <1>4, PropagateReaches
  <2>7. ASSUME NEW q \in Propagators, q # p PROVE Reached(q)'
    <3>1. callPc'[q] = callPc[q] /\ toVisit'[q] = toVisit[q] /\ target'[q] = target[q]
      BY <1>0, <2>1, <2>7 DEF LoggerTypes, Log!TypeOK
    <3> QED
      BY <1>0, <2>1, <2>4, <3>1, ReachedKept
  <2> QED
    BY <2>3, <2>5, <2>6, <2>7 DEF LoggerInv
<1>5. ASSUME NEW p \in Propagators, Log!Visit(p) PROVE LoggerInv'
  <2> DEFINE l == Head(toVisit[p])
  <2>1. /\ l \in Log!Loggers /\ Log!Assign(l, p) /\ toVisit[p] # << >>
        /\ toVisit[p] \in Seq(Log!Loggers) /\ subLoggers[l] \in Seq(Makers)
        /\ toVisit' = [toVisit EXCEPT ![p] = subLoggers[l] \o Tail(toVisit[p])]
        /\ UNCHANGED <<subLoggers, maker, from, callPc, target>>
    <3>1. toVisit[p] # << >> /\ toVisit[p] \in Seq(Log!Loggers)
      BY <1>0, <1>5 DEF Log!Visit, LoggerTypes, Log!TypeOK
    <3>2. l \in Log!Loggers
      BY <3>1
    <3> QED
      BY <1>0, <1>5, <3>1, <3>2 DEF Log!Visit, LoggerTypes, Log!TypeOK
  <2> HIDE DEF l
  <2>2. /\ setting' \in [Log!Loggers -> Log!Loggers \cup Propagators]
        /\ later' \in [Propagators -> SUBSET Log!Loggers]
        /\ \A q \in Propagators : callPc[q] # "idle" => Marked(q) \subseteq Marked(q)'
    BY <1>0, <2>1, AssignMarks
  <2>3. LoggerTypes'
    <3>1. subLoggers[l] \o Tail(toVisit[p]) \in Seq(Log!Loggers)
      <4>1. subLoggers[l] \in Seq(Log!Loggers)
        BY <2>1 DEF Log!Loggers
      <4> QED
        BY <2>1, <4>1
    <3> QED
      BY <1>0, <2>1, <2>2, <3>1 DEF LoggerTypes, Log!TypeOK, Log!Loggers
  <2>4. Log!Existing' = Log!Existing /\ Log!Loggers' = Log!Loggers
    BY <2>1 DEF Log!Existing, Log!Loggers
  <2>5. Registered'
    BY <1>0, <2>1, <2>4 DEF Registered
  <2>6. Reached(p)'
    BY <1>0, <1>5, VisitReaches
  <2>7. ASSUME NEW q \in Propagators, q # p PROVE Reached(q)'
    <3>1. toVisit'[q] = toVisit[q]
      BY <1>0, <2>1, <2>7 DEF LoggerTypes, Log!TypeOK
    <3> QED
      BY <1>0, <2>1, <2>2, <2>4, <3>1, ReachedKept
  <2> QED
    BY <2>3, <2>5, <2>6, <2>7 DEF LoggerInv
<1>6. ASSUME NEW p \in Propagators, Log!Return(p) PROVE LoggerInv'
  <2>1. /\ callPc' = [callPc EXCEPT ![p] = "returned"] /\ callPc[p] = "running" /\ toVisit[p] = << >>
        /\ UNCHANGED <<setting, subLoggers, maker, from, toVisit, target, later>>
    BY <1>6 DEF Log!Return
  <2>3. LoggerTypes'
    BY <1>0, <2>1 DEF LoggerTypes, Log!TypeOK, Log!Loggers
  <2>4. Log!Existing' = Log!Existing /\ Log!Loggers' = Log!Loggers /\ \A q : Marked(q)' = Marked(q)
    BY <2>1 DEF Log!Existing, Log!Loggers, Marked
  <2>5. Registered'
    BY <1>0, <2>1, <2>4 DEF Registered
  <2>6. Reached(p)'
    <3> PICK V \in SUBSET Log!Loggers : Reaching(p, V)
      BY <1>0, <2>1 DEF Reached
    <3>1. target[p] \subseteq V
      BY <2>1 DEF Reaching, Elements
    <3>2. V \subseteq Marked(p)
      BY DEF Reaching
    <3>3. callPc'[p] = "returned"
      BY <1>0, <2>1 DEF LoggerTypes, Log!TypeOK
    <3> QED
      BY <1>0, <2>1, <2>4, <3>1, <3>2, <3>3 DEF Reached
  <2>7. ASSUME NEW q \in Propagators, q # p PROVE Reached(q)'
    <3>1. callPc'[q] = callPc[q]
      BY <1>0, <2>1, <2>7 DEF LoggerTypes, Log!TypeOK
    <3> QED
      BY <1>0, <2>1, <2>4, <3>1, ReachedKept
  <2> QED
    BY <2>3, <2>5, <2>6, <2>7 DEF LoggerInv
<1>7. CASE UNCHANGED loggerVars
  <2>1. UNCHANGED <<setting, subLoggers, maker, from, callPc, toVisit, target, later>>
    BY <1>7 DEF loggerVars
  <2>2. Log!Existing' = Log!Existing /\ Log!Loggers' = Log!Loggers /\ \A q : Marked(q)' = Marked(q)
    BY <2>1 DEF Log!Existing, Log!Loggers, Marked
  <2>3. LoggerTypes' /\ Registered'
    BY <1>0, <2>1, <2>2 DEF LoggerTypes, Log!TypeOK, Registered
  <2>4. ASSUME NEW q \in Propagators PROVE Reached(q)'
    BY <1>0, <2>1, <2>2, ReachedKept
  <2> QED
    BY <2>3, <2>4 DEF LoggerInv
<1> QED
  BY <1>1, <1>2, <1>3, <1>4, <1>5, <1>6, <1>7 DEF Log!Next, Log!WithPrefix

LEMMA LoggerReaches == LoggerInv => Log!PropagationReaches
BY DEF LoggerInv, Reached, Marked, Log!PropagationReaches

-----------------------------------------------------------------------------
(* Timer *)

Run == [pc : {"fn", "lock", "reset", "ended"}, repeat : BOOLEAN]

TimerTypes ==
  /\ Timer!TypeOK /\ runs \in Seq(Run) /\ panicked \in BOOLEAN
  /\ ctl \in {"assign", "open"} => handle = 0
  /\ stopped => handle = 0 /\ ctl = "idle"

\* A timer that nothing disturbs is armed or runs, but not both, and neither when it is
\* stopped or was never started; what is armed is the timer that the handle is of.
AloneRuns ==
  /\ \A r, q \in Timer!Active : r = q
  /\ pending = {} \/ Timer!Active = {}
  /\ ctl = "assign" => Timer!Active = {} /\ pending \subseteq {Len(mode)}
  /\ ctl # "assign" => pending \subseteq {handle}
  /\ ctl \in {"setNil", "open"} \/ (ctl = "idle" /\ handle = 0) => pending = {} /\ Timer!Active = {}
  /\ ~panicked

\* A timer that does not repeat is never armed again by its function, and each call arms
\* it once.
OneRunEach ==
  /\ ~panicked
  /\ \A r \in DOMAIN runs : runs[r].pc \in {"fn", "ended"} /\ ~runs[r].repeat
  /\ Len(runs) + Cardinality(pending) <= calls

TimerInv ==
  /\ TimerTypes
  /\ ~disturbed => AloneRuns
  /\ Timer!OneShots => OneRunEach

LEMMA TimerInit == Timer!New => TimerInv
<1> SUFFICES ASSUME Timer!New PROVE TimerInv
  OBVIOUS
<1>1. TimerTypes
  <2>1. mode \in Seq(BOOLEAN) /\ Len(mode) = 0 /\ runs \in Seq(Run) /\ DOMAIN runs = {}
    BY DEF Timer!New
  <2>2. calls \in 0 .. MaxCalls
    BY DeliveryAssumption DEF DeliveryAssumption, Timer!New
  <2>3. handle \in 0 .. Len(mode) /\ pending \subseteq 1 .. Len(mode)
    BY <2>1 DEF Timer!New
  <2> QED
    BY <2>1, <2>2, <2>3 DEF Timer!New, TimerTypes, Timer!TypeOK
<1>2. Timer!Active = {}
  BY DEF Timer!New, Timer!Active
<1>3. AloneRuns
  BY <1>2 DEF Timer!New, AloneRuns
<1>4. OneRunEach
  BY FS_EmptySet DEF Timer!New, OneRunEach
<1> QED
  BY <1>1, <1>3, <1>4 DEF TimerInv

LEMMA RunPc ==
  ASSUME NEW s \in Seq(Run), NEW q \in DOMAIN s
  PROVE  s[q].pc \in {"fn", "lock", "reset", "ended"}
<1>1. s[q] \in Run
  OBVIOUS
<1> QED
  BY <1>1 DEF Run

\* A run that goes on or ends.
LEMMA GotoRuns ==
  ASSUME TimerTypes, NEW r \in DOMAIN runs, NEW p \in {"fn", "lock", "reset", "ended"}, Timer!Goto(r, p)
  PROVE  /\ runs' \in Seq(Run) /\ DOMAIN runs' = DOMAIN runs /\ Len(runs') = Len(runs)
         /\ \A q \in DOMAIN runs : q # r => runs'[q] = runs[q]
         /\ runs'[r].pc = p /\ runs'[r].repeat = runs[r].repeat
         /\ runs[r].pc # "ended" => Timer!Active' \subseteq Timer!Active
         /\ p = "ended" => Timer!Active' = Timer!Active \ {r}
<1>1. runs' = [runs EXCEPT ![r].pc = p] /\ runs \in Seq(Run)
  BY DEF Timer!Goto, TimerTypes
<1>2. /\ runs' \in Seq(Run) /\ DOMAIN runs' = DOMAIN runs /\ Len(runs') = Len(runs)
      /\ \A q \in DOMAIN runs : q # r => runs'[q] = runs[q]
      /\ runs'[r].pc = p /\ runs'[r].repeat = runs[r].repeat
  <2>0. runs[r] \in Run
    BY <1>1
  <2> PICK new \in Run : new = [runs[r] EXCEPT !.pc = p]
    BY <2>0 DEF Run
  <2>1. runs' = [runs EXCEPT ![r] = new]
    BY <1>1
  <2>2. new.pc = p /\ new.repeat = runs[r].repeat
    BY <2>0 DEF Run
  <2>3. /\ runs' \in Seq(Run) /\ DOMAIN runs' = DOMAIN runs /\ Len(runs') = Len(runs)
        /\ \A q \in DOMAIN runs : q # r => runs'[q] = runs[q]
        /\ runs'[r] = new
    BY <1>1, <2>1
  <2> QED
    BY <2>2, <2>3
<1> QED
  BY <1>2 DEF Timer!Active

LEMMA FireRuns ==
  ASSUME TimerTypes, NEW t \in pending, Timer!Fire(t)
  PROVE  /\ t \in DOMAIN mode /\ mode[t] \in BOOLEAN
         /\ runs' \in Seq(Run) /\ DOMAIN runs' = DOMAIN runs \cup {Len(runs) + 1} /\ Len(runs') = Len(runs) + 1
         /\ \A q \in DOMAIN runs : runs'[q] = runs[q]
         /\ runs'[Len(runs) + 1] = [pc |-> "fn", repeat |-> mode[t]]
         /\ Timer!Active' = Timer!Active \cup {Len(runs) + 1}
<1>1. /\ runs' = Append(runs, [pc |-> "fn", repeat |-> mode[t]]) /\ runs \in Seq(Run)
      /\ t \in DOMAIN mode /\ mode[t] \in BOOLEAN
  BY DEF Timer!Fire, TimerTypes, Timer!TypeOK
<1> PICK n \in Nat : n = Len(runs)
  BY <1>1
<1> PICK new \in Run : new = [pc |-> "fn", repeat |-> mode[t]]
  BY <1>1 DEF Run
<1>2. /\ runs' \in Seq(Run) /\ DOMAIN runs' = DOMAIN runs \cup {n + 1} /\ Len(runs') = n + 1
      /\ \A q \in DOMAIN runs : runs'[q] = runs[q]
      /\ runs'[n + 1] = new
  BY <1>1
<1>3. Timer!Active' = Timer!Active \cup {n + 1}
  BY <1>2 DEF Timer!Active
<1> QED
  BY <1>1, <1>2, <1>3

LEMMA TimerTypesStep == TimerInv /\ [Timer!Next]_timerVars => TimerTypes'
<1> SUFFICES ASSUME TimerTypes, [Timer!Next]_timerVars PROVE TimerTypes'
  BY DEF TimerInv
<1> USE DEF TimerTypes, Timer!TypeOK
<1>0. MaxCalls \in Nat /\ MaxRuns \in Nat
  BY DeliveryAssumption DEF DeliveryAssumption
<1>1. ASSUME NEW repeat \in BOOLEAN, Timer!Start(repeat) PROVE TimerTypes'
  <2>1. mode' \in Seq(BOOLEAN) /\ Len(mode') = Len(mode) + 1
    BY <1>1 DEF Timer!Start
  <2> PICK n \in Nat : n = Len(mode)
    OBVIOUS
  <2>2. pending' = pending \cup {n + 1} /\ handle' = handle /\ pending \subseteq 1 .. n /\ handle \in 0 .. n
    BY <1>1 DEF Timer!Start
  <2>3. pending' \subseteq 1 .. n + 1 /\ handle' \in 0 .. n + 1
    <3>1. 1 .. n \subseteq 1 .. n + 1 /\ 0 .. n \subseteq 0 .. n + 1 /\ n + 1 \in 1 .. n + 1
      OBVIOUS
    <3> QED
      BY ONLY <2>2, <3>1
  <2> QED
    BY <1>0, <1>1, <2>1, <2>3 DEF Timer!Start, Timer!Lock
<1>2. CASE Timer!Assign
  BY <1>2 DEF Timer!Assign, Timer!gateVars, Timer!historyVars
<1>3. CASE Timer!Stop
  BY <1>3 DEF Timer!Stop, Timer!gateVars, Timer!historyVars
<1>4. CASE Timer!SetNil
  BY <1>4 DEF Timer!SetNil, Timer!gateVars, Timer!historyVars
<1>5. CASE Timer!OpenStopped
  BY <1>5 DEF Timer!OpenStopped, Timer!Open
<1>6. CASE Timer!Reset
  BY <1>0, <1>6 DEF Timer!Reset, Timer!gateVars
<1>7. ASSUME NEW t \in pending, Timer!Fire(t) PROVE TimerTypes'
  <2>1. runs' \in Seq(Run) /\ DOMAIN runs' = DOMAIN runs \cup {Len(runs) + 1}
    BY <1>7, FireRuns
  <2> QED
    BY <1>7, <2>1 DEF Timer!Fire, Timer!gateVars, Run
<1>8. ASSUME NEW r \in DOMAIN runs, Timer!OpenAfterFn(r) PROVE TimerTypes'
  <2>1. runs' \in Seq(Run)
    BY <1>8, GotoRuns DEF Timer!OpenAfterFn
  <2>2. \A q \in DOMAIN runs' : runs'[q].pc \in {"fn", "lock", "reset", "ended"}
    BY <2>1, RunPc
  <2> QED
    BY <1>8, <2>1, <2>2 DEF Timer!OpenAfterFn, Timer!Open, Timer!historyVars
<1>9. ASSUME NEW r \in DOMAIN runs, Timer!LockAgain(r) PROVE TimerTypes'
  <2>1. runs' \in Seq(Run)
    BY <1>9, GotoRuns DEF Timer!LockAgain
  <2>2. \A q \in DOMAIN runs' : runs'[q].pc \in {"fn", "lock", "reset", "ended"}
    BY <2>1, RunPc
  <2> QED
    BY <1>9, <2>1, <2>2 DEF Timer!LockAgain, Timer!Lock, Timer!historyVars
<1>10. ASSUME NEW r \in DOMAIN runs, Timer!Rearm(r) PROVE TimerTypes'
  <2>1. runs' \in Seq(Run)
    BY <1>10, GotoRuns DEF Timer!Rearm
  <2>2. \A q \in DOMAIN runs' : runs'[q].pc \in {"fn", "lock", "reset", "ended"}
    BY <2>1, RunPc
  <2> QED
    BY <1>10, <2>1, <2>2 DEF Timer!Rearm, Timer!gateVars
<1>11. ASSUME NEW w \in TimerWaiters, Timer!Wait(w) \/ Timer!Wake(w) PROVE TimerTypes'
  <2>1. /\ waiter' \in [TimerWaiters -> {"idle", "asleep", "returned"}] /\ sleepers' \subseteq TimerWaiters
    BY <1>11 DEF Timer!Wait, Timer!Wake, Timer!Test
  <2>2. UNCHANGED <<handle, mode, pending, runs, ctl, calls, stopped, disturbed, panicked>>
    BY <1>11 DEF Timer!Wait, Timer!Wake, Timer!historyVars
  <2> QED
    BY <2>1, <2>2
<1>12. CASE UNCHANGED timerVars
  BY <1>12 DEF timerVars
<1> QED
  BY <1>1, <1>2, <1>3, <1>4, <1>5, <1>6, <1>7, <1>8, <1>9, <1>10, <1>11, <1>12
     DEF Timer!Next, Timer!Finish, Timer!Runtime

LEMMA AloneStep == TimerInv /\ [Timer!Next]_timerVars => (~disturbed' => AloneRuns')
<1> SUFFICES ASSUME TimerTypes, ~disturbed => AloneRuns, ~disturbed', [Timer!Next]_timerVars PROVE AloneRuns'
  BY DEF TimerInv
<1>0. AloneRuns
  BY DEF Timer!Next, Timer!Finish, Timer!Runtime, timerVars, Timer!Start, Timer!Assign, Timer!Stop,
         Timer!SetNil, Timer!OpenStopped, Timer!Reset, Timer!Fire, Timer!OpenAfterFn, Timer!LockAgain,
         Timer!Rearm, Timer!Wait, Timer!Wake, Timer!historyVars
<1>1. ASSUME NEW repeat \in BOOLEAN, Timer!Start(repeat) PROVE AloneRuns'
  <2>1. mode \in Seq(BOOLEAN) /\ mode' = Append(mode, repeat)
    BY <1>1 DEF TimerTypes, Timer!TypeOK, Timer!Start
  <2>2. Timer!Active' = {} /\ pending' = {Len(mode) + 1} /\ Len(mode') = Len(mode) + 1
    BY <1>0, <1>1, <2>1 DEF AloneRuns, Timer!Start, Timer!Active
  <2> QED
    BY <1>0, <1>1, <2>2 DEF AloneRuns, Timer!Start
<1>2. CASE Timer!Assign
  <2>1. Len(mode) = 0 => pending = {}
    BY DEF TimerTypes, Timer!TypeOK
  <2>2. Timer!Active' = Timer!Active /\ Timer!Active = {} /\ handle' = Len(mode) /\ pending \subseteq {Len(mode)}
    BY <1>0, <1>2 DEF Timer!Assign, AloneRuns, Timer!Active
  <2> QED
    BY <1>0, <1>2, <2>1, <2>2 DEF Timer!Assign, AloneRuns, Timer!historyVars
<1>3. CASE Timer!Stop
  BY <1>0, <1>3 DEF Timer!Stop, AloneRuns, Timer!Active, Timer!historyVars
<1>4. CASE Timer!SetNil
  BY <1>0, <1>4 DEF Timer!SetNil, AloneRuns, Timer!Active, Timer!historyVars
<1>5. CASE Timer!OpenStopped
  BY <1>0, <1>5 DEF Timer!OpenStopped, AloneRuns, Timer!Active, TimerTypes
<1>6. CASE Timer!Reset
  BY <1>0, <1>6 DEF Timer!Reset, AloneRuns, Timer!Active
<1>7. ASSUME NEW t \in pending, Timer!Fire(t) PROVE AloneRuns'
  <2>1. Timer!Active' = Timer!Active \cup {Len(runs) + 1}
    BY <1>7, FireRuns
  <2>2. Timer!Active = {} /\ ctl # "assign" /\ pending' = pending \ {t}
    BY <1>0, <1>7 DEF AloneRuns, Timer!Fire
  <2> QED
    BY <1>0, <1>7, <2>1, <2>2 DEF AloneRuns, Timer!Fire
<1>8. ASSUME NEW r \in DOMAIN runs, Timer!OpenAfterFn(r) PROVE AloneRuns'
  <2>1. Timer!Active' \subseteq Timer!Active
    BY <1>8, GotoRuns DEF Timer!OpenAfterFn
  <2> QED
    BY <1>0, <1>8, <2>1 DEF AloneRuns, Timer!OpenAfterFn, Timer!historyVars
<1>9. ASSUME NEW r \in DOMAIN runs, Timer!LockAgain(r) PROVE AloneRuns'
  <2>1. Timer!Active' \subseteq Timer!Active
    BY <1>9, GotoRuns DEF Timer!LockAgain
  <2> QED
    BY <1>0, <1>9, <2>1 DEF AloneRuns, Timer!LockAgain, Timer!historyVars
<1>10. ASSUME NEW r \in DOMAIN runs, Timer!Rearm(r) PROVE AloneRuns'
  <2>1. Timer!Active' = Timer!Active \ {r} /\ r \in Timer!Active
    BY <1>10, GotoRuns DEF Timer!Rearm, Timer!Active
  <2>2. ctl = "idle" /\ handle # 0 /\ pending = {}
    BY <1>0, <2>1 DEF AloneRuns, TimerTypes, Timer!TypeOK
  <2> QED
    BY <1>0, <1>10, <2>1, <2>2 DEF AloneRuns, Timer!Rearm
<1>11. ASSUME NEW w \in TimerWaiters, Timer!Wait(w) \/ Timer!Wake(w) PROVE AloneRuns'
  BY <1>0, <1>11 DEF AloneRuns, Timer!Active, Timer!Wait, Timer!Wake, Timer!historyVars
<1>12. CASE UNCHANGED timerVars
  BY <1>0, <1>12 DEF AloneRuns, Timer!Active, timerVars
<1> QED
  BY <1>1, <1>2, <1>3, <1>4, <1>5, <1>6, <1>7, <1>8, <1>9, <1>10, <1>11, <1>12
     DEF Timer!Next, Timer!Finish, Timer!Runtime

LEMMA OneRunStep == TimerInv /\ [Timer!Next]_timerVars => (Timer!OneShots' => OneRunEach')
<1> SUFFICES ASSUME TimerTypes, Timer!OneShots => OneRunEach, Timer!OneShots', [Timer!Next]_timerVars
             PROVE  OneRunEach'
  BY DEF TimerInv
<1>1. Timer!OneShots /\ OneRunEach /\ (mode' # mode => ~mode'[Len(mode) + 1])
  <2>1. CASE UNCHANGED mode
    BY <2>1 DEF Timer!OneShots
  <2>2. ASSUME NEW repeat \in BOOLEAN, Timer!Start(repeat) PROVE Timer!OneShots /\ OneRunEach /\ (mode' # mode => ~mode'[Len(mode) + 1])
    <3>1. mode \in Seq(BOOLEAN) /\ mode' = Append(mode, repeat)
      BY <2>2 DEF TimerTypes, Timer!TypeOK, Timer!Start
    <3>2. /\ \A t \in DOMAIN mode : t \in DOMAIN mode' /\ mode'[t] = mode[t]
          /\ Len(mode) + 1 \in DOMAIN mode'
      BY <3>1
    <3> QED
      BY <3>2 DEF Timer!OneShots
  <2> QED
    BY <2>1, <2>2 DEF Timer!Next, Timer!Finish, Timer!Runtime, timerVars, Timer!Assign, Timer!Stop,
         Timer!SetNil, Timer!OpenStopped, Timer!Reset, Timer!Fire, Timer!OpenAfterFn, Timer!LockAgain,
         Timer!Rearm, Timer!Wait, Timer!Wake
<1>2. IsFiniteSet(pending) /\ Cardinality(pending) \in Nat
  <2>1. IsFiniteSet(1 .. Len(mode)) /\ pending \subseteq 1 .. Len(mode)
    BY FS_Interval DEF TimerTypes, Timer!TypeOK
  <2> QED
    BY <2>1, FS_Subset, FS_CardinalityType
<1>3. Len(runs) \in Nat /\ calls \in Nat
  BY DeliveryAssumption DEF DeliveryAssumption, TimerTypes, Timer!TypeOK
<1>4. \A t : Cardinality(pending \cup {t}) <= Cardinality(pending) + 1
  BY <1>2, FS_AddElement
<1>5. \A t \in pending : Cardinality(pending \ {t}) = Cardinality(pending) - 1
  BY <1>2, FS_RemoveElement
<1>6. ASSUME NEW repeat \in BOOLEAN, Timer!Start(repeat) PROVE OneRunEach'
  <2>1. Cardinality(pending') <= Cardinality(pending) + 1 /\ Cardinality(pending') \in Nat
    BY <1>2, <1>4, <1>6, FS_AddElement, FS_CardinalityType DEF Timer!Start
  <2> QED
    BY <1>1, <1>2, <1>3, <1>6, <2>1 DEF OneRunEach, Timer!Start
<1>7. CASE Timer!Stop
  BY <1>1, <1>2, <1>3, <1>5, <1>7 DEF OneRunEach, Timer!Stop, Timer!historyVars
<1>8. CASE Timer!Assign \/ Timer!SetNil \/ Timer!OpenStopped
  BY <1>1, <1>8 DEF OneRunEach, Timer!Assign, Timer!SetNil, Timer!OpenStopped, Timer!historyVars
<1>9. CASE Timer!Reset
  <2>1. Cardinality(pending') <= Cardinality(pending) + 1 /\ Cardinality(pending') \in Nat
    BY <1>2, <1>4, <1>9, FS_AddElement, FS_CardinalityType DEF Timer!Reset
  <2> QED
    BY <1>1, <1>2, <1>3, <1>9, <2>1 DEF OneRunEach, Timer!Reset
<1>10. ASSUME NEW t \in pending, Timer!Fire(t) PROVE OneRunEach'
  <2>1. /\ t \in DOMAIN mode /\ Len(runs') = Len(runs) + 1
        /\ DOMAIN runs' = DOMAIN runs \cup {Len(runs) + 1}
        /\ \A q \in DOMAIN runs : runs'[q] = runs[q]
        /\ runs'[Len(runs) + 1] = [pc |-> "fn", repeat |-> mode[t]]
    BY <1>10, FireRuns
  <2>2. Cardinality(pending') = Cardinality(pending) - 1
    BY <1>5, <1>10 DEF Timer!Fire
  <2>3. \A r \in DOMAIN runs' : runs'[r].pc \in {"fn", "ended"} /\ ~runs'[r].repeat
    BY <1>1, <2>1 DEF OneRunEach, Timer!OneShots
  <2> QED
    BY <1>1, <1>2, <1>3, <1>10, <2>1, <2>2, <2>3 DEF OneRunEach, Timer!Fire
<1>11. ASSUME NEW r \in DOMAIN runs, Timer!OpenAfterFn(r) \/ Timer!LockAgain(r) \/ Timer!Rearm(r)
       PROVE  OneRunEach'
  <2>1. Timer!OpenAfterFn(r) /\ Timer!Goto(r, "ended")
    BY <1>1, <1>11 DEF OneRunEach, Timer!OpenAfterFn, Timer!LockAgain, Timer!Rearm
  <2>2. /\ DOMAIN runs' = DOMAIN runs /\ Len(runs') = Len(runs)
        /\ \A q \in DOMAIN runs : q # r => runs'[q] = runs[q]
        /\ runs'[r].pc = "ended" /\ runs'[r].repeat = runs[r].repeat
    BY <2>1, GotoRuns
  <2>3. \A q \in DOMAIN runs' : runs'[q].pc \in {"fn", "ended"} /\ ~runs'[q].repeat
    BY <1>1, <2>2 DEF OneRunEach
  <2> QED
    BY <1>1, <2>1, <2>2, <2>3 DEF OneRunEach, Timer!OpenAfterFn, Timer!historyVars
<1>12. ASSUME NEW w \in TimerWaiters, Timer!Wait(w) \/ Timer!Wake(w) PROVE OneRunEach'
  BY <1>1, <1>12 DEF OneRunEach, Timer!Wait, Timer!Wake, Timer!historyVars
<1>13. CASE UNCHANGED timerVars
  BY <1>1, <1>13 DEF OneRunEach, timerVars
<1> QED
  BY <1>6, <1>7, <1>8, <1>9, <1>10, <1>11, <1>12, <1>13
     DEF Timer!Next, Timer!Finish, Timer!Runtime

LEMMA TimerStep == TimerInv /\ [Timer!Next]_timerVars => TimerInv'
BY TimerTypesStep, AloneStep, OneRunStep DEF TimerInv

LEMMA TimerAgreed == TimerInv => Timer!TimerAgrees
<1> SUFFICES ASSUME TimerInv PROVE Timer!TimerAgrees
  OBVIOUS
<1>2. ASSUME OneRunEach PROVE ~panicked /\ Len(runs) <= calls
  <2>1. IsFiniteSet(1 .. Len(mode)) /\ pending \subseteq 1 .. Len(mode) /\ Len(runs) \in Nat /\ calls \in Nat
    BY FS_Interval, DeliveryAssumption DEF DeliveryAssumption, TimerInv, TimerTypes, Timer!TypeOK
  <2>2. Cardinality(pending) \in Nat
    BY <2>1, FS_Subset, FS_CardinalityType
  <2> QED
    BY <1>2, <2>1, <2>2 DEF OneRunEach
<1>3. ~disturbed => /\ (\A r, q \in Timer!Active : r = q) /\ ~panicked
                    /\ stopped => Timer!Active = {}
  BY DEF TimerInv, TimerTypes, AloneRuns
<1>4. Timer!OneShots => ~panicked /\ Len(runs) <= calls
  BY <1>2 DEF TimerInv
<1> QED
  BY <1>3, <1>4 DEF Timer!TimerAgrees

-----------------------------------------------------------------------------
(* Observable *)

ObserverTypes ==
  /\ Obs!TypeOK
  /\ \A s \in Setters : actorPc[s] \in {"idle", "lock", "stored", "notify", "returned"}
  /\ \A r \in Registrars : actorPc[r] \in {"idle", "lock", "on", "lockAgain", "off"}
  /\ registered \subseteq Registrars /\ due \in [Setters -> SUBSET Registrars]
  /\ stores \in Seq(Setters) /\ overlapped \in BOOLEAN /\ clash \in BOOLEAN

\* The observer of r is in the map, or would be had its id not been given again.
Holding(r) == actorPc[r] \in {"on", "lockAgain"}

\* The map has an observer under the id of the call that registered it, and a walk of the
\* map, which holds the lock, has no observer that was turned off.
Entries ==
  /\ \A i \in DOMAIN observerMap : Holding(observerMap[i]) /\ id[observerMap[i]] = i
  /\ \A r \in Registrars : actorPc[r] \in {"idle", "lock"} => id[r] = NoOne
  /\ \A s \in Setters : toCall[s] # {} => s \in readers /\ \A r \in toCall[s] : actorPc[r] # "off"

\* While no id is given twice whoever is registered is in the map.
Listed ==
  ~clash =>
    /\ \A q, r \in Registrars : Holding(q) /\ Holding(r) /\ id[q] = id[r] => q = r
    /\ \A r \in registered :
         actorPc[r] = "on" /\ id[r] \in DOMAIN observerMap /\ observerMap[id[r]] = r

Told(r) == Elements(seen[r])

\* What a Set owes is registered until it walks the map, and is then called or on its list.
Owed(s) ==
  /\ actorPc[s] \in {"lock", "stored"} => due[s] \subseteq registered
  /\ actorPc[s] \in {"notify", "returned"} =>
       \A r \in due[s] : s \in Told(r) \/ (actorPc[s] = "notify" /\ r \in toCall[s])

\* Observers are told what was stored, once; a Set that no other overlaps stored last.
ToldStored ==
  /\ \A r \in Registrars : Told(r) \subseteq Elements(stores)
  /\ \A s \in Setters :
       /\ actorPc[s] \in {"idle", "lock", "stored"} =>
            toCall[s] = {} /\ \A r \in Registrars : s \notin Told(r)
       /\ \A r \in toCall[s] : s \notin Told(r)
       /\ actorPc[s] \in {"stored", "notify"} => s \in Elements(stores)
LastStored ==
  ~overlapped =>
    /\ \A s, t \in Obs!Setting : s = t
    /\ \A s \in Setters : actorPc[s] \in {"stored", "notify"} =>
         stores # << >> /\ stores[Len(stores)] = s

\* Values are seen in the order of the stores.
Follows(r) ==
  \A m, n \in DOMAIN seen[r] : m < n =>
    \E i, j \in DOMAIN stores : i < j /\ stores[i] = seen[r][m] /\ stores[j] = seen[r][n]

ObserverInv ==
  /\ ObserverTypes /\ Entries /\ Listed /\ ToldStored /\ LastStored
  /\ ~clash => \A s \in Setters : Owed(s)
  /\ ~overlapped => \A r \in Registrars : Follows(r)

LEMMA ObserverMembers ==
  ASSUME ObserverTypes
  PROVE  /\ \A i \in DOMAIN observerMap : observerMap[i] \in Registrars
         /\ \A s \in Setters : toCall[s] \subseteq Registrars
         /\ Obs!Observers \subseteq Registrars
BY DEF ObserverTypes, Obs!TypeOK, Obs!Observers

LEMMA ObserverInit == Obs!NewSafeObservable => ObserverInv
<1> SUFFICES ASSUME Obs!NewSafeObservable PROVE ObserverInv
  OBVIOUS
<1> USE DEF Obs!NewSafeObservable
<1>1. ObserverTypes
  <2>1. DOMAIN observerMap = {} /\ observerMap \in [{} -> Registrars]
    OBVIOUS
  <2>2. Obs!TypeOK
    BY <2>1 DEF Obs!TypeOK
  <2>3. /\ \A s \in Setters : actorPc[s] = "idle"
        /\ \A r \in Registrars : actorPc[r] = "idle"
    BY DEF Obs!Actors
  <2>4. stores \in Seq(Setters)
    BY DEF Obs!NewSafeObservable
  <2>6. overlapped \in BOOLEAN /\ clash \in BOOLEAN
    OBVIOUS
  <2>5. registered \subseteq Registrars /\ due \in [Setters -> SUBSET Registrars]
    OBVIOUS
  <2> QED
    BY ONLY <2>2, <2>3, <2>4, <2>5, <2>6 DEF ObserverTypes
<1>2. Entries /\ Listed
  BY DEF Entries, Listed, Holding, Obs!Actors
<1>3. \A r \in Registrars : Told(r) = {} /\ Follows(r)
  BY DEF Told, Elements, Follows
<1>4. ToldStored /\ LastStored
  BY <1>3 DEF ToldStored, LastStored, Obs!Setting, Obs!Actors
<1>5. \A s \in Setters : Owed(s)
  BY DEF Owed, Obs!Actors
<1> QED
  BY <1>1, <1>2, <1>3, <1>4, <1>5 DEF ObserverInv

LEMMA ObserverCall ==
  ASSUME ObserverInv, DeliveryAssumption, NEW a \in Obs!Actors, Obs!Call(a)
  PROVE  ObserverInv'
<1>0. ObserverTypes /\ Entries /\ Listed /\ ToldStored /\ LastStored
  BY DEF ObserverInv
<1>1. /\ actorPc' \in [Obs!Actors -> {"idle", "lock", "stored", "notify", "on", "lockAgain", "off",
                                      "stuck", "returned"}]
      /\ \A b \in Obs!Actors : b # a => actorPc'[b] = actorPc[b]
      /\ \/ actorPc[a] = "idle" /\ actorPc'[a] = "lock"
         \/ a \in Registrars /\ actorPc[a] = "on" /\ actorPc'[a] = "lockAgain"
      /\ UNCHANGED <<value, observerMap, id, readers, toCall, seen, stores, clash>>
  BY <1>0 DEF Obs!Call, Obs!Goto, ObserverTypes, Obs!TypeOK
<1>2. Setters \subseteq Obs!Actors /\ Registrars \subseteq Obs!Actors /\ Setters \cap Registrars = {}
  BY DEF Obs!Actors, DeliveryAssumption
<1>3. /\ registered' = registered \ {a}
      /\ \A s \in Setters : due'[s] = IF s = a THEN registered ELSE due[s] \ {a}
      /\ due' \in [Setters -> SUBSET Registrars]
      /\ overlapped' = (overlapped \/ (a \in Setters /\ Obs!Setting # {}))
      /\ rwWriter' = a
  BY <1>0 DEF Obs!Call, ObserverTypes
<1>4. ObserverTypes'
  BY <1>0, <1>1, <1>2, <1>3 DEF ObserverTypes, Obs!TypeOK, Obs!Actors
<1>5. \A r \in Registrars : /\ Holding(r)' <=> Holding(r)
                            /\ actorPc'[r] = "off" <=> actorPc[r] = "off"
                            /\ actorPc'[r] \in {"idle", "lock"} <=> actorPc[r] \in {"idle", "lock"}
                            /\ r # a /\ actorPc[r] = "on" => actorPc'[r] = "on"
                            /\ Told(r)' = Told(r) /\ Follows(r)' = Follows(r)
  BY <1>1, <1>2 DEF Holding, Told, Follows
<1>6. \A i \in DOMAIN observerMap : observerMap[i] \in Registrars
  BY <1>0 DEF ObserverTypes, Obs!TypeOK
<1>7. Entries'
  BY <1>0, <1>1, <1>5, <1>6 DEF Entries, ObserverTypes, Obs!TypeOK
<1>8. Listed'
  BY <1>0, <1>1, <1>3, <1>5, <1>6 DEF Listed, ObserverTypes
<1>9. \A s \in Setters : s # a => actorPc'[s] = actorPc[s]
  BY <1>1, <1>2
<1>10. a \in Setters => actorPc[a] = "idle" /\ actorPc'[a] = "lock"
  BY <1>1, <1>2
<1>11. ToldStored'
  <2>1. \A s \in Setters :
          /\ actorPc'[s] \in {"idle", "lock", "stored"} => actorPc[s] \in {"idle", "lock", "stored"}
          /\ actorPc'[s] \in {"stored", "notify"} => actorPc[s] \in {"stored", "notify"}
    BY <1>9, <1>10
  <2> QED
    BY <1>0, <1>1, <1>5, <2>1, ObserverMembers DEF ToldStored
<1>12. LastStored'
  <2>1. Obs!Setting' \subseteq Obs!Setting \cup ({a} \cap Setters)
    BY <1>9 DEF Obs!Setting
  <2> QED
    <3>1. ~overlapped' => ~overlapped /\ Obs!Setting' \subseteq Obs!Setting \cup {a}
            /\ (a \in Setters => Obs!Setting = {})
      BY <1>3, <2>1, <1>0 DEF ObserverTypes
    <3>2. ~overlapped' => \A s, t \in Obs!Setting' : s = t
      <4>1. CASE a \in Setters
        BY <3>1, <4>1
      <4>2. CASE a \notin Setters
        BY <1>0, <2>1, <3>1, <4>2 DEF LastStored
      <4> QED
        BY <4>1, <4>2
    <3>3. \A s \in Setters : actorPc'[s] \in {"stored", "notify"} => actorPc[s] \in {"stored", "notify"}
      BY <1>9, <1>10
    <3> QED
      BY <1>0, <1>1, <3>1, <3>2, <3>3 DEF LastStored
<1>13. \A s \in Setters : Owed(s) => Owed(s)'
  <2> SUFFICES ASSUME NEW s \in Setters, Owed(s) PROVE Owed(s)'
    OBVIOUS
  <2>1. CASE s = a
    BY <1>3, <1>10, <2>1 DEF Owed
  <2>2. CASE s # a
    BY <1>1, <1>3, <1>5, <1>9, <1>0, <2>2 DEF Owed, ObserverTypes
  <2> QED
    BY <2>1, <2>2
<1> QED
  BY <1>1, <1>3, <1>4, <1>5, <1>7, <1>8, <1>11, <1>12, <1>13 DEF ObserverInv

\* A goroutine goes on to p; the others stay.
Moved(a, p) == actorPc' = [actorPc EXCEPT ![a] = p]

LEMMA MovedActor ==
  ASSUME ObserverTypes, DeliveryAssumption, NEW a \in Obs!Actors, NEW p, Moved(a, p)
  PROVE  /\ actorPc'[a] = p /\ \A b \in Obs!Actors : b # a => actorPc'[b] = actorPc[b]
         /\ Setters \subseteq Obs!Actors /\ Registrars \subseteq Obs!Actors
         /\ \A s \in Setters, r \in Registrars : s # r
         /\ p \in {"idle", "lock", "stored", "notify", "on", "lockAgain", "off", "stuck", "returned"} =>
              actorPc' \in [Obs!Actors -> {"idle", "lock", "stored", "notify", "on", "lockAgain", "off",
                                           "stuck", "returned"}]
BY DEF ObserverTypes, Obs!TypeOK, Moved, Obs!Actors, DeliveryAssumption

LEMMA ObserverStore ==
  ASSUME ObserverInv, DeliveryAssumption, NEW s \in Setters, Obs!Store(s)
  PROVE  ObserverInv'
<1>0. ObserverTypes /\ Entries /\ Listed /\ ToldStored /\ LastStored
  BY DEF ObserverInv
<1>1. /\ actorPc[s] = "lock" /\ Moved(s, "stored") /\ value' = s /\ rwWriter' = NoOne
      /\ stores' = Append(stores, s)
      /\ UNCHANGED <<readers, observerMap, id, toCall, seen, registered, due, overlapped, clash>>
  BY DEF Obs!Store, Obs!Locked, Obs!Unlock, Obs!Goto, Moved
<1>2. /\ actorPc'[s] = "stored" /\ \A b \in Obs!Actors : b # s => actorPc'[b] = actorPc[b]
      /\ Setters \subseteq Obs!Actors /\ Registrars \subseteq Obs!Actors
      /\ \A r \in Registrars : s # r
      /\ actorPc' \in [Obs!Actors -> {"idle", "lock", "stored", "notify", "on", "lockAgain", "off",
                                      "stuck", "returned"}]
  BY <1>0, <1>1, MovedActor DEF Obs!Actors
<1>3. /\ stores' \in Seq(Setters) /\ stores' # << >> /\ stores'[Len(stores')] = s
      /\ Len(stores') = Len(stores) + 1 /\ \A i \in DOMAIN stores : stores'[i] = stores[i] /\ i \in DOMAIN stores'
      /\ Elements(stores) \subseteq Elements(stores')
  <2>1. stores \in Seq(Setters)
    BY <1>0 DEF ObserverTypes
  <2>2. /\ stores' \in Seq(Setters) /\ stores' # << >> /\ stores'[Len(stores')] = s
        /\ Len(stores') = Len(stores) + 1 /\ \A i \in DOMAIN stores : stores'[i] = stores[i] /\ i \in DOMAIN stores'
    BY <1>1, <2>1
  <2> QED
    BY <2>2 DEF Elements
<1>4. \A r \in Registrars : /\ actorPc'[r] = actorPc[r] /\ Holding(r)' = Holding(r) /\ Told(r)' = Told(r)
                            /\ Follows(r) => Follows(r)'
  <2> SUFFICES ASSUME NEW r \in Registrars
               PROVE  /\ actorPc'[r] = actorPc[r] /\ Holding(r)' = Holding(r) /\ Told(r)' = Told(r)
                      /\ Follows(r) => Follows(r)'
    OBVIOUS
  <2>1. actorPc'[r] = actorPc[r]
    BY <1>2
  <2>2. Follows(r) => Follows(r)'
    BY <1>1, <1>3 DEF Follows
  <2> QED
    BY <1>1, <2>1, <2>2 DEF Holding, Told
<1>5. ObserverTypes'
  BY <1>0, <1>1, <1>2, <1>3, <1>4 DEF ObserverTypes, Obs!TypeOK, Obs!Actors
<1>6. Entries' /\ Listed'
  <2>1. Entries'
    BY <1>0, <1>1, <1>4, ObserverMembers DEF Entries
  <2>2. Listed'
    BY <1>0, <1>1, <1>4 DEF Listed, ObserverTypes
  <2> QED
    BY <2>1, <2>2
<1>7. ToldStored'
  <2>1. s \in Elements(stores')
    BY <1>3 DEF Elements
  <2>2. \A t \in Setters : t # s => actorPc'[t] = actorPc[t]
    BY <1>2
  <2>3. \A r \in Registrars : Told(r)' \subseteq Elements(stores')
    BY <1>0, <1>3, <1>4 DEF ToldStored
  <2>4. ASSUME NEW t \in Setters
        PROVE  /\ actorPc'[t] \in {"idle", "lock", "stored"} =>
                    toCall'[t] = {} /\ \A r \in Registrars : t \notin Told(r)'
               /\ \A r \in toCall'[t] : t \notin Told(r)'
               /\ actorPc'[t] \in {"stored", "notify"} => t \in Elements(stores')
    <3>1. CASE t = s
      BY <1>0, <1>1, <1>4, <2>1, <3>1, ObserverMembers DEF ToldStored
    <3>2. CASE t # s
      BY <1>0, <1>1, <1>3, <1>4, <2>2, <3>2, ObserverMembers DEF ToldStored
    <3> QED
      BY <3>1, <3>2
  <2> QED
    BY <2>3, <2>4 DEF ToldStored
<1>8. LastStored'
  <2>1. Obs!Setting' = Obs!Setting /\ s \in Obs!Setting
    BY <1>1, <1>2 DEF Obs!Setting
  <2>2. \A t \in Setters : actorPc'[t] \in {"stored", "notify"} => t \in Obs!Setting
    BY <1>1, <1>2 DEF Obs!Setting
  <2> QED
    BY <1>0, <1>1, <1>3, <2>1, <2>2 DEF LastStored
<1>9. \A t \in Setters : Owed(t) => Owed(t)'
  <2> SUFFICES ASSUME NEW t \in Setters, Owed(t) PROVE Owed(t)'
    OBVIOUS
  <2>1. CASE t = s
    BY <1>1, <1>2, <2>1 DEF Owed
  <2>2. CASE t # s
    BY <1>0, <1>1, <1>2, <1>4, <2>2 DEF Owed, ObserverTypes
  <2> QED
    BY <2>1, <2>2
<1> QED
  BY <1>1, <1>4, <1>5, <1>6, <1>7, <1>8, <1>9 DEF ObserverInv

LEMMA ObserverRLock ==
  ASSUME ObserverInv, DeliveryAssumption, NEW s \in Setters, Obs!RLock(s)
  PROVE  ObserverInv'
<1>0. ObserverTypes /\ Entries /\ Listed /\ ToldStored /\ LastStored
  BY DEF ObserverInv
<1>1. /\ actorPc[s] = "stored" /\ Moved(s, "notify") /\ readers' = readers \cup {s}
      /\ toCall' = [toCall EXCEPT ![s] = Obs!Observers]
      /\ UNCHANGED <<value, observerMap, id, rwWriter, seen, stores, registered, due, overlapped, clash>>
  BY DEF Obs!RLock, Obs!historyVars, Obs!Goto, Moved
<1>2. /\ actorPc'[s] = "notify" /\ \A b \in Obs!Actors : b # s => actorPc'[b] = actorPc[b]
      /\ Setters \subseteq Obs!Actors /\ Registrars \subseteq Obs!Actors
      /\ \A r \in Registrars : s # r
      /\ actorPc' \in [Obs!Actors -> {"idle", "lock", "stored", "notify", "on", "lockAgain", "off",
                                      "stuck", "returned"}]
  BY <1>0, <1>1, MovedActor DEF Obs!Actors
<1>3. /\ toCall'[s] = Obs!Observers /\ \A t \in Setters : t # s => toCall'[t] = toCall[t]
      /\ toCall' \in [Setters -> SUBSET Registrars]
      /\ \A r \in Obs!Observers : r \in Registrars /\ actorPc[r] # "off"
      /\ ~clash => registered \subseteq Obs!Observers
  <2>1. Obs!Observers \subseteq Registrars
    BY <1>0, ObserverMembers
  <2>2. /\ toCall'[s] = Obs!Observers /\ \A t \in Setters : t # s => toCall'[t] = toCall[t]
        /\ toCall' \in [Setters -> SUBSET Registrars]
    BY <1>0, <1>1, <2>1 DEF ObserverTypes, Obs!TypeOK
  <2>3. \A r \in Obs!Observers : actorPc[r] # "off"
    BY <1>0 DEF Obs!Observers, Entries, Holding
  <2>4. ~clash => registered \subseteq Obs!Observers
    BY <1>0 DEF Obs!Observers, Listed
  <2> QED
    BY <2>1, <2>2, <2>3, <2>4
<1>4. \A r \in Registrars : /\ actorPc'[r] = actorPc[r] /\ Holding(r)' = Holding(r) /\ Told(r)' = Told(r)
                            /\ Follows(r)' = Follows(r)
  BY <1>1, <1>2 DEF Holding, Told, Follows
<1>5. ObserverTypes'
  <2>1. Obs!TypeOK'
    BY <1>0, <1>1, <1>2, <1>3 DEF ObserverTypes, Obs!TypeOK, Obs!Actors
  <2>2. \A t \in Setters : actorPc'[t] \in {"idle", "lock", "stored", "notify", "returned"}
    BY <1>0, <1>2 DEF ObserverTypes
  <2> QED
    BY <1>0, <1>1, <1>4, <2>1, <2>2 DEF ObserverTypes
<1>6. Entries'
  <2>1. \A t \in Setters : toCall'[t] # {} => t \in readers' /\ \A r \in toCall'[t] : actorPc'[r] # "off"
    <3> SUFFICES ASSUME NEW t \in Setters, toCall'[t] # {}
                 PROVE  t \in readers' /\ \A r \in toCall'[t] : actorPc'[r] # "off"
      OBVIOUS
    <3>1. CASE t = s
      BY <1>1, <1>3, <1>4, <3>1
    <3>2. CASE t # s
      BY <1>0, <1>1, <1>3, <1>4, <3>2 DEF Entries, ObserverTypes, Obs!TypeOK
    <3> QED
      BY <3>1, <3>2
  <2> QED
    BY <1>0, <1>1, <1>4, <2>1, ObserverMembers DEF Entries
<1>7. Listed'
  BY <1>0, <1>1, <1>4 DEF Listed, ObserverTypes
<1>8. ToldStored'
  <2>1. \A r \in Registrars : s \notin Told(r)
    BY <1>0, <1>1 DEF ToldStored
  <2> SUFFICES ASSUME NEW t \in Setters
               PROVE  /\ actorPc'[t] \in {"idle", "lock", "stored"} =>
                           toCall'[t] = {} /\ \A r \in Registrars : t \notin Told(r)'
                      /\ \A r \in toCall'[t] : t \notin Told(r)'
                      /\ actorPc'[t] \in {"stored", "notify"} => t \in Elements(stores)
    BY <1>0, <1>1, <1>4 DEF ToldStored
  <2>2. CASE t = s
    BY <1>0, <1>1, <1>2, <1>3, <1>4, <2>1, <2>2 DEF ToldStored
  <2>3. CASE t # s
    BY <1>0, <1>2, <1>3, <1>4, <2>3 DEF ToldStored, ObserverTypes, Obs!TypeOK
  <2> QED
    BY <2>2, <2>3
<1>9. LastStored'
  <2>1. Obs!Setting' = Obs!Setting
    BY <1>1, <1>2 DEF Obs!Setting
  <2>2. \A t \in Setters : actorPc'[t] \in {"stored", "notify"} => actorPc[t] \in {"stored", "notify"}
    BY <1>1, <1>2
  <2> QED
    BY <1>0, <1>1, <2>1, <2>2 DEF LastStored
<1>10. ASSUME ~clash, NEW t \in Setters, Owed(t) PROVE Owed(t)'
  <2>1. CASE t = s
    BY <1>1, <1>2, <1>3, <1>10, <2>1 DEF Owed
  <2>2. CASE t # s
    BY <1>0, <1>1, <1>2, <1>3, <1>4, <1>10, <2>2 DEF Owed, ObserverTypes
  <2> QED
    BY <2>1, <2>2
<1> QED
  BY <1>1, <1>4, <1>5, <1>6, <1>7, <1>8, <1>9, <1>10 DEF ObserverInv

LEMMA ObserverNotify ==
  ASSUME ObserverInv, DeliveryAssumption, NEW s \in Setters, NEW r \in Registrars, Obs!Notify(s, r)
  PROVE  ObserverInv'
<1>0. ObserverTypes /\ Entries /\ Listed /\ ToldStored /\ LastStored
  BY DEF ObserverInv
<1>1. /\ actorPc[s] = "notify" /\ r \in toCall[s]
      /\ toCall' = [toCall EXCEPT ![s] = toCall[s] \ {r}] /\ seen' = [seen EXCEPT ![r] = Append(seen[r], s)]
      /\ UNCHANGED <<value, observerMap, id, rwWriter, readers, actorPc, stores, registered, due,
                     overlapped, clash>>
  BY <1>0 DEF Obs!Notify, Obs!lockVars, ObserverTypes, Obs!TypeOK
<1>2. /\ toCall'[s] = toCall[s] \ {r} /\ \A t \in Setters : t # s => toCall'[t] = toCall[t]
      /\ toCall' \in [Setters -> SUBSET Registrars]
      /\ seen'[r] = Append(seen[r], s) /\ \A q \in Registrars : q # r => seen'[q] = seen[q]
      /\ seen[r] \in Seq(Setters) /\ seen' \in [Registrars -> Seq(Setters)]
  BY <1>0, <1>1 DEF ObserverTypes, Obs!TypeOK
<1>3. Told(r)' = Told(r) \cup {s} /\ \A q \in Registrars : q # r => Told(q)' = Told(q)
  <2>1. Elements(Append(seen[r], s)) = Elements(seen[r]) \cup {s}
    BY <1>2, ElementsAppend
  <2> QED
    BY <1>2, <2>1 DEF Told
<1>4. ObserverTypes'
  BY <1>0, <1>1, <1>2 DEF ObserverTypes, Obs!TypeOK, Obs!Actors
<1>5. Entries'
  BY <1>0, <1>1, <1>2 DEF Entries, Holding
<1>6. Listed' /\ LastStored'
  BY <1>0, <1>1 DEF Listed, Holding, LastStored, Obs!Setting
<1>7. ToldStored'
  <2>1. s \in Elements(stores)
    BY <1>0, <1>1 DEF ToldStored
  <2>2. \A q \in Registrars : Told(q)' \subseteq Elements(stores)
    BY <1>0, <1>3, <2>1 DEF ToldStored
  <2>3. ASSUME NEW t \in Setters
        PROVE  /\ actorPc[t] \in {"idle", "lock", "stored"} =>
                    toCall'[t] = {} /\ \A q \in Registrars : t \notin Told(q)'
               /\ \A q \in toCall'[t] : t \notin Told(q)'
    <3>1. CASE t = s
      BY <1>0, <1>1, <1>2, <1>3, <3>1, ObserverMembers DEF ToldStored
    <3>2. CASE t # s
      BY <1>0, <1>1, <1>2, <1>3, <3>2, ObserverMembers DEF ToldStored
    <3> QED
      BY <3>1, <3>2
  <2> QED
    BY <1>0, <1>1, <2>2, <2>3 DEF ToldStored
<1>8. ASSUME NEW t \in Setters, Owed(t) PROVE Owed(t)'
  BY <1>1, <1>2, <1>3, <1>8, <1>0 DEF Owed, ObserverTypes
<1>9. ASSUME ~overlapped, NEW q \in Registrars, Follows(q) PROVE Follows(q)'
  <2>1. CASE q # r
    BY <1>1, <1>2, <1>9, <2>1 DEF Follows
  <2>2. CASE q = r
    <3> SUFFICES ASSUME NEW m \in DOMAIN seen'[r], NEW n \in DOMAIN seen'[r], m < n
                 PROVE  \E i, j \in DOMAIN stores : i < j /\ stores[i] = seen'[r][m] /\ stores[j] = seen'[r][n]
      BY <1>1, <2>2 DEF Follows
    <3> PICK old \in Seq(Setters) : old = seen[r]
      BY <1>2
    <3>1. /\ seen'[r] = Append(old, s) /\ m \in DOMAIN old /\ seen'[r][m] = old[m]
          /\ \/ n \in DOMAIN old /\ seen'[r][n] = old[n]
             \/ n = Len(old) + 1 /\ seen'[r][n] = s
      BY <1>2
    <3>2. CASE n \in DOMAIN old /\ seen'[r][n] = old[n]
      BY <1>9, <2>2, <3>1, <3>2 DEF Follows
    <3>3. CASE seen'[r][n] = s
      <4>1. old[m] \in Told(r)
        BY <3>1 DEF Told, Elements
      <4>2. old[m] # s
        BY <1>0, <1>1, <4>1 DEF ToldStored
      <4> PICK i \in DOMAIN stores : stores[i] = old[m]
        BY <1>0, <4>1 DEF ToldStored, Elements
      <4>3. stores \in Seq(Setters) /\ stores # << >> /\ stores[Len(stores)] = s
        BY <1>0, <1>1, <1>9 DEF LastStored, ObserverTypes
      <4>4. i < Len(stores) /\ Len(stores) \in DOMAIN stores
        BY <4>2, <4>3
      <4> QED
        BY <3>1, <3>3, <4>3, <4>4
    <3> QED
      BY <3>1, <3>2, <3>3
  <2> QED
    BY <2>1, <2>2
<1> QED
  BY <1>1, <1>4, <1>5, <1>6, <1>7, <1>8, <1>9 DEF ObserverInv

LEMMA ObserverRUnlock ==
  ASSUME ObserverInv, DeliveryAssumption, NEW s \in Setters, Obs!RUnlock(s)
  PROVE  ObserverInv'
<1>0. ObserverTypes /\ Entries /\ Listed /\ ToldStored /\ LastStored
  BY DEF ObserverInv
<1>1. /\ actorPc[s] = "notify" /\ toCall[s] = {} /\ Moved(s, "returned") /\ readers' = readers \ {s}
      /\ UNCHANGED <<value, observerMap, id, rwWriter, toCall, seen, stores, registered, due,
                     overlapped, clash>>
  BY DEF Obs!RUnlock, Obs!historyVars, Obs!Goto, Moved
<1>2. /\ actorPc'[s] = "returned" /\ \A b \in Obs!Actors : b # s => actorPc'[b] = actorPc[b]
      /\ Setters \subseteq Obs!Actors /\ Registrars \subseteq Obs!Actors
      /\ \A r \in Registrars : s # r
      /\ actorPc' \in [Obs!Actors -> {"idle", "lock", "stored", "notify", "on", "lockAgain", "off",
                                      "stuck", "returned"}]
  BY <1>0, <1>1, MovedActor DEF Obs!Actors
<1>3. \A r \in Registrars : /\ actorPc'[r] = actorPc[r] /\ Holding(r)' = Holding(r) /\ Told(r)' = Told(r)
                            /\ Follows(r)' = Follows(r)
  BY <1>1, <1>2 DEF Holding, Told, Follows
<1>4. ObserverTypes'
  <2>1. Obs!TypeOK'
    BY <1>0, <1>1, <1>2 DEF ObserverTypes, Obs!TypeOK, Obs!Actors
  <2>2. \A t \in Setters : actorPc'[t] \in {"idle", "lock", "stored", "notify", "returned"}
    BY <1>0, <1>2 DEF ObserverTypes
  <2> QED
    BY <1>0, <1>1, <1>3, <2>1, <2>2 DEF ObserverTypes
<1>5. Entries'
  BY <1>0, <1>1, <1>3, ObserverMembers DEF Entries
<1>6. Listed'
  BY <1>0, <1>1, <1>3 DEF Listed, ObserverTypes
<1>7. \A t \in Setters : t # s => actorPc'[t] = actorPc[t]
  BY <1>2
<1>8. ToldStored'
  BY <1>0, <1>1, <1>2, <1>3, <1>7, ObserverMembers DEF ToldStored
<1>9. LastStored'
  <2>1. Obs!Setting' \subseteq Obs!Setting
    BY <1>1, <1>2, <1>7 DEF Obs!Setting
  <2> QED
    BY <1>0, <1>1, <1>2, <1>7, <2>1 DEF LastStored
<1>10. ASSUME NEW t \in Setters, Owed(t) PROVE Owed(t)'
  BY <1>0, <1>1, <1>2, <1>3, <1>7, <1>10 DEF Owed, ObserverTypes
<1> QED
  BY <1>1, <1>3, <1>4, <1>5, <1>6, <1>8, <1>9, <1>10 DEF ObserverInv

\* A writer's step tells nobody, and moves no setter.
LEMMA WriterKeeps ==
  ASSUME ObserverInv, UNCHANGED <<toCall, seen, stores, overlapped>>,
         \A s \in Setters : actorPc'[s] = actorPc[s]
  PROVE  /\ ToldStored' /\ LastStored' /\ (~overlapped' => \A r \in Registrars : Follows(r)')
         /\ \A r \in Registrars : Told(r)' = Told(r)
<1>1. \A r \in Registrars : Told(r)' = Told(r) /\ Follows(r)' = Follows(r)
  BY DEF Told, Follows
<1>2. ToldStored'
  BY <1>1, ObserverMembers DEF ObserverInv, ToldStored
<1>3. Obs!Setting' = Obs!Setting
  BY DEF Obs!Setting
<1> QED
  BY <1>1, <1>2, <1>3 DEF ObserverInv, LastStored

LEMMA ObserverOn ==
  ASSUME ObserverInv, DeliveryAssumption, NEW r \in Registrars, NEW i \in Registrars, Obs!On(r, i)
  PROVE  ObserverInv'
<1>0. ObserverTypes /\ Entries /\ Listed
  BY DEF ObserverInv
<1>1. /\ readers = {} /\ actorPc[r] = "lock" /\ Moved(r, "on") /\ rwWriter' = NoOne
      /\ clash' = (clash \/ \E q \in Registrars : id[q] = i /\ actorPc[q] # "off")
      /\ observerMap' = [j \in DOMAIN observerMap \cup {i} |-> IF j = i THEN r ELSE observerMap[j]]
      /\ id' = [id EXCEPT ![r] = i] /\ registered' = registered \cup {r}
      /\ UNCHANGED <<readers, value, toCall, seen, stores, due, overlapped>>
  BY DEF Obs!On, Obs!Locked, Obs!Unlock, Obs!Goto, Moved
<1>2. /\ actorPc'[r] = "on" /\ \A b \in Obs!Actors : b # r => actorPc'[b] = actorPc[b]
      /\ Setters \subseteq Obs!Actors /\ Registrars \subseteq Obs!Actors
      /\ \A s \in Setters : s # r
      /\ actorPc' \in [Obs!Actors -> {"idle", "lock", "stored", "notify", "on", "lockAgain", "off",
                                      "stuck", "returned"}]
  BY <1>0, <1>1, MovedActor DEF Obs!Actors
<1>3. /\ id'[r] = i /\ id[r] = NoOne /\ i # NoOne
      /\ \A q \in Registrars : q # r => id'[q] = id[q] /\ actorPc'[q] = actorPc[q]
      /\ \A s \in Setters : actorPc'[s] = actorPc[s]
  BY <1>0, <1>1, <1>2 DEF ObserverTypes, Obs!TypeOK, Entries, DeliveryAssumption
<1>4. /\ DOMAIN observerMap' = DOMAIN observerMap \cup {i} /\ observerMap'[i] = r
      /\ \A j \in DOMAIN observerMap : j # i => observerMap'[j] = observerMap[j]
  BY <1>1
<1>5. ObserverTypes'
  <2>1. /\ observerMap' \in [DOMAIN observerMap' -> Registrars] /\ DOMAIN observerMap' \subseteq Registrars
        /\ id' \in [Registrars -> Registrars \cup {NoOne}]
    BY <1>0, <1>1 DEF ObserverTypes, Obs!TypeOK
  <2>2. Obs!TypeOK'
    BY <1>0, <1>1, <1>2, <2>1 DEF ObserverTypes, Obs!TypeOK, Obs!Actors
  <2>3. \A q \in Registrars : actorPc'[q] \in {"idle", "lock", "on", "lockAgain", "off"}
    BY <1>0, <1>2, <1>3 DEF ObserverTypes
  <2> QED
    BY <1>0, <1>1, <1>3, <2>2, <2>3 DEF ObserverTypes
<1>6. Entries'
  <2>1. ASSUME NEW j \in DOMAIN observerMap' PROVE Holding(observerMap[j])' /\ id'[observerMap'[j]] = j
    <3>1. CASE j = i
      BY <1>2, <1>3, <1>4, <3>1 DEF Holding
    <3>2. CASE j # i
      <4> PICK q \in Registrars : q = observerMap[j]
        BY <1>0, <1>4, <3>2, ObserverMembers
      <4>1. observerMap'[j] = q /\ Holding(q) /\ id[q] = j
        BY <1>0, <1>4, <3>2 DEF Entries
      <4>2. q # r
        BY <1>1, <4>1 DEF Holding
      <4> QED
        BY <1>3, <4>1, <4>2 DEF Holding
    <3> QED
      BY <3>1, <3>2
  <2>2. \A q \in Registrars : actorPc'[q] \in {"idle", "lock"} => id'[q] = NoOne
    BY <1>0, <1>2, <1>3 DEF Entries
  <2>3. \A s \in Setters : toCall[s] = {}
    BY <1>0, <1>1 DEF Entries
  <2> QED
    BY <1>1, <2>1, <2>2, <2>3 DEF Entries, Holding
<1>7. Listed'
  <2> SUFFICES ASSUME ~clash'
               PROVE  /\ \A q, p \in Registrars : Holding(q)' /\ Holding(p)' /\ id'[q] = id'[p] => q = p
                      /\ \A q \in registered' : /\ actorPc'[q] = "on" /\ id'[q] \in DOMAIN observerMap'
                                                /\ observerMap'[id'[q]] = q
    BY DEF Listed, Holding
  <2>1. ~clash /\ \A q \in Registrars : id[q] = i => actorPc[q] = "off"
    BY <1>0, <1>1 DEF ObserverTypes
  <2>2. ASSUME NEW q \in Registrars, NEW p \in Registrars, Holding(q)', Holding(p)', id'[q] = id'[p] PROVE q = p
    <3>1. CASE q # r /\ p # r
      BY <1>0, <1>3, <2>1, <2>2, <3>1 DEF Listed, Holding
    <3>2. CASE q = r /\ p # r
      BY <1>3, <2>1, <2>2, <3>2 DEF Holding
    <3>3. CASE q # r /\ p = r
      BY <1>3, <2>1, <2>2, <3>3 DEF Holding
    <3> QED
      BY <3>1, <3>2, <3>3
  <2>3. ASSUME NEW q \in registered'
        PROVE  actorPc'[q] = "on" /\ id'[q] \in DOMAIN observerMap' /\ observerMap'[id'[q]] = q
    <3>1. CASE q = r
      BY <1>2, <1>3, <1>4, <3>1
    <3>2. CASE q # r
      <4>1. /\ q \in Registrars /\ actorPc[q] = "on" /\ id[q] \in DOMAIN observerMap
            /\ observerMap[id[q]] = q
        BY <1>0, <1>1, <2>1, <3>2 DEF Listed, ObserverTypes
      <4>2. id[q] # i
        BY <2>1, <4>1
      <4> QED
        BY <1>3, <1>4, <3>2, <4>1, <4>2
    <3> QED
      BY <3>1, <3>2
  <2> QED
    BY <2>2, <2>3
<1>8. ToldStored' /\ LastStored' /\ (~overlapped' => \A q \in Registrars : Follows(q)') /\ \A q \in Registrars : Told(q)' = Told(q)
  BY <1>1, <1>3, WriterKeeps
<1>9. ASSUME NEW t \in Setters, Owed(t) PROVE Owed(t)'
  BY <1>0, <1>1, <1>3, <1>8, <1>9 DEF Owed, ObserverTypes
<1>10. ~clash' => ~clash
  BY <1>0, <1>1 DEF ObserverTypes
<1> QED
  BY <1>5, <1>6, <1>7, <1>8, <1>9, <1>10 DEF ObserverInv

LEMMA ObserverDisposer ==
  ASSUME ObserverInv, DeliveryAssumption, NEW r \in Registrars, Obs!Disposer(r)
  PROVE  ObserverInv'
<1>0. ObserverTypes /\ Entries /\ Listed
  BY DEF ObserverInv
<1>1. /\ readers = {} /\ actorPc[r] = "lockAgain" /\ Moved(r, "off") /\ rwWriter' = NoOne
      /\ observerMap' = [i \in DOMAIN observerMap \ {id[r]} |-> observerMap[i]]
      /\ UNCHANGED <<readers, value, id, toCall, seen, stores, registered, due, overlapped, clash>>
  BY DEF Obs!Disposer, Obs!Locked, Obs!Unlock, Obs!Goto, Obs!historyVars, Moved
<1>2. /\ actorPc'[r] = "off" /\ \A b \in Obs!Actors : b # r => actorPc'[b] = actorPc[b]
      /\ Setters \subseteq Obs!Actors /\ Registrars \subseteq Obs!Actors
      /\ \A s \in Setters : s # r
      /\ actorPc' \in [Obs!Actors -> {"idle", "lock", "stored", "notify", "on", "lockAgain", "off",
                                      "stuck", "returned"}]
  BY <1>0, <1>1, MovedActor DEF Obs!Actors
<1>3. /\ \A q \in Registrars : q # r => actorPc'[q] = actorPc[q]
      /\ \A s \in Setters : actorPc'[s] = actorPc[s]
  BY <1>2
<1>4. /\ DOMAIN observerMap' = DOMAIN observerMap \ {id[r]}
      /\ \A j \in DOMAIN observerMap : j # id[r] => observerMap'[j] = observerMap[j]
  BY <1>1
<1>5. ObserverTypes'
  <2>1. observerMap' \in [DOMAIN observerMap' -> Registrars] /\ DOMAIN observerMap' \subseteq Registrars
    BY <1>0, <1>1 DEF ObserverTypes, Obs!TypeOK
  <2>2. Obs!TypeOK'
    BY <1>0, <1>1, <1>2, <2>1 DEF ObserverTypes, Obs!TypeOK, Obs!Actors
  <2>3. \A q \in Registrars : actorPc'[q] \in {"idle", "lock", "on", "lockAgain", "off"}
    BY <1>0, <1>2, <1>3 DEF ObserverTypes
  <2> QED
    BY <1>0, <1>1, <1>3, <2>2, <2>3 DEF ObserverTypes
<1>6. Entries'
  <2>1. ASSUME NEW j \in DOMAIN observerMap' PROVE Holding(observerMap[j])' /\ id'[observerMap'[j]] = j
    <3> PICK q \in Registrars : q = observerMap[j]
      BY <1>0, <1>4, ObserverMembers
    <3>1. observerMap'[j] = q /\ Holding(q) /\ id[q] = j /\ j # id[r]
      BY <1>0, <1>4 DEF Entries
    <3> QED
      BY <1>1, <1>3, <3>1 DEF Holding
  <2>2. \A q \in Registrars : actorPc'[q] \in {"idle", "lock"} => id'[q] = NoOne
    BY <1>0, <1>1, <1>2, <1>3 DEF Entries
  <2>3. \A s \in Setters : toCall[s] = {}
    BY <1>0, <1>1 DEF Entries
  <2> QED
    BY <1>1, <2>1, <2>2, <2>3 DEF Entries, Holding
<1>7. Listed'
  <2> SUFFICES ASSUME ~clash
               PROVE  /\ \A q, p \in Registrars : Holding(q)' /\ Holding(p)' /\ id[q] = id[p] => q = p
                      /\ \A q \in registered : /\ actorPc'[q] = "on" /\ id[q] \in DOMAIN observerMap'
                                               /\ observerMap'[id[q]] = q
    BY <1>1 DEF Listed, Holding
  <2>1. \A q \in Registrars : Holding(q)' => Holding(q) /\ q # r
    BY <1>2, <1>3 DEF Holding
  <2>2. ASSUME NEW q \in registered
        PROVE  actorPc'[q] = "on" /\ id[q] \in DOMAIN observerMap' /\ observerMap'[id[q]] = q
    <3>1. /\ q \in Registrars /\ actorPc[q] = "on" /\ id[q] \in DOMAIN observerMap
          /\ observerMap[id[q]] = q
      BY <1>0 DEF Listed, ObserverTypes
    <3>2. q # r
      BY <1>1, <3>1
    <3>3. id[q] # id[r]
      BY <1>0, <1>1, <3>1, <3>2 DEF Listed, Holding
    <3> QED
      BY <1>3, <1>4, <3>1, <3>2, <3>3
  <2> QED
    BY <1>0, <2>1, <2>2 DEF Listed
<1>8. ToldStored' /\ LastStored' /\ (~overlapped' => \A q \in Registrars : Follows(q)') /\ \A q \in Registrars : Told(q)' = Told(q)
  BY <1>1, <1>3, WriterKeeps
<1>9. ASSUME NEW t \in Setters, Owed(t) PROVE Owed(t)'
  BY <1>0, <1>1, <1>3, <1>8, <1>9 DEF Owed, ObserverTypes
<1> QED
  BY <1>1, <1>5, <1>6, <1>7, <1>8, <1>9 DEF ObserverInv

LEMMA ObserverRest ==
  ASSUME ObserverInv, DeliveryAssumption, NEW a \in OnceCallers \cup Disposers, Obs!Once(a) \/ Obs!Dispose(a)
  PROVE  ObserverInv'
<1>0. ObserverTypes /\ Entries /\ Listed
  BY DEF ObserverInv
<1>1. /\ Moved(a, "stuck") \/ Moved(a, "returned")
      /\ UNCHANGED <<readers, value, id, toCall, seen, stores, overlapped, clash>>
      /\ rwWriter' \in {rwWriter, NoOne}
      /\ \/ UNCHANGED <<observerMap, registered, due>>
         \/ /\ DOMAIN observerMap' = {} /\ registered' = {} /\ due' = [s \in Setters |-> {}]
            /\ observerMap' \in [{} -> Registrars]
  BY DEF Obs!Once, Obs!Dispose, Obs!Locked, Obs!Unlock, Obs!Goto, Obs!historyVars, Obs!lockVars, Moved
<1>2. /\ \A b \in Obs!Actors : b # a => actorPc'[b] = actorPc[b]
      /\ Setters \subseteq Obs!Actors /\ Registrars \subseteq Obs!Actors
      /\ actorPc' \in [Obs!Actors -> {"idle", "lock", "stored", "notify", "on", "lockAgain", "off",
                                      "stuck", "returned"}]
  <2>1. a \in Obs!Actors
    BY DEF Obs!Actors
  <2> QED
    BY <1>0, <1>1, <2>1, MovedActor
<1>3. /\ \A q \in Registrars : actorPc'[q] = actorPc[q] /\ Holding(q)' = Holding(q)
      /\ \A s \in Setters : actorPc'[s] = actorPc[s]
  <2>1. a \notin Registrars /\ a \notin Setters
    BY DEF DeliveryAssumption
  <2> QED
    BY <1>2, <2>1 DEF Holding
<1>4. ObserverTypes'
  <2>1. Obs!TypeOK'
    BY <1>0, <1>1, <1>2 DEF ObserverTypes, Obs!TypeOK, Obs!Actors
  <2>2. registered' \subseteq Registrars /\ due' \in [Setters -> SUBSET Registrars]
    BY <1>0, <1>1 DEF ObserverTypes
  <2> QED
    BY <1>0, <1>1, <1>3, <2>1, <2>2 DEF ObserverTypes
<1>5. Entries'
  BY <1>0, <1>1, <1>3, ObserverMembers DEF Entries
<1>6. Listed'
  BY <1>0, <1>1, <1>3 DEF Listed, ObserverTypes
<1>7. ToldStored' /\ LastStored' /\ (~overlapped' => \A q \in Registrars : Follows(q)') /\ \A q \in Registrars : Told(q)' = Told(q)
  BY <1>1, <1>3, WriterKeeps
<1>8. ASSUME NEW t \in Setters, Owed(t) PROVE Owed(t)'
  BY <1>0, <1>1, <1>3, <1>7, <1>8 DEF Owed, ObserverTypes
<1> QED
  BY <1>1, <1>4, <1>5, <1>6, <1>7, <1>8 DEF ObserverInv

LEMMA ObserverStep == ObserverInv /\ [Obs!Next]_observerVars => ObserverInv'
<1> SUFFICES ASSUME ObserverInv, [Obs!Next]_observerVars PROVE ObserverInv'
  OBVIOUS
<1>1. CASE UNCHANGED observerVars
  <2>1. UNCHANGED <<value, observerMap, id, rwWriter, readers, actorPc, toCall, seen, stores, registered,
                    due, overlapped, clash>>
    BY <1>1 DEF observerVars
  <2> QED
    BY <2>1 DEF ObserverInv, ObserverTypes, Obs!TypeOK, Entries, Listed, ToldStored, LastStored, Owed, Follows,
                Holding, Told, Obs!Setting
<1>2. ASSUME NEW r \in Registrars, NEW i, Obs!On(r, i) PROVE ObserverInv'
  <2>1. i \in Registrars
    BY <1>2 DEF Obs!On, ObserverInv, ObserverTypes, Obs!TypeOK
  <2> QED
    BY <1>2, <2>1, ObserverOn, DeliveryAssumption
<1> QED
  BY <1>1, <1>2, ObserverCall, ObserverStore, ObserverRLock, ObserverNotify, ObserverRUnlock, ObserverDisposer,
     ObserverRest, DeliveryAssumption DEF Obs!Next, Obs!SetterStep, Obs!WriterStep

LEMMA ObserverNotified == ObserverInv => Obs!NotifiedOnce
<1> SUFFICES ASSUME ObserverInv PROVE Obs!NotifiedOnce
  OBVIOUS
<1>1. ~clash => \A s \in Setters : actorPc[s] = "returned" =>
        \A r \in due[s] : \E n \in DOMAIN seen[r] : seen[r][n] = s
  BY DEF ObserverInv, Owed, Told, Elements
<1>2. \A r \in Registrars : actorPc[r] = "off" => \A s \in Setters : r \notin toCall[s]
  BY DEF ObserverInv, Entries
<1> QED
  BY <1>1, <1>2 DEF ObserverInv, Follows, Obs!NotifiedOnce

-----------------------------------------------------------------------------
(* Emitter *)

\* A set of numbers has a least one.
LEMMA LeastNumber ==
  ASSUME NEW T \in SUBSET Nat, T # {}
  PROVE  \E x \in T : \A y \in T : x <= y
<1>1. PICK x \in T : \A y \in T : ~ (<<y, x>> \in OpToRel(<,Nat))
  BY NatLessThanWellFounded, WFMin
<1>2. ASSUME NEW y \in T PROVE ~(y < x)
  <2>1. y < x => <<y,x>> \in OpToRel(<,Nat)
    BY DEF OpToRel
  <2> QED
    BY <1>1, <2>1, Zenon
<1> QED
  BY <1>2

\* The element at i is taken out.
Distinct(s) == \A i, j \in DOMAIN s : s[i] = s[j] => i = j
RemovedAt(r, s, i) ==
  /\ Len(r) = Len(s) - 1
  /\ \A k \in DOMAIN r : r[k] = IF k < i THEN s[k] ELSE s[k + 1]

LEMMA RemoveAt ==
  ASSUME NEW S, NEW s \in Seq(S), NEW i \in DOMAIN s
  PROVE  /\ SubSeq(s, 1, i - 1) \o SubSeq(s, i + 1, Len(s)) \in Seq(S)
         /\ RemovedAt(SubSeq(s, 1, i - 1) \o SubSeq(s, i + 1, Len(s)), s, i)
<1> DEFINE a == SubSeq(s, 1, i - 1)
           b == SubSeq(s, i + 1, Len(s))
<1>1. a \in Seq(S) /\ Len(a) = i - 1 /\ \A k \in 1 .. i - 1 : a[k] = s[k]
  OBVIOUS
<1>2. b \in Seq(S) /\ Len(b) = Len(s) - i /\ \A k \in 1 .. Len(s) - i : b[k] = s[k + i]
  OBVIOUS
<1> HIDE DEF a, b
<1>3. a \o b \in Seq(S) /\ Len(a \o b) = Len(s) - 1
  BY <1>1, <1>2
<1>4. ASSUME NEW k \in DOMAIN (a \o b) PROVE (a \o b)[k] = IF k < i THEN s[k] ELSE s[k + 1]
  <2>1. CASE k < i
    BY <1>1, <1>2, <1>3, <2>1
  <2>2. CASE k >= i
    <3>1. (a \o b)[k] = b[k - (i - 1)]
      BY <1>1, <1>2, <1>3, <2>2
    <3> QED
      BY <1>1, <1>2, <1>3, <2>2, <3>1
  <2> QED
    BY <1>3, <2>1, <2>2
<1> QED
  BY <1>3, <1>4 DEF RemovedAt, a, b

LEMMA RemovedElements ==
  ASSUME NEW S, NEW s \in Seq(S), NEW r \in Seq(S), NEW i \in DOMAIN s, Distinct(s), RemovedAt(r, s, i)
  PROVE  Distinct(r) /\ Elements(r) = Elements(s) \ {s[i]}
<1>1. \A k \in DOMAIN r : /\ k < i => k \in DOMAIN s /\ r[k] = s[k]
                          /\ k >= i => k + 1 \in DOMAIN s /\ r[k] = s[k + 1]
  BY DEF RemovedAt
<1>2. \A k \in DOMAIN s : /\ k < i => k \in DOMAIN r /\ r[k] = s[k]
                          /\ k > i => k - 1 \in DOMAIN r /\ r[k - 1] = s[k]
  BY DEF RemovedAt
<1>3. Distinct(r)
  <2> SUFFICES ASSUME NEW k \in DOMAIN r, NEW m \in DOMAIN r, r[k] = r[m] PROVE k = m
    BY DEF Distinct
  <2>1. CASE k < i /\ m < i
    BY <1>1, <2>1 DEF Distinct
  <2>2. CASE k < i /\ m >= i
    BY <1>1, <2>2 DEF Distinct
  <2>3. CASE k >= i /\ m < i
    BY <1>1, <2>3 DEF Distinct
  <2>4. CASE k >= i /\ m >= i
    BY <1>1, <2>4 DEF Distinct
  <2> QED
    BY <2>1, <2>2, <2>3, <2>4
<1>4. ASSUME NEW k \in DOMAIN r PROVE r[k] \in Elements(s) \ {s[i]}
  <2>1. CASE k < i
    BY <1>1, <2>1 DEF Distinct, Elements
  <2>2. CASE k >= i
    BY <1>1, <2>2 DEF Distinct, Elements
  <2> QED
    BY <2>1, <2>2
<1>5. ASSUME NEW k \in DOMAIN s, s[k] # s[i] PROVE s[k] \in Elements(r)
  <2>1. CASE k < i
    BY <1>2, <2>1 DEF Elements
  <2>2. CASE k > i
    BY <1>2, <2>2 DEF Elements
  <2> QED
    BY <1>5, <2>1, <2>2
<1> QED
  BY <1>3, <1>4, <1>5 DEF Elements

EmitterTypes ==
  /\ Emit!TypeOK /\ ran \in [Onces -> {0, 1}]
  /\ DOMAIN routine \subseteq Emit!Calls \X Listeners

\* One goroutine is in the sync.Once of a listener, which then is busy.
InOnce(g) == routine[g] \in {"run", "off"}
RunsInOnce ==
  /\ \A g \in DOMAIN routine :
       /\ reg[g[2]] \in {"on", "off"}
       /\ InOnce(g) => /\ g[2] \in Onces /\ once[g[2]] = "busy"
                       /\ ran[g[2]] = IF routine[g] = "off" THEN 1 ELSE 0
       /\ routine[g] = "off" => g[2] \notin Panicking
  /\ \A g, h \in DOMAIN routine : InOnce(g) /\ InOnce(h) /\ g[2] = h[2] => g = h
  /\ \A l \in Onces : /\ once[l] = "new" => ran[l] = 0
                      /\ once[l] = "done" => ran[l] = 1

Alone(l) == \A m \in Listeners \ {l} : Site[m] = Site[l] => reg[m] \in {"idle", "refused"}
Kept ==
  /\ \A l \in Emit!Registered : reg[l] \in {"on", "off"}
  /\ \A l \in Listeners :
       /\ reg[l] = "on" /\ Alone(l) /\ l \notin Emit!Registered =>
            l \in cleared \/ (l \in Onces /\ ran[l] = 1)
       /\ reg[l] = "off" /\ Alone(l) => l \notin Emit!Registered

\* Of the listeners with the code pointer of l: those that were added, are listed, were
\* turned off, or have taken one out after they ran.
Same(l)     == {m \in Listeners : Site[m] = Site[l]}
Added(l)    == {m \in Same(l) : reg[m] \in {"on", "off"}}
Here(l)     == Same(l) \cap Emit!Registered
Gone(l)     == {m \in Same(l) : reg[m] = "off"}
Finished(l) == {m \in Same(l) \cap Onces : m \notin Panicking /\ once[m] = "done"}
Balanced(l) ==
  Cardinality(Added(l)) <= Cardinality(Here(l)) + Cardinality(Gone(l)) + Cardinality(Finished(l))

EmitterInv ==
  /\ EmitterTypes /\ RunsInOnce /\ Kept
  /\ cleared = {} => \A l \in Listeners : Balanced(l)

\* Adding one, and taking out at most one.
LEMMA CardAdd ==
  ASSUME NEW A, IsFiniteSet(A), NEW x, x \notin A
  PROVE  IsFiniteSet(A \cup {x}) /\ Cardinality(A \cup {x}) = Cardinality(A) + 1
BY FS_AddElement

LEMMA CardDrop ==
  ASSUME NEW A, IsFiniteSet(A), NEW B, NEW x, B = A \ {x}
  PROVE  Cardinality(A) <= Cardinality(B) + 1
<1>1. Cardinality(A) \in Nat
  BY FS_CardinalityType
<1>2. CASE x \in A
  BY <1>1, <1>2, FS_RemoveElement
<1>3. CASE x \notin A
  BY <1>1, <1>3
<1> QED
  BY <1>2, <1>3

LEMMA ClassFinite ==
  ASSUME DeliveryAssumption, NEW l
  PROVE  /\ IsFiniteSet(Added(l)) /\ IsFiniteSet(Here(l)) /\ IsFiniteSet(Gone(l)) /\ IsFiniteSet(Finished(l))
         /\ Cardinality(Added(l)) \in Nat /\ Cardinality(Here(l)) \in Nat
         /\ Cardinality(Gone(l)) \in Nat /\ Cardinality(Finished(l)) \in Nat
<1>1. IsFiniteSet(Listeners)
  BY DEF DeliveryAssumption
<1>2. /\ Added(l) \subseteq Listeners /\ Here(l) \subseteq Listeners
      /\ Gone(l) \subseteq Listeners /\ Finished(l) \subseteq Listeners
  BY DEF Added, Here, Gone, Finished, Same
<1>3. IsFiniteSet(Added(l)) /\ IsFiniteSet(Here(l)) /\ IsFiniteSet(Gone(l)) /\ IsFiniteSet(Finished(l))
  BY <1>1, <1>2, FS_Subset
<1> QED
  BY <1>3, FS_CardinalityType

LEMMA EmitterInit == Emit!New => EmitterInv
<1> SUFFICES ASSUME Emit!New PROVE EmitterInv
  OBVIOUS
<1> USE DEF Emit!New
<1>1. EmitterTypes
  <2>1. listeners \in Seq(Listeners) /\ Len(listeners) <= MaxListeners
    BY DeliveryAssumption DEF DeliveryAssumption
  <2>2. DOMAIN listeners = {} /\ DOMAIN routine = {}
    OBVIOUS
  <2> QED
    BY <2>1, <2>2 DEF EmitterTypes, Emit!TypeOK
<1>2. RunsInOnce
  BY DEF RunsInOnce
<1>3. Kept
  BY DEF Kept, Emit!Registered
<1>4. ASSUME NEW l \in Listeners PROVE Balanced(l)
  <2>1. Added(l) = {}
    BY DEF Added, Same
  <2>2. /\ Cardinality(Here(l)) \in Nat /\ Cardinality(Gone(l)) \in Nat
        /\ Cardinality(Finished(l)) \in Nat
    BY ClassFinite, DeliveryAssumption
  <2> QED
    BY <2>1, <2>2, FS_EmptySet DEF Balanced
<1> QED
  BY <1>1, <1>2, <1>3, <1>4 DEF EmitterInv

\* removeMessageListener takes out one listener with the code pointer, if there is one.
Taken(r, l) ==
  /\ r \in Seq(Listeners) /\ Len(r) <= Len(listeners) /\ Distinct(r)
  /\ \E x \in Listeners :
       /\ Site[x] = Site[l] /\ Elements(r) = Elements(listeners) \ {x}
       /\ x \notin Elements(listeners) => \A m \in Elements(listeners) : Site[m] # Site[l]

LEMMA WithoutTakes ==
  ASSUME EmitterTypes, NEW l \in Listeners
  PROVE  Taken(Emit!Without(l), l)
<1>1. listeners \in Seq(Listeners) /\ Distinct(listeners) /\ Emit!Registered = Elements(listeners)
  BY DEF EmitterTypes, Emit!TypeOK, Distinct, Elements, Emit!Registered
<1>2. CASE \A m \in Emit!Registered : Site[m] # Site[l]
  <2>1. Emit!Without(l) = listeners
    BY <1>2 DEF Emit!Without
  <2>2. Elements(listeners) = Elements(listeners) \ {l} /\ Len(listeners) <= Len(listeners)
    BY <1>1, <1>2
  <2> QED
    BY <1>1, <1>2, <2>1, <2>2 DEF Taken
<1>3. CASE ~\A m \in Emit!Registered : Site[m] # Site[l]
  <2> DEFINE First(j) == /\ Site[listeners[j]] = Site[l]
                         /\ \A k \in 1 .. j - 1 : Site[listeners[k]] # Site[l]
             i == CHOOSE j \in DOMAIN listeners : First(j)
  <2>1. \E j \in DOMAIN listeners : First(j)
    <3> DEFINE T == {j \in DOMAIN listeners : Site[listeners[j]] = Site[l]}
    <3>1. T \in SUBSET Nat /\ T # {}
      BY <1>1, <1>3 DEF Elements
    <3> HIDE DEF T
    <3>2. PICK j \in T : \A k \in T : j <= k
      BY <3>1, LeastNumber
    <3> USE DEF T
    <3>3. j \in DOMAIN listeners /\ Site[listeners[j]] = Site[l]
      OBVIOUS
    <3>4. ASSUME NEW k \in 1 .. j - 1 PROVE Site[listeners[k]] # Site[l]
      <4>1. k \in DOMAIN listeners /\ ~(j <= k)
        BY <1>1, <3>3
      <4> QED
        BY <3>2, <4>1
    <3> QED
      BY <3>3, <3>4
  <2>2. i \in DOMAIN listeners /\ Site[listeners[i]] = Site[l]
    BY <2>1
  <2>3. Emit!Without(l) = SubSeq(listeners, 1, i - 1) \o SubSeq(listeners, i + 1, Len(listeners))
    BY <1>3 DEF Emit!Without
  <2> HIDE DEF i
  <2>4. Emit!Without(l) \in Seq(Listeners) /\ RemovedAt(Emit!Without(l), listeners, i)
    BY <1>1, <2>2, <2>3, RemoveAt
  <2>5. Distinct(Emit!Without(l)) /\ Elements(Emit!Without(l)) = Elements(listeners) \ {listeners[i]}
    BY <1>1, <2>2, <2>4, RemovedElements
  <2>6. /\ listeners[i] \in Elements(listeners) /\ listeners[i] \in Listeners
        /\ Len(Emit!Without(l)) <= Len(listeners)
    BY <1>1, <2>2, <2>4 DEF Elements, RemovedAt
  <2> QED
    BY <2>2, <2>4, <2>5, <2>6 DEF Taken
<1> QED
  BY <1>2, <1>3

\* What every step but those of the lists and of sync.Once leaves alone.
LEMMA BalancedStays ==
  ASSUME NEW l \in Listeners, Balanced(l), Added(l)' = Added(l), Here(l)' = Here(l), Gone(l)' = Gone(l),
         Finished(l)' = Finished(l)
  PROVE  Balanced(l)'
BY DEF Balanced

LEMMA EmitterOn ==
  ASSUME EmitterInv, NEW m \in Listeners, Emit!On(m)
  PROVE  EmitterInv'
<1>0. EmitterTypes /\ RunsInOnce /\ Kept /\ (cleared = {} => \A l \in Listeners : Balanced(l))
  BY DEF EmitterInv
<1>1. /\ reg[m] = "idle" /\ UNCHANGED <<once, notifier, routine, ran, cleared>>
      /\ reg' \in [Listeners -> {"idle", "on", "refused", "off"}]
      /\ \A l \in Listeners : l # m => reg'[l] = reg[l]
      /\ \/ reg'[m] = "on" /\ listeners' = Append(listeners, m) /\ Len(listeners) < MaxListeners
         \/ reg'[m] = "refused" /\ listeners' = listeners
  BY <1>0 DEF Emit!On, EmitterTypes, Emit!TypeOK
<1>2. listeners \in Seq(Listeners) /\ Emit!Registered = Elements(listeners) /\ m \notin Elements(listeners)
  BY <1>0, <1>1 DEF EmitterTypes, Emit!TypeOK, Elements, Emit!Registered, Kept
<1>3. \/ reg'[m] = "on" /\ Emit!Registered' = Emit!Registered \cup {m}
      \/ reg'[m] = "refused" /\ Emit!Registered' = Emit!Registered
  <2>1. Emit!Registered' = Elements(listeners)'
    BY DEF Elements, Emit!Registered
  <2>2. listeners' = Append(listeners, m) => Elements(listeners)' = Elements(listeners) \cup {m}
    BY <1>2, ElementsAppend
  <2> QED
    BY <1>1, <1>2, <2>1, <2>2
<1>4. EmitterTypes'
  <2>1. listeners' \in Seq(Listeners) /\ Len(listeners') <= MaxListeners
    <3>1. /\ MaxListeners \in Nat /\ listeners \in Seq(Listeners) /\ Len(listeners) <= MaxListeners
          /\ Len(listeners) \in Nat
      BY <1>0, <1>2, DeliveryAssumption DEF EmitterTypes, Emit!TypeOK, DeliveryAssumption
    <3>2. Append(listeners, m) \in Seq(Listeners) /\ Len(Append(listeners, m)) = Len(listeners) + 1
      BY <1>2
    <3> QED
      BY <1>1, <3>1, <3>2
  <2>2. \A i, j \in DOMAIN listeners' : listeners'[i] = listeners'[j] => i = j
    <3>1. CASE listeners' = Append(listeners, m)
      <4>1. \A i \in DOMAIN listeners : listeners[i] # m
        BY <1>2 DEF Elements
      <4>2. \A i \in DOMAIN listeners' : \/ i \in DOMAIN listeners /\ listeners'[i] = listeners[i]
                                         \/ i = Len(listeners) + 1 /\ listeners'[i] = m
        BY <1>2, <3>1
      <4> QED
        BY <1>0, <1>2, <4>1, <4>2 DEF EmitterTypes, Emit!TypeOK
    <3>2. CASE listeners' = listeners
      BY <1>0, <3>2 DEF EmitterTypes, Emit!TypeOK
    <3> QED
      BY <1>1, <3>1, <3>2
  <2> QED
    BY <1>0, <1>1, <2>1, <2>2 DEF EmitterTypes, Emit!TypeOK, Emit!Calls
<1>5. RunsInOnce'
  <2>1. \A g \in DOMAIN routine : g[2] \in Listeners /\ g[2] # m
    BY <1>0, <1>1 DEF RunsInOnce, EmitterTypes
  <2> QED
    BY <1>0, <1>1, <2>1 DEF RunsInOnce, InOnce
<1>6. Kept'
  <2>1. \A l \in Listeners : Alone(l)' => Alone(l)
    BY <1>1 DEF Alone
  <2>2. /\ \A l \in Listeners : l # m => (l \in Emit!Registered' <=> l \in Emit!Registered)
        /\ m \in Emit!Registered' <=> reg'[m] = "on"
        /\ Emit!Registered \subseteq Listeners
    <3>1. Emit!Registered \subseteq Listeners
      BY <1>0 DEF EmitterTypes, Emit!TypeOK, Emit!Registered
    <3> QED
      BY <1>2, <1>3, <3>1
  <2>3. \A l \in Emit!Registered' : reg'[l] \in {"on", "off"}
    BY <1>0, <1>1, <1>3, <2>2 DEF Kept
  <2>4. ASSUME NEW l \in Listeners, Alone(l)'
        PROVE  /\ reg'[l] = "on" /\ l \notin Emit!Registered' => l \in cleared \/ (l \in Onces /\ ran[l] = 1)
               /\ reg'[l] = "off" => l \notin Emit!Registered'
    BY <1>0, <1>1, <2>1, <2>2, <2>4 DEF Kept
  <2> QED
    BY <1>1, <2>3, <2>4 DEF Kept
<1>7. ASSUME NEW l \in Listeners, cleared = {} PROVE Balanced(l)'
  <2>0. Balanced(l) /\ Gone(l)' = Gone(l) /\ Finished(l)' = Finished(l)
    BY <1>0, <1>1, <1>7 DEF Gone, Finished, Same
  <2>1. CASE reg'[m] = "on" /\ m \in Same(l)
    <3>1. Added(l)' = Added(l) \cup {m} /\ m \notin Added(l)
      BY <1>1, <2>1 DEF Added, Same
    <3>2. Here(l)' = Here(l) \cup {m} /\ m \notin Here(l)
      BY <1>1, <1>2, <1>3, <2>1 DEF Here, Same
    <3>3. /\ Cardinality(Added(l)') = Cardinality(Added(l)) + 1
          /\ Cardinality(Here(l)') = Cardinality(Here(l)) + 1
      BY <3>1, <3>2, CardAdd, ClassFinite, DeliveryAssumption
    <3> QED
      BY <2>0, <3>3, ClassFinite, DeliveryAssumption DEF Balanced
  <2>2. CASE ~(reg'[m] = "on" /\ m \in Same(l))
    <3>1. Added(l)' = Added(l) /\ Here(l)' = Here(l)
      BY <1>1, <1>3, <2>2 DEF Added, Here, Same
    <3> QED
      BY <2>0, <3>1, BalancedStays
  <2> QED
    BY <2>1, <2>2
<1> QED
  BY <1>1, <1>4, <1>5, <1>6, <1>7 DEF EmitterInv

LEMMA EmitterOff ==
  ASSUME EmitterInv, NEW m \in Listeners, Emit!Off(m)
  PROVE  EmitterInv'
<1>0. EmitterTypes /\ RunsInOnce /\ Kept /\ (cleared = {} => \A l \in Listeners : Balanced(l))
  BY DEF EmitterInv
<1>1. /\ reg[m] = "on" /\ UNCHANGED <<once, notifier, routine, ran, cleared>>
      /\ reg' \in [Listeners -> {"idle", "on", "refused", "off"}] /\ reg'[m] = "off"
      /\ \A l \in Listeners : l # m => reg'[l] = reg[l]
      /\ Taken(listeners', m)
  BY <1>0, WithoutTakes DEF Emit!Off, EmitterTypes, Emit!TypeOK
<1>2. /\ listeners' \in Seq(Listeners) /\ Len(listeners') <= Len(listeners) /\ Distinct(listeners')
      /\ Emit!Registered' = Elements(listeners')
      /\ Emit!Registered = Elements(listeners)
  BY <1>1 DEF Taken, Elements, Emit!Registered
<1>3. PICK x \in Listeners :
        /\ Site[x] = Site[m] /\ Emit!Registered' = Emit!Registered \ {x}
        /\ x \notin Emit!Registered => \A n \in Emit!Registered : Site[n] # Site[m]
  BY <1>1, <1>2 DEF Taken
<1>4. EmitterTypes'
  BY <1>0, <1>1, <1>2, DeliveryAssumption DEF EmitterTypes, Emit!TypeOK, Emit!Calls, Distinct, DeliveryAssumption
<1>5. RunsInOnce'
  BY <1>0, <1>1 DEF RunsInOnce, InOnce, EmitterTypes
<1>6. Kept'
  <2>1. \A l \in Listeners : Alone(l)' => Alone(l)
    BY <1>1 DEF Alone
  <2>2. \A l \in Emit!Registered' : reg'[l] \in {"on", "off"}
    <3>1. Emit!Registered \subseteq Listeners
      BY <1>0 DEF EmitterTypes, Emit!TypeOK, Emit!Registered
    <3> QED
      BY <1>0, <1>1, <1>3, <3>1 DEF Kept
  <2>3. ASSUME NEW l \in Listeners, reg'[l] = "on", Alone(l)', l \notin Emit!Registered'
        PROVE  l \in cleared \/ (l \in Onces /\ ran[l] = 1)
    <3>1. l # m /\ reg[l] = "on" /\ Site[l] # Site[m]
      BY <1>1, <2>3 DEF Alone
    <3> QED
      BY <1>0, <1>3, <2>1, <2>3, <3>1 DEF Kept
  <2>4. ASSUME NEW l \in Listeners, reg'[l] = "off", Alone(l)' PROVE l \notin Emit!Registered'
    <3>1. CASE l # m
      BY <1>0, <1>1, <1>3, <2>1, <2>4, <3>1 DEF Kept
    <3>2. CASE l = m
      <4>1. x = m \/ x \notin Emit!Registered
        BY <1>0, <1>1, <1>3, <2>4, <3>2 DEF Alone, Kept
      <4> QED
        BY <1>3, <3>2, <4>1
    <3> QED
      BY <3>1, <3>2
  <2> QED
    BY <1>1, <2>2, <2>3, <2>4 DEF Kept
<1>7. ASSUME NEW l \in Listeners, cleared = {} PROVE Balanced(l)'
  <2>0. Balanced(l) /\ Added(l)' = Added(l) /\ Finished(l)' = Finished(l)
    BY <1>0, <1>1, <1>7 DEF Added, Finished, Same
  <2>1. CASE m \in Same(l)
    <3>1. Gone(l)' = Gone(l) \cup {m} /\ m \notin Gone(l)
      BY <1>1, <2>1 DEF Gone, Same
    <3>2. Here(l)' = Here(l) \ {x}
      BY <1>3 DEF Here, Same
    <3>3. /\ Cardinality(Gone(l)') = Cardinality(Gone(l)) + 1
          /\ Cardinality(Here(l)) <= Cardinality(Here(l)') + 1
      BY <3>1, <3>2, CardAdd, CardDrop, ClassFinite, DeliveryAssumption
    <3>4. Cardinality(Here(l)') \in Nat
      BY <3>2, ClassFinite, FS_Subset, FS_CardinalityType, DeliveryAssumption
    <3> QED
      BY <2>0, <3>3, <3>4, ClassFinite, DeliveryAssumption DEF Balanced
  <2>2. CASE m \notin Same(l)
    <3>1. Gone(l)' = Gone(l) /\ Here(l)' = Here(l)
      BY <1>1, <1>3, <2>2 DEF Gone, Here, Same
    <3> QED
      BY <2>0, <3>1, BalancedStays
  <2> QED
    BY <2>1, <2>2
<1> QED
  BY <1>1, <1>4, <1>5, <1>6, <1>7 DEF EmitterInv

LEMMA EmitterOffAll == EmitterInv /\ Emit!OffAll => EmitterInv'
<1> SUFFICES ASSUME EmitterInv, Emit!OffAll PROVE EmitterInv'
  OBVIOUS
<1>0. EmitterTypes /\ RunsInOnce /\ Kept
  BY DEF EmitterInv
<1>1. /\ listeners # << >> /\ listeners' = << >> /\ cleared' = cleared \cup Emit!Registered
      /\ UNCHANGED <<reg, once, notifier, routine, ran>>
  BY DEF Emit!OffAll
<1>2. Emit!Registered' = {}
  BY <1>1 DEF Emit!Registered
<1>3. cleared' # {}
  <2>1. listeners \in Seq(Listeners)
    BY <1>0 DEF EmitterTypes, Emit!TypeOK
  <2>2. 1 \in DOMAIN listeners
    BY <1>1, <2>1
  <2> QED
    BY <1>1, <2>2 DEF Emit!Registered
<1>4. EmitterTypes'
  <2>1. << >> \in Seq(Listeners) /\ Len(<< >>) <= MaxListeners
    BY DeliveryAssumption DEF DeliveryAssumption
  <2> QED
    BY <1>0, <1>1, <2>1 DEF EmitterTypes, Emit!TypeOK, Emit!Calls
<1>5. RunsInOnce'
  BY <1>0, <1>1 DEF RunsInOnce, InOnce
<1>6. Kept'
  <2>1. \A l \in Listeners : Alone(l)' <=> Alone(l)
    BY <1>1 DEF Alone
  <2> QED
    BY <1>0, <1>1, <1>2, <2>1 DEF Kept
<1> QED
  BY <1>3, <1>4, <1>5, <1>6 DEF EmitterInv

\* The steps that leave the list of listeners alone, and those that end no sync.Once.
LEMMA EmitterRests ==
  ASSUME EmitterInv, UNCHANGED <<listeners, reg, cleared>>,
         \A l \in Onces : ran[l] = 1 => ran'[l] = 1,
         \A l \in Onces \ Panicking : once'[l] = "done" <=> once[l] = "done"
  PROVE  Kept' /\ (cleared' = {} => \A l \in Listeners : Balanced(l)')
<1>1. Emit!Registered' = Emit!Registered
  BY DEF Emit!Registered
<1>2. Kept'
  <2>1. \A l \in Listeners : Alone(l)' <=> Alone(l)
    BY DEF Alone
  <2> QED
    BY <1>1, <2>1 DEF EmitterInv, Kept
<1>3. ASSUME NEW l \in Listeners, cleared = {} PROVE Balanced(l)'
  <2>1. Balanced(l)
    BY <1>3 DEF EmitterInv
  <2>2. Added(l)' = Added(l) /\ Here(l)' = Here(l) /\ Gone(l)' = Gone(l)
    BY <1>1 DEF Added, Here, Gone, Same
  <2>3. Finished(l)' = Finished(l)
    BY DEF Finished, Same
  <2> QED
    BY <2>1, <2>2, <2>3, BalancedStays
<1> QED
  BY <1>2, <1>3

LEMMA EmitterNotify ==
  ASSUME EmitterInv, NEW n \in Emit!Calls, Emit!Notify(n) \/ Emit!Return(n)
  PROVE  EmitterInv'
<1>0. EmitterTypes /\ RunsInOnce /\ Kept
  BY DEF EmitterInv
<1>1. /\ UNCHANGED <<listeners, reg, once, ran, cleared>>
      /\ notifier' \in [Emit!Calls -> {"idle", "waiting", "returned"}]
  BY <1>0 DEF Emit!Notify, Emit!Return, EmitterTypes, Emit!TypeOK
<1>2. /\ DOMAIN routine \subseteq DOMAIN routine'
      /\ DOMAIN routine' \subseteq Emit!Calls \X Listeners
      /\ \A g \in DOMAIN routine' :
           \/ g \in DOMAIN routine /\ routine'[g] = routine[g]
           \/ routine'[g] = "call" /\ reg[g[2]] \in {"on", "off"}
      /\ routine' = [g \in DOMAIN routine' |-> routine'[g]]
  <2>1. CASE Emit!Return(n)
    BY <1>0, <2>1 DEF Emit!Return, EmitterTypes, Emit!TypeOK
  <2>2. CASE Emit!Notify(n)
    <3>1. \A l \in Emit!Registered : l \in Listeners /\ reg[l] \in {"on", "off"}
      BY <1>0 DEF EmitterTypes, Emit!TypeOK, Emit!Registered, Kept
    <3>2. \A g \in {<<n, l>> : l \in Emit!Registered} :
            g \in Emit!Calls \X Listeners /\ reg[g[2]] \in {"on", "off"}
      BY <3>1
    <3>3. routine' = [g \in DOMAIN routine \cup {<<n, l>> : l \in Emit!Registered} |->
                        IF g \in DOMAIN routine THEN routine[g] ELSE "call"]
      BY <2>2 DEF Emit!Notify
    <3> QED
      BY <1>0, <3>2, <3>3 DEF EmitterTypes
  <2> QED
    BY <2>1, <2>2
<1>3. EmitterTypes'
  <2>1. \A g \in DOMAIN routine' : routine'[g] \in {"call", "run", "off", "ended"}
    BY <1>0, <1>2 DEF EmitterTypes, Emit!TypeOK
  <2>2. routine' \in [DOMAIN routine' -> {"call", "run", "off", "ended"}]
    BY <1>2, <2>1
  <2> QED
    BY <1>0, <1>1, <1>2, <2>2 DEF EmitterTypes, Emit!TypeOK, Emit!Calls
<1>4. RunsInOnce'
  <2>1. \A g \in DOMAIN routine' : InOnce(g)' => g \in DOMAIN routine /\ InOnce(g) /\ routine'[g] = routine[g]
    BY <1>2 DEF InOnce
  <2>2. \A g \in DOMAIN routine' : routine'[g] = "off" => InOnce(g)'
    BY DEF InOnce
  <2>3. \A g \in DOMAIN routine' : reg[g[2]] \in {"on", "off"}
    BY <1>0, <1>2 DEF RunsInOnce
  <2> QED
    BY <1>0, <1>1, <2>1, <2>2, <2>3 DEF RunsInOnce
<1> QED
  BY <1>1, <1>3, <1>4, EmitterRests DEF EmitterInv

\* A goroutine moves, and with it at most the sync.Once of its listener.
LEMMA EmitterGoes ==
  ASSUME EmitterInv, NEW g \in DOMAIN routine, NEW p \in {"run", "off", "ended"}, Emit!Goto(g, p)
  PROVE  /\ g \in Emit!Calls \X Listeners /\ g[2] \in Listeners /\ DOMAIN routine' = DOMAIN routine
         /\ routine' \in [DOMAIN routine' -> {"call", "run", "off", "ended"}]
         /\ routine'[g] = p /\ \A h \in DOMAIN routine : h # g => routine'[h] = routine[h]
<1>1. EmitterTypes
  BY DEF EmitterInv
<1> QED
  BY <1>1 DEF EmitterTypes, Emit!TypeOK, Emit!Goto

LEMMA EmitterRun ==
  ASSUME EmitterInv, NEW g, Emit!Run(g) \/ Emit!Enter(g) \/ Emit!RunOnce(g)
  PROVE  EmitterInv'
<1>0. EmitterTypes /\ RunsInOnce /\ Kept
  BY DEF EmitterInv
<1> DEFINE l == g[2]
<1>1. /\ g \in DOMAIN routine /\ UNCHANGED <<listeners, reg, notifier, cleared>>
      /\ \E p \in {"run", "off", "ended"} : Emit!Goto(g, p)
  BY DEF Emit!Run, Emit!Enter, Emit!RunOnce
<1>2. /\ l \in Listeners /\ DOMAIN routine' = DOMAIN routine
      /\ routine' \in [DOMAIN routine' -> {"call", "run", "off", "ended"}]
      /\ \A h \in DOMAIN routine : h # g => routine'[h] = routine[h]
  BY <1>1, EmitterGoes
<1>3. \/ /\ routine'[g] = "ended" /\ ~InOnce(g) /\ UNCHANGED <<once, ran>>
      \/ /\ routine'[g] = "run" /\ routine[g] = "call" /\ l \in Onces /\ once[l] = "new"
         /\ once' = [once EXCEPT ![l] = "busy"] /\ UNCHANGED ran
      \/ /\ routine[g] = "run" /\ ran' = [ran EXCEPT ![l] = @ + 1]
         /\ \/ l \in Panicking /\ routine'[g] = "ended" /\ once' = [once EXCEPT ![l] = "done"]
            \/ l \notin Panicking /\ routine'[g] = "off" /\ UNCHANGED once
  BY <1>1, EmitterGoes DEF Emit!Run, Emit!Enter, Emit!RunOnce, InOnce
<1>4. \/ UNCHANGED <<once, ran>> /\ routine'[g] = "ended"
      \/ /\ routine[g] = "run" \/ routine'[g] = "run"
         /\ l \in Onces /\ ran[l] = 0
         /\ \A m \in Onces : m # l => once'[m] = once[m] /\ ran'[m] = ran[m]
         /\ \/ routine'[g] = "run" /\ ran'[l] = 0 /\ once'[l] = "busy" /\ once[l] = "new"
            \/ routine'[g] = "off" /\ ran'[l] = 1 /\ once'[l] = "busy" /\ once[l] = "busy"
            \/ routine'[g] = "ended" /\ ran'[l] = 1 /\ once'[l] = "done" /\ l \in Panicking
  BY <1>0, <1>1, <1>3 DEF RunsInOnce, InOnce, EmitterTypes, Emit!TypeOK
<1>5. EmitterTypes'
  <2>1. once' \in [Onces -> {"new", "busy", "done"}] /\ ran' \in [Onces -> {0, 1}]
    BY <1>0, <1>3, <1>4 DEF EmitterTypes, Emit!TypeOK
  <2> QED
    BY <1>0, <1>1, <1>2, <2>1 DEF EmitterTypes, Emit!TypeOK, Emit!Calls
<1>6. RunsInOnce'
  <2>1. \A h \in DOMAIN routine : /\ reg[h[2]] \in {"on", "off"}
                                  /\ InOnce(h) => h[2] \in Onces /\ once[h[2]] = "busy"
                                  /\ h # g => InOnce(h)' = InOnce(h)
    BY <1>0, <1>2 DEF RunsInOnce, InOnce
  <2>2. \A h \in DOMAIN routine : h # g /\ InOnce(h) =>
          \/ h[2] # l
          \/ UNCHANGED <<once, ran>> /\ ~InOnce(g)'
    BY <1>0, <1>1, <1>3, <1>4 DEF RunsInOnce, InOnce
  <2>3. ASSUME NEW h \in DOMAIN routine, InOnce(h)', h # g
        PROVE  /\ h[2] \in Onces /\ once'[h[2]] = "busy"
               /\ ran'[h[2]] = IF routine'[h] = "off" THEN 1 ELSE 0
    BY <1>0, <1>2, <1>4, <2>1, <2>2, <2>3 DEF RunsInOnce
  <2>4. InOnce(g)' => /\ l \in Onces /\ once'[l] = "busy"
                      /\ ran'[l] = IF routine'[g] = "off" THEN 1 ELSE 0
    BY <1>4 DEF InOnce
  <2>5. \A h \in DOMAIN routine : routine'[h] = "off" => h[2] \notin Panicking
    BY <1>0, <1>2, <1>3 DEF RunsInOnce
  <2>6. \A h, k \in DOMAIN routine : InOnce(h)' /\ InOnce(k)' /\ h[2] = k[2] => h = k
    BY <1>0, <1>1, <2>1, <2>2 DEF RunsInOnce
  <2>7. \A m \in Onces : /\ once'[m] = "new" => ran'[m] = 0
                         /\ once'[m] = "done" => ran'[m] = 1
    BY <1>0, <1>4 DEF RunsInOnce
  <2>8. \A h \in DOMAIN routine : /\ reg'[h[2]] \in {"on", "off"}
                                  /\ InOnce(h)' => /\ h[2] \in Onces /\ once'[h[2]] = "busy"
                                                   /\ ran'[h[2]] = IF routine'[h] = "off" THEN 1 ELSE 0
    BY <1>1, <2>1, <2>3, <2>4
  <2> QED
    BY <1>2, <2>5, <2>6, <2>7, <2>8 DEF RunsInOnce
<1>7. Kept' /\ (cleared' = {} => \A m \in Listeners : Balanced(m)')
  <2>1. \A m \in Onces : ran[m] = 1 => ran'[m] = 1
    BY <1>4
  <2>2. \A m \in Onces \ Panicking : once'[m] = "done" <=> once[m] = "done"
    BY <1>4
  <2> QED
    BY <1>1, <2>1, <2>2, EmitterRests
<1> QED
  BY <1>5, <1>6, <1>7 DEF EmitterInv

LEMMA EmitterOffAfterOnce ==
  ASSUME EmitterInv, NEW g, Emit!OffAfterOnce(g)
  PROVE  EmitterInv'
<1>0. EmitterTypes /\ RunsInOnce /\ Kept /\ (cleared = {} => \A l \in Listeners : Balanced(l))
  BY DEF EmitterInv
<1>1. /\ g \in DOMAIN routine /\ routine[g] = "off" /\ UNCHANGED <<reg, notifier, ran, cleared>>
      /\ listeners' = Emit!Without(g[2]) /\ Emit!Goto(g, "ended")
      /\ once' = [once EXCEPT ![g[2]] = "done"]
  BY DEF Emit!OffAfterOnce
<1>2. PICK m \in Listeners : m = g[2]
  BY <1>1, EmitterGoes
<1>3. /\ DOMAIN routine' = DOMAIN routine /\ routine'[g] = "ended"
      /\ routine' \in [DOMAIN routine' -> {"call", "run", "off", "ended"}]
      /\ \A h \in DOMAIN routine : h # g => routine'[h] = routine[h]
  BY <1>1, EmitterGoes
<1>4. /\ m \in Onces /\ m \notin Panicking /\ reg[m] \in {"on", "off"} /\ once[m] = "busy" /\ ran[m] = 1
      /\ \A h \in DOMAIN routine : h # g /\ InOnce(h) => h[2] # m
  BY <1>0, <1>1, <1>2 DEF RunsInOnce, InOnce
<1>5. /\ once' \in [Onces -> {"new", "busy", "done"}] /\ once'[m] = "done"
      /\ \A l \in Onces : l # m => once'[l] = once[l]
  BY <1>0, <1>1, <1>2, <1>4 DEF EmitterTypes, Emit!TypeOK
<1>6. Taken(listeners', m)
  BY <1>0, <1>1, <1>2, WithoutTakes
<1>7. /\ listeners' \in Seq(Listeners) /\ Len(listeners') <= Len(listeners) /\ Distinct(listeners')
      /\ Emit!Registered' = Elements(listeners')
      /\ Emit!Registered = Elements(listeners)
  BY <1>6 DEF Taken, Elements, Emit!Registered
<1>8. PICK x \in Listeners :
        /\ Site[x] = Site[m] /\ Emit!Registered' = Emit!Registered \ {x}
        /\ x \notin Emit!Registered => \A n \in Emit!Registered : Site[n] # Site[m]
  BY <1>6, <1>7 DEF Taken
<1>9. EmitterTypes'
  BY <1>0, <1>1, <1>3, <1>5, <1>7, DeliveryAssumption
  DEF EmitterTypes, Emit!TypeOK, Emit!Calls, Distinct, DeliveryAssumption
<1>10. RunsInOnce'
  <2>1. \A h \in DOMAIN routine : InOnce(h)' => h # g /\ InOnce(h) /\ routine'[h] = routine[h] /\ h[2] # m
    BY <1>3, <1>4 DEF InOnce
  <2>2. \A h \in DOMAIN routine : routine'[h] = "off" => InOnce(h)'
    BY DEF InOnce
  <2>3. \A h \in DOMAIN routine : reg'[h[2]] \in {"on", "off"}
    BY <1>0, <1>1 DEF RunsInOnce
  <2>4. \A l \in Onces : /\ once'[l] = "new" => ran'[l] = 0
                         /\ once'[l] = "done" => ran'[l] = 1
    BY <1>0, <1>1, <1>4, <1>5 DEF RunsInOnce
  <2> QED
    BY <1>0, <1>1, <1>3, <1>5, <2>1, <2>2, <2>3, <2>4 DEF RunsInOnce
<1>11. Kept'
  <2>1. \A l \in Listeners : Alone(l)' <=> Alone(l)
    BY <1>1 DEF Alone
  <2>2. \A l \in Emit!Registered' : reg'[l] \in {"on", "off"}
    BY <1>0, <1>1, <1>8 DEF Kept
  <2>3. ASSUME NEW l \in Listeners, reg'[l] = "on", Alone(l)', l \notin Emit!Registered'
        PROVE  l \in cleared \/ (l \in Onces /\ ran[l] = 1)
    <3>1. CASE l = x
      <4>1. l = m
        BY <1>4, <1>8, <2>1, <2>3, <3>1 DEF Alone
      <4> QED
        BY <1>4, <4>1
    <3>2. CASE l # x
      BY <1>0, <1>1, <1>8, <2>1, <2>3, <3>2 DEF Kept
    <3> QED
      BY <3>1, <3>2
  <2>4. \A l \in Listeners : reg'[l] = "off" /\ Alone(l)' => l \notin Emit!Registered'
    BY <1>0, <1>1, <1>8, <2>1 DEF Kept
  <2> QED
    BY <1>1, <2>2, <2>3, <2>4 DEF Kept
<1>12. ASSUME NEW l \in Listeners, cleared = {} PROVE Balanced(l)'
  <2>0. Balanced(l) /\ Added(l)' = Added(l) /\ Gone(l)' = Gone(l)
    BY <1>0, <1>1, <1>12 DEF Added, Gone, Same
  <2>1. CASE m \in Same(l)
    <3>1. Finished(l)' = Finished(l) \cup {m} /\ m \notin Finished(l)
      BY <1>4, <1>5, <2>1 DEF Finished, Same
    <3>2. Here(l)' = Here(l) \ {x}
      BY <1>8 DEF Here, Same
    <3>3. /\ Cardinality(Finished(l)') = Cardinality(Finished(l)) + 1
          /\ Cardinality(Here(l)) <= Cardinality(Here(l)') + 1
      BY <3>1, <3>2, CardAdd, CardDrop, ClassFinite, DeliveryAssumption
    <3>4. Cardinality(Here(l)') \in Nat
      BY <3>2, ClassFinite, FS_Subset, FS_CardinalityType, DeliveryAssumption
    <3> QED
      BY <2>0, <3>3, <3>4, ClassFinite, DeliveryAssumption DEF Balanced
  <2>2. CASE m \notin Same(l)
    <3>1. Finished(l)' = Finished(l) /\ Here(l)' = Here(l)
      <4>1. Site[m] # Site[l] /\ Site[x] # Site[l]
        BY <1>2, <1>8, <2>2 DEF Same
      <4>2. \A n \in Onces : Site[n] = Site[l] => once'[n] = once[n]
        BY <1>5, <4>1
      <4> QED
        BY <1>8, <4>1, <4>2 DEF Finished, Here, Same
    <3> QED
      BY <2>0, <3>1, BalancedStays
  <2> QED
    BY <2>1, <2>2
<1> QED
  BY <1>1, <1>9, <1>10, <1>11, <1>12 DEF EmitterInv

LEMMA EmitterStep == EmitterInv /\ [Emit!Next]_emitterVars => EmitterInv'
<1> SUFFICES ASSUME EmitterInv, [Emit!Next]_emitterVars PROVE EmitterInv'
  OBVIOUS
<1>1. CASE UNCHANGED emitterVars
  <2>1. UNCHANGED <<listeners, reg, once, notifier, routine, ran, cleared>>
    BY <1>1 DEF emitterVars
  <2>2. \A l \in Listeners : Balanced(l)' = Balanced(l)
    BY <2>1 DEF Balanced, Added, Here, Gone, Finished, Same, Emit!Registered
  <2>3. Kept' = Kept
    BY <2>1 DEF Kept, Alone, Emit!Registered
  <2> QED
    BY <2>1, <2>2, <2>3 DEF EmitterInv, EmitterTypes, Emit!TypeOK, Emit!Calls, RunsInOnce, InOnce
<1> QED
  BY <1>1, EmitterOn, EmitterOff, EmitterOffAll, EmitterNotify, EmitterRun, EmitterOffAfterOnce
  DEF Emit!Next, Emit!Step

LEMMA EmitterCardinality == \A S : Emit!Cardinality(S) = Cardinality(S)
BY DEF Emit!Cardinality, Cardinality

LEMMA EmitterKept == EmitterInv => Emit!ListenersKept
<1> SUFFICES ASSUME EmitterInv PROVE Emit!ListenersKept
  OBVIOUS
<1>1. \A l \in Onces : ran[l] <= 1
  BY DEF EmitterInv, EmitterTypes
<1>2. \A l \in Listeners :
        /\ reg[l] = "on" /\ Alone(l) /\ l \notin Emit!Registered => l \in cleared \/ (l \in Onces /\ ran[l] = 1)
        /\ reg[l] = "off" /\ Alone(l) => l \notin Emit!Registered
  BY DEF EmitterInv, Kept
<1>3. ASSUME cleared = {}, NEW l \in Listeners
      PROVE  LET over == {m \in Same(l) \cap Onces : m \notin Panicking /\ ran[m] = 1}
             IN  Cardinality(Added(l)) <= Cardinality(Here(l)) + Cardinality(Gone(l)) + Cardinality(over)
  <2> DEFINE over == {m \in Same(l) \cap Onces : m \notin Panicking /\ ran[m] = 1}
  <2>1. Finished(l) \subseteq over
    BY DEF EmitterInv, RunsInOnce, Finished
  <2>2. over \subseteq Listeners
    BY DEF Same
  <2>3. IsFiniteSet(over)
    BY <2>2, FS_Subset, DeliveryAssumption DEF DeliveryAssumption
  <2>4. Cardinality(Finished(l)) <= Cardinality(over) /\ Cardinality(over) \in Nat
    BY <2>1, <2>3, FS_Subset, FS_CardinalityType
  <2>5. Balanced(l)
    BY <1>3 DEF EmitterInv
  <2> HIDE DEF over
  <2>6. Cardinality(Added(l)) <= Cardinality(Here(l)) + Cardinality(Gone(l)) + Cardinality(over)
    BY <2>4, <2>5, ClassFinite, DeliveryAssumption DEF Balanced
  <2> QED
    BY <2>6 DEF over
<1>4. ASSUME cleared = {}, NEW s \in {Site[l] : l \in Listeners}
      PROVE  LET here == {l \in Listeners : Site[l] = s}
                 gone == {l \in here : reg[l] = "off"}
                 over == {l \in here \cap Onces : l \notin Panicking /\ ran[l] = 1}
             IN  Cardinality({l \in here : reg[l] \in {"on", "off"}})
                   <= Cardinality(here \cap Emit!Registered) + Cardinality(gone) + Cardinality(over)
  <2>1. PICK l \in Listeners : s = Site[l]
    OBVIOUS
  <2> QED
    BY <1>3, <1>4, <2>1 DEF Added, Here, Gone, Same
<1> QED
  BY <1>1, <1>2, <1>4, EmitterCardinality DEF Emit!ListenersKept, Alone

-----------------------------------------------------------------------------
(* FileWriter *)

\* m lists the files 1 .. n, each once.
Order(m, n) == m \in Seq(1 .. n) /\ Len(m) = n /\ Distinct(m) /\ Elements(m) = 1 .. n

\* f was modified before g.
Before(m, f, g) == \E i, j \in DOMAIN m : i < j /\ m[i] = f /\ m[j] = g

LEMMA Ordered ==
  ASSUME NEW n \in Nat, NEW m, Order(m, n)
  PROVE  /\ m \in Seq(1 .. n) /\ Len(m) = n /\ DOMAIN m = 1 .. n
         /\ \A i, j \in 1 .. n : m[i] = m[j] => i = j
         /\ \A f \in 1 .. n : \E i \in 1 .. n : m[i] = f
         /\ \A i \in 1 .. n : m[i] \in 1 .. n
<1>1. m \in Seq(1 .. n) /\ Len(m) = n /\ Distinct(m) /\ Elements(m) = 1 .. n
  BY DEF Order
<1>2. DOMAIN m = 1 .. n
  BY <1>1
<1>3. \A i, j \in 1 .. n : m[i] = m[j] => i = j
  BY <1>1, <1>2 DEF Distinct
<1>4. \A f \in 1 .. n : \E i \in 1 .. n : m[i] = f
  BY <1>1, <1>2, Zenon DEF Elements
<1>5. \A i \in 1 .. n : m[i] \in 1 .. n
  BY <1>1, <1>2
<1> QED
  BY <1>1, <1>2, <1>3, <1>4, <1>5

LEMMA AppendOrder ==
  ASSUME NEW n \in Nat, NEW m, Order(m, n)
  PROVE  /\ Order(Append(m, n + 1), n + 1)
         /\ \A f, g \in 1 .. n : Before(m, f, g) => Before(Append(m, n + 1), f, g)
         /\ \A f \in 1 .. n : Before(Append(m, n + 1), f, n + 1)
<1> DEFINE a == Append(m, n + 1)
<1>1. /\ m \in Seq(1 .. n) /\ Len(m) = n /\ DOMAIN m = 1 .. n
      /\ \A i, j \in 1 .. n : m[i] = m[j] => i = j
      /\ \A f \in 1 .. n : \E i \in 1 .. n : m[i] = f
      /\ \A i \in 1 .. n : m[i] \in 1 .. n
  BY Ordered
<1>2. /\ DOMAIN a = 1 .. n + 1 /\ Len(a) = n + 1 /\ a[n + 1] = n + 1
      /\ \A i \in 1 .. n : a[i] = m[i]
  BY <1>1
<1>3. a \in Seq(1 .. n + 1)
  <2>1. m \in Seq(1 .. n + 1)
    BY <1>1
  <2> QED
    BY <2>1
<1> HIDE DEF a
<1>4. /\ \A i \in DOMAIN a : i \in 1 .. n \/ i = n + 1
      /\ n + 1 \in DOMAIN a /\ n + 1 \notin 1 .. n
  BY <1>2
<1>5. \A i \in 1 .. n : i \in DOMAIN a /\ i \in DOMAIN m /\ a[i] = m[i] /\ a[i] \in 1 .. n
  BY <1>1, <1>2
<1>6. Distinct(a)
  <2> SUFFICES ASSUME NEW i \in DOMAIN a, NEW j \in DOMAIN a, a[i] = a[j] PROVE i = j
    BY DEF Distinct
  <2>1. CASE i \in 1 .. n /\ j \in 1 .. n
    BY <1>1, <1>5, <2>1
  <2>2. CASE i = n + 1 \/ j = n + 1
    BY <1>2, <1>4, <1>5, <2>2
  <2> QED
    BY <1>4, <2>1, <2>2
<1>7. Elements(a) = 1 .. n + 1
  <2>1. ASSUME NEW f \in 1 .. n + 1 PROVE \E i \in DOMAIN a : a[i] = f
    <3>1. CASE f = n + 1
      BY <1>2, <1>4, <3>1
    <3>2. CASE f # n + 1
      <4>1. PICK i \in 1 .. n : m[i] = f
        BY <1>1, <3>2
      <4> QED
        BY <1>5, <4>1
    <3> QED
      BY <3>1, <3>2
  <2>2. ASSUME NEW i \in DOMAIN a PROVE a[i] \in 1 .. n + 1
    <3>1. 1 .. n \subseteq 1 .. n + 1 /\ n + 1 \in 1 .. n + 1
      OBVIOUS
    <3> QED
      BY <1>2, <1>4, <1>5, <3>1
  <2> QED
    BY <2>1, <2>2 DEF Elements
<1>8. ASSUME NEW f \in 1 .. n, NEW g \in 1 .. n, Before(m, f, g) PROVE Before(a, f, g)
  <2>1. PICK i \in DOMAIN m, j \in DOMAIN m : i < j /\ m[i] = f /\ m[j] = g
    BY <1>8 DEF Before
  <2>2. i \in DOMAIN a /\ j \in DOMAIN a /\ a[i] = f /\ a[j] = g
    BY <1>1, <1>5, <2>1
  <2> QED
    BY <2>1, <2>2 DEF Before
<1>9. ASSUME NEW f \in 1 .. n PROVE Before(a, f, n + 1)
  <2>1. PICK i \in 1 .. n : m[i] = f
    BY <1>1
  <2>2. i \in DOMAIN a /\ n + 1 \in DOMAIN a /\ i < n + 1 /\ a[i] = f /\ a[n + 1] = n + 1
    BY <1>2, <2>1
  <2> QED
    BY <2>2 DEF Before
<1> QED
  BY <1>2, <1>3, <1>8, <1>9, <1>6, <1>7 DEF Order, a

LEMMA TouchOrder ==
  ASSUME NEW n \in Nat, Order(modified, n), NEW c \in 1 .. n
  PROVE  /\ Order(File!Touch(c), n)
         /\ \A f \in 1 .. n : f # c => Before(File!Touch(c), f, c)
         /\ \A f, g \in 1 .. n : f # c /\ Before(modified, f, g) => Before(File!Touch(c), f, g)
<1> DEFINE at == CHOOSE i \in DOMAIN modified : modified[i] = c
           t == File!Touch(c)
<1>1. /\ modified \in Seq(1 .. n) /\ Len(modified) = n /\ DOMAIN modified = 1 .. n
      /\ \A i, j \in 1 .. n : modified[i] = modified[j] => i = j
      /\ \A f \in 1 .. n : \E i \in 1 .. n : modified[i] = f
      /\ \A i \in 1 .. n : modified[i] \in 1 .. n
  BY Ordered
<1>2. at \in 1 .. n /\ modified[at] = c
  BY <1>1
<1>3. t = [i \in 1 .. n |-> IF i < at THEN modified[i] ELSE IF i < n THEN modified[i + 1] ELSE c]
  BY <1>1 DEF File!Touch
<1> HIDE DEF at, t
<1>4. /\ DOMAIN t = 1 .. n
      /\ \A i \in 1 .. n : /\ i < at => t[i] = modified[i]
                           /\ at <= i /\ i < n => t[i] = modified[i + 1]
      /\ t[n] = c
  BY <1>1, <1>2, <1>3
<1>5. ASSUME NEW i \in 1 .. n PROVE t[i] \in 1 .. n
  <2>1. CASE i < at
    BY <1>1, <1>4, <2>1
  <2>2. CASE at <= i /\ i < n
    BY <1>1, <1>4, <2>2
  <2>3. CASE i = n
    BY <1>4, <2>3
  <2> QED
    BY <1>2, <2>1, <2>2, <2>3
<1>6. t \in Seq(1 .. n) /\ Len(t) = n
  <2>1. t \in [1 .. n -> 1 .. n]
    BY <1>3, <1>5
  <2> QED
    BY <2>1
\* Where f is after the change.
<1>7. ASSUME NEW i \in 1 .. n, i # at
      PROVE  \E k \in 1 .. n - 1 : t[k] = modified[i] /\ k = IF i < at THEN i ELSE i - 1
  <2>1. CASE i < at
    <3>1. i \in 1 .. n - 1 /\ t[i] = modified[i]
      BY <1>2, <1>4, <2>1
    <3> QED
      BY <2>1, <3>1
  <2>2. CASE i > at
    <3>1. i - 1 \in 1 .. n - 1 /\ t[i - 1] = modified[i]
      BY <1>2, <1>4, <2>2
    <3> QED
      BY <1>2, <2>2, <3>1
  <2> QED
    BY <1>2, <1>7, <2>1, <2>2
<1>8. Distinct(t)
  <2> SUFFICES ASSUME NEW i \in 1 .. n, NEW j \in 1 .. n, t[i] = t[j] PROVE i = j
    BY <1>4 DEF Distinct
  <2> DEFINE From(k) == IF k < at THEN k ELSE IF k < n THEN k + 1 ELSE at
  <2>1. \A k \in 1 .. n : From(k) \in 1 .. n /\ t[k] = modified[From(k)]
    BY <1>2, <1>4
  <2>2. \A k, l \in 1 .. n : From(k) = From(l) => k = l
    BY <1>2
  <2> HIDE DEF From
  <2>3. From(i) = From(j)
    BY <1>1, <2>1
  <2> QED
    BY <2>2, <2>3
<1>9. Elements(t) = 1 .. n
  <2>1. ASSUME NEW f \in 1 .. n PROVE \E k \in DOMAIN t : t[k] = f
    <3>1. PICK i \in 1 .. n : modified[i] = f
      BY <1>1
    <3>2. CASE i = at
      BY <1>2, <1>4, <3>1, <3>2
    <3>3. CASE i # at
      BY <1>4, <1>7, <3>1, <3>3
    <3> QED
      BY <3>2, <3>3
  <2> QED
    BY <1>4, <1>5, <2>1 DEF Elements
<1>10. ASSUME NEW f \in 1 .. n, f # c PROVE Before(t, f, c)
  <2>1. PICK i \in 1 .. n : modified[i] = f
    BY <1>1
  <2>2. PICK k \in 1 .. n - 1 : t[k] = f
    BY <1>2, <1>7, <1>10, <2>1
  <2>3. k \in DOMAIN t /\ n \in DOMAIN t /\ k < n /\ t[n] = c
    BY <1>4
  <2> QED
    BY <2>2, <2>3 DEF Before
<1>11. ASSUME NEW f \in 1 .. n, NEW g \in 1 .. n, f # c, Before(modified, f, g) PROVE Before(t, f, g)
  <2>1. PICK i \in 1 .. n, j \in 1 .. n : i < j /\ modified[i] = f /\ modified[j] = g
    BY <1>1, <1>11 DEF Before
  <2>2. CASE g = c
    BY <1>10, <1>11, <2>2
  <2>3. CASE g # c
    <3>1. i # at /\ j # at
      BY <1>2, <1>11, <2>1, <2>3
    <3>2. PICK k \in 1 .. n - 1 : t[k] = f /\ k = IF i < at THEN i ELSE i - 1
      BY <1>7, <2>1, <3>1
    <3>3. PICK l \in 1 .. n - 1 : t[l] = g /\ l = IF j < at THEN j ELSE j - 1
      BY <1>7, <2>1, <3>1
    <3>4. k < l
      BY <1>2, <2>1, <3>1, <3>2, <3>3
    <3> QED
      BY <1>4, <3>2, <3>3, <3>4 DEF Before
  <2> QED
    BY <2>2, <2>3
<1> QED
  BY <1>6, <1>8, <1>9, <1>10, <1>11 DEF Order, t

\* The files of w; the writers that share no file with another, and those whose files no
\* other writer takes for its own.
Own(w)   == {f \in DOMAIN files : files[f].prefix = w}
Apart(w) == \A v \in Prefixes \ {w} : w \notin Matches[v] /\ v \notin Matches[w]
Sole(w)  == \A v \in Prefixes \ {w} : w \notin Matches[v]

LogFiles == [prefix : Prefixes, data : Seq(0 .. MaxRecords)]
FileTypes ==
  /\ files \in Seq(LogFiles)
  /\ current \in [Prefixes -> 0 .. Len(files)] /\ size \in [Prefixes -> Nat]
  /\ records \in 0 .. MaxRecords /\ written \in [Prefixes -> Seq(1 .. MaxRecords)]
  /\ failed \in BOOLEAN /\ Order(modified, Len(files))
  /\ \A w \in Prefixes : current[w] # 0 => current[w] \in File!Named(w, files)

\* Who shares no file has opened the last of its own, which it also modified last.
OpenedLast ==
  \A w \in Prefixes : Apart(w) =>
    /\ \A f \in Own(w) : f <= current[w]
    /\ \A f, g \in Own(w) : f < g => Before(modified, f, g)

Recorded ==
  \A w \in Prefixes : \A n \in Elements(written[w]) :
    \E f \in File!Named(w, files) : n \in Elements(files[f].data)

Numbered == \A f \in DOMAIN files : \A n \in Elements(files[f].data) : n <= records

OwnRecords(w) ==
  /\ \A f \in Own(w) : Elements(files[f].data) \subseteq Elements(written[w]) \cup {0}
  /\ \A f, g \in Own(w) : \A i \in DOMAIN files[f].data, j \in DOMAIN files[g].data :
       f < g \/ (f = g /\ i < j) =>
         files[f].data[i] < files[g].data[j] \/ 0 \in {files[f].data[i], files[g].data[j]}

\* An open file is not full and its size is known; a full one is not the one modified last.
Filled(f) ==
  LET w == files[f].prefix
      n == Len(files[f].data)
  IN  /\ n <= LogDataSize + 1
      /\ current[w] = f => size[w] = n /\ n <= LogDataSize
      /\ n > LogDataSize => \E g \in File!Named(w, files) : g # f /\ Before(modified, f, g)

FileInv ==
  /\ FileTypes /\ OpenedLast /\ Recorded /\ Numbered
  /\ \A w \in Prefixes : Apart(w) => OwnRecords(w)
  /\ ~failed => \A f \in DOMAIN files : Sole(files[f].prefix) => Filled(f)

LEMMA FileInit == File!Init => FileInv
<1> SUFFICES ASSUME File!Init PROVE FileInv
  OBVIOUS
<1> USE DEF File!Init
<1>1. DOMAIN files = {} /\ Len(files) = 0
  OBVIOUS
<1>2. FileTypes
  <2>1. files \in Seq(LogFiles) /\ << >> \in Seq(1 .. MaxRecords)
    OBVIOUS
  <2>2. Order(modified, Len(files))
    <3>1. modified \in Seq(1 .. 0) /\ Len(modified) = 0 /\ DOMAIN modified = {} /\ 1 .. 0 = {}
      OBVIOUS
    <3> QED
      BY <1>1, <3>1 DEF Order, Distinct, Elements
  <2> QED
    <3>1. current \in [Prefixes -> 0 .. 0] /\ size \in [Prefixes -> Nat] /\ \A w \in Prefixes : current[w] = 0
      OBVIOUS
    <3>2. records \in 0 .. MaxRecords /\ failed \in BOOLEAN
      <4>1. MaxRecords \in Nat
        BY DeliveryAssumption DEF DeliveryAssumption
      <4>2. 0 \in 0 .. MaxRecords
        BY <4>1
      <4>3. records = 0 /\ failed = FALSE
        OBVIOUS
      <4> QED
        BY <4>2, <4>3
    <3>3. written \in [Prefixes -> Seq(1 .. MaxRecords)]
      BY <2>1
    <3> QED
      BY <1>1, <2>1, <2>2, <3>1, <3>2, <3>3 DEF FileTypes
<1>3. OpenedLast /\ \A w \in Prefixes : OwnRecords(w)
  BY <1>1 DEF OpenedLast, OwnRecords, Own
<1>4. \A w \in Prefixes : Elements(written[w]) = {}
  BY DEF Elements
<1>5. Recorded /\ Numbered
  BY <1>1, <1>4 DEF Recorded, Numbered
<1> QED
  BY <1>1, <1>2, <1>3, <1>5 DEF FileInv

\* The file modified last.
LEMMA NewestIsLast ==
  ASSUME FileTypes, NEW w \in Prefixes, File!Named(w, files) # {}
  PROVE  /\ File!Newest(w) \in File!Named(w, files)
         /\ \A g \in File!Named(w, files) : ~Before(modified, File!Newest(w), g)
<1> DEFINE N == File!Named(w, files)
           n == Len(files)
           Latest(f) == \E i \in DOMAIN modified :
                          modified[i] = f /\ \A j \in i + 1 .. Len(modified) : modified[j] \notin N
<1>1. n \in Nat /\ N \subseteq 1 .. n
  <2>1. files \in Seq(LogFiles)
    BY DEF FileTypes
  <2>2. n \in Nat /\ DOMAIN files = 1 .. n
    BY <2>1
  <2> QED
    BY <2>2 DEF File!Named
<1>2. /\ modified \in Seq(1 .. n) /\ Len(modified) = n /\ DOMAIN modified = 1 .. n
      /\ \A i, j \in 1 .. n : modified[i] = modified[j] => i = j
      /\ \A f \in 1 .. n : \E i \in 1 .. n : modified[i] = f
  BY <1>1, Ordered DEF FileTypes
<1> HIDE DEF n
<1>3. \E f \in N : Latest(f)
  <2> DEFINE T == {k \in 0 .. n : n - k \in 1 .. n /\ modified[n - k] \in N}
  <2>1. T \in SUBSET Nat
    BY <1>1
  <2>2. T # {}
    <3>1. PICK f \in N : TRUE
      OBVIOUS
    <3>2. PICK i \in 1 .. n : modified[i] = f
      BY <1>1, <1>2, <3>1
    <3>3. n - i \in 0 .. n /\ n - (n - i) = i
      BY <1>1
    <3> QED
      BY <3>2, <3>3
  <2> HIDE DEF T
  <2>3. PICK k \in T : \A m \in T : k <= m
    BY <2>1, <2>2, LeastNumber
  <2> USE DEF T
  <2>4. n - k \in 1 .. n /\ modified[n - k] \in N /\ k \in 0 .. n
    OBVIOUS
  <2>5. ASSUME NEW j \in n - k + 1 .. n PROVE modified[j] \notin N
    <3>1. n - j \in 0 .. n /\ n - (n - j) = j /\ ~(k <= n - j) /\ j \in 1 .. n
      BY <1>1, <2>4
    <3> QED
      BY <2>3, <3>1
  <2> QED
    BY <1>2, <2>4, <2>5
<1>4. File!Newest(w) = CHOOSE f \in N : Latest(f)
  BY DEF File!Newest
<1>5. File!Newest(w) \in N /\ Latest(File!Newest(w))
  BY <1>3, <1>4
<1>6. ASSUME NEW g \in N, Before(modified, File!Newest(w), g) PROVE FALSE
  <2>1. PICK i \in 1 .. n : /\ modified[i] = File!Newest(w)
                            /\ \A j \in i + 1 .. n : modified[j] \notin N
    BY <1>2, <1>5
  <2>2. PICK k \in 1 .. n, l \in 1 .. n : k < l /\ modified[k] = File!Newest(w) /\ modified[l] = g
    BY <1>2, <1>6 DEF Before
  <2>3. k = i
    BY <1>2, <2>1, <2>2
  <2>4. l \in i + 1 .. n
    BY <1>1, <2>2, <2>3
  <2> QED
    BY <2>1, <2>2, <2>4
<1> QED
  BY <1>5, <1>6

\* What a step does to the files: of w, c grows by x (none, if c is 0), and w may open a
\* new one.
Changed(w, c, x) ==
  /\ files' \in Seq(LogFiles)
  /\ Len(files') \in Len(files) .. Len(files) + 1 /\ Order(modified', Len(files'))
  /\ \A f \in DOMAIN files : /\ f \in DOMAIN files' /\ files'[f].prefix = files[f].prefix
                             /\ f # c => files'[f].data = files[f].data
                             /\ f = c => files'[f].data = Append(files[f].data, x)
  /\ \A f \in DOMAIN files' : f \notin DOMAIN files =>
       /\ files'[f].prefix = w /\ files'[f].data = << >> /\ current'[w] = f
       /\ size'[w] = 0 /\ \A g \in DOMAIN files : g < f /\ Before(modified', g, f)
  /\ \A f \in DOMAIN files : f # c /\ c \in DOMAIN files => Before(modified', f, c)
  /\ \A f, g \in DOMAIN files : f # c /\ Before(modified, f, g) => Before(modified', f, g)

\* A file grows.
Growth(grown, touched, c, x) ==
  /\ grown \in Seq(LogFiles) /\ Len(grown) = Len(files) /\ DOMAIN grown = DOMAIN files
  /\ \A f \in DOMAIN files : /\ grown[f].prefix = files[f].prefix
                             /\ f # c => grown[f].data = files[f].data
                             /\ f = c => grown[f].data = Append(files[f].data, x)
  /\ Order(touched, Len(files))
  /\ \A f \in DOMAIN files : f # c /\ c \in DOMAIN files => Before(touched, f, c)
  /\ \A f, g \in DOMAIN files : f # c /\ Before(modified, f, g) => Before(touched, f, g)

LEMMA Grown ==
  ASSUME FileTypes, NEW c \in DOMAIN files, NEW x \in 0 .. MaxRecords, NEW grown,
         grown = [files EXCEPT ![c].data = Append(@, x)]
  PROVE  Growth(grown, File!Touch(c), c, x)
<1> DEFINE n == Len(files)
<1>1. /\ files \in Seq(LogFiles) /\ n \in Nat /\ DOMAIN files = 1 .. n /\ Order(modified, n)
  BY DEF FileTypes
<1>2. /\ DOMAIN grown = DOMAIN files
      /\ \A f \in DOMAIN files : f # c => grown[f] = files[f]
      /\ grown[c] = [files[c] EXCEPT !.data = Append(@, x)]
  OBVIOUS
<1>3. files[c] \in LogFiles /\ files[c].data \in Seq(0 .. MaxRecords)
  <2>1. files[c] \in LogFiles
    BY <1>1
  <2> QED
    BY <2>1 DEF LogFiles
<1>4. grown[c].prefix = files[c].prefix /\ grown[c].data = Append(files[c].data, x)
  BY <1>2, <1>3 DEF LogFiles
<1>5. grown[c] \in LogFiles
  <2>1. Append(files[c].data, x) \in Seq(0 .. MaxRecords)
    BY <1>3
  <2> QED
    BY <1>2, <1>3, <2>1 DEF LogFiles
<1>6. grown \in Seq(LogFiles) /\ Len(grown) = n
  <2>1. \A f \in 1 .. n : grown[f] \in LogFiles
    <3>1. \A f \in 1 .. n : files[f] \in LogFiles
      BY <1>1
    <3> QED
      BY <1>1, <1>2, <1>5, <3>1
  <2>2. grown = [f \in 1 .. n |-> grown[f]]
    BY <1>1
  <2>3. grown \in [1 .. n -> LogFiles]
    BY <2>1, <2>2
  <2> QED
    BY <1>1, <2>3
<1> HIDE DEF n
<1>7. /\ Order(File!Touch(c), n)
      /\ \A f \in 1 .. n : f # c => Before(File!Touch(c), f, c)
      /\ \A f, g \in 1 .. n : f # c /\ Before(modified, f, g) => Before(File!Touch(c), f, g)
  BY <1>1, TouchOrder
<1> QED
  BY <1>1, <1>2, <1>4, <1>6, <1>7 DEF Growth, n

LEMMA Grows ==
  ASSUME FileTypes, NEW c \in DOMAIN files, NEW x \in 0 .. MaxRecords, NEW w \in Prefixes,
         files' = [files EXCEPT ![c].data = Append(@, x)], modified' = File!Touch(c)
  PROVE  Changed(w, c, x) /\ DOMAIN files' = DOMAIN files
<1>1. PICK grown : grown = [files EXCEPT ![c].data = Append(@, x)]
  OBVIOUS
<1>2. Growth(grown, File!Touch(c), c, x)
  BY <1>1, Grown
<1>3. files' = grown /\ Len(files) \in Len(files) .. Len(files) + 1
  BY <1>1 DEF FileTypes
<1> QED
  BY <1>2, <1>3 DEF Growth, Changed

\* A new one is opened.
LEMMA Opens ==
  ASSUME FileTypes, NEW w \in Prefixes, NEW grown, NEW touched, NEW c, NEW x,
         Growth(grown, touched, c, x),
         files' = File!Create(w, grown), modified' = Append(touched, Len(files) + 1),
         current' = [current EXCEPT ![w] = Len(files) + 1], size' = [size EXCEPT ![w] = 0]
  PROVE  Changed(w, c, x) /\ Len(files) + 1 \in DOMAIN files' /\ files'[Len(files) + 1].prefix = w
<1> DEFINE n == Len(files)
           new == [prefix |-> w, data |-> << >>]
<1>1. /\ n \in Nat /\ DOMAIN files = 1 .. n /\ DOMAIN grown = 1 .. n
      /\ files \in Seq(LogFiles)
  BY DEF FileTypes, Growth
<1>2. new \in LogFiles /\ new.prefix = w /\ new.data = << >>
  BY DEF LogFiles
<1>3. files' = Append(grown, new) /\ grown \in Seq(LogFiles) /\ Len(grown) = n
  BY DEF File!Create, Growth
<1> HIDE DEF new
<1>4. /\ files' \in Seq(LogFiles) /\ Len(files') = n + 1
      /\ DOMAIN files' = 1 .. n + 1 /\ files'[n + 1] = new
      /\ \A f \in 1 .. n : files'[f] = grown[f]
  BY <1>1, <1>2, <1>3
<1>5. current'[w] = n + 1 /\ size'[w] = 0
  BY DEF FileTypes
<1> HIDE DEF n
<1>6. /\ Order(modified', n + 1)
      /\ \A f \in 1 .. n : Before(modified', f, n + 1)
      /\ \A f, g \in 1 .. n : Before(touched, f, g) => Before(modified', f, g)
  <2>1. Order(touched, n) /\ modified' = Append(touched, n + 1)
    BY DEF n, Growth
  <2> QED
    BY <1>1, <2>1, AppendOrder
<1>7. /\ \A f \in 1 .. n + 1 : f \in 1 .. n \/ f = n + 1
      /\ \A f \in 1 .. n : f \in 1 .. n + 1 /\ f < n + 1
      /\ n + 1 \in n .. n + 1 /\ n + 1 \in 1 .. n + 1
  BY <1>1
<1>8. /\ \A f \in 1 .. n : f # c /\ c \in 1 .. n => Before(modified', f, c)
      /\ \A f, g \in 1 .. n : f # c /\ Before(modified, f, g) => Before(modified', f, g)
  BY <1>1, <1>6 DEF Growth
<1>9. \A f \in 1 .. n : /\ files'[f].prefix = files[f].prefix
                        /\ f # c => files'[f].data = files[f].data
                        /\ f = c => files'[f].data = Append(files[f].data, x)
  BY <1>1, <1>4 DEF Growth
<1>10. DOMAIN files = 1 .. n /\ Len(files) = n /\ Len(files') = n + 1 /\ DOMAIN files' = 1 .. n + 1
  BY <1>1, <1>4 DEF n
<1>11. \A f \in DOMAIN files' : f \notin DOMAIN files =>
         /\ files'[f].prefix = w /\ files'[f].data = << >> /\ current'[w] = f
         /\ size'[w] = 0 /\ \A g \in DOMAIN files : g < f /\ Before(modified', g, f)
  BY <1>2, <1>4, <1>5, <1>6, <1>7, <1>10
<1> QED
  BY <1>2, <1>4, <1>6, <1>7, <1>8, <1>9, <1>10, <1>11 DEF Changed

\* What a step does for its writer w: c is its file (or 0: none grows), x a record or half
\* of one.
Stepped(w, c, x) ==
  /\ Changed(w, c, x)
  /\ \A v \in Prefixes : v # w =>
       current'[v] = current[v] /\ size'[v] = size[v] /\ written'[v] = written[v]
  /\ current' \in [Prefixes -> 0 .. Len(files')] /\ size' \in [Prefixes -> Nat]
  /\ records' \in 0 .. MaxRecords /\ records <= records' /\ failed' \in BOOLEAN
  /\ written' \in [Prefixes -> Seq(1 .. MaxRecords)]
  /\ c # 0 => c = current[w] /\ x \in {0, records'}
  /\ records' = records => c = 0
  /\ \/ written'[w] = written[w] /\ (c # 0 => x = 0)
     \/ written'[w] = Append(written[w], x) /\ c # 0 /\ x = records' /\ records' > records
  /\ current'[w] \in File!Named(w, files')
  /\ \/ current'[w] = current[w] /\ c = current[w]
     \/ current'[w] \in DOMAIN files' /\ current'[w] \notin DOMAIN files
     \/ /\ c = 0 /\ current'[w] = File!Newest(w) /\ File!Named(w, files) # {}
        /\ size'[w] = Len(files[File!Newest(w)].data)
        /\ files' = files /\ modified' = modified
  /\ \/ failed'
     \/ c = 0 /\ failed' = failed
     \/ /\ failed' = failed /\ x = records'
        /\ \/ current'[w] = c /\ size'[w] = size[w] + 1 /\ size[w] + 1 <= LogDataSize
           \/ current'[w] # c

LEMMA NamedStays ==
  ASSUME NEW w, NEW c, NEW x, Changed(w, c, x), NEW v
  PROVE  /\ File!Named(v, files) \subseteq File!Named(v, files')
         /\ \A f \in DOMAIN files : f \in File!Named(v, files') => f \in File!Named(v, files)
BY DEF Changed, File!Named

LEMMA NewNamed ==
  ASSUME NEW w \in Prefixes, NEW f \in DOMAIN files', files'[f].prefix = w
  PROVE  f \in File!Named(w, files')
BY DeliveryAssumption DEF File!Named, DeliveryAssumption

LEMMA WriteSteps ==
  ASSUME FileInv, NEW w \in Prefixes, NEW canRotate \in BOOLEAN, File!Write(w, canRotate)
  PROVE  \E c, x : Stepped(w, c, x)
<1> DEFINE full == size[w] + 1 > LogDataSize
<1> PICK c : c = current[w]
  OBVIOUS
<1>0. FileTypes /\ MaxRecords \in Nat /\ LogDataSize \in Nat
  BY DeliveryAssumption DEF FileInv, DeliveryAssumption
<1>1. c # 0 /\ records < MaxRecords /\ records' = records + 1
  BY DEF File!Write
<1>2. /\ c \in File!Named(w, files) /\ c \in DOMAIN files
      /\ records \in 0 .. MaxRecords /\ size[w] \in Nat /\ failed \in BOOLEAN /\ Len(files) \in Nat
      /\ current \in [Prefixes -> 0 .. Len(files)] /\ size \in [Prefixes -> Nat]
      /\ written \in [Prefixes -> Seq(1 .. MaxRecords)]
  BY <1>0, <1>1 DEF FileTypes, File!Named
<1>3. PICK x \in 0 .. MaxRecords : x = records + 1
  BY <1>0, <1>1, <1>2
<1>4. /\ records' \in 0 .. MaxRecords /\ records < records' /\ x = records' /\ records \in Nat
  BY <1>0, <1>1, <1>2, <1>3
<1>5. /\ written' = [written EXCEPT ![w] = Append(@, x)]
      /\ failed' = (failed \/ (full /\ ~canRotate))
  BY <1>3 DEF File!Write
<1>6. /\ written' \in [Prefixes -> Seq(1 .. MaxRecords)] /\ written'[w] = Append(written[w], x)
      /\ \A v \in Prefixes : v # w => written'[v] = written[v]
  <2>1. Append(written[w], x) \in Seq(1 .. MaxRecords)
    <3>1. x \in 1 .. MaxRecords /\ written[w] \in Seq(1 .. MaxRecords)
      BY <1>2, <1>3, <1>4
    <3> QED
      BY <3>1
  <2> QED
    BY <1>2, <1>5, <2>1
<1> PICK grown : grown = [files EXCEPT ![c].data = Append(@, x)]
  OBVIOUS
<1>7. CASE full /\ canRotate
  <2>1. /\ files' = File!Create(w, grown) /\ modified' = Append(File!Touch(c), Len(files) + 1)
        /\ current' = [current EXCEPT ![w] = Len(files) + 1]
        /\ size' = [size EXCEPT ![w] = 0] /\ failed' = failed
    BY <1>2, <1>3, <1>5, <1>7 DEF File!Write
  <2>2. Growth(grown, File!Touch(c), c, x)
    BY <1>0, <1>2, <1>3, Grown
  <2>3. Changed(w, c, x) /\ Len(files) + 1 \in DOMAIN files' /\ files'[Len(files) + 1].prefix = w
    BY <1>0, <2>1, <2>2, Opens
  <2>4. DOMAIN files = 1 .. Len(files) /\ Len(files') = Len(files) + 1
    <3>1. files \in Seq(LogFiles) /\ files' \in Seq(LogFiles) /\ Len(files') \in Len(files) .. Len(files) + 1
      BY <1>0, <2>3 DEF FileTypes, Changed
    <3> QED
      BY <2>3, <3>1
  <2>5. /\ current'[w] = Len(files) + 1 /\ size'[w] = 0
        /\ current' \in [Prefixes -> 0 .. Len(files')] /\ size' \in [Prefixes -> Nat]
        /\ \A v \in Prefixes : v # w => current'[v] = current[v] /\ size'[v] = size[v]
    <3>1. 0 .. Len(files) \subseteq 0 .. Len(files') /\ Len(files) + 1 \in 0 .. Len(files')
      BY <1>2, <2>4
    <3> QED
      BY <1>2, <2>1, <3>1
  <2>6. current'[w] \in File!Named(w, files') /\ current'[w] \notin DOMAIN files /\ current'[w] # c
    BY <1>2, <2>3, <2>4, <2>5, NewNamed
  <2>7. Stepped(w, c, x)
    <3>1. \A v \in Prefixes : v # w =>
            current'[v] = current[v] /\ size'[v] = size[v] /\ written'[v] = written[v]
      BY <1>6, <2>5
    <3>2. c # 0 /\ c = current[w] /\ x \in {0, records'} /\ records' # records /\ records <= records'
      BY <1>1, <1>4
    <3>3. current'[w] \in DOMAIN files' /\ current'[w] \notin DOMAIN files
      BY <2>3, <2>5, <2>6
    <3>4. failed' = failed /\ failed' \in BOOLEAN /\ x = records' /\ current'[w] # c
      BY <1>2, <1>4, <2>1, <2>6
    <3> QED
      BY <1>4, <1>6, <2>3, <2>5, <2>6, <3>1, <3>2, <3>3, <3>4 DEF Stepped
  <2> QED
    BY <2>7
<1>8. CASE ~(full /\ canRotate)
  <2>1. /\ files' = grown /\ modified' = File!Touch(c) /\ current' = current
        /\ size' = [size EXCEPT ![w] = @ + 1]
    BY <1>3, <1>8 DEF File!Write
  <2>2. failed' \/ (failed' = failed /\ size[w] + 1 <= LogDataSize)
    <3>1. CASE full
      <4>1. ~canRotate
        BY <1>8, <3>1
      <4> QED
        BY <1>5, <3>1, <4>1, Zenon
    <3>2. CASE ~full
      <4>1. failed' = failed
        BY <1>2, <1>5, <3>2, Zenon
      <4>2. size[w] + 1 <= LogDataSize
        BY <1>0, <1>2, <3>2
      <4> QED
        BY <4>1, <4>2
    <3> QED
      BY <3>1, <3>2
  <2>3. Changed(w, c, x) /\ DOMAIN files' = DOMAIN files
    BY <1>0, <1>2, <2>1, Grows
  <2>4. Len(files') = Len(files)
    <3>1. files \in Seq(LogFiles) /\ files' \in Seq(LogFiles)
      BY <1>0, <2>3 DEF FileTypes, Changed
    <3> QED
      BY <2>3, <3>1
  <2>5. /\ size'[w] = size[w] + 1 /\ size' \in [Prefixes -> Nat] /\ failed' \in BOOLEAN
        /\ \A v \in Prefixes : v # w => size'[v] = size[v]
    BY <1>2, <1>5, <2>1
  <2>6. current'[w] \in File!Named(w, files')
    BY <1>2, <2>1, <2>3, NamedStays
  <2>7. Stepped(w, c, x)
    BY <1>1, <1>2, <1>4, <1>6, <2>1, <2>2, <2>3, <2>4, <2>5, <2>6 DEF Stepped
  <2> QED
    BY <2>7
<1> QED
  BY <1>7, <1>8

LEMMA WriteFailsSteps ==
  ASSUME FileInv, NEW w \in Prefixes, File!WriteFails(w)
  PROVE  \E c, x : Stepped(w, c, x)
<1> PICK c : c = current[w]
  OBVIOUS
<1> PICK x : x = 0
  OBVIOUS
<1>0. FileTypes /\ MaxRecords \in Nat
  BY DeliveryAssumption DEF FileInv, DeliveryAssumption
<1>1. /\ c # 0 /\ records < MaxRecords /\ records' = records + 1
      /\ files' = [files EXCEPT ![c].data = Append(@, x)] /\ modified' = File!Touch(c)
      /\ failed' = TRUE /\ UNCHANGED <<current, size, written>>
  BY DEF File!WriteFails, File!Torn
<1>2. /\ c \in File!Named(w, files) /\ c \in DOMAIN files
      /\ records \in 0 .. MaxRecords /\ Len(files) \in Nat
      /\ current \in [Prefixes -> 0 .. Len(files)] /\ size \in [Prefixes -> Nat]
      /\ written \in [Prefixes -> Seq(1 .. MaxRecords)]
  BY <1>0, <1>1 DEF FileTypes, File!Named
<1>3. /\ records' \in 0 .. MaxRecords /\ records <= records' /\ records' # records /\ x \in 0 .. MaxRecords
      /\ c # 0 /\ c = current[w] /\ x \in {0, records'}
  BY <1>0, <1>1, <1>2
<1>4. Changed(w, c, x) /\ DOMAIN files' = DOMAIN files
  BY <1>0, <1>1, <1>2, <1>3, Grows
<1>5. Len(files') = Len(files)
  <2>1. files \in Seq(LogFiles) /\ files' \in Seq(LogFiles)
    BY <1>0, <1>4 DEF FileTypes, Changed
  <2> QED
    BY <1>4, <2>1
<1>6. current'[w] \in File!Named(w, files') /\ current'[w] = current[w]
  BY <1>1, <1>2, <1>4, NamedStays
<1>7. Stepped(w, c, x)
  BY <1>1, <1>2, <1>3, <1>4, <1>5, <1>6 DEF Stepped
<1> QED
  BY <1>7

LEMMA NewFileWriterSteps ==
  ASSUME FileInv, NEW w \in Prefixes, File!NewFileWriter(w)
  PROVE  \E c, x : Stepped(w, c, x)
<1>0. FileTypes
  BY DEF FileInv
<1> PICK c : c = 0
  OBVIOUS
<1> PICK n : n = Len(files)
  OBVIOUS
<1>1. /\ files \in Seq(LogFiles) /\ n \in Nat /\ DOMAIN files = 1 .. n /\ c \notin DOMAIN files
      /\ Order(modified, n)
  BY <1>0 DEF FileTypes
<1>2. /\ records \in 0 .. MaxRecords /\ failed \in BOOLEAN
      /\ current \in [Prefixes -> 0 .. n] /\ size \in [Prefixes -> Nat]
      /\ written \in [Prefixes -> Seq(1 .. MaxRecords)]
  BY <1>0 DEF FileTypes
<1>3. UNCHANGED <<records, written, failed>>
  BY DEF File!NewFileWriter
<1>4. records \in Nat /\ records' = records /\ records <= records' /\ failed' = failed
  BY <1>2, <1>3
<1>5. CASE File!Named(w, files) = {}
  <2>1. /\ files' = File!Create(w, files) /\ modified' = Append(modified, Len(files) + 1)
        /\ current' = [current EXCEPT ![w] = Len(files) + 1]
        /\ size' = [size EXCEPT ![w] = 0]
    BY <1>5 DEF File!NewFileWriter
  <2>2. Growth(files, modified, c, 0)
    BY <1>1 DEF Growth
  <2>3. Changed(w, c, 0) /\ n + 1 \in DOMAIN files' /\ files'[n + 1].prefix = w
    BY <1>0, <2>1, <2>2, Opens
  <2>4. Len(files') = n + 1
    <3>1. files' \in Seq(LogFiles) /\ Len(files') \in n .. n + 1
      BY <2>3 DEF Changed
    <3> QED
      BY <1>1, <2>3, <3>1
  <2>5. /\ current'[w] = n + 1 /\ size'[w] = 0
        /\ current' \in [Prefixes -> 0 .. Len(files')] /\ size' \in [Prefixes -> Nat]
        /\ \A v \in Prefixes : v # w => current'[v] = current[v] /\ size'[v] = size[v]
    <3>1. 0 .. n \subseteq 0 .. Len(files') /\ n + 1 \in 0 .. Len(files')
      BY <1>1, <2>4
    <3> QED
      BY <1>2, <2>1, <3>1
  <2>6. current'[w] \in File!Named(w, files') /\ current'[w] \notin DOMAIN files /\ current'[w] \in DOMAIN files'
    BY <1>1, <2>3, <2>4, <2>5, NewNamed
  <2>7. Stepped(w, c, 0)
    BY <1>2, <1>3, <1>4, <2>3, <2>5, <2>6 DEF Stepped
  <2> QED
    BY <2>7
<1>6. CASE File!Named(w, files) # {}
  <2>1. /\ current' = [current EXCEPT ![w] = File!Newest(w)]
        /\ size' = [size EXCEPT ![w] = Len(files[File!Newest(w)].data)]
        /\ files' = files /\ modified' = modified
    BY <1>6 DEF File!NewFileWriter
  <2>2. File!Newest(w) \in File!Named(w, files)
    BY <1>0, <1>6, NewestIsLast
  <2>3. File!Newest(w) \in DOMAIN files /\ File!Newest(w) \in 0 .. n
    BY <1>1, <2>2 DEF File!Named
  <2>4. Len(files[File!Newest(w)].data) \in Nat
    <3>1. files[File!Newest(w)] \in LogFiles
      BY <1>1, <2>3
    <3>2. files[File!Newest(w)].data \in Seq(0 .. MaxRecords)
      BY <3>1 DEF LogFiles
    <3> QED
      BY <3>2
  <2>5. Changed(w, c, 0)
    <3>1. Len(files') \in Len(files) .. Len(files) + 1
      BY <1>1, <2>1
    <3> QED
      BY <1>1, <2>1, <3>1 DEF Changed
  <2>6. /\ current'[w] = File!Newest(w) /\ size'[w] = Len(files[File!Newest(w)].data)
        /\ current' \in [Prefixes -> 0 .. Len(files')] /\ size' \in [Prefixes -> Nat]
        /\ \A v \in Prefixes : v # w => current'[v] = current[v] /\ size'[v] = size[v]
    BY <1>2, <2>1, <2>3, <2>4
  <2>7. Stepped(w, c, 0)
    BY <1>2, <1>3, <1>4, <1>6, <2>1, <2>2, <2>5, <2>6 DEF Stepped
  <2> QED
    BY <2>7
<1> QED
  BY <1>5, <1>6

\* A file keeps its records, and has a new one at most if it is c.
Keeps(f, c, x) ==
  /\ files[f].data \in Seq(0 .. MaxRecords)
  /\ Elements(files[f].data) \subseteq Elements(files'[f].data)
  /\ f # c => files'[f].data = files[f].data
  /\ f = c => /\ Elements(files'[f].data) = Elements(files[f].data) \cup {x}
              /\ Len(files'[f].data) = Len(files[f].data) + 1
              /\ files'[f].data[Len(files[f].data) + 1] = x
              /\ \A i \in DOMAIN files[f].data : files'[f].data[i] = files[f].data[i]

LEMMA ChangedData ==
  ASSUME FileTypes, NEW w, NEW c, NEW x, Changed(w, c, x), NEW f \in DOMAIN files
  PROVE  Keeps(f, c, x)
<1>1. files[f].data \in Seq(0 .. MaxRecords)
  <2>1. files[f] \in LogFiles
    BY DEF FileTypes
  <2> QED
    BY <2>1 DEF LogFiles
<1>2. CASE f # c
  BY <1>1, <1>2 DEF Changed, Keeps
<1>3. CASE f = c
  <2>1. files'[f].data = Append(files[f].data, x)
    BY <1>3 DEF Changed
  <2>2. Elements(Append(files[f].data, x)) = Elements(files[f].data) \cup {x}
    BY <1>1, ElementsAppend
  <2> QED
    BY <1>1, <1>3, <2>1, <2>2 DEF Keeps
<1> QED
  BY <1>1, <1>2, <1>3 DEF Keeps

\* The files of others who share none stay as they are.
LEMMA OthersStay ==
  ASSUME FileTypes, NEW w \in Prefixes, NEW c, NEW x, Stepped(w, c, x), NEW v \in Prefixes, v # w
  PROVE  /\ \A f \in Own(v)' : f \in Own(v)
         /\ \A f \in Own(v) : f \in Own(v)' /\ (Sole(v) => f # c /\ files'[f].data = files[f].data)
<1>1. Changed(w, c, x) /\ (c # 0 => c = current[w]) /\ 0 \notin DOMAIN files
  BY DEF Stepped, FileTypes
<1>2. \A f \in Own(v)' : f \in Own(v)
  BY <1>1 DEF Changed, Own
<1>3. ASSUME NEW f \in Own(v) PROVE f \in Own(v)' /\ (Sole(v) => f # c /\ files'[f].data = files[f].data)
  <2>1. f \in DOMAIN files /\ files[f].prefix = v /\ f \in Own(v)'
    BY <1>1 DEF Own, Changed
  <2>2. ASSUME Sole(v) PROVE f # c
    <3> SUFFICES ASSUME f = c PROVE FALSE
      OBVIOUS
    <3>1. f = current[w] /\ f # 0
      BY <1>1, <2>1
    <3>2. v \in Matches[w]
      BY <2>1, <3>1 DEF FileTypes, File!Named
    <3> QED
      BY <2>2, <3>2 DEF Sole
  <2> QED
    BY <1>1, <2>1, <2>2 DEF Changed
<1> QED
  BY <1>2, <1>3

LEMMA ApartSole ==
  ASSUME NEW w \in Prefixes, Apart(w)
  PROVE  Sole(w) /\ (FileTypes => File!Named(w, files) = Own(w))
<1>1. Sole(w)
  BY DEF Apart, Sole
<1>2. ASSUME FileTypes, NEW f \in DOMAIN files, files[f].prefix \in Matches[w] PROVE files[f].prefix = w
  <2>1. files[f] \in LogFiles
    BY <1>2 DEF FileTypes
  <2> QED
    BY <1>2, <2>1 DEF LogFiles, Apart
<1>3. w \in Matches[w]
  BY DeliveryAssumption DEF DeliveryAssumption
<1> QED
  BY <1>1, <1>2, <1>3 DEF File!Named, Own

LEMMA FileTypesStep ==
  ASSUME FileInv, NEW w \in Prefixes, NEW c, NEW x, Stepped(w, c, x)
  PROVE  FileTypes'
<1>1. FileTypes /\ Changed(w, c, x)
  BY DEF FileInv, Stepped
<1>2. ASSUME NEW v \in Prefixes, current'[v] # 0 PROVE current'[v] \in File!Named(v, files')
  <2>1. CASE v = w
    BY <2>1 DEF Stepped
  <2>2. CASE v # w
    <3>1. current'[v] = current[v]
      BY <2>2 DEF Stepped
    <3> QED
      BY <1>1, <1>2, <3>1, NamedStays DEF FileTypes
  <2> QED
    BY <2>1, <2>2
<1>3. files' \in Seq(LogFiles) /\ Order(modified', Len(files'))
  BY <1>1 DEF Changed
<1> QED
  BY <1>2, <1>3 DEF FileTypes, Stepped

LEMMA OpenedLastStep ==
  ASSUME FileInv, NEW w \in Prefixes, NEW c, NEW x, Stepped(w, c, x)
  PROVE  OpenedLast'
<1>0. FileTypes /\ OpenedLast /\ Changed(w, c, x) /\ FileTypes'
  BY FileTypesStep DEF FileInv, Stepped
<1>1. /\ 0 \notin DOMAIN files /\ DOMAIN files \subseteq Nat /\ DOMAIN files' \subseteq Nat
      /\ c # 0 => c = current[w]
  BY <1>0 DEF FileTypes, Stepped
<1> SUFFICES ASSUME NEW v \in Prefixes, Apart(v)
             PROVE  /\ \A f \in Own(v)' : f <= current'[v]
                    /\ \A f, g \in Own(v)' : f < g => Before(modified', f, g)
  BY DEF OpenedLast, Apart
<1>2. /\ \A f \in Own(v) : f <= current[v]
      /\ \A f, g \in Own(v) : f < g => Before(modified, f, g)
  BY <1>0 DEF OpenedLast
<1>3. CASE v # w
  <2>1. current'[v] = current[v]
    BY <1>3 DEF Stepped
  <2>2. \A f \in Own(v)' : f \in Own(v) /\ f # c /\ f \in DOMAIN files
    BY <1>0, <1>3, OthersStay, ApartSole DEF Own
  <2> QED
    BY <1>0, <1>2, <2>1, <2>2 DEF Changed
<1>4. CASE v = w
  <2>1. \A f \in Own(w)' : f \in Own(w) \/ (f \in DOMAIN files' /\ f \notin DOMAIN files)
    BY <1>0 DEF Own, Changed
  <2>2. \A f, g \in Own(w) : f < g => Before(modified', f, g)
    <3> SUFFICES ASSUME NEW f \in Own(w), NEW g \in Own(w), f < g PROVE Before(modified', f, g)
      OBVIOUS
    <3>1. f \in DOMAIN files /\ g \in DOMAIN files
      BY DEF Own
    <3>2. f # c
      <4>1. g <= current[w] /\ f \in Nat /\ g \in Nat /\ f # 0
        BY <1>1, <1>2, <1>4, <3>1
      <4>2. current[w] \in Nat
        BY <1>0 DEF FileTypes
      <4> QED
        BY <1>1, <4>1, <4>2
    <3> QED
      BY <1>0, <1>2, <1>4, <3>1, <3>2 DEF Changed
  <2>3. CASE current'[w] = current[w] /\ c = current[w]
    <3>1. current'[w] # 0 /\ current[w] \in DOMAIN files
      <4>1. current'[w] \in DOMAIN files'
        BY DEF Stepped, File!Named
      <4>2. 0 \notin DOMAIN files'
        BY <1>0 DEF FileTypes
      <4>3. current'[w] # 0
        BY <4>1, <4>2
      <4> QED
        BY <1>0, <2>3, <4>3 DEF FileTypes, File!Named
    <3>2. \A f \in DOMAIN files' : f \in DOMAIN files
      BY <1>0, <2>3, <3>1 DEF Changed
    <3> QED
      BY <1>2, <1>4, <2>1, <2>2, <2>3, <3>2
  <2>4. CASE current'[w] \in DOMAIN files' /\ current'[w] \notin DOMAIN files
    <3>1. \A f \in DOMAIN files : f < current'[w] /\ Before(modified', f, current'[w])
      BY <1>0, <2>4 DEF Changed
    <3>2. \A f \in Own(w)' : f \in Own(w) \/ f = current'[w]
      BY <1>0, <2>1 DEF Changed
    <3>3. \A f \in Own(w) : f \in DOMAIN files /\ f \in Nat
      BY <1>1 DEF Own
    <3>4. current'[w] \in Nat
      BY <1>1, <2>4
    <3> QED
      BY <1>4, <2>2, <3>1, <3>2, <3>3, <3>4
  <2>5. CASE /\ current'[w] = File!Newest(w) /\ File!Named(w, files) # {}
             /\ files' = files /\ modified' = modified
    <3>1. File!Newest(w) \in Own(w) /\ \A g \in Own(w) : ~Before(modified, File!Newest(w), g)
      BY <1>0, <1>4, <2>5, NewestIsLast, ApartSole
    <3>2. \A g \in Own(w) : ~(File!Newest(w) < g)
      BY <1>2, <1>4, <3>1
    <3>3. \A g \in Own(w) : g \in Nat
      BY <1>1 DEF Own
    <3>4. Own(w)' = Own(w)
      BY <2>5 DEF Own
    <3> QED
      BY <1>4, <2>2, <2>5, <3>1, <3>2, <3>3, <3>4
  <2> QED
    BY <2>3, <2>4, <2>5 DEF Stepped
<1> QED
  BY <1>3, <1>4

LEMMA RecordedStep ==
  ASSUME FileInv, NEW w \in Prefixes, NEW c, NEW x, Stepped(w, c, x)
  PROVE  Recorded' /\ Numbered'
<1>0. /\ FileTypes /\ Recorded /\ Numbered /\ Changed(w, c, x)
      /\ c # 0 => c = current[w] /\ c \in DOMAIN files
      /\ records \in Nat /\ records' \in Nat /\ records <= records'
  BY DEF FileInv, Stepped, FileTypes, File!Named
<1>1. ASSUME NEW v \in Prefixes, NEW n \in Elements(written[v])
      PROVE  \E f \in File!Named(v, files') : n \in Elements(files'[f].data)
  <2>1. PICK f \in File!Named(v, files) : n \in Elements(files[f].data)
    BY <1>0 DEF Recorded
  <2>2. f \in DOMAIN files /\ f \in File!Named(v, files')
    BY <1>0, NamedStays DEF File!Named
  <2>3. Keeps(f, c, x)
    BY <1>0, <2>2, ChangedData
  <2> QED
    BY <2>1, <2>2, <2>3 DEF Keeps
<1>2. Recorded'
  <2> SUFFICES ASSUME NEW v \in Prefixes, NEW n \in Elements(written'[v])
               PROVE  \E f \in File!Named(v, files') : n \in Elements(files'[f].data)
    BY DEF Recorded
  <2>1. CASE n \in Elements(written[v])
    BY <1>1, <2>1
  <2>2. CASE n \notin Elements(written[v])
    <3>1. v = w /\ written'[w] = Append(written[w], x) /\ c # 0
      BY <2>2 DEF Stepped
    <3>2. n = x
      <4>1. written[w] \in Seq(1 .. MaxRecords)
        BY <1>0 DEF FileTypes
      <4>2. Elements(Append(written[w], x)) = Elements(written[w]) \cup {x}
        BY <4>1, ElementsAppend
      <4> QED
        BY <2>2, <3>1, <4>2
    <3>3. c \in File!Named(w, files')
      BY <1>0, <3>1, NamedStays DEF FileTypes
    <3>4. x \in Elements(files'[c].data)
      <4>1. c \in DOMAIN files /\ Keeps(c, c, x)
        BY <1>0, <3>1, ChangedData
      <4> QED
        BY <4>1 DEF Keeps
    <3> QED
      BY <3>1, <3>2, <3>3, <3>4
  <2> QED
    BY <2>1, <2>2
<1>3. Numbered'
  <2> SUFFICES ASSUME NEW f \in DOMAIN files', NEW n \in Elements(files'[f].data)
               PROVE  n <= records'
    BY DEF Numbered
  <2>1. CASE f \notin DOMAIN files
    <3>1. files'[f].data = << >>
      BY <1>0, <2>1 DEF Changed
    <3> QED
      BY <3>1 DEF Elements
  <2>2. CASE f \in DOMAIN files
    <3>0. Keeps(f, c, x)
      BY <1>0, <2>2, ChangedData
    <3>1. n \in Elements(files[f].data) \/ (f = c /\ n = x)
      BY <3>0 DEF Keeps
    <3>2. CASE n \in Elements(files[f].data)
      <4>1. n <= records /\ n \in Nat
        <5>1. files[f].data \in Seq(0 .. MaxRecords)
          BY <3>0 DEF Keeps
        <5>2. n \in 0 .. MaxRecords
          BY <3>2, <5>1, ElementsIn
        <5> QED
          BY <1>0, <2>2, <3>2, <5>2 DEF Numbered
      <4> QED
        BY <1>0, <4>1
    <3>3. CASE f = c /\ n = x
      <4>1. c # 0
        BY <2>2, <3>3 DEF FileTypes, FileInv
      <4>2. x \in {0, records'}
        BY <4>1 DEF Stepped
      <4> QED
        BY <1>0, <3>3, <4>2
    <3> QED
      BY <3>1, <3>2, <3>3
  <2> QED
    BY <2>1, <2>2
<1> QED
  BY <1>2, <1>3

LEMMA OwnRecordsStep ==
  ASSUME FileInv, NEW w \in Prefixes, NEW c, NEW x, Stepped(w, c, x), NEW v \in Prefixes, Apart(v)
  PROVE  OwnRecords(v)'
<1>0. /\ FileTypes /\ Numbered /\ OwnRecords(v) /\ Changed(w, c, x)
      /\ c # 0 => c = current[w] /\ x \in {0, records'}
      /\ records \in Nat /\ records' \in Nat /\ (c # 0 => records < records')
      /\ 0 \notin DOMAIN files
  <2>1. records <= records' /\ (c # 0 => records' # records)
    BY DEF Stepped
  <2>2. FileTypes /\ Numbered /\ OwnRecords(v) /\ Changed(w, c, x)
    BY DEF FileInv, Stepped
  <2>3. records \in Nat /\ records' \in Nat /\ (c # 0 => c = current[w] /\ x \in {0, records'})
    BY <2>2 DEF FileTypes, Stepped
  <2>4. 0 \notin DOMAIN files
    BY <2>2 DEF FileTypes
  <2> QED
    BY <2>1, <2>2, <2>3, <2>4
<1>1. CASE v # w
  <2>1. /\ \A f \in Own(v)' : f \in Own(v)
        /\ \A f \in Own(v) : files'[f].data = files[f].data
        /\ written'[v] = written[v]
    <3>1. Sole(v)
      BY ApartSole
    <3>2. written'[v] = written[v]
      BY <1>1 DEF Stepped
    <3> QED
      BY <1>0, <1>1, <3>1, <3>2, OthersStay
  <2> QED
    BY <1>0, <2>1 DEF OwnRecords
<1>2. CASE v = w
  <2>1. ASSUME NEW f \in Own(w)'
        PROVE  \/ f \in Own(w) /\ f \in DOMAIN files
               \/ DOMAIN files'[f].data = {}
    BY <1>0 DEF Own, Changed
  <2>2. ASSUME NEW f \in Own(w)', NEW i \in DOMAIN files'[f].data
        PROVE  /\ f \in Own(w) /\ f \in DOMAIN files
               /\ \/ i \in DOMAIN files[f].data /\ files'[f].data[i] = files[f].data[i]
                  \/ /\ f = c /\ i = Len(files[f].data) + 1 /\ files'[f].data[i] = x
    <3>1. f \in Own(w) /\ f \in DOMAIN files
      BY <2>1
    <3>0. Keeps(f, c, x)
      BY <1>0, <3>1, ChangedData
    <3>2. CASE f # c
      BY <3>0, <3>1, <3>2 DEF Keeps
    <3>3. CASE f = c
      <4>1. files[f].data \in Seq(0 .. MaxRecords) /\ files'[f].data = Append(files[f].data, x)
        BY <1>0, <3>0, <3>1, <3>3 DEF Changed, Keeps
      <4> QED
        BY <3>1, <3>3, <4>1
    <3> QED
      BY <3>1, <3>2, <3>3
  <2>3. ASSUME NEW f \in Own(w)' PROVE Elements(files'[f].data) \subseteq Elements(written'[w]) \cup {0}
    <3>1. written[w] \in Seq(1 .. MaxRecords)
      BY <1>0 DEF FileTypes
    <3>2. Elements(Append(written[w], x)) = Elements(written[w]) \cup {x}
      BY <3>1, ElementsAppend
    <3>3. /\ Elements(written[w]) \subseteq Elements(written'[w])
          /\ c # 0 => x = 0 \/ x \in Elements(written'[w])
      BY <3>2 DEF Stepped
    <3>4. CASE f \notin DOMAIN files
      BY <2>1, <3>4 DEF Elements
    <3>5. CASE f \in DOMAIN files
      <4>1. f \in Own(w)
        BY <1>0, <3>5 DEF Own, Changed
      <4>2. Elements(files[f].data) \subseteq Elements(written[w]) \cup {0}
        BY <1>0, <1>2, <4>1 DEF OwnRecords
      <4>3. Elements(files'[f].data) \subseteq Elements(files[f].data) \cup (IF c # 0 THEN {x} ELSE {})
        <5>1. Keeps(f, c, x) /\ (f = c => c # 0)
          BY <1>0, <3>5, ChangedData
        <5> QED
          BY <5>1 DEF Keeps
      <4> QED
        BY <3>3, <4>2, <4>3
    <3> QED
      BY <3>4, <3>5
  <2>4. ASSUME NEW f \in Own(w)', NEW g \in Own(w)', NEW i \in DOMAIN files'[f].data,
               NEW j \in DOMAIN files'[g].data, f < g \/ (f = g /\ i < j)
        PROVE  files'[f].data[i] < files'[g].data[j] \/ 0 \in {files'[f].data[i], files'[g].data[j]}
    <3>1. f \in Own(w) /\ g \in Own(w) /\ f \in DOMAIN files /\ g \in DOMAIN files
      BY <2>2
    <3>2. /\ files[f].data \in Seq(0 .. MaxRecords) /\ files[g].data \in Seq(0 .. MaxRecords)
          /\ f \in Nat /\ g \in Nat
      <4>1. Keeps(f, c, x) /\ Keeps(g, c, x)
        BY <1>0, <3>1, ChangedData
      <4>2. f \in Nat /\ g \in Nat
        BY <1>0, <3>1 DEF FileTypes
      <4> QED
        BY <4>1, <4>2 DEF Keeps
    <3>3. i \in DOMAIN files[f].data /\ files'[f].data[i] = files[f].data[i]
      <4> SUFFICES ASSUME f = c, i = Len(files[f].data) + 1 PROVE FALSE
        BY <2>2
      <4>1. c = current[w] /\ c # 0
        BY <1>0, <3>1
      <4>2. g <= c
        BY <1>2, <3>1, <4>1 DEF FileInv, OpenedLast
      <4>3. f = g /\ i < j
        BY <2>4, <3>2, <4>2
      <4>4. j \in DOMAIN files[f].data \/ j = Len(files[f].data) + 1
        BY <2>2, <4>3
      <4> QED
        BY <3>2, <4>3, <4>4
    <3>4. CASE j \in DOMAIN files[g].data /\ files'[g].data[j] = files[g].data[j]
      BY <1>0, <1>2, <2>4, <3>1, <3>3, <3>4 DEF OwnRecords
    <3>5. CASE g = c /\ files'[g].data[j] = x
      <4>1. files[f].data[i] \in Elements(files[f].data) /\ files[f].data[i] \in Nat
        <5>1. files[f].data[i] \in Elements(files[f].data)
          BY <3>3 DEF Elements
        <5>2. Elements(files[f].data) \subseteq 0 .. MaxRecords
          BY <3>2, ElementsIn
        <5> QED
          BY <5>1, <5>2
      <4>2. files[f].data[i] <= records
        BY <1>0, <3>1, <4>1 DEF Numbered
      <4>3. x = 0 \/ (x = records' /\ records < records')
        BY <1>0, <3>1, <3>5
      <4> QED
        BY <1>0, <3>3, <3>5, <4>1, <4>2, <4>3
    <3> QED
      BY <2>2, <3>4, <3>5
  <2> QED
    BY <1>2, <2>3, <2>4 DEF OwnRecords
<1> QED
  BY <1>1, <1>2

LEMMA FilledStep ==
  ASSUME FileInv, NEW w \in Prefixes, NEW c, NEW x, Stepped(w, c, x), ~failed',
         NEW f \in DOMAIN files', Sole(files'[f].prefix)
  PROVE  Filled(f)'
<1>0. /\ FileTypes /\ Changed(w, c, x) /\ 0 \notin DOMAIN files /\ LogDataSize \in Nat
      /\ c # 0 => c = current[w]
  BY DeliveryAssumption DEF FileInv, Stepped, FileTypes, DeliveryAssumption
<1>1. CASE f \notin DOMAIN files
  <2>1. files'[f].prefix = w /\ files'[f].data = << >> /\ current'[w] = f /\ size'[w] = 0
    BY <1>0, <1>1 DEF Changed
  <2> QED
    BY <1>0, <2>1 DEF Filled
<1>2. CASE f \in DOMAIN files
  <2>0. PICK p \in Prefixes : p = files[f].prefix /\ p = files'[f].prefix
    <3>1. files[f] \in LogFiles
      BY <1>0, <1>2 DEF FileTypes
    <3> QED
      BY <1>0, <1>2, <3>1 DEF LogFiles, Changed
  <2>1. Filled(f)
    <3>1. ~failed
      BY DEF Stepped, FileInv, FileTypes
    <3>2. Sole(files[f].prefix)
      BY <2>0 DEF Sole
    <3> QED
      BY <1>2, <3>1, <3>2 DEF FileInv
  <2>2. /\ files[f].data \in Seq(0 .. MaxRecords) /\ Len(files[f].data) \in Nat
        /\ f # c => files'[f].data = files[f].data
        /\ f = c => Len(files'[f].data) = Len(files[f].data) + 1
    <3>1. Keeps(f, c, x)
      BY <1>0, <1>2, ChangedData
    <3> QED
      BY <3>1 DEF Keeps
  <2>3. \A g \in File!Named(p, files) : f # c /\ Before(modified, f, g) =>
          g \in File!Named(p, files') /\ Before(modified', f, g)
    <3>1. \A g \in File!Named(p, files) : g \in DOMAIN files /\ g \in File!Named(p, files')
      BY <1>0, NamedStays DEF File!Named
    <3> QED
      BY <1>0, <1>2, <3>1 DEF Changed
  <2>4. f # c /\ Len(files'[f].data) > LogDataSize =>
          \E g \in File!Named(p, files') : g # f /\ Before(modified', f, g)
    BY <2>0, <2>1, <2>2, <2>3 DEF Filled
  <2>5. CASE p # w
    <3>1. f # c /\ current'[p] = current[p] /\ size'[p] = size[p]
      <4>1. f \in Own(p) /\ Sole(p)
        BY <1>2, <2>0 DEF Own, Sole
      <4>2. f # c
        BY <1>0, <2>5, <4>1, OthersStay
      <4> QED
        BY <2>5, <4>2 DEF Stepped
    <3> QED
      BY <2>0, <2>1, <2>2, <2>4, <3>1 DEF Filled
  <2>6. CASE p = w /\ f = c
    <3>1. /\ c = current[w] /\ c # 0 /\ size[w] = Len(files[f].data) /\ Len(files[f].data) <= LogDataSize
      BY <1>0, <1>2, <2>0, <2>1, <2>6 DEF Filled
    <3>2. CASE current'[w] = c /\ size'[w] = size[w] + 1 /\ size[w] + 1 <= LogDataSize
      BY <1>0, <2>0, <2>2, <2>6, <3>1, <3>2 DEF Filled
    <3>3. CASE current'[w] # c
      <4>1. current'[w] \in DOMAIN files' /\ current'[w] \notin DOMAIN files
        BY <3>1, <3>3 DEF Stepped
      <4>2. Before(modified', f, current'[w]) /\ current'[w] # f
        BY <1>0, <1>2, <4>1 DEF Changed
      <4>3. current'[w] \in File!Named(w, files')
        BY DEF Stepped
      <4>4. Len(files'[f].data) <= LogDataSize + 1
        BY <1>0, <2>2, <2>6, <3>1
      <4> QED
        BY <2>0, <2>6, <4>2, <4>3, <4>4 DEF Filled
    <3> QED
      BY <3>1, <3>2, <3>3 DEF Stepped
  <2>7. CASE p = w /\ f # c
    <3>1. ASSUME current'[w] = f
          PROVE  size'[w] = Len(files[f].data) /\ Len(files[f].data) <= LogDataSize
      <4>1. /\ f = File!Newest(w) /\ File!Named(w, files) # {}
            /\ size'[w] = Len(files[File!Newest(w)].data)
        BY <1>2, <2>7, <3>1 DEF Stepped
      <4>2. \A g \in File!Named(w, files) : ~Before(modified, f, g)
        BY <1>0, <4>1, NewestIsLast
      <4>3. ~(Len(files[f].data) > LogDataSize)
        BY <2>0, <2>1, <2>7, <4>2 DEF Filled
      <4> QED
        BY <1>0, <2>2, <4>1, <4>3
    <3> QED
      BY <2>0, <2>1, <2>2, <2>4, <2>7, <3>1 DEF Filled
  <2> QED
    BY <2>5, <2>6, <2>7
<1> QED
  BY <1>1, <1>2

LEMMA FileStep == FileInv /\ [File!Next]_fileVars => FileInv'
<1> SUFFICES ASSUME FileInv, [File!Next]_fileVars PROVE FileInv'
  OBVIOUS
<1>1. CASE UNCHANGED fileVars
  <2>1. UNCHANGED <<files, modified, current, size, records, written, failed>>
    BY <1>1 DEF fileVars
  <2> QED
    <3>1. FileTypes' = FileTypes /\ OpenedLast' = OpenedLast
      BY <2>1 DEF FileTypes, OpenedLast, Own, Apart
    <3>2. Recorded' = Recorded /\ Numbered' = Numbered
      BY <2>1 DEF Recorded, Numbered
    <3>3. \A w : (Apart(w) => OwnRecords(w))' = (Apart(w) => OwnRecords(w))
      BY <2>1 DEF OwnRecords, Own, Apart
    <3>4. \A f : Filled(f)' = Filled(f) /\ Sole(files[f].prefix)' = Sole(files[f].prefix)
      BY <2>1 DEF Filled, Sole
    <3> QED
      BY <2>1, <3>1, <3>2, <3>3, <3>4 DEF FileInv
<1>2. ASSUME NEW w \in Prefixes, NEW c, NEW x, Stepped(w, c, x) PROVE FileInv'
  <2>1. \A v \in Prefixes : Apart(v)' => Apart(v)
    BY DEF Apart
  <2>2. \A v : Sole(v)' => Sole(v)
    BY DEF Sole
  <2> QED
    BY <1>2, <2>1, <2>2, FileTypesStep, OpenedLastStep, RecordedStep, OwnRecordsStep, FilledStep DEF FileInv
<1>3. CASE File!Next
  <2>1. PICK w \in Prefixes : \/ \E canRotate \in BOOLEAN : File!Write(w, canRotate)
                              \/ File!WriteFails(w) \/ File!NewFileWriter(w)
    BY <1>3 DEF File!Next
  <2>2. \E c, x : Stepped(w, c, x)
    BY <2>1, WriteSteps, WriteFailsSteps, NewFileWriterSteps
  <2> QED
    BY <1>2, <2>2
<1> QED
  BY <1>1, <1>3

LEMMA FileInOrder == FileInv => File!RecordsInOrder /\ File!TypeOK
<1> SUFFICES ASSUME FileInv PROVE File!RecordsInOrder /\ File!TypeOK
  OBVIOUS
<1>0. FileTypes
  BY DEF FileInv
<1>1. \A s : File!ToSet(s) = Elements(s)
  BY DEF File!ToSet, Elements
<1>2. \A w \in Prefixes : \A n \in File!ToSet(written[w]) :
        \E f \in File!Named(w, files) : n \in File!ToSet(files[f].data)
  BY <1>1 DEF FileInv, Recorded
<1>3. ASSUME NEW w \in Prefixes, \A v \in Prefixes \ {w} : w \notin Matches[v] /\ v \notin Matches[w]
      PROVE  /\ \A f \in DOMAIN files : files[f].prefix = w =>
                  File!ToSet(files[f].data) \subseteq File!ToSet(written[w]) \cup {File!Torn}
             /\ \A f, g \in DOMAIN files : \A i \in DOMAIN files[f].data, j \in DOMAIN files[g].data :
                  File!Precedes(w, f, i, g, j) =>
                    \/ files[f].data[i] < files[g].data[j]
                    \/ File!Torn \in {files[f].data[i], files[g].data[j]}
  <2>1. OwnRecords(w)
    BY <1>3 DEF FileInv, Apart
  <2> QED
    BY <1>1, <2>1 DEF OwnRecords, Own, File!Torn, File!Precedes
<1>4. ~failed => \A f \in DOMAIN files :
        (\A v \in Prefixes \ {files[f].prefix} : files[f].prefix \notin Matches[v]) =>
          Len(files[f].data) <= LogDataSize + 1
  BY DEF FileInv, Sole, Filled
<1>5. File!TypeOK
  <2>1. DOMAIN files = 1 .. Len(files)
    BY <1>0 DEF FileTypes
  <2>2. Len(modified) = Len(files) /\ File!ToSet(modified) = DOMAIN files
    BY <1>0, <1>1, <2>1 DEF FileTypes, Order
  <2> QED
    BY <1>0, <2>2 DEF FileTypes, File!TypeOK, LogFiles
<1> QED
  BY <1>2, <1>3, <1>4, <1>5 DEF File!RecordsInOrder

-----------------------------------------------------------------------------
(* The modules beside each other *)

\* A step is one of the module that kind names, and leaves the variables of the others.
LEMMA RetryOnly == RetryNext => InRetry /\ Try!Next
BY DEF RetryNext, Try!Next, Try!Step

LEMMA ObserverOnly == ObserverNext => InObserver /\ Obs!Next
BY DEF ObserverNext, Obs!Next, Obs!SetterStep, Obs!WriterStep

LEMMA EmitterOnly == EmitterNext => InEmitter /\ Emit!Next
<1>1. ASSUME NEW g \in Emit!Calls \X Listeners,
             Emit!Run(g) \/ Emit!Enter(g) \/ Emit!RunOnce(g) \/ Emit!OffAfterOnce(g)
      PROVE  Emit!Next
  <2>1. PICK n \in Emit!Calls, l \in Listeners : g = <<n, l>>
    OBVIOUS
  <2> QED
    BY <1>1, <2>1 DEF Emit!Next, Emit!Step
<1> QED
  BY <1>1 DEF EmitterNext, Emit!Next, Emit!Step

LEMMA TimerOnly == TimerNext => InTimer /\ Timer!Next
BY DEF TimerNext, Timer!Next, Timer!Finish, Timer!Runtime

LEMMA LoggerOnly == LoggerNext => InLogger /\ Log!Next
BY DEF LoggerNext, Log!Next, Log!WithPrefix

LEMMA BufferedOnly == BufferedNext => InBuffered /\ Buffered!Next
BY DEF BufferedNext, Buffered!Next, Buffered!Consume

LEMMA RemoteOnly == RemoteNext => InRemote /\ Remote!Next
BY DEF RemoteNext, Remote!Next, Remote!Consume

LEMMA FileOnly == FileNext => InFile /\ File!Next
BY DEF FileNext, File!Next

DeliveryInv ==
  /\ RetryInv /\ ObserverInv /\ EmitterInv /\ TimerInv /\ LoggerInv /\ FileInv
  /\ IF kind = "remote" THEN RemoteInv ELSE BufferedInv

\* The behaviours of every kind, one step of one module at a time.
LEMMA DeliveryStep == DeliveryInv /\ [Next]_vars => DeliveryInv'
<1> SUFFICES ASSUME DeliveryInv, [Next]_vars PROVE DeliveryInv'
  OBVIOUS
<1>1. /\ kind' = kind
      /\ [Try!Next]_retryVars /\ [Obs!Next]_observerVars /\ [Emit!Next]_emitterVars
      /\ [Timer!Next]_timerVars /\ [Log!Next]_loggerVars /\ [File!Next]_fileVars
      /\ IF kind = "remote" THEN [Remote!Next]_writerVars ELSE [Buffered!Next]_writerVars
  <2>1. CASE UNCHANGED vars
    BY <2>1 DEF vars
  <2>2. CASE RetryNext
    BY <2>2, RetryOnly DEF InRetry
  <2>3. CASE ObserverNext
    BY <2>3, ObserverOnly DEF InObserver
  <2>4. CASE EmitterNext
    BY <2>4, EmitterOnly DEF InEmitter
  <2>5. CASE TimerNext
    BY <2>5, TimerOnly DEF InTimer
  <2>6. CASE LoggerNext
    BY <2>6, LoggerOnly DEF InLogger
  <2>7. CASE BufferedNext
    BY <2>7, BufferedOnly DEF InBuffered
  <2>8. CASE RemoteNext
    BY <2>8, RemoteOnly DEF InRemote
  <2>9. CASE FileNext
    BY <2>9, FileOnly DEF InFile
  <2> QED
    BY <2>1, <2>2, <2>3, <2>4, <2>5, <2>6, <2>7, <2>8, <2>9 DEF Next
<1>2. RetryInv' /\ ObserverInv' /\ EmitterInv' /\ TimerInv' /\ LoggerInv' /\ FileInv'
  BY <1>1, RetryStep, ObserverStep, EmitterStep, TimerStep, LoggerStep, FileStep DEF DeliveryInv
<1>3. IF kind = "remote" THEN RemoteInv' ELSE BufferedInv'
  BY <1>1, RemoteStep, BufferedStep DEF DeliveryInv
<1> QED
  BY <1>1, <1>2, <1>3 DEF DeliveryInv

\* The invariants of the eight modules, whichever of them a behaviour is of.
THEOREM Invariant == Spec => []DeliveryInv
<1>1. Init => DeliveryInv
  BY RetryInit, ObserverInit, EmitterInit, TimerInit, LoggerInit, BufferedInit, RemoteInit, FileInit
  DEF Init, DeliveryInv
<1> QED
  BY <1>1, DeliveryStep, PTL DEF Spec

\* The variables of every module keep their types.
THEOREM TypesCorrect == Spec => []TypesOK
<1>1. DeliveryInv => TypesOK
  BY FileInOrder
  DEF DeliveryInv, TypesOK, RetryInv, ObserverInv, ObserverTypes, EmitterInv, EmitterTypes, TimerInv,
      TimerTypes, LoggerInv, LoggerTypes, RemoteInv, BufferedInv
<1> QED
  BY <1>1, Invariant, PTL

\* What a writer took over is, in its order, what it handled, buffers and has queued, and
\* what it wrote to log files they hold, across rotations and restarts, whatever fails:
\* for any number of writers, prefixes and files, thresholds and retries.
THEOREM NothingIsLost == Spec => []NothingLost
<1>1. DeliveryInv => NothingLost
  BY FileInOrder DEF DeliveryInv, NothingLost, RemoteInv, BufferedInv
<1> QED
  BY <1>1, Invariant, PTL

\* Observers are notified of the values set while they are registered and not after they
\* are turned off, listeners stay listed until they are turned off or have run as one of
\* Once, and those run at most once, however calls and goroutines interleave.
THEOREM Called == Spec => []CalledAsRegistered
<1>1. DeliveryInv => CalledAsRegistered
  BY ObserverNotified, EmitterKept DEF DeliveryInv, CalledAsRegistered
<1> QED
  BY <1>1, Invariant, PTL

\* Retry attempts as often as it was asked to, runs of an undisturbed timer do not overlap
\* nor outlast a Stop, one-shot timers run at most once per Start and Reset, and a setting
\* that was propagated reaches every logger made from its own before, unless it was set
\* since.
THEOREM DoneAsWasAsked == Spec => []DoneAsAsked
<1>1. DeliveryInv => DoneAsAsked
  BY RetryAgreed, TimerAgreed, LoggerReaches DEF DeliveryInv, DoneAsAsked
<1> QED
  BY <1>1, Invariant, PTL
=============================================================================
