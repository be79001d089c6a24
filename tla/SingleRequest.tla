---------------------------- MODULE SingleRequest ----------------------------
(***************************************************************************)
(* async/single_request.go: concurrent calls of Do with the same key share *)
(* one execution of the function.                                          *)
(*                                                                         *)
(* A callState is named after the call that created it.  A section under   *)
(* the group's RWMutex is one step; fn runs outside it.  The WaitLock of a *)
(* state is the flag isOpen (WaitLock.tla shows that waiting on it loses   *)
(* no wake-up).                                                            *)
(***************************************************************************)
EXTENDS Naturals

CONSTANTS
  Calls,     \* calls of Do
  Keys,
  KeyOf,     \* KeyOf[c]: the key c asks for
  Panics,    \* the calls whose fn panics if it is run
  None       \* no callState

ASSUME SingleRequestAssumption ==
  /\ KeyOf \in [Calls -> Keys]
  /\ Panics \subseteq Calls
  /\ None \notin Calls

VARIABLES
  calls,      \* the map g.calls, by key
  pc,
  joined,     \* the callState each call ends up with
  isOpen,     \* the states whose WaitLock is open
  res,        \* the states whose res and err are set
  before      \* history: the states already open when each call began

vars == <<calls, pc, joined, isOpen, res, before>>

Init ==
  /\ calls = [k \in Keys |-> None]
  /\ pc = [c \in Calls |-> "idle"]
  /\ joined = [c \in Calls |-> None]
  /\ isOpen = {}
  /\ res = {}
  /\ before = [c \in Calls |-> {}]

Goto(c, l) == pc' = [pc EXCEPT ![c] = l]
Join(c, s) == joined' = [joined EXCEPT ![c] = s]

\* get(key) under the read lock; a missing state sends the call to create.
Get(c) ==
  /\ pc[c] = "idle"
  /\ before' = [before EXCEPT ![c] = isOpen]
  /\ Join(c, calls[KeyOf[c]])
  /\ Goto(c, IF calls[KeyOf[c]] = None THEN "create" ELSE "wait")
  /\ UNCHANGED <<calls, isOpen, res>>

\* Mutant: create does not look again.
CreateUnchecked(c) ==
  /\ pc[c] = "create"
  /\ calls' = [calls EXCEPT ![KeyOf[c]] = c]
  /\ Join(c, c)
  /\ Goto(c, "fn")
  /\ UNCHANGED <<isOpen, res, before>>

\* create's first section: another call may have created the state meanwhile.
Create(c) ==
  /\ pc[c] = "create"
  /\ LET old == calls[KeyOf[c]] IN
     \/ /\ old # None /\ old \notin isOpen
        /\ Join(c, old)
        /\ Goto(c, "wait")
        /\ UNCHANGED calls
     \/ /\ old = None \/ old \in isOpen
        /\ calls' = [calls EXCEPT ![KeyOf[c]] = c]
        /\ Join(c, c)
        /\ Goto(c, "fn")
  /\ UNCHANGED <<isOpen, res, before>>

\* fn returns and the two results are stored, or it panics out of Do: the state
\* stays in the map, closed.
RunFn(c) ==
  /\ pc[c] = "fn"
  /\ \/ /\ c \notin Panics
        /\ res' = res \cup {c}
        /\ Goto(c, "publish")
     \/ /\ c \in Panics
        /\ Goto(c, "panicked")
        /\ UNCHANGED res
  /\ UNCHANGED <<calls, joined, isOpen, before>>

\* Mutants: the finished state is left in the map; the key is deleted before
\* the state to open is looked up.
PublishKeepsKey(c) ==
  /\ pc[c] = "publish"
  /\ isOpen' = isOpen \cup {c}
  /\ Goto(c, "wait")
  /\ UNCHANGED <<calls, joined, res, before>>

PublishForgotten(c) ==
  /\ pc[c] = "publish"
  /\ calls' = [calls EXCEPT ![KeyOf[c]] = None]
  /\ isOpen' = isOpen \cup {calls'[KeyOf[c]]}
  /\ Goto(c, "wait")
  /\ UNCHANGED <<joined, res, before>>

\* create's last section: open the waiters' lock and forget the key.
Publish(c) ==
  /\ pc[c] = "publish"
  /\ isOpen' = isOpen \cup {c}
  /\ calls' = [calls EXCEPT ![KeyOf[c]] = None]
  /\ Goto(c, "wait")
  /\ UNCHANGED <<joined, res, before>>

\* waitAndGet
WaitAndGet(c) ==
  /\ pc[c] = "wait"
  /\ joined[c] \in isOpen
  /\ Goto(c, "returned")
  /\ UNCHANGED <<calls, joined, isOpen, res, before>>

DoStep(c) == Create(c) \/ RunFn(c) \/ Publish(c) \/ WaitAndGet(c)

Next == \E c \in Calls : Get(c) \/ DoStep(c)

Spec == Init /\ [][Next]_vars

\* fn ends; a goroutine that can run does.  A call need not be made.
FairSpec == Spec /\ \A c \in Calls : WF_vars(DoStep(c))

-----------------------------------------------------------------------------
(* Properties *)

\* Types; a state is published by the call that owns it.
TypeOK ==
  /\ calls \in [Keys -> Calls \cup {None}]
  /\ pc \in [Calls -> {"idle", "create", "fn", "publish", "wait", "returned",
                       "panicked"}]
  /\ joined \in [Calls -> Calls \cup {None}]
  /\ isOpen \subseteq Calls
  /\ res \subseteq Calls
  /\ before \in [Calls -> SUBSET Calls]

\* Executing or about to publish: fn's side effects are still going on.
Executing(c) == pc[c] \in {"fn", "publish"}

\* The point of a single request: however many calls of Do overlap, the
\* function of at most one of them is running for a key.
OneExecution ==
  \A c, d \in Calls :
    Executing(c) /\ Executing(d) /\ KeyOf[c] = KeyOf[d] => c = d

\* No stale answer: what Do returns was computed by a call for the same key
\* that was not over when this Do began.
FreshResult ==
  \A c \in Calls : pc[c] = "returned" =>
    /\ KeyOf[joined[c]] = KeyOf[c]
    /\ joined[c] \notin before[c]

\* Nobody reads res and err of a callState before they are written.
ReadsAfterWrite == \A c \in Calls : pc[c] = "returned" => joined[c] \in res

\* Every call of Do comes back with a result, and is not left behind by the
\* deletion of the key it joined, unless a function of its key has panicked.
DoReturns ==
  \A c \in Calls :
    pc[c] # "idle" ~> \/ pc[c] = "returned"
                      \/ \E d \in Calls : KeyOf[d] = KeyOf[c] /\ pc[d] = "panicked"
=============================================================================
