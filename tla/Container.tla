------------------------------ MODULE Container ------------------------------
(***************************************************************************)
(* ioc/Container.go: bindings of types and ids to resolvers, and the       *)
(* resolution of what a request needs.  The container has no lock: one     *)
(* request at a time, and resolvers do not call the container.             *)
(***************************************************************************)
EXTENDS Naturals, Sequences

SE == INSTANCE SequencesExt

CONSTANTS
  Types, Ids,     \* the keys of typeContainer and of idContainer
  Resolvers,      \* resolver functions
  Ins, Outs,      \* the types a resolver takes, and the types it returns
  ReturnsNil,     \* the resolvers that return a nil interface
  Requests,       \* the keys that a Bind, GetById, Call or Fill asks for, in order
  MaxInstances    \* the last instance after which a request is made

VARIABLES
  binding,   \* key -> its resolver and its instance, or Unbound
  stack,     \* the calls of resolve in progress, below them the request
  made,      \* the instances made so far: their resolver and its arguments
  retired    \* history: the instances whose binding was replaced or removed

vars == <<binding, stack, made, retired>>

AllKeys    == Types \cup Ids
Nil     == 0
Unbound == [resolver |-> "none", instance |-> Nil]
Root    == "request"
Bound(k) == binding[k] # Unbound

New == /\ binding = [k \in AllKeys |-> Unbound]
       /\ stack = << >> /\ made = << >> /\ retired = {}

Rebind(keys, to) ==
  /\ stack = << >>
  /\ binding' = [k \in AllKeys |-> IF k \in keys THEN to ELSE binding[k]]
  /\ retired' = (retired \cup {binding[k].instance : k \in keys}) \ {Nil}
  /\ UNCHANGED <<stack, made>>

\* bindByType: every type the resolver returns gets a binding of its own.
Singleton(r) == Rebind(SE!ToSet(Outs[r]), [resolver |-> r, instance |-> Nil])

RegisterSingleton(id, r) ==
  Len(Outs[r]) = 1 /\ Rebind({id}, [resolver |-> r, instance |-> Nil])

RemoveByType(t) == Rebind({t}, Unbound)
Reset           == Rebind(AllKeys, Unbound)

-----------------------------------------------------------------------------
(* Resolving.  A frame: the key, the keys still wanted and the arguments so far *)

Frame(k, keys) == [key |-> k, wants |-> keys, args |-> << >>]
Top == stack[Len(stack)]

\* What the calls below get when one returns an instance.
Returned(s, n) ==
  LET f == s[Len(s)] IN
  [s EXCEPT ![Len(s)] = [f EXCEPT !.wants = Tail(f.wants), !.args = Append(f.args, n)]]

\* Bind, GetById, Call and Fill
Request(keys) ==
  /\ stack = << >> /\ Len(made) < MaxInstances
  /\ stack' = <<Frame(Root, keys)>>
  /\ UNCHANGED <<binding, made, retired>>

Wanting == stack # << >> /\ Top.wants # << >>

\* Nothing is bound to the key: every call in progress returns the error.
NotFound ==
  /\ Wanting /\ ~Bound(Head(Top.wants))
  /\ stack' = << >>
  /\ UNCHANGED <<binding, made, retired>>

\* Mutant: resolve forgets that it has an instance.
ResolveAnew ==
  /\ Wanting /\ Bound(Head(Top.wants)) /\ Len(stack) <= 2
  /\ LET k == Head(Top.wants) IN stack' = Append(stack, Frame(k, Ins[binding[k].resolver]))
  /\ UNCHANGED <<binding, made, retired>>

\* resolve: the instance there is, or the arguments of the resolver first.
Resolve ==
  /\ Wanting /\ Bound(Head(Top.wants))
  /\ LET k == Head(Top.wants)  b == binding[k] IN
     \/ /\ b.instance # Nil
        /\ stack' = Returned(stack, b.instance)
     \/ /\ b.instance = Nil
        /\ Len(stack) <= MaxInstances   \* a cycle overflows Go's stack
        /\ stack' = Append(stack, Frame(k, Ins[b.resolver]))
  /\ UNCHANGED <<binding, made, retired>>

\* reflect's Call takes no nil, and nothing of another type: a resolver of several
\* values gives each of its types the first one.
Fits(n, t) == n # Nil /\ Head(Outs[made[n].resolver]) = t

CanCall == \A i \in 1 .. Len(Top.args) : Fits(Top.args[i], Ins[binding[Top.key].resolver][i])

Done == stack # << >> /\ Top.wants = << >>

\* invoke: the resolver runs, and its first value becomes the instance.
Invoke ==
  /\ Done /\ Top.key # Root /\ CanCall
  /\ LET r == binding[Top.key].resolver
         n == IF r \in ReturnsNil THEN Nil ELSE Len(made) + 1
     IN  /\ made' = IF n = Nil THEN made ELSE Append(made, [resolver |-> r, args |-> Top.args])
         /\ binding' = [binding EXCEPT ![Top.key].instance = n]
         /\ stack' = Returned(SE!Front(stack), n)
  /\ UNCHANGED retired

Panic ==
  /\ Done /\ Top.key # Root /\ ~CanCall
  /\ stack' = << >>
  /\ UNCHANGED <<binding, made, retired>>

\* The request has its instances, or panics setting one that does not fit.
Return ==
  /\ Done /\ Top.key = Root
  /\ stack' = << >>
  /\ UNCHANGED <<binding, made, retired>>

Next ==
  \/ \E r \in Resolvers : Singleton(r) \/ \E id \in Ids : RegisterSingleton(id, r)
  \/ \E t \in Types : RemoveByType(t)
  \/ Reset
  \/ \E keys \in Requests : Request(keys)
  \/ NotFound \/ Resolve \/ Invoke \/ Panic \/ Return

Spec == New /\ [][Next]_vars

-----------------------------------------------------------------------------
\* Types.
TypeOK ==
  /\ \A k \in AllKeys : Bound(k) => binding[k].resolver \in Resolvers
  /\ \A k \in AllKeys : binding[k].instance \in 0 .. Len(made)
  /\ \A i \in 1 .. Len(stack) : /\ stack[i].key \in AllKeys \cup {Root}
                                /\ SE!ToSet(stack[i].wants) \subseteq AllKeys
                                /\ SE!ToSet(stack[i].args) \subseteq 0 .. Len(made)
  /\ retired \subseteq 1 .. Len(made)

\* One instance per binding, shared by everyone who needs it: what an instance was
\* given is what its types are bound to still, unless that binding was replaced or
\* removed; and nobody is given nil or a value of another type.
OneInstance ==
  /\ \A n \in 1 .. Len(made) :
       \A i \in DOMAIN made[n].args :
         LET d == made[n].args[i]  t == Ins[made[n].resolver][i] IN
         Fits(d, t) /\ (d \in retired \/ binding[t].instance = d)
  /\ \A k \in AllKeys : binding[k].instance # Nil =>
       made[binding[k].instance].resolver = binding[k].resolver
===============================================================================
