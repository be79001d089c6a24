-------------------------------- MODULE Cache --------------------------------
(***************************************************************************)
(* What the interface of cache/cache.go promises of any cache: a bounded   *)
(* map from keys to what was last set for them, and what each operation    *)
(* answers.  An entry goes only because it is deleted or cleared, because  *)
(* it had a TTL and was looked up, or because a new key needed the room,   *)
(* one entry for one key.                                                  *)
(***************************************************************************)
EXTENDS Naturals, FiniteSets, Functions

CONSTANTS Keys, Entries, Permanent, Value(_)

VARIABLES
  capacity,   \* chosen once
  contents,   \* the entry of each cached key
  reply       \* the last operation and its answer

vars == <<capacity, contents, reply>>

Init ==
  /\ capacity \in Nat
  /\ contents = [k \in {} |-> 0]
  /\ reply = <<"none">>

Cached == DOMAIN contents
With(k, e) == [l \in Cached \cup {k} |-> IF l = k THEN e ELSE contents[l]]

\* An update costs no entry; nor does a new key while there is room; a full
\* cache gives up one entry, which may be the new one.
Store(k, e) ==
  IF k \in Cached \/ Cardinality(Cached) < capacity
    THEN contents' = With(k, e)
    ELSE \E l \in Cached \cup {k} :
           contents' = Restrict(With(k, e), (Cached \cup {k}) \ {l})

Set(k) == reply' = <<"set", k>> /\ \E e \in Entries : Store(k, e)

Hit(k) ==
  /\ k \in Cached
  /\ reply' = <<"hit", k, Value(contents[k])>>
  /\ UNCHANGED contents

\* A permanent entry is always found.
Miss(k) ==
  /\ reply' = <<"miss", k>>
  /\ k \notin Cached \/ contents[k] \notin Permanent
  /\ contents' = Restrict(contents, Cached \ {k})

Delete(k) ==
  /\ reply' = <<"delete", k>>
  /\ contents' = Restrict(contents, Cached \ {k})

Clear == reply' = <<"clear">> /\ contents' = [k \in {} |-> 0]

\* Has and Keys, and Len, agree on what is cached.
ListKeys == reply' = <<"keys", Cached>> /\ UNCHANGED contents
Len      == reply' = <<"len", Cardinality(Cached)>> /\ UNCHANGED contents

Operation ==
  \/ \E k \in Keys : Hit(k) \/ Miss(k) \/ Delete(k) \/ Set(k)
  \/ Clear \/ ListKeys \/ Len

Next == Operation /\ UNCHANGED capacity

Spec == Init /\ [][Next]_vars
=============================================================================
