------------------------------- MODULE LruCache -------------------------------
(***************************************************************************)
(* cache/lru.go: the map of list elements and the recency list, one mutex, *)
(* TTLs checked when an entry is looked up, and the loader that runs       *)
(* between two critical sections.                                          *)
(***************************************************************************)
EXTENDS Naturals, FiniteSets, SequencesExt

CONSTANTS
  Keys, Values,
  TTLs,        \* the ttl arguments; 0 is "no TTL"
  Loaders,     \* goroutines that call GetWithLoaderAndTTL
  Capacity,
  MaxTime,     \* bound of the clock
  None

ASSUME LruAssumption ==
  /\ MaxTime \in Nat \ {0} /\ TTLs \subseteq 0 .. MaxTime /\ Capacity \in Nat
  /\ None \notin Values

VARIABLES
  items,       \* the entry of each key in the map
  list,        \* the keys of the list's elements, most recently used first
  now,
  loading,     \* each loader goroutine: the key it loads, or None
  loaded,      \* what its loader returned, or None
  reply,       \* the last operation and its answer
  recent       \* history: every key used, the latest first

storeVars == <<items, list, reply, recent>>
loadVars  == <<loading, loaded>>
vars      == <<storeVars, loadVars, now>>

Entry(v, ttl) == [value |-> v, until |-> IF ttl > 0 THEN now + ttl ELSE 0]
Entries       == [value : Values, until : 0 .. 2 * MaxTime]
Permanent     == {e \in Entries : e.until = 0}

\* items[key] = element
Put(k, e) == [l \in DOMAIN items \cup {k} |-> IF l = k THEN e ELSE items[l]]

Init ==
  /\ items = [k \in {} |-> 0]
  /\ list = << >>
  /\ now = 1
  /\ loading = [c \in Loaders |-> None]
  /\ loaded = [c \in Loaders |-> None]
  /\ reply = <<"none">>
  /\ recent = << >>

\* list.MoveToFront
ToFront(s, k) == <<k>> \o RemoveFirst(s, k)
Use(k) == recent' = ToFront(recent, k)

\* list.Remove(element) and delete(items, key)
Drop(k) ==
  /\ items' = Restrict(items, DOMAIN items \ {k})
  /\ list' = RemoveFirst(list, k)

-----------------------------------------------------------------------------
(* The critical sections *)

\* time.Now().After(ttl), for an entry that has one
Expired(k) == items[k].until # 0 /\ now > items[k].until

\* Get: a hit moves the element to the front, an expired entry is removed.
Get(k) ==
  \/ /\ k \in DOMAIN items /\ ~Expired(k)
     /\ reply' = <<"hit", k, items[k].value>>
     /\ list' = ToFront(list, k)
     /\ Use(k)
     /\ UNCHANGED items
  \/ /\ k \in DOMAIN items => Expired(k)
     /\ Drop(k)
     /\ reply' = <<"miss", k>>
     /\ UNCHANGED recent

\* Mutant: the room is made before the new element is pushed, by one too few.
SetEvictingLate(k, v, ttl) ==
  /\ items' = (k :> Entry(v, ttl)) @@ IF Len(list) > Capacity /\ k \notin DOMAIN items
                                        THEN Restrict(items, DOMAIN items \ {Last(list)})
                                        ELSE items
  /\ list' = IF k \in DOMAIN items THEN ToFront(list, k)
             ELSE <<k>> \o IF Len(list) > Capacity THEN Front(list) ELSE list
  /\ Use(k)
  /\ reply' = <<"set", k>>

\* SetWithTTL: update in place, or push to the front and evict the back.
SetWithTTL(k, v, ttl) ==
  /\ \/ /\ k \in DOMAIN items
        /\ items' = [items EXCEPT ![k] = Entry(v, ttl)]
        /\ list' = ToFront(list, k)
     \/ /\ k \notin DOMAIN items
        /\ LET pushed == <<k>> \o list
               grown  == Put(k, Entry(v, ttl))
           IN  IF Len(pushed) > Capacity
                 THEN /\ list' = Front(pushed)
                      /\ items' = Restrict(grown, DOMAIN grown \ {Last(pushed)})
                 ELSE list' = pushed /\ items' = grown
  /\ Use(k)
  /\ reply' = <<"set", k>>

-----------------------------------------------------------------------------
(* The operations *)

CallGet(k) == Get(k) /\ UNCHANGED <<loadVars, now>>

CallSet(k, v, ttl) == SetWithTTL(k, v, ttl) /\ UNCHANGED <<loadVars, now>>

Delete(k) ==
  /\ Drop(k)
  /\ reply' = <<"delete", k>>
  /\ UNCHANGED <<recent, loadVars, now>>

Clear ==
  /\ items' = [k \in {} |-> 0]
  /\ list' = << >>
  /\ reply' = <<"clear">>
  /\ UNCHANGED <<recent, loadVars, now>>

\* Has and Keys read the map, Len the list.
ListKeys ==
  /\ reply' = <<"keys", DOMAIN items>>
  /\ UNCHANGED <<items, list, recent, loadVars, now>>

CallLen ==
  /\ reply' = <<"len", Len(list)>>
  /\ UNCHANGED <<items, list, recent, loadVars, now>>

\* GetWithLoaderAndTTL: the look-up ...
BeginLoad(c, k) ==
  /\ loading[c] = None
  /\ Get(k)
  /\ loading' = [loading EXCEPT ![c] = IF reply'[1] = "hit" THEN None ELSE k]
  /\ UNCHANGED <<loaded, now>>

\* ... the loader, outside the mutex; an error ends the call ...
Load(c) ==
  /\ loading[c] # None /\ loaded[c] = None
  /\ \/ /\ \E v \in Values : loaded' = [loaded EXCEPT ![c] = v]
        /\ UNCHANGED loading
     \/ loading' = [loading EXCEPT ![c] = None] /\ UNCHANGED loaded
  /\ UNCHANGED <<storeVars, now>>

\* ... and the store, whatever the cache holds by now.
StoreLoaded(c, ttl) ==
  /\ loaded[c] # None
  /\ SetWithTTL(loading[c], loaded[c], ttl)
  /\ loading' = [loading EXCEPT ![c] = None]
  /\ loaded' = [loaded EXCEPT ![c] = None]
  /\ UNCHANGED now

Tick == now < MaxTime /\ now' = now + 1 /\ UNCHANGED <<storeVars, loadVars>>

Next ==
  \/ \E k \in Keys : CallGet(k) \/ Delete(k)
  \/ \E k \in Keys, v \in Values, ttl \in TTLs : CallSet(k, v, ttl)
  \/ \E c \in Loaders : Load(c) \/ \E k \in Keys : BeginLoad(c, k)
  \/ \E c \in Loaders, ttl \in TTLs : StoreLoaded(c, ttl)
  \/ Clear \/ ListKeys \/ CallLen \/ Tick

Spec == Init /\ [][Next]_vars

-----------------------------------------------------------------------------
(* Properties *)

\* Types.
TypeOK ==
  /\ DOMAIN items \subseteq Keys /\ \A k \in DOMAIN items : items[k] \in Entries
  /\ list \in Seq(Keys) /\ now \in 0 .. MaxTime
  /\ loading \in [Loaders -> Keys \cup {None}]
  /\ loaded \in [Loaders -> Values \cup {None}]

\* The map and the list, changed by separate calls, describe the same entries,
\* each once, and never more than the capacity.
ListMatchesItems ==
  /\ ToSet(list) = DOMAIN items
  /\ Len(list) = Cardinality(DOMAIN items)
  /\ Len(list) <= Capacity

\* Least recently used: the key that a Set pushes out was used before every
\* key that stays, whichever of Get, Set and the loaders used them; so it is
\* never the key just set.
EvictsLeastRecent ==
  [][reply'[1] = "set" =>
       \A l \in (DOMAIN items \cup {reply'[2]}) \ DOMAIN items', m \in DOMAIN items' :
         \E i, j \in DOMAIN recent' : i < j /\ recent'[i] = m /\ recent'[j] = l]_vars

\* The LRU cache is a Cache.
EntryValue(e) == e.value
Abstract == INSTANCE Cache WITH
  capacity <- Capacity, contents <- items, Value <- EntryValue
ImplementsCache == Abstract!Spec
=============================================================================
