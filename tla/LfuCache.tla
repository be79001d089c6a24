------------------------------- MODULE LfuCache -------------------------------
(***************************************************************************)
(* cache/lfu.go: the map of items and the heap that orders them by         *)
(* frequency, each item remembering its place in the heap.                 *)
(*                                                                         *)
(* The heap's array is modelled with the algorithms of container/heap,     *)
(* which calls the five methods of lfuHeap; positions start at 1.          *)
(***************************************************************************)
EXTENDS Naturals, FiniteSets, SequencesExt

CONSTANTS
  Keys, Values,
  TTLs,        \* the ttl arguments; 0 is "no TTL"
  Loaders,     \* goroutines that call GetWithLoaderAndTTL
  Capacity,
  MaxTime,     \* bound of the clock
  MaxFreq,     \* bound of the frequencies
  None

VARIABLES
  items,       \* value and ttl of each key in the map
  freqHeap,    \* the heap's array of keys
  freq,        \* freq and heapIndex of each item; those of keys without an
  heapIndex,   \* item are left at 0
  now,
  loading,     \* each loader goroutine: the key it loads, or None
  loaded,      \* what its loader returned, or None
  reply        \* the last operation and its answer

heapVars  == <<freqHeap, freq, heapIndex>>
storeVars == <<items, heapVars, reply>>
loadVars  == <<loading, loaded>>
vars      == <<storeVars, loadVars, now>>

Entry(v, ttl) == [value |-> v, until |-> IF ttl > 0 THEN now + ttl ELSE 0]
Entries       == [value : Values, until : 0 .. 2 * MaxTime]
Permanent     == {e \in Entries : e.until = 0}

\* items[key] = element
Put(k, e) == [l \in DOMAIN items \cup {k} |-> IF l = k THEN e ELSE items[l]]

Init ==
  /\ items = [k \in {} |-> 0]
  /\ freqHeap = << >>
  /\ freq = [k \in Keys |-> 0]
  /\ heapIndex = [k \in Keys |-> 0]
  /\ now = 1
  /\ loading = [c \in Loaders |-> None]
  /\ loaded = [c \in Loaders |-> None]
  /\ reply = <<"none">>

-----------------------------------------------------------------------------
(* The heap: a record of the array, the frequencies and the indices *)

Heap == [slots |-> freqHeap, freq |-> freq, index |-> heapIndex]
HeapBecomes(h) == freqHeap' = h.slots /\ freq' = h.freq /\ heapIndex' = h.index

Less(h, i, j) == h.freq[h.slots[i]] < h.freq[h.slots[j]]

\* Mutant: the indices are not swapped along.
SwapSlots(h, i, j) ==
  [h EXCEPT !.slots = [@ EXCEPT ![i] = h.slots[j], ![j] = h.slots[i]]]

Swap(h, i, j) == [slots |-> [h.slots EXCEPT ![i] = h.slots[j], ![j] = h.slots[i]],
                  freq  |-> h.freq,
                  index |-> [h.index EXCEPT ![h.slots[j]] = i, ![h.slots[i]] = j]]

Push(h, k) == [slots |-> Append(h.slots, k),
               freq  |-> [h.freq EXCEPT ![k] = 1],
               index |-> [h.index EXCEPT ![k] = Len(h.slots) + 1]]

Pop(h) == [slots |-> Front(h.slots),
           freq  |-> [h.freq EXCEPT ![Last(h.slots)] = 0],
           index |-> [h.index EXCEPT ![Last(h.slots)] = 0]]

\* A loop has the heap and the place of what it moves; it goes on for as many rounds as
\* there are places, and ends by changing nothing.
At(h, i) == [heap |-> h, place |-> i]

RoundUp(s) ==
  LET i == s.place \div 2 IN
  IF s.place = 1 \/ ~Less(s.heap, s.place, i) THEN s ELSE At(Swap(s.heap, i, s.place), i)

\* The child that is used less.
Child(h, i, n) == IF 2 * i + 1 <= n /\ Less(h, 2 * i + 1, 2 * i) THEN 2 * i + 1 ELSE 2 * i

RoundDown(s, n) ==
  LET m == Child(s.heap, s.place, n) IN
  IF 2 * s.place > n \/ ~Less(s.heap, m, s.place) THEN s ELSE At(Swap(s.heap, s.place, m), m)

Up(h, j) ==
  LET up[k \in 0 .. j] == IF k = 0 THEN At(h, j) ELSE RoundUp(up[k - 1])
  IN  up[j].heap

\* Sifts i down among the first n.
Down(h, i, n) ==
  LET down[k \in 0 .. n] == IF k = 0 THEN At(h, i) ELSE RoundDown(down[k - 1], n)
  IN  down[n].heap

\* Down first and, where that moves nothing, up.
Sift(h, i, n) == LET down == Down(h, i, n) IN IF down = h THEN Up(h, i) ELSE down

HeapPush(h, k) == Up(Push(h, k), Len(h.slots) + 1)
HeapFix(h, i)  == Sift(h, i, Len(h.slots))
HeapPop(h)     == LET n == Len(h.slots) IN Pop(Down(Swap(h, 1, n), 1, n - 1))
HeapRemove(h, i) ==
  LET n == Len(h.slots) IN Pop(IF i = n THEN h ELSE Sift(Swap(h, i, n), i, n - 1))

-----------------------------------------------------------------------------
(* The critical sections *)

\* item.freq++ and heap.Fix
Bump(k) ==
  /\ freq[k] < MaxFreq
  /\ LET counted == [slots |-> freqHeap, freq |-> [freq EXCEPT ![k] = freq[k] + 1],
                      index |-> heapIndex]
     IN  HeapBecomes(HeapFix(counted, heapIndex[k]))

Drop(k) ==
  /\ HeapBecomes(HeapRemove(Heap, heapIndex[k]))
  /\ items' = Restrict(items, DOMAIN items \ {k})

Expired(k) == items[k].until # 0 /\ now > items[k].until

Get(k) ==
  \/ /\ k \in DOMAIN items /\ ~Expired(k)
     /\ Bump(k)
     /\ reply' = <<"hit", k, items[k].value>>
     /\ UNCHANGED items
  \/ /\ k \in DOMAIN items /\ Expired(k)
     /\ Drop(k)
     /\ reply' = <<"miss", k>>
  \/ /\ k \notin DOMAIN items
     /\ reply' = <<"miss", k>>
     /\ UNCHANGED <<items, heapVars>>

\* Mutant: the last slot of the heap is taken.
EvictLast(h, grown) ==
  /\ HeapBecomes(Pop(h))
  /\ items' = Restrict(grown, DOMAIN grown \ {Last(h.slots)})

\* evict: the heap's first item leaves the heap and the map.
Evict(h, grown) ==
  /\ HeapBecomes(HeapPop(h))
  /\ items' = Restrict(grown, DOMAIN grown \ {Head(h.slots)})

\* SetWithTTL: update and count a use, or push and evict if over capacity.
SetWithTTL(k, v, ttl) ==
  LET grown == Put(k, Entry(v, ttl)) IN
  /\ \/ k \in DOMAIN items /\ items' = grown /\ Bump(k)
     \/ /\ k \notin DOMAIN items
        /\ LET pushed == HeapPush(Heap, k)
           IN  IF Cardinality(DOMAIN grown) > Capacity
                 THEN Evict(pushed, grown)
                 ELSE HeapBecomes(pushed) /\ items' = grown
  /\ reply' = <<"set", k>>

-----------------------------------------------------------------------------
(* The operations *)

CallGet(k) == Get(k) /\ UNCHANGED <<loadVars, now>>

CallSet(k, v, ttl) == SetWithTTL(k, v, ttl) /\ UNCHANGED <<loadVars, now>>

Delete(k) ==
  /\ \/ k \in DOMAIN items /\ Drop(k)
     \/ k \notin DOMAIN items /\ UNCHANGED <<items, heapVars>>
  /\ reply' = <<"delete", k>>
  /\ UNCHANGED <<loadVars, now>>

Clear ==
  /\ items' = [k \in {} |-> 0]
  /\ freqHeap' = << >>
  /\ freq' = [k \in Keys |-> 0] /\ heapIndex' = [k \in Keys |-> 0]
  /\ reply' = <<"clear">>
  /\ UNCHANGED <<loadVars, now>>

\* Has, Keys and Len read the map.
ListKeys ==
  /\ reply' \in {<<"keys", DOMAIN items>>, <<"len", Cardinality(DOMAIN items)>>}
  /\ UNCHANGED <<items, heapVars, loadVars, now>>

\* GetWithLoaderAndTTL: the look-up ...
BeginLoad(c, k) ==
  /\ loading[c] = None
  /\ Get(k)
  /\ loading' = [loading EXCEPT ![c] = IF reply'[1] = "hit" THEN None ELSE k]
  /\ UNCHANGED <<loaded, now>>

\* ... the loader, outside the mutex; an error ends the call ...
Load(c) ==
  /\ loading[c] # None /\ loaded[c] = None
  /\ \/ /\ \E v \in Values : loaded' = [loaded EXCEPT ![c] = v]
        /\ UNCHANGED loading
     \/ loading' = [loading EXCEPT ![c] = None] /\ UNCHANGED loaded
  /\ UNCHANGED <<storeVars, now>>

\* ... and the store, whatever the cache holds by now.
StoreLoaded(c, ttl) ==
  /\ loaded[c] # None
  /\ SetWithTTL(loading[c], loaded[c], ttl)
  /\ loading' = [loading EXCEPT ![c] = None]
  /\ loaded' = [loaded EXCEPT ![c] = None]
  /\ UNCHANGED now

Tick == now < MaxTime /\ now' = now + 1 /\ UNCHANGED <<storeVars, loadVars>>

Next ==
  \/ \E k \in Keys : CallGet(k) \/ Delete(k)
  \/ \E k \in Keys, v \in Values, ttl \in TTLs : CallSet(k, v, ttl)
  \/ \E c \in Loaders : Load(c) \/ \E k \in Keys : BeginLoad(c, k)
  \/ \E c \in Loaders, ttl \in TTLs : StoreLoaded(c, ttl)
  \/ Clear \/ ListKeys \/ Tick

Spec == Init /\ [][Next]_vars

-----------------------------------------------------------------------------
(* Properties *)

\* Types.
TypeOK ==
  /\ DOMAIN items \subseteq Keys /\ \A k \in DOMAIN items : items[k] \in Entries
  /\ freqHeap \in Seq(Keys) /\ now \in 0 .. MaxTime
  /\ freq \in [Keys -> 0 .. MaxFreq]
  /\ heapIndex \in [Keys -> 0 .. Capacity]
  /\ loading \in [Loaders -> Keys \cup {None}]
  /\ loaded \in [Loaders -> Values \cup {None}]

\* The index each item remembers is its place in the heap, after every swap of
\* every push, fix, pop and removal; the heap holds the map's items, each once.
IndexConsistent ==
  /\ ToSet(freqHeap) = DOMAIN items
  /\ \A i \in DOMAIN freqHeap : heapIndex[freqHeap[i]] = i
  /\ Len(freqHeap) = Cardinality(DOMAIN items)
  /\ Len(freqHeap) <= Capacity

\* No parent in the heap is used more often than its children.
HeapOrdered ==
  \A i \in DOMAIN freqHeap : i > 1 => freq[freqHeap[i \div 2]] <= freq[freqHeap[i]]

\* Least frequently used: what a Set pushes out was used no more often than
\* anything that stays (the new key itself counts as used once).
EvictsLeastFrequent ==
  [][\A l \in DOMAIN items \ DOMAIN items' :
       reply'[1] = "set" => \A m \in DOMAIN items' : freq[l] <= freq'[m]]_vars

\* The LFU cache is a Cache.
EntryValue(e) == e.value
Abstract == INSTANCE Cache WITH
  capacity <- Capacity, contents <- items, Value <- EntryValue
ImplementsCache == Abstract!Spec
=============================================================================
