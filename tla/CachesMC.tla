------------------------------ MODULE CachesMC ------------------------------
(* Small instances of LruCache and LfuCache, which StructuresMC checks with     *)
(* the other containers: a behaviour is of an LRU cache, of an LFU cache, or    *)
(* ("heap") of a larger LFU cache without TTLs and loaders, whose heap has      *)
(* three levels.                                                                *)
EXTENDS LruCache

CONSTANTS
  MaxFreq,            \* of the LFU caches
  HeapKeys, HeapRoom  \* the keys and the capacity of the larger one

ASSUME CachesAssumption == MaxFreq \in Nat \ {0} /\ HeapRoom \in Nat

\* No operation looks at which key or value it is given.
Symmetry == Permutations(Keys) \cup Permutations(Values)

VARIABLES kind, lfuItems, freqHeap, freq, heapIndex, lfuNow, lfuLoading,
          lfuLoaded, lfuReply

OneValue == "value"

Lfu == INSTANCE LfuCache WITH
  items <- lfuItems, now <- lfuNow, loading <- lfuLoading,
  loaded <- lfuLoaded, reply <- lfuReply

Heap == INSTANCE LfuCache WITH
  items <- lfuItems, now <- lfuNow, loading <- lfuLoading,
  loaded <- lfuLoaded, reply <- lfuReply,
  Keys <- HeapKeys, TTLs <- {0}, Loaders <- {}, Capacity <- HeapRoom, MaxTime <- 1,
  Values <- {OneValue}

lfuVars == <<lfuItems, freqHeap, freq, heapIndex, lfuNow, lfuLoading,
             lfuLoaded, lfuReply>>
cacheVars == <<kind, lfuVars, vars>>

CacheInit ==
  /\ Init
  /\ IF kind = "heap" THEN Heap!Init ELSE Lfu!Init

InLru  == kind = "lru" /\ UNCHANGED <<kind, lfuVars>>
InLfu  == kind = "lfu" /\ UNCHANGED <<kind, vars>>
InHeap == kind = "heap" /\ UNCHANGED <<kind, vars>>

CacheNext ==
  \/ \E k \in Keys : InLru /\ CallGet(k)
  \/ \E k \in Keys : InLru /\ Delete(k)
  \/ \E k \in Keys, v \in Values, ttl \in TTLs : InLru /\ CallSet(k, v, ttl)
  \/ \E c \in Loaders, k \in Keys : InLru /\ BeginLoad(c, k)
  \/ \E c \in Loaders : InLru /\ Load(c)
  \/ \E c \in Loaders, ttl \in TTLs : InLru /\ StoreLoaded(c, ttl)
  \/ InLru /\ Clear
  \/ InLru /\ ListKeys
  \/ InLru /\ CallLen
  \/ InLru /\ Tick
  \/ \E k \in Keys : InLfu /\ Lfu!CallGet(k)
  \/ \E k \in Keys : InLfu /\ Lfu!Delete(k)
  \/ \E k \in Keys, v \in Values, ttl \in TTLs : InLfu /\ Lfu!CallSet(k, v, ttl)
  \/ \E c \in Loaders, k \in Keys : InLfu /\ Lfu!BeginLoad(c, k)
  \/ \E c \in Loaders : InLfu /\ Lfu!Load(c)
  \/ \E c \in Loaders, ttl \in TTLs : InLfu /\ Lfu!StoreLoaded(c, ttl)
  \/ InLfu /\ Lfu!Clear
  \/ InLfu /\ Lfu!ListKeys
  \/ InLfu /\ Lfu!Tick
  \/ \E k \in HeapKeys : InHeap /\ Heap!CallGet(k)
  \/ \E k \in HeapKeys : InHeap /\ Heap!Delete(k)
  \/ \E k \in HeapKeys : InHeap /\ Heap!CallSet(k, OneValue, 0)

-----------------------------------------------------------------------------
\* Types of both modules.
CacheTypesOK == /\ TypeOK
           /\ IF kind = "heap" THEN Heap!TypeOK ELSE Lfu!TypeOK

\* LruCache: the list has the keys of the map.  LfuCache: indices and order of the heap
\* survive every operation.
CachesConsistent ==
  /\ ListMatchesItems
  /\ Lfu!HeapOrdered
  /\ IF kind = "heap" THEN Heap!IndexConsistent ELSE Lfu!IndexConsistent

\* A Set pushes out the least recently used key (LruCache), or one that was used no more
\* than those that stay (LfuCache).
EvictsInOrder == EvictsLeastRecent /\ Lfu!EvictsLeastFrequent

\* The LFU cache is a Cache, of the capacity its kind has.
LfuAbstract == INSTANCE Cache WITH
  Keys <- Keys \cup HeapKeys, Value <- EntryValue,
  Entries <- Entries \cup Heap!Entries, Permanent <- Permanent \cup Heap!Permanent,
  contents <- lfuItems, reply <- lfuReply,
  capacity <- IF kind = "heap" THEN HeapRoom ELSE Capacity

\* Both caches do what a Cache does, expiry and loaders included.
ImplementCache == ImplementsCache /\ LfuAbstract!Spec
=============================================================================
