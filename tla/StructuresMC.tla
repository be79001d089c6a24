---------------------------- MODULE StructuresMC ----------------------------
(* Small instances of the containers, checked in one run: each behaviour is of *)
(* a cache, a URI trie, a linked list, an insertion list, a safe queue, an IoC *)
(* container, or of runs of the migrations, as kind says.                      *)
EXTENDS CachesMC, Integers

\* The constants of UriTrie, LinkedList, InsertionList, SafeQueue, Container, Migration.
CONSTANTS
  Patterns, Paths,
  MaxNodes, MaxLoose,
  Items, Key, MaxLen,
  Callers, MaxElements,
  Types, Ids, Resolvers, Ins, Outs, ReturnsNil, Requests, MaxInstances,
  Runs, LastVersion, LastText

Sep   == <<"C", "/">>
Token == {"C", "P", "W"} \X STRING

\* Tokens are what addPath and match split a string into: segments are not empty, and are
\* apart from each other; a pattern does not end in a slash, and a path begins with one.
\* No key is what the container calls a request, or a resolver what it calls none; the
\* comparator compares numbers.
ASSUME StructuresAssumption ==
  /\ Patterns \subseteq Seq(Token) /\ Paths \subseteq Seq(STRING)
  /\ \A p \in Patterns : /\ p # << >> => p[Len(p)] # Sep
                         /\ \A i \in 1 .. Len(p) - 1 : p[i] = Sep <=> p[i + 1] # Sep
  /\ \A path \in Paths : /\ path # << >> => path[1] = "/" /\ path[Len(path)] # "/"
                          /\ \A i \in 1 .. Len(path) - 1 : path[i] = "/" \/ path[i + 1] = "/"
  /\ Key \in [Items -> Int] /\ MaxLen \in Nat /\ MaxNodes \in Nat
  /\ Ins \in [Resolvers -> Seq(Types)] /\ Outs \in [Resolvers -> Seq(Types)]
  /\ Requests \subseteq Seq(Types \cup Ids) /\ MaxInstances \in Nat
  /\ "request" \notin Types \cup Ids /\ "none" \notin Resolvers
  /\ LastVersion \in Nat /\ LastText \in Nat \ {0} /\ MaxElements \in Nat

VARIABLES
  trie, trieSize, refused,
  ends, link, listSize, contents, intact,
  slice, count, sorted,
  head, tail, next, queueSize, queuePc, held, added, taken, overlapped,
  binding, stack, made, retired,
  inTx, files, record, applied, pc, scripts, migrations, executed, inserted, loose, overlap

trieVars      == <<trie, trieSize, refused>>
listVars      == <<ends, link, listSize, contents, intact>>
sliceVars     == <<slice, count, sorted>>
queueVars     == <<head, tail, next, queueSize, queuePc, held, added, taken, overlapped>>
containerVars == <<binding, stack, made, retired>>
migrationVars == <<inTx, files, record, applied, pc, scripts, migrations, executed,
                   inserted, loose, overlap>>
structureVars == <<trieVars, listVars, sliceVars, queueVars, containerVars, migrationVars>>

\* Patterns that share prefixes, hide each other, conflict (two names, a parameter and a
\* wildcard) or repeat a name; paths of up to two segments.
L(s) == <<"C", s>>
P(s) == <<"P", s>>
W(s) == <<"W", s>>
SomePatterns ==
  { << >>, <<Sep, L("a")>>, <<Sep, P("x")>>, <<Sep, P("y")>>, <<Sep, W("w")>>,
    <<Sep, L("a"), Sep, L("b")>>, <<Sep, P("x"), Sep, L("b")>>,
    <<Sep, P("x"), Sep, P("x")>> }
Segments  == {"a", "b", "c"}
SomePaths == { << >> } \cup { <<"/", s>> : s \in Segments }
                       \cup { <<"/", s, "/", t>> : s \in Segments, t \in Segments }

\* Two of four items have the same key.
HalfOf == [x \in 1 .. 4 |-> x \div 2]

\* A takes nothing, B takes A, C takes both; one resolver returns A and B, one returns
\* nil, and one makes A depend on C.
InsOf  == [a |-> << >>, b |-> <<"A">>, c |-> <<"A", "B">>, ab |-> << >>, cycle |-> <<"C">>,
           nothing |-> << >>]
OutsOf == [a |-> <<"A">>, b |-> <<"B">>, c |-> <<"C">>, ab |-> <<"A", "B">>, cycle |-> <<"A">>,
           nothing |-> <<"B">>]
SomeResolvers == DOMAIN InsOf
SomeRequests  == { <<"A">>, <<"C">>, <<"B", "i">> }

Trie    == INSTANCE UriTrie WITH size <- trieSize
List    == INSTANCE LinkedList WITH size <- listSize
Slice   == INSTANCE InsertionList WITH list <- slice
Queue   == INSTANCE SafeQueue WITH size <- queueSize, pc <- queuePc
Ioc     == INSTANCE Container
Migrate == INSTANCE Migration

AllInit ==
  /\ kind \in {"lru", "lfu", "heap", "trie", "list", "slice", "queue", "ioc", "migration"}
  /\ CacheInit
  /\ Trie!Init /\ List!NewLinkedList /\ Queue!NewSafeQueue /\ Ioc!New
  /\ Slice!NewInsertionListOf /\ (kind # "slice" => slice = << >>)
  /\ Migrate!Init /\ (kind # "migration" => inTx /\ files = record)

InTrie  == kind = "trie" /\ UNCHANGED <<cacheVars, listVars, sliceVars, queueVars, containerVars, migrationVars>>
InList  == kind = "list" /\ UNCHANGED <<cacheVars, trieVars, sliceVars, queueVars, containerVars, migrationVars>>
InSlice == kind = "slice" /\ UNCHANGED <<cacheVars, trieVars, listVars, queueVars, containerVars, migrationVars>>
InQueue == kind = "queue" /\ UNCHANGED <<cacheVars, trieVars, listVars, sliceVars, containerVars, migrationVars>>
InIoc   == kind = "ioc" /\ UNCHANGED <<cacheVars, trieVars, listVars, sliceVars, queueVars, migrationVars>>
InMigration == kind = "migration" /\ UNCHANGED <<cacheVars, trieVars, listVars, sliceVars, queueVars, containerVars>>

AllNext ==
  \/ CacheNext /\ UNCHANGED structureVars
  \/ \E p \in Patterns, v \in Values, override \in BOOLEAN : InTrie /\ Trie!Add(p, v, override)
  \/ \E p \in Patterns : InTrie /\ Trie!AddRefused(p)
  \/ \E p \in Patterns : InTrie /\ Trie!Remove(p)
  \/ InTrie /\ Trie!RemoveAll
  \/ \E e \in List!Ends : InList /\ List!Push(e)
  \/ \E e \in List!Ends : InList /\ List!Take(e)
  \/ \E i \in 0 .. MaxNodes : InList /\ List!Insert(i)
  \/ \E i \in 0 .. MaxNodes : InList /\ List!Remove(i)
  \/ \E x \in Items : InSlice /\ Slice!Add(x)
  \/ \E x \in Items : InSlice /\ Slice!Remove(x)
  \/ \E i \in 0 .. MaxLen : InSlice /\ Slice!RemoveAt(i)
  \/ InSlice /\ Slice!Clear
  \/ \E c \in Callers : InQueue /\ Queue!Enqueue(c)
  \/ \E c \in Callers : InQueue /\ Queue!Dequeue(c)
  \/ \E c \in Callers : InQueue /\ Queue!DequeuePanics(c)
  \/ \E c \in Callers : InQueue /\ Queue!IncrSizeBy(c)
  \/ \E r \in Resolvers : InIoc /\ Ioc!Singleton(r)
  \/ \E id \in Ids, r \in Resolvers : InIoc /\ Ioc!RegisterSingleton(id, r)
  \/ \E t \in Types : InIoc /\ Ioc!RemoveByType(t)
  \/ InIoc /\ Ioc!Reset
  \/ \E keys \in Requests : InIoc /\ Ioc!Request(keys)
  \/ InIoc /\ Ioc!NotFound
  \/ InIoc /\ Ioc!Resolve
  \/ InIoc /\ Ioc!Invoke
  \/ InIoc /\ Ioc!Panic
  \/ InIoc /\ Ioc!Return
  \/ \E v \in 1 .. LastVersion : InMigration /\ Migrate!EditFile(v)
  \/ \E r \in Runs : InMigration /\ Migrate!Load(r)
  \/ \E r \in Runs : InMigration /\ Migrate!GetMigrations(r)
  \/ \E r \in Runs : InMigration /\ Migrate!Skip(r)
  \/ \E r \in Runs : InMigration /\ Migrate!HashMismatch(r)
  \/ \E r \in Runs : InMigration /\ Migrate!ExecScript(r)
  \/ \E r \in Runs : InMigration /\ Migrate!InsertRecord(r)
  \/ \E r \in Runs : InMigration /\ Migrate!InsertFails(r)
  \/ \E r \in Runs : InMigration /\ Migrate!Commit(r)
  \/ \E r \in Runs : InMigration /\ Migrate!Crash(r)

AllSpec == AllInit /\ [][AllNext]_<<cacheVars, structureVars>>

-----------------------------------------------------------------------------
\* Types of every module.
TypesOK == /\ CacheTypesOK /\ Trie!TypeOK /\ List!TypeOK /\ Slice!TypeOK
           /\ Queue!TypeOK /\ Ioc!TypeOK /\ Migrate!TypeOK

\* UriTrie: a path gets the value of a registered pattern that it is an instance of, and
\* gets the one of each such pattern that no literal segment hides.
MatchIsRight == kind = "trie" => Trie!MatchIsRight

\* UriTrie: adding, replacing and removing a pattern changes that pattern's value only.
ImplementsTable == Trie!ImplementsTable

\* LinkedList, InsertionList, SafeQueue: links, sizes, searches and what comes out are
\* those of the sequence that the calls describe, until a call that the code gets wrong;
\* and a walk through a linked list ends even then.
SequencesKept ==
  /\ kind = "list" => List!IsSequence /\ List!NoCycle
  /\ kind = "slice" => Slice!SortedAndFound
  /\ kind = "queue" => Queue!FirstInFirstOut

\* Container: one instance per binding, shared by everything that depends on it.
OneInstance == kind = "ioc" => Ioc!OneInstance

\* Migration: what is recorded was executed, and executed once unless a call ended
\* between a script and its record or two calls on plain connections overlapped.
ScriptsOnce == kind = "migration" => Migrate!ScriptsOnce
=============================================================================
