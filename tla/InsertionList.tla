---------------------------- MODULE InsertionList ----------------------------
(***************************************************************************)
(* data_structures/insertion_list.go: a slice kept in the order of a       *)
(* comparator.  Every call of the safe list is one critical section, so    *)
(* the two lists make the same steps.                                      *)
(***************************************************************************)
EXTENDS Integers, Sequences, FiniteSets

SE == INSTANCE SequencesExt

CONSTANTS
  Items,    \* what the list holds
  Key,      \* Key[x]: the comparator compares Key; different items may be equal to it
  MaxLen    \* the longest list

VARIABLES
  list,
  count,    \* history: by the calls, how many items there are of a key
  sorted    \* history: the list was empty or sorted when it was made

vars == <<list, count, sorted>>

KeyValues == {Key[x] : x \in Items}
InOrder(s) == \A i \in 1 .. Len(s) - 1 : Key[s[i]] <= Key[s[i + 1]]
CountIn(s) == [k \in KeyValues |-> Cardinality({i \in 1 .. Len(s) : Key[s[i]] = k})]

\* sort.Slice over at most twelve elements is an insertion sort, but the comparison
\* looks at the argument and not at the slice that is sorted: element i goes back as
\* far as the argument descends to i.
RunStart(s, i) ==
  CHOOSE j \in 1 .. i :
    /\ \A k \in j + 1 .. i : Key[s[k]] < Key[s[k - 1]]
    /\ j = 1 \/ Key[s[j]] >= Key[s[j - 1]]

SortCopy(s) ==
  LET f[i \in 0 .. Len(s)] ==
        IF i = 0 THEN << >>
        ELSE LET j == RunStart(s, i) IN
             SubSeq(f[i - 1], 1, j - 1) \o <<s[i]>> \o SubSeq(f[i - 1], j, i - 1)
  IN  f[Len(s)]

\* NewInsertionList makes the empty list.
NewInsertionListOf ==
  \E s \in SE!BoundedSeq(Items, MaxLen) :
    list = SortCopy(s) /\ count = CountIn(s) /\ sorted = InOrder(list)

\* A round of a binary search, on the indices (from 0) that are left: Add's halves them
\* towards the first element that is not smaller, Find's stops where it finds x.
Middle(w) == (w.left + w.right) \div 2

AddRound(w, x) ==
  CASE w.left >= w.right -> w
    [] w.left < w.right /\ Key[list[Middle(w) + 1]] >= Key[x] -> [left |-> w.left, right |-> Middle(w)]
    [] w.left < w.right /\ Key[list[Middle(w) + 1]] < Key[x] -> [left |-> Middle(w) + 1, right |-> w.right]

FindRound(w, x) ==
  CASE w.left > w.right -> w
    [] w.left <= w.right /\ Key[list[Middle(w) + 1]] = Key[x] -> w
    [] w.left <= w.right /\ Key[list[Middle(w) + 1]] > Key[x] -> [left |-> w.left, right |-> Middle(w) - 1]
    [] w.left <= w.right /\ Key[list[Middle(w) + 1]] < Key[x] -> [left |-> Middle(w) + 1, right |-> w.right]

\* As many rounds as there are elements are enough.
LowerBound(x) ==
  LET w[i \in 0 .. Len(list)] ==
        IF i = 0 THEN [left |-> 0, right |-> Len(list)] ELSE AddRound(w[i - 1], x)
  IN  w[Len(list)].right

Find(x) ==
  LET w[i \in 0 .. Len(list)] ==
        IF i = 0 THEN [left |-> 0, right |-> Len(list) - 1] ELSE FindRound(w[i - 1], x)
      last == w[Len(list)]
  IN  IF last.left > last.right THEN 0 - 1 ELSE Middle(last)

Add(x) ==
  /\ Len(list) < MaxLen
  /\ list' = SE!InsertAt(list, LowerBound(x) + 1, x)
  /\ count' = [count EXCEPT ![Key[x]] = @ + 1]
  /\ UNCHANGED sorted

\* The index len(list) passes the test and panics, without effect.
RemoveAt(i) ==
  /\ i \in 0 .. Len(list) - 1
  /\ list' = SE!RemoveAt(list, i + 1)
  /\ count' = [count EXCEPT ![Key[list[i + 1]]] = @ - 1]
  /\ UNCHANGED sorted

\* Any item that compares equal may be the one that goes.
Remove(x) ==
  /\ Find(x) # 0 - 1
  /\ list' = SE!RemoveAt(list, Find(x) + 1)
  /\ count' = [count EXCEPT ![Key[x]] = @ - 1]
  /\ UNCHANGED sorted

Clear == /\ list' = << >> /\ count' = [k \in KeyValues |-> 0] /\ UNCHANGED sorted

Next == \/ \E x \in Items : Add(x) \/ Remove(x)
        \/ \E i \in 0 .. MaxLen : RemoveAt(i)
        \/ Clear

Spec == NewInsertionListOf /\ [][Next]_vars

-----------------------------------------------------------------------------
\* Types.
TypeOK == list \in Seq(Items) /\ count \in [KeyValues -> Int] /\ sorted \in BOOLEAN

\* The list holds what the calls describe; if it was made in order it stays in order,
\* and the binary search finds an item exactly when one of its key is there.
SortedAndFound ==
  /\ CountIn(list) = count
  /\ sorted => /\ InOrder(list)
               /\ \A x \in Items : (Find(x) # 0 - 1) <=> count[Key[x]] > 0
===============================================================================
