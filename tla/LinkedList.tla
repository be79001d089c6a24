------------------------------ MODULE LinkedList ------------------------------
(***************************************************************************)
(* data_structures/linked_list.go: a doubly linked list, used by one       *)
(* goroutine at a time.                                                    *)
(*                                                                         *)
(* Append and Prepend, and Pop and Poll, mirror each other: a call works   *)
(* at an end e, "head" or "tail", and link[e][n] is n's neighbour towards  *)
(* that end (prev or next).  A node is its own value.  Nodes that nothing  *)
(* refers to are free again.                                               *)
(***************************************************************************)
EXTENDS Integers, Sequences

SE == INSTANCE SequencesExt

CONSTANTS
  MaxNodes,  \* how many nodes may be alive at once
  MaxLoose   \* a damaged list is used further if its nodes are 1 .. MaxLoose

VARIABLES
  ends,      \* the fields head and tail
  link,      \* the fields prev and next of every node
  size,
  contents,  \* history: the sequence the calls so far describe
  intact     \* history: no call so far was one of those the code gets wrong

vars == <<ends, link, size, contents, intact>>

Nil   == 0
MinSize == 0 - 1  \* how far the size of a damaged list may fall
Nodes == 1 .. MaxNodes
Ends  == {"head", "tail"}
Opp(e) == IF e = "head" THEN "tail" ELSE "head"

NewLinkedList ==
  /\ ends = [e \in Ends |-> Nil] /\ size = 0
  /\ link = [e \in Ends |-> [n \in Nodes |-> Nil]]
  /\ contents = << >> /\ intact = TRUE

\* What the heap looks like once the garbage is collected.
Alive(en, ln) ==
  LET f[k \in 0 .. MaxNodes] ==
        IF k = 0 THEN {en[e] : e \in Ends}
        ELSE f[k - 1] \cup {ln[e][n] : e \in Ends, n \in f[k - 1] \ {Nil}}
  IN  f[MaxNodes] \ {Nil}

SetHeap(en, ln) ==
  /\ ends' = en
  /\ LET alive == Alive(en, ln) IN
     link' = [e \in Ends |-> [n \in Nodes |-> IF n \in alive THEN ln[e][n] ELSE Nil]]

Free    == Nodes \ Alive(ends, link)
Usable  == size > MinSize /\ (intact \/ Nodes \ Free \subseteq 1 .. MaxLoose)
HasRoom == Free # {} /\ Usable /\ size < MaxNodes
New     == CHOOSE n \in Free : \A m \in Free : n <= m

\* History of a call that makes the sequence s and that the code gets right or not.
Describes(s, right) ==
  /\ intact' = (intact /\ right)
  /\ contents' = IF intact /\ right THEN s ELSE << >>

-----------------------------------------------------------------------------
(* Walking the list *)

\* Following link[e] from n, k times; Nil stands for the panic as well.
Walk(n, e, k) ==
  LET f[i \in 0 .. k] == IF i = 0 THEN n
                         ELSE IF f[i - 1] = Nil THEN Nil ELSE link[e][f[i - 1]]
  IN  f[k]

GetNode(i) ==
  CASE i \notin 0 .. size - 1 -> Nil
    [] i = 0 /\ size > 0 -> ends["head"]
    [] i > 0 /\ i = size - 1 -> ends["tail"]
    [] i \in 1 .. size - 2 /\ i <= size \div 2 -> Walk(ends["head"], "tail", i)
    [] i \in 1 .. size - 2 /\ i > size \div 2 -> Walk(ends["tail"], "head", size - i + 1)

\* Between the middle and the end getNode walks two nodes too far.
FindsRight(i) == i <= size \div 2 \/ i >= size - 1

\* The sequence of the nodes that ForEach, starting at an end, would visit.
Chain(e) == [k \in 1 .. Len(contents) |-> Walk(ends[e], Opp(e), k - 1)]

-----------------------------------------------------------------------------
(* Append (e = "tail") and Prepend (e = "head") *)

InitFirstNode(n) ==
  /\ SetHeap([e \in Ends |-> n], link)
  /\ size' = size + 1

\* insertBeforeNode and insertAfterNode: new becomes n's neighbour towards e.
Beside(n, new, e) ==
  LET far == link[e][n]
      l1 == [link EXCEPT ![Opp(e)][new] = n, ![e][new] = far, ![e][n] = new]
  IN  IF far = Nil THEN l1 ELSE [l1 EXCEPT ![Opp(e)][far] = new]

\* With one node the other end is linked to the new one; if that end is nil, the
\* call panics when this end has moved already.
AddSecond(n, e) ==
  LET o == ends[Opp(e)] IN
  /\ SetHeap([ends EXCEPT ![e] = n],
             IF o = Nil THEN link ELSE [link EXCEPT ![Opp(e)][n] = o, ![e][o] = n])
  /\ size' = IF o = Nil THEN size ELSE size + 1

Push(e) ==
  /\ HasRoom
  /\ LET n == New IN
     /\ \/ ends[e] = Nil /\ InitFirstNode(n)
        \/ ends[e] # Nil /\ size = 1 /\ AddSecond(n, e)
        \/ /\ ends[e] # Nil /\ size # 1
           /\ SetHeap([ends EXCEPT ![e] = n], Beside(ends[e], n, e))
           /\ size' = size + 1
     /\ Describes(IF e = "tail" THEN Append(contents, n) ELSE <<n>> \o contents, TRUE)

-----------------------------------------------------------------------------
(* Poll (e = "head") and Pop (e = "tail"), Insert and Remove by index *)

\* Mutant: the node that follows is not told.
UnlinkForward(n) ==
  LET p == link["head"][n]  q == link["tail"][n]
  IN  IF p = Nil THEN link ELSE [link EXCEPT !["tail"][p] = q]

\* removeOnNode: n itself keeps its links.
Unlink(n) ==
  LET p == link["head"][n]  q == link["tail"][n]
      l1 == IF p = Nil THEN link ELSE [link EXCEPT !["tail"][p] = q]
  IN  IF q = Nil THEN l1 ELSE [l1 EXCEPT !["head"][q] = p]

\* A list of one node keeps its other end.
Take(e) ==
  /\ ends[e] # Nil /\ Usable
  /\ SetHeap([ends EXCEPT ![e] = Unlink(ends[e])[Opp(e)][ends[e]]], Unlink(ends[e]))
  /\ size' = size - 1
  /\ Describes(IF contents = << >> THEN << >>
               ELSE IF e = "head" THEN Tail(contents) ELSE SE!Front(contents), size > 1)

\* Insert before the node at an index never moves the head; into an empty list it
\* makes the first node, and at the size it is Append.
Insert(i) ==
  /\ HasRoom
  /\ LET n == New  at == GetNode(i) IN
     /\ \/ size = 0 /\ i = 0 /\ InitFirstNode(n)
        \/ /\ at # Nil
           /\ SetHeap(ends, Beside(at, n, "head"))
           /\ size' = size + 1
     /\ Describes(IF i <= Len(contents) THEN SE!InsertAt(contents, i + 1, n) ELSE << >>,
                  size = 0 \/ (i > 0 /\ FindsRight(i)))

\* remove never moves an end.
Remove(i) ==
  /\ GetNode(i) # Nil /\ Usable
  /\ SetHeap(ends, Unlink(GetNode(i)))
  /\ size' = size - 1
  /\ Describes(IF i < Len(contents) THEN SE!RemoveAt(contents, i + 1) ELSE << >>,
               i > 0 /\ i < size - 1 /\ FindsRight(i))

Next == \/ \E e \in Ends : Push(e) \/ Take(e)
        \/ \E i \in 0 .. MaxNodes : Insert(i) \/ Remove(i)

Spec == NewLinkedList /\ [][Next]_vars

-----------------------------------------------------------------------------
\* Types.
TypeOK ==
  /\ ends \in [Ends -> Nodes \cup {Nil}]
  /\ link \in [Ends -> [Nodes -> Nodes \cup {Nil}]]
  /\ size \in Int /\ contents \in Seq(Nodes) /\ intact \in BOOLEAN

\* While no call was one of those the code gets wrong (Insert before or Remove of
\* an end, Pop or Poll of the only element, an index past the middle), the links
\* in both directions, both ends, the size and getNode are those of the sequence
\* that the calls describe.
IsSequence ==
  intact =>
    /\ size = Len(contents)
    /\ Chain("head") = contents /\ Chain("tail") = SE!Reverse(contents)
    /\ \A e \in Ends : Walk(ends[e], Opp(e), size) = Nil
    /\ \A i \in 0 .. size - 1 : FindsRight(i) => GetNode(i) = contents[i + 1]

\* ForEach ends, whatever was called.
NoCycle == Walk(ends["head"], "tail", MaxNodes) = Nil
===============================================================================
