------------------------------ MODULE RouteTable ------------------------------
(***************************************************************************)
(* What a user of the URI trie relies on: a table of patterns and their    *)
(* values, and what it means that a path is an instance of a pattern.      *)
(*                                                                         *)
(* A pattern is a sequence of tokens <<"C", s>> (the slash or a literal    *)
(* segment), <<"P", name>> (a parameter) and <<"W", name>> (a wildcard).    *)
(* A path is a sequence of slashes and segments.                           *)
(***************************************************************************)
EXTENDS Naturals, Sequences

CONSTANTS Patterns, Values, None

VARIABLES table, size    \* pattern -> value or None; what Size returns

Slash == "/"

\* A parameter or a wildcard stands for one segment.
IsInstance(path, p) ==
  /\ Len(path) = Len(p)
  /\ \A i \in 1 .. Len(p) : IF p[i][1] = "C" THEN p[i][2] = path[i] ELSE path[i] # Slash

Init == table = [p \in Patterns |-> None] /\ size = 0

\* An Add may be refused; a new pattern counts, a replaced one does not.
Add(p, v) == /\ table' = [table EXCEPT ![p] = v]
             /\ size' = IF table[p] = None THEN size + 1 ELSE size

Remove(p) == /\ table[p] # None
             /\ table' = [table EXCEPT ![p] = None]
             /\ size' = size - 1

RemoveAll == table' = [p \in Patterns |-> None] /\ size' = 0

Next == \/ \E p \in Patterns, v \in Values : Add(p, v)
        \/ \E p \in Patterns : Remove(p)
        \/ RemoveAll

Spec == Init /\ [][Next]_<<table, size>>
===============================================================================
