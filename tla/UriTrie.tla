------------------------------- MODULE UriTrie -------------------------------
(***************************************************************************)
(* uri_trie/trie_tree.go: a trie of URI patterns.  Every call is one       *)
(* critical section.  A node is the sequence of the edges that lead to it  *)
(* (tokens, as in RouteTable), and the trie maps its nodes to their        *)
(* values.  The map of path parameters is left out: they are the segments  *)
(* at the positions of the node's P and W tokens.                          *)
(***************************************************************************)
EXTENDS Naturals, Sequences

SE == INSTANCE SequencesExt

CONSTANTS
  Patterns,   \* what Add and Remove are called with, without the trailing slash
  Paths,      \* what Match is called with, without the query
  Values, None

VARIABLES
  trie,     \* node -> its value or None
  size,
  refused   \* history: the patterns that Add gave up half-way, since RemoveAll

vars == <<trie, size, refused>>

Table == INSTANCE RouteTable WITH table <- [p \in Patterns |-> IF p \in DOMAIN trie THEN trie[p] ELSE None]

RootNode == << >>
Slash    == Table!Slash
Gone     == << <<"nil", "nil">> >>

Init == trie = [n \in {RootNode} |-> None] /\ size = 0 /\ refused = {}

HasChild(n, token) == Append(n, token) \in DOMAIN trie
ChildNames(n, t)   == {m[Len(m)][2] : m \in {x \in DOMAIN trie \ {RootNode} :
                                               SE!Front(x) = n /\ SE!Last(x)[1] = t}}

-----------------------------------------------------------------------------
(* Add *)

\* addParam, addWildcard and the check of repeated names refuse token i of p.
Refuses(p, i) ==
  LET n == SubSeq(p, 1, i - 1)  name == p[i][2] IN
  \/ /\ p[i][1] = "P"
     /\ \/ \E j \in 1 .. i - 1 : p[j] = p[i]
        \/ ChildNames(n, "W") # {}
        \/ ChildNames(n, "P") \ {name} # {}
  \/ /\ p[i][1] = "W"
     /\ ChildNames(n, "W") \ {name} # {} \/ ChildNames(n, "P") # {}

\* The nodes that addPath walks and makes, up to the token that is refused.
Walked(p) == {SubSeq(p, 1, i) : i \in {k \in 0 .. Len(p) : \A j \in 1 .. k : ~Refuses(p, j)}}

Grown(nodes) == [n \in DOMAIN trie \cup nodes |-> IF n \in DOMAIN trie THEN trie[n] ELSE None]

Add(p, v, override) ==
  /\ IF p \in DOMAIN trie THEN trie[p] = None \/ override ELSE p \in Walked(p)
  /\ LET grown == Grown(Walked(p)) IN
     /\ trie' = [grown EXCEPT ![p] = v]
     /\ size' = IF grown[p] = None THEN size + 1 ELSE size
  /\ UNCHANGED refused

\* An Add that is refused leaves the nodes it has made.
AddRefused(p) ==
  /\ p \notin Walked(p)
  /\ trie' = Grown(Walked(p))
  /\ refused' = refused \cup {p}
  /\ UNCHANGED size

-----------------------------------------------------------------------------
(* Remove, RemoveAll *)

\* Mutant: the values on the way up are not looked at.
PrunedValues(p) ==
  {n \in DOMAIN trie \ {RootNode} :
     SE!IsPrefix(n, p) /\ \A m \in DOMAIN trie : SE!IsPrefix(n, m) => SE!IsPrefix(m, p)}

\* Mutant: the other children are not looked at.
PrunedChildren(p) == {n \in DOMAIN trie \ {RootNode} : SE!IsPrefix(n, p) /\ (n = p \/ trie[n] = None)}

\* removeFromParent: from p upwards, what has neither a value nor another child.
Pruned(p) ==
  {n \in DOMAIN trie \ {RootNode} :
     /\ SE!IsPrefix(n, p)
     /\ \A m \in DOMAIN trie : SE!IsPrefix(n, m) =>
          SE!IsPrefix(m, p) /\ (m = p \/ trie[m] = None)}

\* The node itself stays when it has children.
Remove(p) ==
  /\ p \in DOMAIN trie /\ trie[p] # None
  /\ trie' = [n \in DOMAIN trie \ Pruned(p) |-> IF n = p THEN None ELSE trie[n]]
  /\ size' = size - 1
  /\ UNCHANGED refused

RemoveAll == trie' = [n \in {RootNode} |-> None] /\ size' = 0 /\ refused' = {}

-----------------------------------------------------------------------------
(* Match, SupportsUri *)

\* Mutant: the parameter is preferred to a literal child.
StepToParam(n, s) ==
  LET ps == IF n = Gone \/ s = Slash THEN {} ELSE {Append(n, <<"P", x>>) : x \in ChildNames(n, "P")}
  IN  IF ps # {} THEN CHOOSE m \in ps : TRUE
      ELSE IF n # Gone /\ HasChild(n, <<"C", s>>) THEN Append(n, <<"C", s>>) ELSE Gone

\* One token of a path: a literal child, or else the wildcard or the parameter; a
\* segment that has none of them leaves the walk where it is.
StepTo(n, s) ==
  CASE n = Gone -> Gone
    [] n # Gone /\ HasChild(n, <<"C", s>>) -> Append(n, <<"C", s>>)
    [] n # Gone /\ ~HasChild(n, <<"C", s>>) /\ s = Slash -> Gone
    [] n # Gone /\ ~HasChild(n, <<"C", s>>) /\ s # Slash ->
         LET ws == {Append(n, <<"W", x>>) : x \in ChildNames(n, "W")}
             ps == {Append(n, <<"P", x>>) : x \in ChildNames(n, "P")}
         IN  IF ws # {} THEN CHOOSE m \in ws : TRUE
             ELSE IF ps # {} THEN CHOOSE m \in ps : TRUE ELSE n

Walk(path) ==
  LET f[i \in 0 .. Len(path)] == IF i = 0 THEN RootNode ELSE StepTo(f[i - 1], path[i])
  IN  f[Len(path)]

\* One trailing slash is dropped, unless a query hides it.
Trim(path, query) ==
  IF query = "none" /\ path # << >> /\ SE!Last(path) = Slash THEN SE!Front(path) ELSE path

\* The empty string and a query that does not parse are refused.
Accepted(path, query) == query # "wrong" /\ ~(query = "none" /\ path = << >>)

\* The pattern whose value is the answer.
Match(path, query) ==
  LET n == Walk(Trim(path, query)) IN
  IF ~Accepted(path, query) \/ n = Gone THEN Gone ELSE IF trie[n] = None THEN Gone ELSE n

SupportsUri(path, query) ==
  LET n == Walk(Trim(path, query)) IN Accepted(path, query) /\ n # Gone /\ trie[n] # None

Next ==
  \/ \E p \in Patterns, v \in Values, override \in BOOLEAN : Add(p, v, override)
  \/ \E p \in Patterns : AddRefused(p) \/ Remove(p)
  \/ RemoveAll

Spec == Init /\ [][Next]_vars

-----------------------------------------------------------------------------
\* Types, and the nodes are a tree.
TypeOK ==
  /\ \A n \in DOMAIN trie : /\ n = RootNode \/ SE!Front(n) \in DOMAIN trie
                            /\ trie[n] \in Values \cup {None}
  /\ size \in Nat /\ refused \subseteq Patterns

\* A literal child that the walk prefers to token i of p.
Shadowed(p, path, i) == p[i][1] # "C" /\ HasChild(SubSeq(p, 1, i - 1), <<"C", path[i]>>)

\* A path gets the value of a registered pattern that it is an instance of, and it gets
\* the one of each such pattern that no literal segment hides, with and without a
\* trailing slash; SupportsUri agrees; and literals hide a pattern only where another
\* registered or refused pattern passes.
MatchIsRight ==
  /\ \A path \in Paths :
       LET got == Match(Append(path, Slash), "none") IN
       /\ got # Gone => Table!IsInstance(path, got) /\ trie[got] # None
       /\ \A p \in Patterns \cap DOMAIN trie :
            trie[p] # None /\ Table!IsInstance(path, p)
              /\ (\A i \in 1 .. Len(p) : ~Shadowed(p, path, i)) => got = p
       /\ (path # << >> => Match(path, "none") = got) /\ Match(path, "good") = got
       /\ SupportsUri(Append(path, Slash), "none") <=> got # Gone
  /\ \A n \in DOMAIN trie \ {RootNode} :
       \E p \in Patterns : /\ SE!IsPrefix(n, p)
                           /\ p \in refused \/ (p \in DOMAIN trie /\ trie[p] # None)

\* Adding, replacing and removing a pattern changes the value of that pattern only.
ImplementsTable == Table!Spec
===============================================================================
