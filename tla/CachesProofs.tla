----------------------------- MODULE CachesProofs -----------------------------
(***************************************************************************)
(* Theorems about the caches of CachesMC: their data structures agree,     *)
(* their Sets push out the right key, and both are a Cache.  The lemmas    *)
(* about the heap of LfuCache, whose loops keep every key's place and the  *)
(* order of the use counts, come first.                                    *)
(***************************************************************************)
EXTENDS StructuresMC, FiniteSetTheorems, WellFoundedInduction, TLAPS

-----------------------------------------------------------------------------
(* Sequences without repetition *)

Distinct(s) == \A i, j \in DOMAIN s : s[i] = s[j] => i = j

\* x comes before y in the sequence s.
Before(x, y, s) == \E i, j \in DOMAIN s : i < j /\ s[i] = x /\ s[j] = y

LEMMA LenDomain ==
  ASSUME NEW T, NEW s \in Seq(T)
  PROVE  Len(s) \in Nat /\ DOMAIN s = 1 .. Len(s) /\ \A i \in DOMAIN s : s[i] \in T
OBVIOUS

\* As many elements as places.
LEMMA CountOf ==
  ASSUME NEW T, NEW s \in Seq(T), Distinct(s)
  PROVE  IsFiniteSet(ToSet(s)) /\ Cardinality(ToSet(s)) = Len(s)
<1>1. Len(s) \in Nat /\ DOMAIN s = 1 .. Len(s)
  OBVIOUS
<1> DEFINE f == [i \in 1 .. Len(s) |-> s[i]]
<1>2. f \in [1 .. Len(s) -> ToSet(s)]
  BY <1>1 DEF ToSet
<1>3. \A i, j \in 1 .. Len(s) : f[i] = f[j] => i = j
  BY <1>1 DEF Distinct
<1>4. \A x \in ToSet(s) : \E i \in 1 .. Len(s) : f[i] = x
  BY <1>1 DEF ToSet
<1>5. ExistsBijection(1 .. Len(s), ToSet(s))
  <2>1. f \in Bijection(1 .. Len(s), ToSet(s))
    BY <1>2, <1>3, <1>4 DEF Bijection, Injection, Surjection, IsInjective
  <2> QED
    BY <2>1 DEF ExistsBijection
<1> QED
  BY <1>1, <1>5, FS_CountingElements, FS_NatBijection

LEMMA Joined ==
  ASSUME NEW T, NEW a \in Seq(T), NEW b \in Seq(T)
  PROVE  /\ a \o b \in Seq(T) /\ Len(a \o b) = Len(a) + Len(b)
         /\ DOMAIN (a \o b) = 1 .. Len(a) + Len(b)
         /\ \A i \in 1 .. Len(a) + Len(b) :
              (a \o b)[i] = IF i <= Len(a) THEN a[i] ELSE b[i - Len(a)]
OBVIOUS

\* RemoveFirst closes the gap.
LEMMA FirstRemoved ==
  ASSUME NEW T, NEW s \in Seq(T), NEW k, NEW p \in DOMAIN s, s[p] = k, Distinct(s)
  PROVE  /\ RemoveFirst(s, k) \in Seq(T) /\ Len(RemoveFirst(s, k)) = Len(s) - 1
         /\ DOMAIN RemoveFirst(s, k) = 1 .. Len(s) - 1
         /\ \A i \in 1 .. Len(s) - 1 : RemoveFirst(s, k)[i] = s[IF i < p THEN i ELSE i + 1]
<1> PICK n \in Nat : n = Len(s) /\ DOMAIN s = 1 .. n /\ p \in 1 .. n
  OBVIOUS
<1>1. SelectInSeq(s, LAMBDA v : v = k) = p
  <2> DEFINE I == {i \in 1 .. Len(s) : s[i] = k}
  <2>1. I = {p}
    BY DEF Distinct
  <2>2. Min(I) = p
    BY <2>1 DEF Min
  <2> QED
    BY <2>1, <2>2 DEF SelectInSeq
<1>2. RemoveFirst(s, k) = SubSeq(s, 1, p - 1) \o SubSeq(s, p + 1, n)
  <2>1. \E i \in 1 .. Len(s) : s[i] = k
    OBVIOUS
  <2> QED
    BY <1>1, <2>1 DEF RemoveFirst, RemoveAt
<1> PICK a : a = SubSeq(s, 1, p - 1)
  OBVIOUS
<1> PICK b : b = SubSeq(s, p + 1, n)
  OBVIOUS
<1>3. a \in Seq(T) /\ Len(a) = p - 1 /\ \A i \in 1 .. p - 1 : a[i] = s[i]
  OBVIOUS
<1>4. b \in Seq(T) /\ Len(b) = n - p /\ \A i \in 1 .. n - p : b[i] = s[p + i]
  OBVIOUS
<1>5. /\ a \o b \in Seq(T) /\ Len(a \o b) = n - 1 /\ DOMAIN (a \o b) = 1 .. n - 1
      /\ \A i \in 1 .. n - 1 : (a \o b)[i] = IF i <= p - 1 THEN a[i] ELSE b[i - (p - 1)]
  <2>1. \A x, y \in Int : (x - 1) + (y - x) = y - 1
    OBVIOUS
  <2>2. n \in Int /\ p \in Int
    OBVIOUS
  <2>3. Len(a) + Len(b) = n - 1
    BY <1>3, <1>4, <2>1, <2>2
  <2>4. a \in Seq(T) /\ b \in Seq(T)
    BY <1>3, <1>4
  <2>5. /\ a \o b \in Seq(T) /\ Len(a \o b) = Len(a) + Len(b)
        /\ DOMAIN (a \o b) = 1 .. Len(a) + Len(b)
        /\ \A i \in 1 .. Len(a) + Len(b) :
             (a \o b)[i] = IF i <= Len(a) THEN a[i] ELSE b[i - Len(a)]
    BY <2>4, Joined
  <2> PICK la : la = Len(a)
    OBVIOUS
  <2> PICK lb : lb = Len(b)
    OBVIOUS
  <2>6. la = p - 1 /\ la + lb = n - 1
    BY <1>3, <2>3
  <2> QED
    BY <2>5, <2>6
<1>6. ASSUME NEW i \in 1 .. n - 1 PROVE (a \o b)[i] = s[IF i < p THEN i ELSE i + 1]
  <2>1. CASE i < p
    BY <1>3, <1>5, <2>1
  <2>2. CASE ~(i < p)
    <3>1. i - (p - 1) \in 1 .. n - p /\ p + (i - (p - 1)) = i + 1 /\ ~(i <= p - 1)
      BY <2>2
    <3> QED
      BY <1>4, <1>5, <2>2, <3>1
  <2> QED
    BY <2>1, <2>2
<1> QED
  BY <1>2, <1>5, <1>6

\* What removing and adding an element does to the elements and to their order.
LEMMA Removing ==
  ASSUME NEW T, NEW s \in Seq(T), Distinct(s), NEW k
  PROVE  /\ RemoveFirst(s, k) \in Seq(T) /\ Distinct(RemoveFirst(s, k))
         /\ ToSet(RemoveFirst(s, k)) = ToSet(s) \ {k}
         /\ \A x, y : Before(x, y, RemoveFirst(s, k)) <=> x # k /\ y # k /\ Before(x, y, s)
         /\ Len(RemoveFirst(s, k)) <= Len(s)
<1>1. CASE k \notin ToSet(s)
  <2>1. RemoveFirst(s, k) = s
    BY <1>1 DEF RemoveFirst, ToSet
  <2>2. \A x, y : Before(x, y, s) => x # k /\ y # k
    BY <1>1 DEF Before, ToSet
  <2> QED
    BY <1>1, <2>1, <2>2
<1>2. CASE k \in ToSet(s)
  <2> PICK p \in DOMAIN s : s[p] = k
    BY <1>2 DEF ToSet
  <2> PICK t : t = RemoveFirst(s, k)
    OBVIOUS
  <2> PICK n \in Nat : n = Len(s) /\ DOMAIN s = 1 .. n /\ p \in 1 .. n
    OBVIOUS
  <2> DEFINE at(i) == IF i < p THEN i ELSE i + 1
             back(i) == IF i < p THEN i ELSE i - 1
  <2>1. /\ t \in Seq(T) /\ Len(t) = n - 1 /\ DOMAIN t = 1 .. n - 1
        /\ \A i \in 1 .. n - 1 : t[i] = s[at(i)]
    BY FirstRemoved
  <2>2. \A i \in 1 .. n - 1 : at(i) \in 1 .. n /\ at(i) # p
    OBVIOUS
  <2>3. \A i, j \in 1 .. n - 1 : i < j <=> at(i) < at(j)
    OBVIOUS
  <2>4. \A i \in 1 .. n : i # p => back(i) \in 1 .. n - 1 /\ at(back(i)) = i
    OBVIOUS
  <2>5. \A i, j \in 1 .. n - 1 : at(i) = at(j) => i = j
    OBVIOUS
  <2>6. \A i \in 1 .. n : s[i] = k <=> i = p
    BY DEF Distinct
  <2> HIDE DEF at, back
  <2>7. Distinct(t)
    BY <2>1, <2>2, <2>5 DEF Distinct
  <2>8. ToSet(t) = ToSet(s) \ {k}
    <3>1. ToSet(t) = {s[at(i)] : i \in 1 .. n - 1}
      BY <2>1 DEF ToSet
    <3>2. ToSet(s) = {s[i] : i \in 1 .. n}
      BY DEF ToSet
    <3> QED
      BY <2>2, <2>4, <2>6, <3>1, <3>2, Zenon
  <2>9. ASSUME NEW x, NEW y PROVE Before(x, y, t) <=> x # k /\ y # k /\ Before(x, y, s)
    <3>1. ASSUME Before(x, y, t) PROVE x # k /\ y # k /\ Before(x, y, s)
      <4>1. PICK i \in 1 .. n - 1, j \in 1 .. n - 1 : i < j /\ t[i] = x /\ t[j] = y
        BY <2>1, <3>1 DEF Before
      <4> QED
        BY <2>1, <2>2, <2>3, <2>6, <4>1 DEF Before
    <3>2. ASSUME x # k, y # k, Before(x, y, s) PROVE Before(x, y, t)
      <4>1. PICK i \in 1 .. n, j \in 1 .. n : i < j /\ s[i] = x /\ s[j] = y
        BY <3>2 DEF Before
      <4>2. i # p /\ j # p
        BY <3>2, <4>1
      <4>3. t[back(i)] = x /\ t[back(j)] = y
        BY <2>1, <2>4, <4>1, <4>2
      <4>4. back(i) < back(j) /\ back(i) \in DOMAIN t /\ back(j) \in DOMAIN t
        BY <2>1, <2>3, <2>4, <4>1, <4>2
      <4> QED
        BY <4>3, <4>4 DEF Before
    <3> QED
      BY <3>1, <3>2
  <2> QED
    BY <2>1, <2>7, <2>8, <2>9
<1> QED
  BY <1>1, <1>2

\* A new first element comes before all others.
LEMMA Fronted ==
  ASSUME NEW T, NEW s \in Seq(T), Distinct(s), NEW k \in T, k \notin ToSet(s)
  PROVE  /\ <<k>> \o s \in Seq(T) /\ Distinct(<<k>> \o s) /\ Len(<<k>> \o s) = Len(s) + 1
         /\ ToSet(<<k>> \o s) = ToSet(s) \cup {k}
         /\ \A x, y : Before(x, y, <<k>> \o s) <=> (x = k /\ y \in ToSet(s)) \/ Before(x, y, s)
<1> PICK t : t = <<k>> \o s
  OBVIOUS
<1> PICK n \in Nat : n = Len(s) /\ DOMAIN s = 1 .. n
  OBVIOUS
<1>1. /\ t \in Seq(T) /\ Len(t) = n + 1 /\ DOMAIN t = 1 .. n + 1 /\ t[1] = k
      /\ \A i \in 1 .. n : t[i + 1] = s[i]
  OBVIOUS
<1>2. \A i \in 1 .. n + 1 : i = 1 \/ (i - 1 \in 1 .. n /\ (i - 1) + 1 = i)
  OBVIOUS
<1>3. \A i \in 1 .. n + 1 : t[i] = IF i = 1 THEN k ELSE s[i - 1]
  BY <1>1, <1>2
<1>4. \A i \in 1 .. n : s[i] # k
  BY DEF ToSet
<1>5. Distinct(t)
  <2> SUFFICES ASSUME NEW i \in 1 .. n + 1, NEW j \in 1 .. n + 1, t[i] = t[j] PROVE i = j
    BY <1>1 DEF Distinct
  <2>1. CASE i = 1 \/ j = 1
    BY <1>2, <1>3, <1>4, <2>1
  <2>2. CASE i # 1 /\ j # 1
    <3>1. i - 1 \in DOMAIN s /\ j - 1 \in DOMAIN s /\ s[i - 1] = s[j - 1]
      BY <1>2, <1>3, <2>2
    <3>2. i - 1 = j - 1
      BY <3>1 DEF Distinct
    <3> QED
      BY <3>2
  <2> QED
    BY <2>1, <2>2
<1>6. ToSet(t) = ToSet(s) \cup {k}
  <2>1. ToSet(t) = {t[i] : i \in 1 .. n + 1} /\ ToSet(s) = {s[i] : i \in 1 .. n}
    BY <1>1 DEF ToSet
  <2>2. \A i \in 1 .. n : i + 1 \in 1 .. n + 1 /\ t[i + 1] = s[i]
    BY <1>1
  <2>3. 1 \in 1 .. n + 1
    OBVIOUS
  <2>4. \A i \in 1 .. n + 1 : t[i] \in ToSet(s) \cup {k}
    BY <1>2, <1>3, <2>1
  <2>5. \A x \in ToSet(s) \cup {k} : \E i \in 1 .. n + 1 : t[i] = x
    BY <1>1, <2>1, <2>2, <2>3
  <2>6. \A x : x \in ToSet(t) <=> \E i \in 1 .. n + 1 : t[i] = x
    BY <2>1
  <2> QED
    BY <2>4, <2>5, <2>6, Zenon
<1>7. ASSUME NEW x, NEW y PROVE Before(x, y, t) <=> (x = k /\ y \in ToSet(s)) \/ Before(x, y, s)
  <2>1. ASSUME Before(x, y, t) PROVE (x = k /\ y \in ToSet(s)) \/ Before(x, y, s)
    <3>1. PICK i \in 1 .. n + 1, j \in 1 .. n + 1 : i < j /\ t[i] = x /\ t[j] = y
      BY <1>1, <2>1 DEF Before
    <3>2. j # 1 /\ j - 1 \in 1 .. n /\ y = s[j - 1]
      BY <1>2, <1>3, <3>1
    <3>3. CASE i = 1
      BY <1>1, <3>1, <3>2, <3>3 DEF ToSet
    <3>4. CASE i # 1
      <4>1. i - 1 \in 1 .. n /\ x = s[i - 1] /\ i - 1 < j - 1
        BY <1>2, <1>3, <3>1, <3>4
      <4> QED
        BY <3>2, <4>1 DEF Before
    <3> QED
      BY <3>3, <3>4
  <2>2. ASSUME x = k, y \in ToSet(s) PROVE Before(x, y, t)
    <3>1. PICK j \in 1 .. n : s[j] = y
      BY <2>2 DEF ToSet
    <3>2. 1 < j + 1 /\ 1 \in 1 .. n + 1 /\ j + 1 \in 1 .. n + 1 /\ t[j + 1] = y
      BY <1>1, <3>1
    <3> QED
      BY <1>1, <2>2, <3>2 DEF Before
  <2>3. ASSUME Before(x, y, s) PROVE Before(x, y, t)
    <3>1. PICK i \in 1 .. n, j \in 1 .. n : i < j /\ s[i] = x /\ s[j] = y
      BY <2>3 DEF Before
    <3>2. i + 1 < j + 1 /\ i + 1 \in 1 .. n + 1 /\ j + 1 \in 1 .. n + 1
      BY <3>1
    <3> QED
      BY <1>1, <3>1, <3>2 DEF Before
  <2> QED
    BY <2>1, <2>2, <2>3
<1> QED
  BY <1>1, <1>5, <1>6, <1>7

\* Without its last element.
LEMMA Shortened ==
  ASSUME NEW T, NEW s \in Seq(T), Distinct(s), s # << >>
  PROVE  /\ Front(s) \in Seq(T) /\ Distinct(Front(s)) /\ Len(Front(s)) = Len(s) - 1
         /\ Last(s) \in ToSet(s) /\ ToSet(Front(s)) = ToSet(s) \ {Last(s)}
         /\ \A x, y : Before(x, y, Front(s)) => Before(x, y, s)
         /\ \A x \in ToSet(Front(s)) : Before(x, Last(s), s)
<1> PICK t : t = Front(s)
  OBVIOUS
<1> PICK n \in Nat : n = Len(s) /\ DOMAIN s = 1 .. n /\ n > 0
  OBVIOUS
<1>1. t \in Seq(T) /\ Len(t) = n - 1 /\ DOMAIN t = 1 .. n - 1 /\ \A i \in 1 .. n - 1 : t[i] = s[i]
  BY DEF Front
<1>2. n \in 1 .. n /\ \A i \in 1 .. n : i \in 1 .. n - 1 <=> i # n
  OBVIOUS
<1>3. \A i \in 1 .. n - 1 : i \in 1 .. n /\ i < n
  OBVIOUS
<1>4. Last(s) = s[n]
  BY DEF Last
<1>5. Distinct(t)
  BY <1>1, <1>3 DEF Distinct
<1>6. ToSet(t) = ToSet(s) \ {s[n]} /\ s[n] \in ToSet(s)
  <2>1. ToSet(t) = {s[i] : i \in 1 .. n - 1} /\ ToSet(s) = {s[i] : i \in 1 .. n}
    BY <1>1 DEF ToSet
  <2>2. \A i \in 1 .. n : s[i] = s[n] => i = n
    BY <1>2 DEF Distinct
  <2> QED
    BY <1>2, <1>3, <2>1, <2>2
<1>7. \A x, y : Before(x, y, t) => Before(x, y, s)
  BY <1>1, <1>3 DEF Before
<1>8. ASSUME NEW x \in ToSet(t) PROVE Before(x, s[n], s)
  <2>1. PICK i \in 1 .. n - 1 : t[i] = x
    BY <1>1 DEF ToSet
  <2> QED
    BY <1>1, <1>2, <1>3, <2>1 DEF Before
<1> QED
  BY <1>1, <1>4, <1>5, <1>6, <1>7, <1>8

LEMMA Moved ==
  ASSUME NEW T, NEW s \in Seq(T), Distinct(s), NEW k \in T
  PROVE  /\ ToFront(s, k) \in Seq(T) /\ Distinct(ToFront(s, k))
         /\ ToSet(ToFront(s, k)) = ToSet(s) \cup {k}
         /\ \A x, y : Before(x, y, ToFront(s, k)) <=>
              (x = k /\ y \in ToSet(s) \ {k}) \/ (x # k /\ y # k /\ Before(x, y, s))
         /\ k \in ToSet(s) => Len(ToFront(s, k)) = Len(s)
<1> PICK t : t = RemoveFirst(s, k)
  OBVIOUS
<1>1. /\ t \in Seq(T) /\ Distinct(t) /\ ToSet(t) = ToSet(s) \ {k}
      /\ \A x, y : Before(x, y, t) <=> x # k /\ y # k /\ Before(x, y, s)
  BY Removing
<1>2. /\ <<k>> \o t \in Seq(T) /\ Distinct(<<k>> \o t) /\ ToSet(<<k>> \o t) = ToSet(t) \cup {k}
      /\ \A x, y : Before(x, y, <<k>> \o t) <=> (x = k /\ y \in ToSet(t)) \/ Before(x, y, t)
  BY <1>1, Fronted
<1>3. ToFront(s, k) = <<k>> \o t
  BY DEF ToFront
<1>4. ToSet(<<k>> \o t) = ToSet(s) \cup {k}
  BY <1>1, <1>2
<1>5. k \in ToSet(s) => Len(<<k>> \o t) = Len(s)
  <2>1. Len(<<k>> \o t) = Cardinality(ToSet(<<k>> \o t)) /\ Len(s) = Cardinality(ToSet(s))
    BY <1>2, CountOf
  <2>2. k \in ToSet(s) => ToSet(<<k>> \o t) = ToSet(s)
    BY <1>4
  <2> QED
    BY <2>1, <2>2
<1>6. \A x, y : Before(x, y, <<k>> \o t) <=>
        (x = k /\ y \in ToSet(s) \ {k}) \/ (x # k /\ y # k /\ Before(x, y, s))
  BY <1>1, <1>2
<1> QED
  BY <1>2, <1>3, <1>4, <1>5, <1>6

-----------------------------------------------------------------------------
(* Arrays of weights in which i has the parent i \div 2 *)

\* A set of numbers has a least one.
LEMMA LeastNumber ==
  ASSUME NEW T \in SUBSET Nat, T # {}
  PROVE  \E x \in T : \A y \in T : x <= y
<1>1. PICK x \in T : \A y \in T : ~ (<<y, x>> \in OpToRel(<,Nat))
  BY NatLessThanWellFounded, WFMin
<1>2. ASSUME NEW y \in T PROVE ~(y < x)
  <2>1. y < x => <<y,x>> \in OpToRel(<,Nat)
    BY DEF OpToRel
  <2> QED
    BY <1>1, <2>1, Zenon
<1> QED
  BY <1>2

\* A parent and its children in an array of weights.
LEMMA Halves ==
  \A i \in Nat : /\ i > 1 => i \div 2 \in 1 .. i - 1
                 /\ (2 * i) \div 2 = i /\ (2 * i + 1) \div 2 = i
                 /\ i \div 2 \in Nat
                 /\ i = 2 * (i \div 2) \/ i = 2 * (i \div 2) + 1
OBVIOUS

Parent(c) == c \div 2

LEMMA Parents ==
  ASSUME NEW n \in Nat, NEW c \in 2 .. n
  PROVE  Parent(c) \in 1 .. n /\ Parent(c) < c /\ Parent(c) # c
<1>1. c \in Nat /\ c > 1 /\ c \div 2 \in 1 .. c - 1
  BY Halves
<1> PICK d : d = c \div 2
  OBVIOUS
<1>2. d \in 1 .. c - 1 /\ d = Parent(c)
  BY <1>1 DEF Parent
<1> QED
  BY <1>2

InOrder(w, c) == w[Parent(c)] <= w[c]
Ordered(w, n) == \A c \in 2 .. n : InOrder(w, c)

\* In order but for the place p, whose own order with its parent and children is open.
OrderedBut(w, n, p) ==
  /\ \A c \in 2 .. n : c # p /\ Parent(c) # p => InOrder(w, c)
  /\ \A c \in 2 .. n : p > 1 /\ Parent(c) = p => w[Parent(p)] <= w[c]

Swapped(w, p, q) == [w EXCEPT ![p] = w[q], ![q] = w[p]]

\* What is lighter than its parent moves up.
LEMMA RiseWeights ==
  ASSUME NEW n \in Nat, NEW w \in [1 .. n -> Nat], NEW p \in 2 .. n,
         OrderedBut(w, n, p), \A c \in 2 .. n : Parent(c) = p => InOrder(w, c),
         w[p] < w[Parent(p)], NEW v, v = Swapped(w, Parent(p), p)
  PROVE  /\ OrderedBut(v, n, Parent(p))
         /\ \A c \in 2 .. n : Parent(c) = Parent(p) => InOrder(v, c)
<1>0. Parent(p) \in 1 .. n /\ Parent(p) < p
  BY Parents
<1> PICK q \in 1 .. n : q = Parent(p) /\ q < p
  BY <1>0
<1>1. /\ v[q] = w[p] /\ v[p] = w[q] /\ p # q
      /\ \A i \in 1 .. n : i # p /\ i # q => v[i] = w[i]
  BY DEF Swapped
<1>2. \A c \in 2 .. n : Parent(c) \in 1 .. n /\ Parent(c) # c /\ c \in 1 .. n
  BY Parents
<1>3. \A i \in 1 .. n : w[i] \in Nat
  OBVIOUS
<1>4. w[p] < w[q]
  OBVIOUS
<1>5. \A a, b, c \in Nat : (a <= b /\ b <= c => a <= c) /\ (a < b /\ b <= c => a <= c) /\ (a < b => a <= b)
  OBVIOUS
<1>6. ASSUME NEW c \in 2 .. n, c # q, Parent(c) # q PROVE InOrder(v, c)
  <2>1. c # p
    BY <1>6
  <2>2. CASE Parent(c) = p
    BY <1>1, <1>2, <1>6, <2>1, <2>2 DEF OrderedBut, InOrder
  <2>3. CASE Parent(c) # p
    BY <1>1, <1>2, <1>6, <2>1, <2>3 DEF OrderedBut, InOrder
  <2> QED
    BY <2>2, <2>3
<1>7. ASSUME NEW c \in 2 .. n, Parent(c) = q PROVE InOrder(v, c)
  <2>1. CASE c = p
    BY <1>1, <1>3, <1>4, <1>5, <1>7, <2>1 DEF InOrder
  <2>2. CASE c # p
    <3>1. w[q] <= w[c] /\ c # q
      BY <1>2, <1>7, <2>2 DEF OrderedBut, InOrder
    <3> QED
      BY <1>1, <1>2, <1>3, <1>4, <1>5, <1>7, <2>2, <3>1 DEF InOrder
  <2> QED
    BY <2>1, <2>2
<1>8. ASSUME NEW c \in 2 .. n, q > 1, Parent(c) = q PROVE v[Parent(q)] <= v[c]
  <2>1. Parent(q) \in 1 .. n /\ Parent(q) # q /\ Parent(q) # p /\ q \in 2 .. n
    <3>1. q \in 2 .. n
      BY <1>8
    <3>2. Parent(q) \in 1 .. n /\ Parent(q) < q
      BY <3>1, Parents
    <3> QED
      BY <3>1, <3>2
  <2>2. w[Parent(q)] <= w[q]
    BY <2>1 DEF OrderedBut, InOrder
  <2>3. CASE c = p
    BY <1>1, <2>1, <2>2, <2>3
  <2>4. CASE c # p
    <3>1. w[q] <= w[c] /\ c # q
      BY <1>2, <1>8, <2>4 DEF OrderedBut, InOrder
    <3> QED
      BY <1>1, <1>2, <1>3, <1>5, <2>1, <2>2, <2>4, <3>1
  <2> QED
    BY <2>3, <2>4
<1> QED
  BY <1>6, <1>7, <1>8 DEF OrderedBut

\* What is heavier than its lighter child m moves down.
LEMMA SinkWeights ==
  ASSUME NEW n \in Nat, NEW w \in [1 .. n -> Nat], NEW p \in 1 .. n, NEW m \in 2 .. n,
         OrderedBut(w, n, p), Parent(m) = p,
         \A c \in 2 .. n : Parent(c) = p => w[m] <= w[c],
         w[m] < w[p], NEW v, v = Swapped(w, p, m)
  PROVE  OrderedBut(v, n, m) /\ InOrder(v, m)
<1>1. /\ v[m] = w[p] /\ v[p] = w[m] /\ p # m /\ m \in 1 .. n
      /\ \A i \in 1 .. n : i # p /\ i # m => v[i] = w[i]
  <2>1. p # m
    BY Parents
  <2> QED
    BY <2>1 DEF Swapped
<1>2. \A c \in 2 .. n : Parent(c) \in 1 .. n /\ Parent(c) # c /\ c \in 1 .. n
  BY Parents
<1>3. \A i \in 1 .. n : w[i] \in Nat
  OBVIOUS
<1>4. \A a, b \in Nat : a < b => a <= b
  OBVIOUS
<1>5. InOrder(v, m)
  BY <1>1, <1>3, <1>4 DEF InOrder
<1>6. ASSUME NEW c \in 2 .. n, c # m, Parent(c) # m PROVE InOrder(v, c)
  <2>1. CASE c = p
    <3>1. w[Parent(p)] <= w[m] /\ Parent(p) # p /\ Parent(p) # m /\ Parent(p) \in 1 .. n
      BY <1>2, <1>6, <2>1 DEF OrderedBut
    <3> QED
      BY <1>1, <2>1, <3>1 DEF InOrder
  <2>2. CASE c # p /\ Parent(c) = p
    BY <1>1, <1>2, <1>6, <2>2 DEF InOrder
  <2>3. CASE c # p /\ Parent(c) # p
    BY <1>1, <1>2, <1>6, <2>3 DEF OrderedBut, InOrder
  <2> QED
    BY <2>1, <2>2, <2>3
<1>7. ASSUME NEW c \in 2 .. n, Parent(c) = m PROVE v[Parent(m)] <= v[c]
  <2>1. c # m /\ c # p
    <3>1. m < c /\ p < m
      BY <1>7, Parents
    <3> QED
      BY <3>1
  <2>2. w[m] <= w[c]
    BY <1>1, <1>7, <2>1 DEF OrderedBut, InOrder
  <2> QED
    BY <1>1, <1>2, <2>1, <2>2
<1> QED
  BY <1>5, <1>6, <1>7 DEF OrderedBut

\* An array in order is so but for any place that changes, and when it is cut off.
LEMMA Disturbed ==
  ASSUME NEW l \in Nat, NEW n \in Nat, n <= l, NEW w \in [1 .. l -> Nat],
         NEW v \in [1 .. n -> Nat], NEW p \in 1 .. n, Ordered(w, l),
         \A i \in 1 .. n : i # p => v[i] = w[i]
  PROVE  OrderedBut(v, n, p)
<1>1. \A c \in 2 .. n : c \in 2 .. l /\ Parent(c) \in 1 .. n /\ Parent(c) # c /\ c \in 1 .. n
  BY Parents
<1>2. ASSUME NEW c \in 2 .. n, c # p, Parent(c) # p PROVE InOrder(v, c)
  BY <1>1, <1>2 DEF Ordered, InOrder
<1>3. ASSUME NEW c \in 2 .. n, p > 1, Parent(c) = p PROVE v[Parent(p)] <= v[c]
  <2>1. p \in 2 .. n
    BY <1>3
  <2>2. w[Parent(p)] <= w[p] /\ w[p] <= w[c] /\ Parent(p) \in 1 .. n /\ Parent(p) # p /\ c # p
    BY <1>1, <1>3, <2>1 DEF Ordered, InOrder
  <2>3. w[Parent(p)] \in Nat /\ w[p] \in Nat /\ w[c] \in Nat
    <3>1. Parent(p) \in 1 .. l /\ p \in 1 .. l /\ c \in 1 .. l
      BY <1>1, <2>1, <2>2
    <3> QED
      BY <3>1
  <2>4. \A a, b, d \in Nat : a <= b /\ b <= d => a <= d
    OBVIOUS
  <2>5. w[Parent(p)] <= w[c] /\ v[Parent(p)] = w[Parent(p)] /\ v[c] = w[c]
    BY <1>1, <1>3, <2>2, <2>3, <2>4
  <2> QED
    BY <2>5
<1> QED
  BY <1>2, <1>3 DEF OrderedBut

\* The first weighs least.
LEMMA RootLeast ==
  ASSUME NEW n \in Nat, NEW w \in [1 .. n -> Nat], Ordered(w, n), NEW i \in 1 .. n
  PROVE  w[1] <= w[i]
<1> DEFINE Heavier == {c \in 1 .. n : ~(w[1] <= w[c])}
<1> SUFFICES ASSUME Heavier # {} PROVE FALSE
  OBVIOUS
<1>1. PICK c \in Heavier : \A d \in Heavier : c <= d
  <2>1. Heavier \in SUBSET Nat
    OBVIOUS
  <2> HIDE DEF Heavier
  <2> QED
    BY <2>1, LeastNumber
<1>2. c \in 1 .. n /\ ~(w[1] <= w[c]) /\ w[1] \in Nat /\ 1 \in 1 .. n
  OBVIOUS
<1>3. c \in 2 .. n
  BY <1>2
<1>4. Parent(c) \in 1 .. n /\ Parent(c) < c
  BY <1>3, Parents
<1>5. Parent(c) \notin Heavier
  BY <1>1, <1>4
<1>6. w[1] <= w[Parent(c)] /\ w[Parent(c)] <= w[c] /\ w[Parent(c)] \in Nat /\ w[c] \in Nat
  BY <1>2, <1>3, <1>4, <1>5 DEF Ordered, InOrder
<1> QED
  BY <1>2, <1>6

-----------------------------------------------------------------------------
(* The heap *)

Heaps(K)      == [slots : Seq(K), freq : [K -> Nat], index : [K -> Nat]]
Weights(h, n) == [i \in 1 .. n |-> h.freq[h.slots[i]]]

\* Each key has one place in the array, which it remembers.
Placed(h, K) ==
  /\ h \in Heaps(K) /\ Distinct(h.slots)
  /\ \A i \in DOMAIN h.slots : h.index[h.slots[i]] = i
  /\ \A k \in K \ ToSet(h.slots) : h.index[k] = 0

\* g is h with the first n elements in another order.
Rearranged(h, g, K, n) ==
  /\ Placed(g, K) /\ g.freq = h.freq
  /\ Len(g.slots) = Len(h.slots) /\ ToSet(g.slots) = ToSet(h.slots)
  /\ \A i \in DOMAIN h.slots : i > n => g.slots[i] = h.slots[i]

LEMMA HeapTypes ==
  ASSUME NEW K, NEW h, Placed(h, K)
  PROVE  /\ h.slots \in Seq(K) /\ h.freq \in [K -> Nat] /\ h.index \in [K -> Nat]
         /\ Len(h.slots) \in Nat /\ DOMAIN h.slots = 1 .. Len(h.slots)
         /\ \A i \in 1 .. Len(h.slots) : h.slots[i] \in K
         /\ \A n \in Nat : n <= Len(h.slots) => Weights(h, n) \in [1 .. n -> Nat]
<1>1. h.slots \in Seq(K) /\ h.freq \in [K -> Nat] /\ h.index \in [K -> Nat]
  BY DEF Placed, Heaps
<1> PICK s \in Seq(K) : s = h.slots
  BY <1>1
<1>2. Len(s) \in Nat /\ DOMAIN s = 1 .. Len(s) /\ \A i \in 1 .. Len(s) : s[i] \in K
  OBVIOUS
<1>3. ASSUME NEW n \in Nat, n <= Len(s) PROVE Weights(h, n) \in [1 .. n -> Nat]
  <2>1. \A i \in 1 .. n : i \in 1 .. Len(s)
    BY <1>2, <1>3
  <2> QED
    BY <1>1, <1>2, <2>1 DEF Weights
<1> QED
  BY <1>1, <1>2, <1>3

\* Where swapping i and j takes what stands at m.
Other(i, j, m) == IF m = j THEN i ELSE IF m = i THEN j ELSE m

LEMMA Others ==
  ASSUME NEW i, NEW j
  PROVE  /\ \A m : Other(i, j, Other(i, j, m)) = m
         /\ Other(i, j, i) = j /\ Other(i, j, j) = i
         /\ \A m : m # i /\ m # j => Other(i, j, m) = m
         /\ \A m, S : i \in S /\ j \in S /\ m \in S => Other(i, j, m) \in S
BY DEF Other

LEMMA Swapping ==
  ASSUME NEW K, NEW h, NEW g, NEW n \in Nat, Placed(g, K), n <= Len(g.slots),
         NEW i \in 1 .. n, NEW j \in 1 .. n, Rearranged(h, g, K, n)
  PROVE  /\ Rearranged(h, Lfu!Swap(g, i, j), K, n)
         /\ Weights(Lfu!Swap(g, i, j), n) = Swapped(Weights(g, n), i, j)
         /\ Lfu!Swap(g, i, j).slots = Swapped(g.slots, i, j)
<1> PICK s \in Seq(K), x \in [K -> Nat] : s = g.slots /\ x = g.index
  BY HeapTypes
<1> PICK l \in Nat : l = Len(s) /\ DOMAIN s = 1 .. l /\ n <= l
  OBVIOUS
<1> PICK t : t = [s EXCEPT ![i] = s[j], ![j] = s[i]]
  OBVIOUS
<1> PICK y : y = [x EXCEPT ![s[j]] = i, ![s[i]] = j]
  OBVIOUS
<1> PICK f \in [K -> Nat] : f = g.freq
  BY HeapTypes
<1>0. g = [slots |-> s, freq |-> f, index |-> x]
  BY DEF Placed, Heaps
<1>1. Lfu!Swap(g, i, j) = [slots |-> t, freq |-> f, index |-> y]
  BY <1>0 DEF Lfu!Swap
<1> DEFINE other(m) == Other(i, j, m)
<1>2. i \in 1 .. l /\ j \in 1 .. l /\ i \in Nat /\ j \in Nat
  OBVIOUS
<1>20. \A m \in 1 .. l : other(m) \in 1 .. l /\ other(other(m)) = m
  <2> SUFFICES ASSUME NEW m \in 1 .. l PROVE other(m) \in 1 .. l /\ other(other(m)) = m
    OBVIOUS
  <2>1. Other(i, j, Other(i, j, m)) = m
    BY DEF Other
  <2>2. Other(i, j, m) \in 1 .. l
    BY <1>2 DEF Other
  <2> QED
    BY <2>1, <2>2
<1>el. \A m \in 1 .. l : s[m] \in K
  BY HeapTypes
<1>3. t \in Seq(K) /\ Len(t) = l /\ DOMAIN t = 1 .. l
  BY <1>2
<1>4. \A m \in 1 .. l : t[m] = s[other(m)]
  BY <1>2 DEF Other
<1>out. \A m \in 1 .. l : m > n => other(m) = m
  BY DEF Other
<1> HIDE DEF other
<1>5. Distinct(s) /\ (\A m \in 1 .. l : x[s[m]] = m) /\ (\A k \in K \ ToSet(s) : x[k] = 0)
  BY DEF Placed
<1>6. \A a, b \in 1 .. l : s[a] = s[b] => a = b
  BY <1>5 DEF Distinct
<1>7. Distinct(t)
  <2> SUFFICES ASSUME NEW a \in DOMAIN t, NEW b \in DOMAIN t, t[a] = t[b] PROVE a = b
    BY Zenon DEF Distinct
  <2>0. a \in 1 .. l /\ b \in 1 .. l
    BY <1>3
  <2>1. other(a) \in 1 .. l /\ other(b) \in 1 .. l /\ s[other(a)] = s[other(b)]
    BY <1>20, <1>4, <2>0
  <2>2. other(a) = other(b)
    BY <1>6, <2>1
  <2> QED
    BY <1>20, <2>0, <2>2
<1>8. y \in [K -> Nat]
  BY <1>2, <1>el
<1>9. \A m \in 1 .. l : y[t[m]] = m
  <2> SUFFICES ASSUME NEW m \in 1 .. l PROVE y[t[m]] = m
    OBVIOUS
  <2>0. s[i] \in K /\ s[j] \in K /\ (s[i] = s[j] => i = j)
    BY <1>2, <1>6, <1>el
  <2>1. CASE m = j
    <3>1. t[m] = s[i]
      BY <1>4, <2>1, Others DEF other
    <3> QED
      BY <2>0, <2>1, <3>1
  <2>2. CASE m = i /\ m # j
    <3>1. t[m] = s[j]
      BY <1>4, <2>2, Others DEF other
    <3> QED
      BY <2>0, <2>2, <3>1
  <2>3. CASE m # i /\ m # j
    <3>1. t[m] = s[m] /\ s[m] # s[i] /\ s[m] # s[j] /\ s[m] \in K
      BY <1>2, <1>4, <1>6, <1>el, <2>3, Others DEF other
    <3> QED
      BY <1>5, <3>1
  <2> QED
    BY <2>1, <2>2, <2>3
<1>10. ToSet(t) = ToSet(s)
  <2>1. ToSet(t) = {t[m] : m \in 1 .. l} /\ ToSet(s) = {s[m] : m \in 1 .. l}
    BY <1>3 DEF ToSet
  <2>2. \A m \in 1 .. l : t[m] = s[other(m)] /\ s[m] = t[other(m)] /\ other(m) \in 1 .. l
    BY <1>20, <1>4
  <2>3. \A e : e \in {t[m] : m \in 1 .. l} <=> e \in {s[m] : m \in 1 .. l}
    <3> SUFFICES ASSUME NEW e
                 PROVE  (\E m \in 1 .. l : e = t[m]) <=> (\E m \in 1 .. l : e = s[m])
      OBVIOUS
    <3>1. ASSUME NEW m \in 1 .. l, e = t[m] PROVE \E a \in 1 .. l : e = s[a]
      BY <2>2, <3>1
    <3>2. ASSUME NEW m \in 1 .. l, e = s[m] PROVE \E a \in 1 .. l : e = t[a]
      BY <2>2, <3>2
    <3> QED
      BY <3>1, <3>2
  <2> QED
    BY <2>1, <2>3
<1>11. \A k \in K \ ToSet(t) : y[k] = 0
  <2>1. s[i] \in ToSet(s) /\ s[j] \in ToSet(s)
    BY <1>2 DEF ToSet
  <2>2. \A k \in K : k \notin ToSet(s) => y[k] = x[k]
    BY <1>2, <2>1
  <2> QED
    BY <1>5, <1>10, <2>2
<1>12. Placed([slots |-> t, freq |-> f, index |-> y], K)
  BY <1>3, <1>7, <1>8, <1>9, <1>11 DEF Placed, Heaps
<1>13. \A m \in 1 .. l : m > n => t[m] = s[m]
  BY <1>4, <1>out
<1>14. /\ f = h.freq /\ l = Len(h.slots) /\ ToSet(s) = ToSet(h.slots)
       /\ \A m \in DOMAIN h.slots : m > n => s[m] = h.slots[m]
  BY DEF Rearranged
<1>15. \A m \in DOMAIN h.slots : m > n => t[m] = h.slots[m]
  <2>1. DOMAIN h.slots = 1 .. l
    BY <1>14 DEF Rearranged
  <2> QED
    BY <1>13, <1>14, <2>1
<1>16. Rearranged(h, Lfu!Swap(g, i, j), K, n)
  BY <1>1, <1>3, <1>10, <1>12, <1>14, <1>15 DEF Rearranged
<1>17. Weights(Lfu!Swap(g, i, j), n) = Swapped(Weights(g, n), i, j)
  <2>1. \A m \in 1 .. n : m \in 1 .. l
    OBVIOUS
  <2>2. Weights(Lfu!Swap(g, i, j), n) = [m \in 1 .. n |-> f[t[m]]] /\ Weights(g, n) = [m \in 1 .. n |-> f[s[m]]]
    BY <1>1 DEF Weights
  <2> PICK v \in [1 .. n -> Nat] : v = Weights(g, n)
    BY HeapTypes
  <2>3. \A m \in 1 .. n : f[t[m]] = v[other(m)]
    <3> SUFFICES ASSUME NEW m \in 1 .. n PROVE f[t[m]] = v[other(m)]
      OBVIOUS
    <3>1. other(m) \in 1 .. n
      BY DEF other, Other
    <3>2. v[other(m)] = f[s[other(m)]] /\ t[m] = s[other(m)]
      BY <1>4, <2>1, <2>2, <3>1
    <3> QED
      BY <3>2
  <2>4. Swapped(v, i, j) = [m \in 1 .. n |-> v[other(m)]]
    BY DEF Swapped, other, Other
  <2>5. [m \in 1 .. n |-> f[t[m]]] = [m \in 1 .. n |-> v[other(m)]]
    BY <2>3
  <2> QED
    BY <2>2, <2>4, <2>5
<1> QED
  BY <1>1, <1>16, <1>17 DEF Swapped

\* Up: what is at s.place may be lighter than its parent.
Rising(s, h, n, K) ==
  /\ Rearranged(h, s.heap, K, n) /\ s.place \in 1 .. n
  /\ OrderedBut(Weights(s.heap, n), n, s.place)
  /\ \A c \in 2 .. n : Parent(c) = s.place => InOrder(Weights(s.heap, n), c)

Risen(s, n) == s.place = 1 \/ InOrder(Weights(s.heap, n), s.place)

LEMMA WeightsOf ==
  ASSUME NEW K, NEW h, NEW g, NEW n \in Nat, Rearranged(h, g, K, n), n <= Len(h.slots)
  PROVE  /\ Placed(g, K) /\ n <= Len(g.slots) /\ Weights(g, n) \in [1 .. n -> Nat]
         /\ \A i, j \in 1 .. n : Lfu!Less(g, i, j) <=> Weights(g, n)[i] < Weights(g, n)[j]
<1>1. Placed(g, K) /\ n <= Len(g.slots)
  BY DEF Rearranged
<1>2. Weights(g, n) \in [1 .. n -> Nat]
  BY <1>1, HeapTypes
<1>3. \A i, j \in 1 .. n : Lfu!Less(g, i, j) <=> Weights(g, n)[i] < Weights(g, n)[j]
  BY DEF Lfu!Less, Weights
<1> QED
  BY <1>1, <1>2, <1>3

LEMMA RiseStep ==
  ASSUME NEW K, NEW h, NEW n \in Nat, n <= Len(h.slots), NEW s, Rising(s, h, n, K)
  PROVE  LET t == Lfu!RoundUp(s) IN
         Rising(t, h, n, K) /\ ((t = s /\ Risen(s, n)) \/ t.place < s.place)
<1> PICK g : g = s.heap
  OBVIOUS
<1> PICK p \in 1 .. n : p = s.place
  BY DEF Rising
<1> PICK w : w = Weights(g, n)
  OBVIOUS
<1>1. /\ Placed(g, K) /\ n <= Len(g.slots) /\ w \in [1 .. n -> Nat]
      /\ \A i, j \in 1 .. n : Lfu!Less(g, i, j) <=> w[i] < w[j]
  BY WeightsOf DEF Rising
<1>2. Lfu!RoundUp(s) = IF p = 1 \/ ~Lfu!Less(g, p, Parent(p)) THEN s
                       ELSE Lfu!At(Lfu!Swap(g, Parent(p), p), Parent(p))
  BY DEF Lfu!RoundUp, Parent
<1>3. CASE p = 1 \/ ~Lfu!Less(g, p, Parent(p))
  <2>1. p # 1 => w[Parent(p)] <= w[p]
    <3> SUFFICES ASSUME p # 1 PROVE w[Parent(p)] <= w[p]
      OBVIOUS
    <3>1. Parent(p) \in 1 .. n
      BY Parents
    <3>2. ~(w[p] < w[Parent(p)]) /\ w[p] \in Nat /\ w[Parent(p)] \in Nat
      BY <1>1, <1>3, <3>1
    <3> QED
      BY <3>2
  <2>2. Risen(s, n)
    BY <2>1 DEF Risen, InOrder
  <2> QED
    BY <1>2, <1>3, <2>2
<1>4. CASE p # 1 /\ Lfu!Less(g, p, Parent(p))
  <2> PICK q : q = Parent(p)
    OBVIOUS
  <2>1. q \in 1 .. n /\ q < p /\ p \in 2 .. n
    BY <1>4, Parents
  <2> PICK k : k = Lfu!Swap(g, q, p)
    OBVIOUS
  <2>2. Rearranged(h, k, K, n) /\ Weights(k, n) = Swapped(w, q, p)
    BY <1>1, <2>1, Swapping DEF Rising
  <2>3. w[p] < w[Parent(p)]
    BY <1>1, <1>4, <2>1
  <2>4. OrderedBut(w, n, p) /\ \A c \in 2 .. n : Parent(c) = p => InOrder(w, c)
    BY DEF Rising
  <2>5. /\ OrderedBut(Weights(k, n), n, q)
        /\ \A c \in 2 .. n : Parent(c) = q => InOrder(Weights(k, n), c)
    BY <1>1, <2>1, <2>2, <2>3, <2>4, RiseWeights
  <2> PICK t : t = Lfu!RoundUp(s)
    OBVIOUS
  <2>6. t = [heap |-> k, place |-> q]
    BY <1>2, <1>4 DEF Lfu!At
  <2>7. t.heap = k /\ t.place = q
    BY <2>6
  <2>8. Rising(t, h, n, K)
    BY <2>1, <2>2, <2>5, <2>7 DEF Rising
  <2> QED
    BY <2>1, <2>7, <2>8
<1> QED
  BY <1>3, <1>4

\* The loops, unrolled.
LEMMA UpLoop ==
  ASSUME NEW h, NEW j \in Nat
  PROVE  \E f : /\ f[0] = Lfu!At(h, j) /\ Lfu!Up(h, j) = f[j].heap
                /\ \A k \in 1 .. j : f[k] = Lfu!RoundUp(f[k - 1])
<1> DEFINE Unrolled(f, m) ==
      f = [k \in 0 .. m |-> IF k = 0 THEN Lfu!At(h, j) ELSE Lfu!RoundUp(f[k - 1])]
           Missing == {m \in Nat : ~ \E f : Unrolled(f, m)}
<1>1. Missing = {}
  <2> SUFFICES ASSUME Missing # {} PROVE FALSE
    OBVIOUS
  <2>1. PICK m \in Missing : \A l \in Missing : m <= l
    <3>1. Missing \in SUBSET Nat
      OBVIOUS
    <3> HIDE DEF Missing
    <3> QED
      BY <3>1, LeastNumber
  <2>2. m # 0
    <3>1. Unrolled([k \in 0 .. 0 |-> Lfu!At(h, j)], 0)
      OBVIOUS
    <3> QED
      BY <3>1
  <2>3. m \in Nat /\ m - 1 \in Nat /\ ~(m <= m - 1)
    BY <2>1, <2>2
  <2>4. PICK f : Unrolled(f, m - 1)
    <3>1. m - 1 \notin Missing
      <4> HIDE DEF Missing
      <4> QED
        BY <2>1, <2>3
    <3> QED
      BY <2>3, <3>1
  <2> DEFINE g == [k \in 0 .. m |-> IF k = m THEN Lfu!RoundUp(f[m - 1]) ELSE f[k]]
  <2>5. ASSUME NEW k \in 0 .. m
        PROVE  g[k] = IF k = 0 THEN Lfu!At(h, j) ELSE Lfu!RoundUp(g[k - 1])
    BY <2>2, <2>3, <2>4
  <2>6. Unrolled(g, m)
    BY <2>5
  <2> QED
    BY <2>1, <2>6
<1>2. PICK f : Unrolled(f, j)
  BY <1>1
<1>3. Lfu!Up(h, j) = (CHOOSE g : Unrolled(g, j))[j].heap
  BY DEF Lfu!Up
<1> PICK g : g = CHOOSE e : Unrolled(e, j)
  OBVIOUS
<1>4. Unrolled(g, j)
  BY <1>2
<1>5. \A k \in 1 .. j : k \in 0 .. j /\ k # 0
  OBVIOUS
<1>6. g[0] = Lfu!At(h, j) /\ \A k \in 1 .. j : g[k] = Lfu!RoundUp(g[k - 1])
  <2>1. DOMAIN g = 0 .. j /\ 0 \in 0 .. j
    BY <1>4
  <2>2. ASSUME NEW k \in 0 .. j PROVE g[k] = IF k = 0 THEN Lfu!At(h, j) ELSE Lfu!RoundUp(g[k - 1])
    BY <1>4
  <2> QED
    BY <1>5, <2>1, <2>2
<1> QED
  BY <1>3, <1>6

LEMMA RisenStays ==
  ASSUME NEW K, NEW h, NEW n \in Nat, n <= Len(h.slots), NEW s, Rising(s, h, n, K), Risen(s, n)
  PROVE  Lfu!RoundUp(s) = s
<1> PICK p \in 1 .. n : p = s.place
  BY DEF Rising
<1>1. /\ Weights(s.heap, n) \in [1 .. n -> Nat]
      /\ \A i, j \in 1 .. n : Lfu!Less(s.heap, i, j) <=> Weights(s.heap, n)[i] < Weights(s.heap, n)[j]
  BY WeightsOf DEF Rising
<1>2. p # 1 => ~Lfu!Less(s.heap, p, Parent(p))
  <2> SUFFICES ASSUME p # 1 PROVE ~Lfu!Less(s.heap, p, Parent(p))
    OBVIOUS
  <2>1. Parent(p) \in 1 .. n
    BY Parents
  <2>2. Weights(s.heap, n)[Parent(p)] <= Weights(s.heap, n)[p]
    BY DEF Risen, InOrder
  <2> QED
    BY <1>1, <2>1, <2>2
<1> QED
  BY <1>2 DEF Lfu!RoundUp, Parent

LEMMA UpSorts ==
  ASSUME NEW K, NEW h, NEW n \in Nat, n <= Len(h.slots), NEW j \in Nat,
         Rising(Lfu!At(h, j), h, n, K)
  PROVE  Rearranged(h, Lfu!Up(h, j), K, n) /\ Ordered(Weights(Lfu!Up(h, j), n), n)
<1> PICK f : /\ f[0] = Lfu!At(h, j) /\ Lfu!Up(h, j) = f[j].heap
             /\ \A k \in 1 .. j : f[k] = Lfu!RoundUp(f[k - 1])
  BY UpLoop
<1> DEFINE Fine(k) == /\ Rising(f[k], h, n, K)
                      /\ Risen(f[k], n) \/ f[k].place + k <= j
           Bad == {k \in 0 .. j : ~Fine(k)}
<1>1. Bad = {}
  <2> SUFFICES ASSUME Bad # {} PROVE FALSE
    OBVIOUS
  <2>1. PICK k \in Bad : \A l \in Bad : k <= l
    <3>1. Bad \in SUBSET Nat
      OBVIOUS
    <3> HIDE DEF Bad
    <3> QED
      BY <3>1, LeastNumber
  <2>2. Fine(0)
    BY DEF Lfu!At
  <2>3. k \in 1 .. j /\ k - 1 \in 0 .. j /\ ~(k <= k - 1)
    BY <2>1, <2>2
  <2>4. Fine(k - 1)
    <3>1. k - 1 \notin Bad
      <4> HIDE DEF Bad
      <4> QED
        BY <2>1, <2>3
    <3> QED
      BY <2>3, <3>1
  <2> PICK s : s = f[k - 1]
    OBVIOUS
  <2> PICK t : t = f[k]
    OBVIOUS
  <2>5. Rising(t, h, n, K) /\ ((t = s /\ Risen(s, n)) \/ t.place < s.place)
    BY <2>3, <2>4, RiseStep
  <2>6. CASE t = s /\ Risen(s, n)
    BY <2>1, <2>5, <2>6
  <2>7. CASE t.place < s.place
    <3>1. s.place \in 1 .. n /\ t.place \in 1 .. n
      BY <2>4, <2>5 DEF Rising
    <3>2. CASE s.place + (k - 1) <= j
      <4>1. t.place + k <= j
        BY <2>3, <2>7, <3>1, <3>2
      <4> QED
        BY <2>1, <2>5, <4>1
    <3>3. CASE Risen(s, n)
      <4>1. t = s
        BY <2>3, <3>3, RisenStays, <2>4
      <4> QED
        BY <2>7, <3>1, <4>1
    <3> QED
      BY <2>4, <3>2, <3>3
  <2> QED
    BY <2>5, <2>6, <2>7
<1> PICK s : s = f[j]
  OBVIOUS
<1>2. Rising(s, h, n, K) /\ (Risen(s, n) \/ s.place + j <= j)
  <2>1. Fine(j)
    BY <1>1
  <2> QED
    BY <2>1
<1>3. s.place \in 1 .. n /\ Risen(s, n)
  BY <1>2 DEF Rising
<1>4. Ordered(Weights(s.heap, n), n)
  <2> SUFFICES ASSUME NEW c \in 2 .. n PROVE InOrder(Weights(s.heap, n), c)
    BY DEF Ordered
  <2>1. CASE c = s.place
    BY <1>3, <2>1 DEF Risen
  <2>2. CASE c # s.place
    BY <1>2, <2>2 DEF Rising, OrderedBut
  <2> QED
    BY <2>1, <2>2
<1> QED
  BY <1>2, <1>4 DEF Rising

\* Down: what is at s.place may be heavier than its children; it has not moved or is in
\* order with its parent.
Sinking(s, h, i, n, K) ==
  /\ Rearranged(h, s.heap, K, n) /\ s.place \in 1 .. n
  /\ OrderedBut(Weights(s.heap, n), n, s.place)
  /\ s = Lfu!At(h, i) \/ InOrder(Weights(s.heap, n), s.place)

Sunk(s, n) == \A c \in 2 .. n : Parent(c) = s.place => InOrder(Weights(s.heap, n), c)

LEMMA LighterChild ==
  ASSUME NEW K, NEW h, NEW g, NEW n \in Nat, Rearranged(h, g, K, n), n <= Len(h.slots),
         NEW p \in 1 .. n, 2 * p <= n
  PROVE  /\ Lfu!Child(g, p, n) \in 2 .. n /\ Parent(Lfu!Child(g, p, n)) = p
         /\ \A c \in 2 .. n : Parent(c) = p =>
              Weights(g, n)[Lfu!Child(g, p, n)] <= Weights(g, n)[c]
<1> PICK w : w = Weights(g, n)
  OBVIOUS
<1>1. w \in [1 .. n -> Nat] /\ \A i, j \in 1 .. n : Lfu!Less(g, i, j) <=> w[i] < w[j]
  BY WeightsOf
<1>2. 2 * p \in 2 .. n /\ Parent(2 * p) = p /\ w[2 * p] \in Nat
  BY <1>1, Halves DEF Parent
<1>3. 2 * p + 1 <= n => 2 * p + 1 \in 2 .. n /\ Parent(2 * p + 1) = p /\ w[2 * p + 1] \in Nat
  BY <1>1, Halves DEF Parent
<1>4. \A c \in 2 .. n : Parent(c) = p => c = 2 * p \/ c = 2 * p + 1
  BY Halves DEF Parent
<1>5. CASE 2 * p + 1 <= n /\ Lfu!Less(g, 2 * p + 1, 2 * p)
  <2>1. Lfu!Child(g, p, n) = 2 * p + 1
    BY <1>5 DEF Lfu!Child
  <2>2. w[2 * p + 1] < w[2 * p]
    BY <1>1, <1>2, <1>3, <1>5
  <2> QED
    BY <1>2, <1>3, <1>4, <1>5, <2>1, <2>2
<1>6. CASE ~(2 * p + 1 <= n /\ Lfu!Less(g, 2 * p + 1, 2 * p))
  <2>1. Lfu!Child(g, p, n) = 2 * p
    BY <1>6 DEF Lfu!Child
  <2>2. 2 * p + 1 <= n => w[2 * p] <= w[2 * p + 1]
    BY <1>1, <1>2, <1>3, <1>6
  <2>3. \A c \in 2 .. n : c = 2 * p + 1 => 2 * p + 1 <= n
    OBVIOUS
  <2> QED
    BY <1>2, <1>3, <1>4, <2>1, <2>2, <2>3
<1> QED
  BY <1>5, <1>6

LEMMA SinkStep ==
  ASSUME NEW K, NEW h, NEW i, NEW n \in Nat, n <= Len(h.slots), NEW s, Sinking(s, h, i, n, K)
  PROVE  LET t == Lfu!RoundDown(s, n) IN
         Sinking(t, h, i, n, K) /\ ((t = s /\ Sunk(s, n)) \/ t.place > s.place)
<1> PICK g : g = s.heap
  OBVIOUS
<1> PICK p \in 1 .. n : p = s.place
  BY DEF Sinking
<1> PICK w : w = Weights(g, n)
  OBVIOUS
<1> PICK m : m = Lfu!Child(g, p, n)
  OBVIOUS
<1>1. /\ Placed(g, K) /\ n <= Len(g.slots) /\ w \in [1 .. n -> Nat]
      /\ \A a, b \in 1 .. n : Lfu!Less(g, a, b) <=> w[a] < w[b]
  BY WeightsOf DEF Sinking
<1>2. Lfu!RoundDown(s, n) = IF 2 * p > n \/ ~Lfu!Less(g, m, p) THEN s
                            ELSE Lfu!At(Lfu!Swap(g, p, m), m)
  BY DEF Lfu!RoundDown
<1>3. 2 * p <= n => /\ m \in 2 .. n /\ Parent(m) = p
                    /\ \A c \in 2 .. n : Parent(c) = p => w[m] <= w[c]
  BY LighterChild DEF Sinking
<1>4. CASE 2 * p > n
  <2>1. \A c \in 2 .. n : Parent(c) # p
    BY <1>4, Halves DEF Parent
  <2>2. Sunk(s, n)
    BY <2>1 DEF Sunk
  <2> QED
    BY <1>2, <1>4, <2>2
<1>5. CASE 2 * p <= n /\ ~Lfu!Less(g, m, p)
  <2>1. m \in 1 .. n /\ w[m] \in Nat /\ w[p] \in Nat /\ w[p] <= w[m]
    BY <1>1, <1>3, <1>5
  <2>2. ASSUME NEW c \in 2 .. n, Parent(c) = p PROVE w[p] <= w[c]
    <3>1. w[m] <= w[c] /\ w[c] \in Nat
      BY <1>1, <1>3, <1>5, <2>2
    <3> QED
      BY <2>1, <3>1
  <2>3. Sunk(s, n)
    BY <2>2 DEF Sunk, InOrder
  <2> QED
    BY <1>2, <1>5, <2>3
<1>6. CASE 2 * p <= n /\ Lfu!Less(g, m, p)
  <2>1. m \in 1 .. n /\ m \in 2 .. n /\ Parent(m) = p /\ p < m /\ w[m] < w[p]
    <3>1. m \in 2 .. n /\ Parent(m) = p
      BY <1>3, <1>6
    <3>2. p < m /\ m \in 1 .. n
      BY <3>1, Parents
    <3> QED
      BY <1>1, <1>6, <3>1, <3>2
  <2> PICK k : k = Lfu!Swap(g, p, m)
    OBVIOUS
  <2>2. Rearranged(h, k, K, n) /\ Weights(k, n) = Swapped(w, p, m)
    BY <1>1, <2>1, Swapping DEF Sinking
  <2>3. OrderedBut(w, n, p)
    BY DEF Sinking
  <2>4. OrderedBut(Weights(k, n), n, m) /\ InOrder(Weights(k, n), m)
    BY <1>1, <1>3, <1>6, <2>1, <2>2, <2>3, SinkWeights
  <2> PICK t : t = Lfu!RoundDown(s, n)
    OBVIOUS
  <2>5. ~(2 * p > n)
    BY <1>6
  <2>6. t = [heap |-> k, place |-> m]
    BY <1>2, <1>6, <2>5 DEF Lfu!At
  <2>7. t.heap = k /\ t.place = m
    BY <2>6
  <2>8. Sinking(t, h, i, n, K)
    BY <2>1, <2>2, <2>4, <2>7 DEF Sinking
  <2> QED
    BY <2>1, <2>7, <2>8
<1> QED
  BY <1>4, <1>5, <1>6

LEMMA DownLoop ==
  ASSUME NEW h, NEW i, NEW n \in Nat
  PROVE  \E f : /\ f[0] = Lfu!At(h, i) /\ Lfu!Down(h, i, n) = f[n].heap
                /\ \A k \in 1 .. n : f[k] = Lfu!RoundDown(f[k - 1], n)
<1> DEFINE Unrolled(f, m) ==
      f = [k \in 0 .. m |-> IF k = 0 THEN Lfu!At(h, i) ELSE Lfu!RoundDown(f[k - 1], n)]
           Missing == {m \in Nat : ~ \E f : Unrolled(f, m)}
<1>1. Missing = {}
  <2> SUFFICES ASSUME Missing # {} PROVE FALSE
    OBVIOUS
  <2>1. PICK m \in Missing : \A l \in Missing : m <= l
    <3>1. Missing \in SUBSET Nat
      OBVIOUS
    <3> HIDE DEF Missing
    <3> QED
      BY <3>1, LeastNumber
  <2>2. m # 0
    <3>1. Unrolled([k \in 0 .. 0 |-> Lfu!At(h, i)], 0)
      OBVIOUS
    <3> QED
      BY <3>1
  <2>3. m \in Nat /\ m - 1 \in Nat /\ ~(m <= m - 1)
    BY <2>1, <2>2
  <2>4. PICK f : Unrolled(f, m - 1)
    <3>1. m - 1 \notin Missing
      <4> HIDE DEF Missing
      <4> QED
        BY <2>1, <2>3
    <3> QED
      BY <2>3, <3>1
  <2> DEFINE g == [k \in 0 .. m |-> IF k = m THEN Lfu!RoundDown(f[m - 1], n) ELSE f[k]]
  <2>5. ASSUME NEW k \in 0 .. m
        PROVE  g[k] = IF k = 0 THEN Lfu!At(h, i) ELSE Lfu!RoundDown(g[k - 1], n)
    BY <2>2, <2>3, <2>4
  <2>6. Unrolled(g, m)
    BY <2>5
  <2> QED
    BY <2>1, <2>6
<1>2. PICK f : Unrolled(f, n)
  BY <1>1
<1>3. Lfu!Down(h, i, n) = (CHOOSE g : Unrolled(g, n))[n].heap
  BY DEF Lfu!Down
<1> PICK g : g = CHOOSE e : Unrolled(e, n)
  OBVIOUS
<1>4. Unrolled(g, n)
  BY <1>2
<1>5. \A k \in 1 .. n : k \in 0 .. n /\ k # 0
  OBVIOUS
<1>6. g[0] = Lfu!At(h, i) /\ \A k \in 1 .. n : g[k] = Lfu!RoundDown(g[k - 1], n)
  <2>1. DOMAIN g = 0 .. n /\ 0 \in 0 .. n
    BY <1>4
  <2>2. ASSUME NEW k \in 0 .. n PROVE g[k] = IF k = 0 THEN Lfu!At(h, i) ELSE Lfu!RoundDown(g[k - 1], n)
    BY <1>4
  <2> QED
    BY <1>5, <2>1, <2>2
<1> QED
  BY <1>3, <1>6

LEMMA SunkStays ==
  ASSUME NEW K, NEW h, NEW i, NEW n \in Nat, n <= Len(h.slots), NEW s, Sinking(s, h, i, n, K),
         Sunk(s, n)
  PROVE  Lfu!RoundDown(s, n) = s
<1> PICK p \in 1 .. n : p = s.place
  BY DEF Sinking
<1> PICK w : w = Weights(s.heap, n)
  OBVIOUS
<1> PICK m : m = Lfu!Child(s.heap, p, n)
  OBVIOUS
<1>1. /\ w \in [1 .. n -> Nat]
      /\ \A a, b \in 1 .. n : Lfu!Less(s.heap, a, b) <=> w[a] < w[b]
  BY WeightsOf DEF Sinking
<1>2. 2 * p <= n => ~Lfu!Less(s.heap, m, p)
  <2> SUFFICES ASSUME 2 * p <= n PROVE ~Lfu!Less(s.heap, m, p)
    OBVIOUS
  <2>1. m \in 2 .. n /\ Parent(m) = p
    BY LighterChild DEF Sinking
  <2>2. m \in 1 .. n /\ w[p] <= w[m]
    BY <2>1 DEF Sunk, InOrder
  <2> QED
    BY <1>1, <2>2
<1>3. 2 * p > n \/ ~Lfu!Less(s.heap, m, p)
  BY <1>2
<1> QED
  BY <1>3 DEF Lfu!RoundDown

LEMMA DownSorts ==
  ASSUME NEW K, NEW h, NEW n \in Nat, n <= Len(h.slots), NEW i,
         Sinking(Lfu!At(h, i), h, i, n, K)
  PROVE  /\ Rearranged(h, Lfu!Down(h, i, n), K, n)
         /\ \/ Ordered(Weights(Lfu!Down(h, i, n), n), n)
            \/ Lfu!Down(h, i, n) = h /\ Sunk(Lfu!At(h, i), n)
<1> PICK f : /\ f[0] = Lfu!At(h, i) /\ Lfu!Down(h, i, n) = f[n].heap
             /\ \A k \in 1 .. n : f[k] = Lfu!RoundDown(f[k - 1], n)
  BY DownLoop
<1> DEFINE Fine(k) == /\ Sinking(f[k], h, i, n, K)
                      /\ Sunk(f[k], n) \/ f[k].place > k
           Bad == {k \in 0 .. n : ~Fine(k)}
<1>1. Bad = {}
  <2> SUFFICES ASSUME Bad # {} PROVE FALSE
    OBVIOUS
  <2>1. PICK k \in Bad : \A l \in Bad : k <= l
    <3>1. Bad \in SUBSET Nat
      OBVIOUS
    <3> HIDE DEF Bad
    <3> QED
      BY <3>1, LeastNumber
  <2>2. Fine(0)
    <3>1. Sinking(f[0], h, i, n, K)
      OBVIOUS
    <3>2. f[0].place > 0
      BY <3>1 DEF Sinking
    <3> QED
      BY <3>1, <3>2
  <2>3. k \in 1 .. n /\ k - 1 \in 0 .. n /\ ~(k <= k - 1)
    BY <2>1, <2>2
  <2>4. Fine(k - 1)
    <3>1. k - 1 \notin Bad
      <4> HIDE DEF Bad
      <4> QED
        BY <2>1, <2>3
    <3> QED
      BY <2>3, <3>1
  <2> PICK s : s = f[k - 1]
    OBVIOUS
  <2> PICK t : t = f[k]
    OBVIOUS
  <2>5. Sinking(t, h, i, n, K) /\ ((t = s /\ Sunk(s, n)) \/ t.place > s.place)
    BY <2>3, <2>4, SinkStep
  <2>6. CASE t = s /\ Sunk(s, n)
    BY <2>1, <2>5, <2>6
  <2>7. CASE t.place > s.place
    <3>1. s.place \in 1 .. n /\ t.place \in 1 .. n
      BY <2>4, <2>5 DEF Sinking
    <3>2. CASE s.place > k - 1
      <4>1. t.place > k
        BY <2>3, <2>7, <3>1, <3>2
      <4> QED
        BY <2>1, <2>5, <4>1
    <3>3. CASE Sunk(s, n)
      <4>1. t = s
        BY <2>3, <3>3, SunkStays, <2>4
      <4> QED
        BY <2>7, <3>1, <4>1
    <3> QED
      BY <2>4, <3>2, <3>3
  <2> QED
    BY <2>5, <2>6, <2>7
<1> PICK s : s = f[n]
  OBVIOUS
<1>2. Sinking(s, h, i, n, K) /\ (Sunk(s, n) \/ s.place > n)
  <2>1. Fine(n)
    BY <1>1
  <2> QED
    BY <2>1
<1>3. s.place \in 1 .. n /\ Sunk(s, n)
  BY <1>2 DEF Sinking
<1>4. CASE s = Lfu!At(h, i)
  <2>1. s.heap = h
    BY <1>4 DEF Lfu!At
  <2> QED
    BY <1>2, <1>3, <1>4, <2>1 DEF Sinking
<1>5. CASE s # Lfu!At(h, i)
  <2> SUFFICES ASSUME NEW c \in 2 .. n PROVE InOrder(Weights(s.heap, n), c)
    BY <1>2 DEF Ordered, Sinking
  <2>1. CASE c = s.place
    BY <1>2, <1>5, <2>1 DEF Sinking
  <2>2. CASE Parent(c) = s.place
    BY <1>3, <2>2 DEF Sunk
  <2>3. CASE c # s.place /\ Parent(c) # s.place
    BY <1>2, <2>3 DEF Sinking, OrderedBut
  <2> QED
    BY <2>1, <2>2, <2>3
<1> QED
  BY <1>4, <1>5

\* Sift restores the order that is broken at one place.
LEMMA Sifted ==
  ASSUME NEW K, NEW h, Placed(h, K), NEW n \in Nat, n <= Len(h.slots), NEW i \in 1 .. n,
         OrderedBut(Weights(h, n), n, i)
  PROVE  Rearranged(h, Lfu!Sift(h, i, n), K, n) /\ Ordered(Weights(Lfu!Sift(h, i, n), n), n)
<1> PICK d : d = Lfu!Down(h, i, n)
  OBVIOUS
<1>1. Lfu!At(h, i).heap = h /\ Lfu!At(h, i).place = i
  BY DEF Lfu!At
<1>2. Rearranged(h, h, K, n)
  BY DEF Rearranged
<1>3. Sinking(Lfu!At(h, i), h, i, n, K)
  BY <1>1, <1>2 DEF Sinking
<1>4. Rearranged(h, d, K, n) /\ (Ordered(Weights(d, n), n) \/ (d = h /\ Sunk(Lfu!At(h, i), n)))
  BY <1>3, DownSorts
<1>5. CASE d # h
  BY <1>4, <1>5 DEF Lfu!Sift
<1>6. CASE d = h
  <2>1. Rising(Lfu!At(h, i), h, n, K)
    <3>1. \A c \in 2 .. n : Parent(c) = i => InOrder(Weights(h, n), c)
      BY <1>1, <1>4, <1>6 DEF Ordered, Sunk
    <3> QED
      BY <1>1, <1>2, <3>1 DEF Rising
  <2> QED
    BY <1>6, <2>1, UpSorts DEF Lfu!Sift
<1> QED
  BY <1>5, <1>6

\* A heap in order, of which each key knows its place.
HeapOK(h, K) == Placed(h, K) /\ Ordered(Weights(h, Len(h.slots)), Len(h.slots))

\* Push adds a key that was used once.
LEMMA Pushing ==
  ASSUME NEW K, NEW h, HeapOK(h, K), NEW k \in K, k \notin ToSet(h.slots)
  PROVE  LET g == Lfu!HeapPush(h, k) IN
         /\ HeapOK(g, K) /\ Len(g.slots) = Len(h.slots) + 1
         /\ ToSet(g.slots) = ToSet(h.slots) \cup {k} /\ g.freq = [h.freq EXCEPT ![k] = 1]
<1> PICK s \in Seq(K), x \in [K -> Nat], f \in [K -> Nat] : s = h.slots /\ x = h.index /\ f = h.freq
  BY HeapTypes DEF HeapOK
<1> PICK l \in Nat : l = Len(s) /\ DOMAIN s = 1 .. l
  OBVIOUS
<1>0. h \in Heaps(K)
  BY DEF HeapOK, Placed
<1> PICK t : t = Append(s, k)
  OBVIOUS
<1> PICK y : y = [x EXCEPT ![k] = l + 1]
  OBVIOUS
<1> PICK e : e = [f EXCEPT ![k] = 1]
  OBVIOUS
<1> PICK p : p = [slots |-> t, freq |-> e, index |-> y]
  OBVIOUS
<1>1. Lfu!Push(h, k) = p
  BY DEF Lfu!Push
<1>2. /\ t \in Seq(K) /\ Len(t) = l + 1 /\ DOMAIN t = 1 .. l + 1 /\ t[l + 1] = k
      /\ \A i \in 1 .. l : t[i] = s[i]
  OBVIOUS
<1>3. /\ \A i \in 1 .. l : s[i] \in K /\ s[i] # k /\ x[s[i]] = i
      /\ \A i, j \in 1 .. l : s[i] = s[j] => i = j
      /\ \A m \in K \ ToSet(s) : x[m] = 0
  <2>1. \A i \in 1 .. l : s[i] \in K
    BY HeapTypes DEF HeapOK
  <2>2. \A i \in 1 .. l : s[i] # k
    BY DEF ToSet
  <2> QED
    BY <2>1, <2>2 DEF HeapOK, Placed, Distinct
<1>4. \A i \in 1 .. l + 1 : i = l + 1 \/ i \in 1 .. l
  OBVIOUS
<1>5. Distinct(t)
  <2> SUFFICES ASSUME NEW i \in DOMAIN t, NEW j \in DOMAIN t, t[i] = t[j] PROVE i = j
    BY Zenon DEF Distinct
  <2> QED
    BY <1>2, <1>3, <1>4
<1>6. y \in [K -> Nat] /\ e \in [K -> Nat] /\ l + 1 \in Nat
  OBVIOUS
<1>7. \A i \in 1 .. l + 1 : y[t[i]] = i
  BY <1>2, <1>3, <1>4, <1>6
<1>8. ToSet(t) = ToSet(s) \cup {k}
  <2>1. ToSet(t) = {t[i] : i \in 1 .. l + 1} /\ ToSet(s) = {s[i] : i \in 1 .. l}
    BY <1>2 DEF ToSet
  <2>2. \A i \in 1 .. l : i \in 1 .. l + 1
    OBVIOUS
  <2>3. l + 1 \in 1 .. l + 1
    OBVIOUS
  <2>4. \A i \in 1 .. l + 1 : t[i] \in ToSet(s) \cup {k}
    <3> SUFFICES ASSUME NEW i \in 1 .. l + 1 PROVE t[i] \in ToSet(s) \cup {k}
      OBVIOUS
    <3> QED
      BY <1>2, <1>4, <2>1
  <2>5. \A i \in 1 .. l : s[i] \in ToSet(t)
    BY <1>2, <2>1, <2>2
  <2>6. k \in ToSet(t)
    BY <1>2, <2>1, <2>3
  <2>7. ToSet(t) \subseteq ToSet(s) \cup {k}
    BY <2>1, <2>4
  <2>8. ToSet(s) \subseteq ToSet(t)
    BY <2>1, <2>5
  <2> QED
    BY <2>6, <2>7, <2>8
<1>9. \A m \in K \ ToSet(t) : y[m] = 0
  BY <1>3, <1>8
<1>10. Placed(p, K)
  BY <1>2, <1>5, <1>6, <1>7, <1>9 DEF Placed, Heaps
<1> PICK n \in Nat : n = l + 1
  OBVIOUS
<1> PICK w : w = Weights(h, l)
  OBVIOUS
<1> PICK v : v = Weights(p, n)
  OBVIOUS
<1>11. Ordered(w, l)
  BY DEF HeapOK
<1>12. \A i \in 1 .. l : v[i] = w[i]
  <2> SUFFICES ASSUME NEW i \in 1 .. l PROVE v[i] = w[i]
    OBVIOUS
  <2>1. v[i] = e[t[i]] /\ w[i] = f[s[i]]
    BY DEF Weights
  <2>2. s[i] \in K /\ s[i] # k /\ t[i] = s[i]
    BY <1>2, <1>3
  <2> QED
    BY <2>1, <2>2
<1>13. OrderedBut(v, n, n) /\ \A c \in 2 .. n : Parent(c) # n
  <2>1. \A c \in 2 .. n : Parent(c) # n
    <3> SUFFICES ASSUME NEW c \in 2 .. n PROVE Parent(c) # n
      OBVIOUS
    <3>1. Parent(c) < c /\ Parent(c) \in 1 .. n
      BY Parents
    <3> QED
      BY <3>1
  <2>2. ASSUME NEW c \in 2 .. n, c # n PROVE InOrder(v, c)
    <3>1. c \in 2 .. l /\ c \in 1 .. l
      BY <2>2
    <3>2. Parent(c) \in 1 .. l
      BY <3>1, Parents
    <3> QED
      BY <1>11, <1>12, <3>1, <3>2 DEF Ordered, InOrder
  <2> QED
    BY <2>1, <2>2 DEF OrderedBut
<1>14. Rising(Lfu!At(p, n), p, n, K)
  <2>1. Lfu!At(p, n).heap = p /\ Lfu!At(p, n).place = n
    BY DEF Lfu!At
  <2>2. Rearranged(p, p, K, n)
    BY <1>10 DEF Rearranged
  <2>3. n \in 1 .. n
    OBVIOUS
  <2> QED
    BY <1>13, <2>1, <2>2, <2>3 DEF Rising
<1>15. Lfu!HeapPush(h, k) = Lfu!Up(p, n)
  BY <1>1 DEF Lfu!HeapPush
<1>16. p.slots = t /\ p.freq = e
  OBVIOUS
<1>17. Rearranged(p, Lfu!Up(p, n), K, n) /\ Ordered(Weights(Lfu!Up(p, n), n), n)
  <2>1. n <= Len(p.slots)
    BY <1>2, <1>16
  <2> QED
    BY <1>14, <2>1, UpSorts
<1> PICK g : g = Lfu!Up(p, n)
  OBVIOUS
<1>18. Placed(g, K) /\ Len(g.slots) = n /\ ToSet(g.slots) = ToSet(t) /\ g.freq = e
  BY <1>2, <1>16, <1>17 DEF Rearranged
<1> QED
  BY <1>8, <1>15, <1>17, <1>18 DEF HeapOK

\* g is h without the key k.
Without(h, g, k, K) ==
  /\ HeapOK(g, K) /\ Len(g.slots) = Len(h.slots) - 1
  /\ ToSet(g.slots) = ToSet(h.slots) \ {k} /\ g.freq = [h.freq EXCEPT ![k] = 0]

LEMMA Popping ==
  ASSUME NEW K, NEW h, Placed(h, K), NEW n \in Nat, n > 0, n = Len(h.slots),
         Ordered(Weights(h, n - 1), n - 1)
  PROVE  Without(h, Lfu!Pop(h), h.slots[n], K)
<1> PICK s \in Seq(K), x \in [K -> Nat], f \in [K -> Nat] : s = h.slots /\ x = h.index /\ f = h.freq
  BY HeapTypes
<1>1. n = Len(s) /\ DOMAIN s = 1 .. n /\ s # << >> /\ n \in 1 .. n
  OBVIOUS
<1> PICK k : k = s[n]
  OBVIOUS
<1> PICK t : t = Front(s)
  OBVIOUS
<1>2. /\ \A i \in 1 .. n : s[i] \in K /\ x[s[i]] = i
      /\ Distinct(s) /\ \A m \in K \ ToSet(s) : x[m] = 0
  <2>1. \A i \in 1 .. n : s[i] \in K
    BY HeapTypes
  <2> QED
    BY <1>1, <2>1 DEF Placed
<1>3. Last(s) = k /\ k \in K
  BY <1>1, <1>2 DEF Last
<1>4. /\ t \in Seq(K) /\ Distinct(t) /\ Len(t) = n - 1 /\ ToSet(t) = ToSet(s) \ {k}
  BY <1>1, <1>2, <1>3, Shortened
<1>5. DOMAIN t = 1 .. n - 1 /\ \A i \in 1 .. n - 1 : t[i] = s[i] /\ i \in 1 .. n /\ i # n
  BY <1>1 DEF Front
<1> PICK y \in [K -> Nat] : y = [x EXCEPT ![k] = 0]
  OBVIOUS
<1> PICK e \in [K -> Nat] : e = [f EXCEPT ![k] = 0]
  OBVIOUS
<1> PICK g : g = [slots |-> t, freq |-> e, index |-> y]
  OBVIOUS
<1>6. Lfu!Pop(h) = g
  <2>1. Lfu!Front(s) = t /\ Lfu!Last(s) = k
    BY <1>3 DEF Lfu!Front, Lfu!Last, Front, Last
  <2> QED
    BY <2>1 DEF Lfu!Pop
<1>7. \A i \in 1 .. n - 1 : t[i] # k
  BY <1>1, <1>2, <1>5 DEF Distinct
<1>8. Placed(g, K)
  <2>1. \A i \in 1 .. n - 1 : y[t[i]] = i
    <3> SUFFICES ASSUME NEW i \in 1 .. n - 1 PROVE y[t[i]] = i
      OBVIOUS
    <3>1. t[i] = s[i] /\ i \in 1 .. n /\ t[i] # k
      BY <1>5, <1>7
    <3>2. s[i] \in K /\ x[s[i]] = i
      BY <1>2, <3>1
    <3> QED
      BY <3>1, <3>2
  <2>2. \A m \in K \ ToSet(t) : y[m] = 0
    BY <1>2, <1>3, <1>4
  <2> QED
    <3>1. g \in Heaps(K)
      BY <1>4 DEF Heaps
    <3>2. g.slots = t /\ g.index = y
      OBVIOUS
    <3>3. \A i \in DOMAIN t : y[t[i]] = i
      BY <1>5, <2>1
    <3> QED
      BY <1>4, <2>2, <3>1, <3>2, <3>3, Zenon DEF Placed
<1>9. Weights(g, n - 1) = Weights(h, n - 1)
  BY <1>2, <1>5, <1>7, Zenon DEF Weights
<1>10. HeapOK(g, K)
  BY <1>4, <1>8, <1>9 DEF HeapOK
<1> QED
  BY <1>4, <1>6, <1>10 DEF Without

\* Swapping the last place with i leaves all but i in order among the others.
LEMMA LastSwapped ==
  ASSUME NEW K, NEW h, HeapOK(h, K), NEW n \in Nat, n = Len(h.slots), NEW i \in 1 .. n - 1
  PROVE  LET g == Lfu!Swap(h, i, n) IN
         /\ Rearranged(h, g, K, n) /\ Len(g.slots) = n /\ g.slots[n] = h.slots[i]
         /\ OrderedBut(Weights(g, n - 1), n - 1, i)
<1> PICK g : g = Lfu!Swap(h, i, n)
  OBVIOUS
<1>1. Placed(h, K) /\ Rearranged(h, h, K, n) /\ Ordered(Weights(h, n), n)
  BY DEF HeapOK, Rearranged
<1>2. n \in 1 .. n /\ i \in 1 .. n /\ n - 1 \in Nat /\ n - 1 <= n /\ n <= Len(h.slots)
  OBVIOUS
<1>3. /\ Rearranged(h, g, K, n) /\ Weights(g, n) = Swapped(Weights(h, n), i, n)
      /\ g.slots = Swapped(h.slots, i, n)
  BY <1>1, <1>2, Swapping
<1> PICK w \in [1 .. n -> Nat] : w = Weights(h, n)
  BY <1>1, <1>2, HeapTypes
<1>4. Placed(g, K) /\ Len(g.slots) = n
  BY <1>3 DEF Rearranged
<1> PICK v \in [1 .. n - 1 -> Nat] : v = Weights(g, n - 1)
  BY <1>2, <1>4, HeapTypes
<1>5. \A m \in 1 .. n - 1 : v[m] = Weights(g, n)[m]
  BY DEF Weights
<1>6. \A m \in 1 .. n - 1 : m # i => v[m] = w[m]
  BY <1>3, <1>5 DEF Swapped
<1>7. OrderedBut(v, n - 1, i)
  BY <1>1, <1>2, <1>6, Disturbed
<1>8. g.slots[n] = h.slots[i]
  <2>1. DOMAIN h.slots = 1 .. n
    BY <1>1, HeapTypes
  <2> QED
    BY <1>2, <1>3, <2>1 DEF Swapped
<1> QED
  BY <1>3, <1>4, <1>7, <1>8

\* What is popped off a heap that was put in order but for its last place.
LEMMA PoppedOff ==
  ASSUME NEW K, NEW h, NEW n \in Nat, n > 0, n = Len(h.slots), NEW g, NEW d,
         Rearranged(h, g, K, n), Rearranged(g, d, K, n - 1), Ordered(Weights(d, n - 1), n - 1)
  PROVE  Without(h, Lfu!Pop(d), g.slots[n], K)
<1>1. /\ Placed(g, K) /\ Placed(d, K) /\ Len(g.slots) = n /\ Len(d.slots) = n
      /\ d.freq = h.freq /\ ToSet(d.slots) = ToSet(h.slots)
  BY DEF Rearranged
<1>2. d.slots[n] = g.slots[n]
  <2>1. n \in DOMAIN g.slots /\ n > n - 1
    BY <1>1, HeapTypes
  <2> QED
    BY <2>1 DEF Rearranged
<1>3. Without(d, Lfu!Pop(d), d.slots[n], K)
  BY <1>1, Popping
<1> QED
  BY <1>1, <1>2, <1>3 DEF Without

LEMMA HeapPopped ==
  ASSUME NEW K, NEW h, HeapOK(h, K), h.slots # << >>
  PROVE  Without(h, Lfu!HeapPop(h), h.slots[1], K)
<1> PICK n \in Nat : n = Len(h.slots)
  BY HeapTypes DEF HeapOK
<1>1. n > 0
  <2>1. h.slots \in Seq(K)
    BY HeapTypes DEF HeapOK
  <2> QED
    BY <2>1
<1> PICK g : g = Lfu!Swap(h, 1, n)
  OBVIOUS
<1> PICK d : d = Lfu!Down(g, 1, n - 1)
  OBVIOUS
<1>2. Lfu!HeapPop(h) = Lfu!Pop(d)
  BY DEF Lfu!HeapPop
<1>3. CASE n = 1
  <2>1. Placed(h, K) /\ Rearranged(h, h, K, n) /\ n <= Len(h.slots) /\ 1 \in 1 .. n
    BY <1>3 DEF HeapOK, Rearranged
  <2>2. Rearranged(h, g, K, n) /\ g.slots = Swapped(h.slots, 1, n)
    BY <1>3, <2>1, Swapping
  <2>3. d = g
    <3> PICK f : f[0] = Lfu!At(g, 1) /\ Lfu!Down(g, 1, 0) = f[0].heap
      BY DownLoop
    <3> QED
      BY <1>3 DEF Lfu!At
  <2>4. Rearranged(g, d, K, n - 1) /\ Ordered(Weights(d, n - 1), n - 1)
    <3>1. Placed(g, K)
      BY <2>2 DEF Rearranged
    <3>2. Rearranged(g, g, K, n - 1)
      BY <3>1 DEF Rearranged
    <3>3. \A c : c \notin 2 .. n - 1
      BY <1>3
    <3> QED
      BY <2>3, <3>2, <3>3 DEF Ordered
  <2>5. g.slots[n] = h.slots[1]
    <3>1. DOMAIN h.slots = 1 .. n
      BY <2>1, HeapTypes
    <3> QED
      BY <1>3, <2>2, <3>1 DEF Swapped
  <2> QED
    BY <1>1, <1>2, <2>2, <2>4, <2>5, PoppedOff
<1>4. CASE n # 1
  <2>1. 1 \in 1 .. n - 1 /\ n - 1 \in Nat
    <3>1. \A a \in Nat : a > 0 /\ a # 1 => 1 \in 1 .. a - 1 /\ a - 1 \in Nat
      OBVIOUS
    <3> QED
      BY <1>1, <1>4, <3>1
  <2>2. /\ Rearranged(h, g, K, n) /\ Len(g.slots) = n /\ g.slots[n] = h.slots[1]
        /\ OrderedBut(Weights(g, n - 1), n - 1, 1)
    BY <2>1, LastSwapped
  <2>3. Lfu!At(g, 1).heap = g /\ Lfu!At(g, 1).place = 1
    BY DEF Lfu!At
  <2>4. Placed(g, K) /\ Rearranged(g, g, K, n - 1) /\ n - 1 <= Len(g.slots)
    BY <2>2 DEF Rearranged
  <2>5. Sinking(Lfu!At(g, 1), g, 1, n - 1, K)
    BY <2>1, <2>2, <2>3, <2>4 DEF Sinking
  <2>6. /\ Rearranged(g, d, K, n - 1)
        /\ Ordered(Weights(d, n - 1), n - 1) \/ (d = g /\ Sunk(Lfu!At(g, 1), n - 1))
    BY <2>1, <2>4, <2>5, DownSorts
  <2>7. Ordered(Weights(d, n - 1), n - 1)
    <3> SUFFICES ASSUME d = g, Sunk(Lfu!At(g, 1), n - 1), NEW c \in 2 .. n - 1
                 PROVE  InOrder(Weights(g, n - 1), c)
      BY <2>6 DEF Ordered
    <3>1. CASE Parent(c) = 1
      BY <2>3, <3>1 DEF Sunk
    <3>2. CASE Parent(c) # 1
      BY <2>2, <3>2 DEF OrderedBut
    <3> QED
      BY <3>1, <3>2
  <2> QED
    BY <1>1, <1>2, <2>2, <2>6, <2>7, PoppedOff
<1> QED
  BY <1>3, <1>4

LEMMA HeapRemoved ==
  ASSUME NEW K, NEW h, HeapOK(h, K), NEW i \in DOMAIN h.slots
  PROVE  Without(h, Lfu!HeapRemove(h, i), h.slots[i], K)
<1> PICK n \in Nat : n = Len(h.slots) /\ DOMAIN h.slots = 1 .. n /\ i \in 1 .. n
  BY HeapTypes, Zenon DEF HeapOK
<1>1. Placed(h, K) /\ n > 0
  BY DEF HeapOK
<1>2. CASE i = n
  <2>1. Lfu!HeapRemove(h, i) = Lfu!Pop(h)
    BY <1>2 DEF Lfu!HeapRemove
  <2>2. Ordered(Weights(h, n - 1), n - 1)
    <3> SUFFICES ASSUME NEW c \in 2 .. n - 1 PROVE InOrder(Weights(h, n - 1), c)
      BY DEF Ordered
    <3>1. c \in 2 .. n /\ c \in 1 .. n - 1 /\ n - 1 \in Nat
      OBVIOUS
    <3>2. Parent(c) \in 1 .. n - 1
      BY <3>1, Parents
    <3>3. InOrder(Weights(h, n), c)
      BY <3>1 DEF HeapOK, Ordered
    <3>4. \A m \in 1 .. n - 1 : Weights(h, n - 1)[m] = Weights(h, n)[m]
      BY DEF Weights
    <3> QED
      BY <3>1, <3>2, <3>3, <3>4 DEF InOrder
  <2> QED
    BY <1>1, <1>2, <2>1, <2>2, Popping
<1>3. CASE i # n
  <2> PICK g : g = Lfu!Swap(h, i, n)
    OBVIOUS
  <2> PICK d : d = Lfu!Sift(g, i, n - 1)
    OBVIOUS
  <2>1. Lfu!HeapRemove(h, i) = Lfu!Pop(d)
    BY <1>3 DEF Lfu!HeapRemove
  <2>2. i \in 1 .. n - 1 /\ n - 1 \in Nat
    BY <1>3
  <2>3. /\ Rearranged(h, g, K, n) /\ Len(g.slots) = n /\ g.slots[n] = h.slots[i]
        /\ OrderedBut(Weights(g, n - 1), n - 1, i)
    BY <2>2, LastSwapped
  <2>4. Placed(g, K) /\ n - 1 <= Len(g.slots)
    BY <2>3 DEF Rearranged
  <2>5. Rearranged(g, d, K, n - 1) /\ Ordered(Weights(d, n - 1), n - 1)
    BY <2>2, <2>3, <2>4, Sifted
  <2> QED
    BY <1>1, <2>1, <2>3, <2>5, PoppedOff
<1> QED
  BY <1>2, <1>3

\* The heap h in which the key k has been used once more, before its order is restored.
Used(h, k) == [slots |-> h.slots, freq |-> [h.freq EXCEPT ![k] = h.freq[k] + 1],
               index |-> h.index]

\* A use of a key is counted.
LEMMA HeapFixed ==
  ASSUME NEW K, NEW h, HeapOK(h, K), NEW k \in ToSet(h.slots)
  PROVE  LET g == Lfu!HeapFix(Used(h, k), h.index[k]) IN
         /\ HeapOK(g, K) /\ Len(g.slots) = Len(h.slots) /\ ToSet(g.slots) = ToSet(h.slots)
         /\ g.freq = [h.freq EXCEPT ![k] = h.freq[k] + 1]
<1> PICK s \in Seq(K), x \in [K -> Nat], f \in [K -> Nat] : s = h.slots /\ x = h.index /\ f = h.freq
  BY HeapTypes DEF HeapOK
<1> PICK n \in Nat : n = Len(s) /\ DOMAIN s = 1 .. n
  OBVIOUS
<1>2. Placed(h, K) /\ Ordered(Weights(h, n), n)
  BY DEF HeapOK
<1> PICK i \in 1 .. n : s[i] = k
  BY DEF ToSet
<1>i. x[k] = i /\ k \in K
  <2>1. x[s[i]] = i
    BY <1>2 DEF Placed
  <2>2. s[i] \in K
    OBVIOUS
  <2> QED
    BY <2>1, <2>2
<1> PICK u \in Nat : u = f[k] + 1
  <2>1. f[k] \in Nat
    BY <1>i
  <2> QED
    BY <2>1
<1> PICK e \in [K -> Nat] : e = [f EXCEPT ![k] = u]
  OBVIOUS
<1> PICK c : c = [slots |-> s, freq |-> e, index |-> x]
  OBVIOUS
<1>1. Used(h, k) = c
  BY DEF Used
<1>3. c \in Heaps(K) /\ c.slots = s /\ c.index = x /\ c.freq = e
  BY DEF Heaps
<1>4. Placed(c, K)
  BY <1>2, <1>3 DEF Placed
<1>len. n <= Len(h.slots) /\ n <= Len(c.slots) /\ n <= n
  BY <1>3
<1> PICK w \in [1 .. n -> Nat] : w = Weights(h, n)
  BY <1>2, <1>len, HeapTypes
<1> PICK v \in [1 .. n -> Nat] : v = Weights(c, n)
  BY <1>4, <1>len, HeapTypes
<1>5. ASSUME NEW j \in 1 .. n, j # i PROVE v[j] = w[j]
  <2>1. s[j] # k
    BY <1>2, <1>5 DEF Placed, Distinct
  <2>2. v[j] = e[s[j]] /\ w[j] = f[s[j]]
    BY <1>3 DEF Weights
  <2>3. s[j] \in K
    OBVIOUS
  <2> QED
    BY <2>1, <2>2, <2>3
<1>6. OrderedBut(v, n, i)
  <2>1. \A j \in 1 .. n : j # i => v[j] = w[j]
    BY <1>5
  <2>2. Ordered(w, n)
    BY <1>2
  <2> QED
    BY ONLY n \in Nat, n <= n, w \in [1 .. n -> Nat], v \in [1 .. n -> Nat], i \in 1 .. n,
            <2>1, <2>2, Disturbed
<1> PICK g : g = Lfu!Sift(c, i, n)
  OBVIOUS
<1>7. Rearranged(c, g, K, n) /\ Ordered(Weights(g, n), n)
  BY <1>4, <1>6, <1>len, Sifted
<1>8. Lfu!HeapFix(Used(h, k), h.index[k]) = g
  BY <1>i, <1>1, <1>3 DEF Lfu!HeapFix
<1>9. /\ Placed(g, K) /\ Len(g.slots) = n /\ ToSet(g.slots) = ToSet(s)
      /\ g.freq = [h.freq EXCEPT ![k] = h.freq[k] + 1]
  BY <1>3, <1>7 DEF Rearranged
<1> QED
  BY <1>7, <1>8, <1>9 DEF HeapOK

-----------------------------------------------------------------------------
(* What the LFU cache keeps *)

Grown(i, k, e) == [l \in DOMAIN i \cup {k} |-> IF l = k THEN e ELSE i[l]]
Cut(i, k)      == [l \in DOMAIN i \ {k} |-> i[l]]

\* The variables of a heap become those of h.
AsHeap(h) == [slots |-> h.slots, freq |-> h.freq, index |-> h.index]

\* The items i, of keys in K and entries in E, beside the heap h.
Stored(i, h, K, E, cap) ==
  /\ i \in [DOMAIN i -> E] /\ DOMAIN i \subseteq K
  /\ HeapOK(h, K) /\ ToSet(h.slots) = DOMAIN i /\ Len(h.slots) <= cap

LEMMA HeapIsRecord ==
  ASSUME NEW K, NEW h, HeapOK(h, K)
  PROVE  AsHeap(h) = h
BY DEF HeapOK, Placed, Heaps, AsHeap

\* As many items as places.
LEMMA StoredCount ==
  ASSUME NEW i, NEW h, NEW K, NEW E, NEW cap \in Nat, Stored(i, h, K, E, cap)
  PROVE  /\ IsFiniteSet(DOMAIN i) /\ Cardinality(DOMAIN i) = Len(h.slots)
         /\ Len(h.slots) \in Nat
         /\ \A k : k \notin DOMAIN i => Cardinality(DOMAIN i \cup {k}) = Len(h.slots) + 1
<1> PICK s \in Seq(K) : s = h.slots
  BY HeapTypes DEF Stored, HeapOK
<1>1. Distinct(s) /\ ToSet(s) = DOMAIN i
  BY DEF Stored, HeapOK, Placed
<1>2. IsFiniteSet(DOMAIN i) /\ Cardinality(DOMAIN i) = Len(s)
  BY <1>1, CountOf
<1>3. ASSUME NEW k, k \notin DOMAIN i PROVE Cardinality(DOMAIN i \cup {k}) = Len(s) + 1
  BY <1>2, <1>3, FS_AddElement
<1> QED
  BY <1>2, <1>3

\* A use, with or without a new value.
LEMMA StoredUse ==
  ASSUME NEW i, NEW h, NEW K, NEW E, NEW cap \in Nat, Stored(i, h, K, E, cap),
         NEW k \in DOMAIN i, NEW j \in [DOMAIN i -> E], NEW g,
         g = AsHeap(Lfu!HeapFix(Used(h, k), h.index[k]))
  PROVE  Stored(j, g, K, E, cap)
<1> PICK d : d = Lfu!HeapFix(Used(h, k), h.index[k])
  OBVIOUS
<1>1. HeapOK(h, K) /\ k \in ToSet(h.slots)
  BY DEF Stored
<1>2. HeapOK(d, K) /\ Len(d.slots) = Len(h.slots) /\ ToSet(d.slots) = ToSet(h.slots)
  BY <1>1, HeapFixed
<1>3. g = d
  BY <1>2, HeapIsRecord
<1>4. DOMAIN j = DOMAIN i
  OBVIOUS
<1> QED
  BY <1>2, <1>3, <1>4 DEF Stored

LEMMA StoredCut ==
  ASSUME NEW i, NEW h, NEW K, NEW E, NEW cap \in Nat, Stored(i, h, K, E, cap),
         NEW k \in DOMAIN i, NEW g, g = AsHeap(Lfu!HeapRemove(h, h.index[k]))
  PROVE  Stored(Cut(i, k), g, K, E, cap)
<1> PICK d : d = Lfu!HeapRemove(h, h.index[k])
  OBVIOUS
<1> PICK s \in Seq(K) : s = h.slots
  BY HeapTypes DEF Stored, HeapOK
<1> PICK x : x = h.index
  OBVIOUS
<1>1. HeapOK(h, K) /\ ToSet(s) = DOMAIN i /\ Len(s) <= cap /\ Len(s) \in Nat
  BY DEF Stored
<1> PICK p \in DOMAIN s : s[p] = k
  BY <1>1 DEF ToSet
<1>2. x[k] = p
  BY <1>1 DEF HeapOK, Placed
<1>3. Without(h, d, k, K)
  BY <1>1, <1>2, HeapRemoved
<1>4. HeapOK(d, K) /\ Len(d.slots) = Len(s) - 1 /\ ToSet(d.slots) = ToSet(s) \ {k}
  BY <1>3 DEF Without
<1>5. g = d
  BY <1>4, HeapIsRecord
<1>6. DOMAIN Cut(i, k) = DOMAIN i \ {k} /\ Cut(i, k) \in [DOMAIN i \ {k} -> E]
  BY DEF Cut, Stored
<1>7. DOMAIN i \subseteq K
  BY DEF Stored
<1>8. Len(d.slots) <= cap
  BY <1>1, <1>4
<1> QED
  BY <1>1, <1>4, <1>5, <1>6, <1>7, <1>8 DEF Stored

\* A new key while there is room.
LEMMA StoredGrown ==
  ASSUME NEW i, NEW h, NEW K, NEW E, NEW cap \in Nat, Stored(i, h, K, E, cap),
         NEW k \in K, k \notin DOMAIN i, NEW e \in E,
         ~(Cardinality(DOMAIN i \cup {k}) > cap), NEW g, g = AsHeap(Lfu!HeapPush(h, k))
  PROVE  Stored(Grown(i, k, e), g, K, E, cap) /\ Cardinality(DOMAIN i) < cap
<1> PICK p : p = Lfu!HeapPush(h, k)
  OBVIOUS
<1> PICK n \in Nat : n = Len(h.slots) /\ Cardinality(DOMAIN i) = n /\ n + 1 <= cap
  BY StoredCount
<1>1. HeapOK(h, K) /\ k \notin ToSet(h.slots) /\ ToSet(h.slots) = DOMAIN i
  BY DEF Stored
<1>2. HeapOK(p, K) /\ Len(p.slots) = n + 1 /\ ToSet(p.slots) = DOMAIN i \cup {k}
  <2>1. /\ HeapOK(p, K) /\ Len(p.slots) = Len(h.slots) + 1
        /\ ToSet(p.slots) = ToSet(h.slots) \cup {k}
    BY ONLY <1>1, k \in K, p = Lfu!HeapPush(h, k), Pushing
  <2> QED
    BY <1>1, <2>1
<1>3. g = p
  BY <1>2, HeapIsRecord
<1>4. DOMAIN Grown(i, k, e) = DOMAIN i \cup {k} /\ Grown(i, k, e) \in [DOMAIN i \cup {k} -> E]
  BY DEF Grown, Stored
<1>5. DOMAIN i \cup {k} \subseteq K
  BY DEF Stored
<1>6. n + 1 <= cap /\ n < cap
  OBVIOUS
<1> QED
  BY <1>2, <1>3, <1>4, <1>5, <1>6 DEF Stored

\* A new key pushes the first of the heap out.
Evicted(i, h, j, g, q, k, e, cap) ==
  /\ Cardinality(DOMAIN i \cup {k}) > cap
  /\ j = Cut(Grown(i, k, e), Head(Lfu!HeapPush(h, k).slots))
  /\ g = AsHeap(Lfu!HeapPop(Lfu!HeapPush(h, k))) /\ q = <<"set", k>>

\* The key l, in the heap or new, goes, which was used no more than the rest.
Least(i, h, g, k, l, cap) ==
  /\ Cardinality(DOMAIN i) >= cap /\ l \in DOMAIN i \cup {k}
  /\ l # k => \A m \in (DOMAIN i \cup {k}) \ {l} : h.freq[l] <= g.freq[m]

\* A new key in a full cache: the first of the heap goes, which was used no more than the rest.
LEMMA StoredEvicted ==
  ASSUME NEW i, NEW h, NEW j, NEW g, NEW q, NEW K, NEW E, NEW cap \in Nat,
         Stored(i, h, K, E, cap), NEW k \in K, k \notin DOMAIN i, NEW e \in E,
         Evicted(i, h, j, g, q, k, e, cap)
  PROVE  /\ Stored(j, g, K, E, cap)
         /\ Least(i, h, g, k, Head(Lfu!HeapPush(h, k).slots), cap)
<1> PICK l : l = Head(Lfu!HeapPush(h, k).slots)
  OBVIOUS
<1>0. /\ Cardinality(DOMAIN i \cup {k}) > cap /\ j = Cut(Grown(i, k, e), l)
      /\ g = AsHeap(Lfu!HeapPop(Lfu!HeapPush(h, k)))
  BY DEF Evicted
<1> PICK p : p = Lfu!HeapPush(h, k)
  OBVIOUS
<1> PICK d : d = Lfu!HeapPop(p)
  OBVIOUS
<1> PICK n \in Nat : n = Len(h.slots) /\ Cardinality(DOMAIN i) = n /\ n + 1 > cap /\ n <= cap
  BY <1>0, StoredCount DEF Stored
<1>1. HeapOK(h, K) /\ k \notin ToSet(h.slots) /\ ToSet(h.slots) = DOMAIN i
  BY DEF Stored
<1>2. /\ HeapOK(p, K) /\ Len(p.slots) = n + 1 /\ ToSet(p.slots) = DOMAIN i \cup {k}
      /\ p.freq = [h.freq EXCEPT ![k] = 1]
  <2>1. /\ HeapOK(p, K) /\ Len(p.slots) = Len(h.slots) + 1
        /\ ToSet(p.slots) = ToSet(h.slots) \cup {k} /\ p.freq = [h.freq EXCEPT ![k] = 1]
    BY ONLY <1>1, k \in K, p = Lfu!HeapPush(h, k), Pushing
  <2> QED
    BY <1>1, <2>1
<1> PICK s \in Seq(K) : s = p.slots
  BY <1>2, HeapTypes DEF HeapOK
<1>3. s # << >> /\ DOMAIN s = 1 .. n + 1 /\ Len(s) = n + 1 /\ s[1] = l
  BY <1>2
<1>4. Without(p, d, l, K)
  BY <1>2, <1>3, HeapPopped
<1>5. /\ HeapOK(d, K) /\ Len(d.slots) = n /\ ToSet(d.slots) = (DOMAIN i \cup {k}) \ {l}
      /\ d.freq = [p.freq EXCEPT ![l] = 0]
  BY <1>2, <1>3, <1>4 DEF Without
<1>6. g = d
  BY <1>0, <1>5, HeapIsRecord
<1>7. DOMAIN Grown(i, k, e) = DOMAIN i \cup {k} /\ Grown(i, k, e) \in [DOMAIN i \cup {k} -> E]
  BY DEF Grown, Stored
<1>8. DOMAIN i \subseteq K /\ h.freq \in [K -> Nat]
  BY <1>1, HeapTypes DEF Stored, HeapOK
<1>9. l \in DOMAIN i \cup {k}
  BY <1>2, <1>3 DEF ToSet
<1>10. Stored(j, g, K, E, cap)
  <2> PICK w : w = Grown(i, k, e)
    OBVIOUS
  <2>1. /\ DOMAIN Cut(w, l) = (DOMAIN i \cup {k}) \ {l}
        /\ Cut(w, l) \in [(DOMAIN i \cup {k}) \ {l} -> E]
    BY <1>7 DEF Cut
  <2> QED
    BY <1>0, <1>5, <1>6, <1>8, <2>1 DEF Stored
<1>11. ASSUME l # k, NEW m \in (DOMAIN i \cup {k}) \ {l} PROVE h.freq[l] <= g.freq[m]
  <2>1. PICK c \in 1 .. n + 1 : s[c] = m
    BY <1>2, <1>3 DEF ToSet
  <2> PICK w \in [1 .. n + 1 -> Nat] : w = Weights(p, n + 1)
    <3>1. n + 1 <= Len(p.slots) /\ n + 1 \in Nat
      BY <1>2
    <3> QED
      BY <1>2, <3>1, HeapTypes DEF HeapOK
  <2>2. w[1] <= w[c]
    <3>1. Ordered(w, n + 1) /\ n + 1 \in Nat
      BY <1>2 DEF HeapOK
    <3> QED
      BY <3>1, RootLeast
  <2>3. w[1] = p.freq[l] /\ w[c] = p.freq[m]
    BY <1>3, <2>1 DEF Weights
  <2>4. l \in K /\ m \in K
    BY <1>8, <1>9, <1>11
  <2>5. p.freq[l] = h.freq[l] /\ g.freq[m] = p.freq[m]
    <3>1. p.freq \in [K -> Nat]
      BY <1>2, <1>8
    <3> QED
      BY <1>2, <1>5, <1>6, <1>8, <1>11, <2>4, <3>1
  <2> QED
    BY <2>2, <2>3, <2>5
<1> QED
  BY <1>9, <1>10, <1>11 DEF Least

LEMMA StoredNothing ==
  ASSUME NEW K, NEW E, NEW cap \in Nat
  PROVE  Stored([k \in {} |-> 0],
                [slots |-> << >>, freq |-> [k \in K |-> 0], index |-> [k \in K |-> 0]], K, E, cap)
<1> PICK h : h = [slots |-> << >>, freq |-> [k \in K |-> 0], index |-> [k \in K |-> 0]]
  OBVIOUS
<1> PICK i : i = [k \in {} |-> 0]
  OBVIOUS
<1>1. h.slots = << >> /\ h.index = [k \in K |-> 0] /\ h \in Heaps(K)
  BY DEF Heaps
<1>2. DOMAIN i = {} /\ i \in [DOMAIN i -> E]
  OBVIOUS
<1>3. ToSet(h.slots) = {} /\ DOMAIN h.slots = {} /\ Len(h.slots) = 0
  BY <1>1 DEF ToSet
<1>4. Placed(h, K)
  BY <1>1, <1>3 DEF Placed, Distinct
<1>5. HeapOK(h, K)
  <2>1. \A c : c \notin 2 .. 0
    OBVIOUS
  <2> QED
    BY <1>3, <1>4, <2>1 DEF HeapOK, Ordered
<1>6. 0 <= cap
  OBVIOUS
<1> QED
  BY <1>2, <1>3, <1>5, <1>6 DEF Stored

-----------------------------------------------------------------------------
(* LruCache *)

\* The list has the keys of the map, each once, in the order in which they were used last.
LruStore ==
  /\ items \in [DOMAIN items -> Entries] /\ DOMAIN items \subseteq Keys
  /\ list \in Seq(Keys) /\ Distinct(list)
  /\ ToSet(list) = DOMAIN items /\ Len(list) <= Capacity
  /\ recent \in Seq(Keys) /\ Distinct(recent) /\ DOMAIN items \subseteq ToSet(recent)
  /\ \A x, y : Before(x, y, list) => Before(x, y, recent)
  /\ reply[1] = "set" => reply[2] \in DOMAIN items \/ DOMAIN items = {}

LruLoads ==
  /\ now \in 0 .. MaxTime
  /\ loading \in [Loaders -> Keys \cup {None}] /\ loaded \in [Loaders -> Values \cup {None}]
  /\ \A c \in Loaders : loaded[c] # None => loading[c] # None

LruInv == LruStore /\ LruLoads

LEMMA LruInit == Init => LruInv
<1> SUFFICES ASSUME Init PROVE LruInv
  OBVIOUS
<1>1. /\ items = [k \in {} |-> 0] /\ list = << >> /\ recent = << >> /\ reply = <<"none">>
      /\ now = 1 /\ loading = [c \in Loaders |-> None] /\ loaded = [c \in Loaders |-> None]
  BY DEF Init
<1>2. DOMAIN items = {} /\ DOMAIN list = {} /\ ToSet(list) = {} /\ Len(list) = 0
  BY <1>1 DEF ToSet
<1>3. LruStore
  BY <1>1, <1>2, LruAssumption DEF LruStore, Distinct, Before
<1>4. LruLoads
  BY <1>1, LruAssumption DEF LruLoads
<1> QED
  BY <1>3, <1>4 DEF LruInv

LEMMA EntryType ==
  ASSUME LruLoads, NEW v \in Values, NEW ttl \in TTLs
  PROVE  Entry(v, ttl) \in Entries
BY LruAssumption DEF LruLoads, Entry, Entries

\* A hit, or a look-up that removes what has expired.
LEMMA Dropping ==
  ASSUME LruStore, NEW k, Drop(k), recent' = recent, reply'[1] # "set"
  PROVE  LruStore'
<1>1. /\ items' = [l \in DOMAIN items \ {k} |-> items[l]] /\ list' = RemoveFirst(list, k)
  BY DEF Drop, Restrict
<1>2. list \in Seq(Keys) /\ Distinct(list)
  BY DEF LruStore
<1>3. /\ list' \in Seq(Keys) /\ Distinct(list') /\ ToSet(list') = ToSet(list) \ {k}
      /\ \A x, y : Before(x, y, list') => Before(x, y, list)
      /\ Len(list') <= Len(list)
  BY <1>1, <1>2, Removing
<1>4. items' \in [DOMAIN items' -> Entries] /\ DOMAIN items' = DOMAIN items \ {k}
  BY <1>1 DEF LruStore
<1>5. Len(list') <= Capacity
  BY <1>2, <1>3, LruAssumption DEF LruStore
<1> QED
  BY <1>3, <1>4, <1>5 DEF LruStore

LEMMA GetStep ==
  ASSUME LruStore, NEW k \in Keys, Get(k)
  PROVE  LruStore' /\ reply'[1] # "set"
<1>1. \/ /\ k \in DOMAIN items /\ reply' = <<"hit", k, items[k].value>>
         /\ list' = ToFront(list, k) /\ recent' = ToFront(recent, k) /\ items' = items
      \/ Drop(k) /\ reply' = <<"miss", k>> /\ recent' = recent
  BY DEF Get, Use
<1>2. reply'[1] # "set"
  BY <1>1
<1>3. CASE Drop(k) /\ recent' = recent
  BY <1>2, <1>3, Dropping
<1>4. CASE /\ k \in DOMAIN items /\ list' = ToFront(list, k) /\ recent' = ToFront(recent, k)
           /\ items' = items
  <2>1. list \in Seq(Keys) /\ Distinct(list) /\ recent \in Seq(Keys) /\ Distinct(recent)
    BY DEF LruStore
  <2>2. /\ list' \in Seq(Keys) /\ Distinct(list') /\ ToSet(list') = ToSet(list) \cup {k}
        /\ \A x, y : Before(x, y, list') <=>
             (x = k /\ y \in ToSet(list) \ {k}) \/ (x # k /\ y # k /\ Before(x, y, list))
        /\ k \in ToSet(list) => Len(list') = Len(list)
    BY <1>4, <2>1, Moved
  <2>3. /\ recent' \in Seq(Keys) /\ Distinct(recent') /\ ToSet(recent') = ToSet(recent) \cup {k}
        /\ \A x, y : Before(x, y, recent') <=>
             (x = k /\ y \in ToSet(recent) \ {k}) \/ (x # k /\ y # k /\ Before(x, y, recent))
    BY <1>4, <2>1, Moved
  <2>4. \A x, y : Before(x, y, list') => Before(x, y, recent')
    BY <2>2, <2>3 DEF LruStore
  <2>5. ToSet(list') = DOMAIN items /\ Len(list') <= Capacity
    BY <1>4, <2>2 DEF LruStore
  <2> QED
    BY <1>2, <1>4, <2>2, <2>3, <2>4, <2>5 DEF LruStore
<1> QED
  BY <1>1, <1>2, <1>3, <1>4

\* What a Set leaves: the key and its entry, but for the key l that is pushed out.
SetOne(k, e, l) ==
  /\ items' = [m \in (DOMAIN items \cup {k}) \ {l} |-> IF m = k THEN e ELSE items[m]]
  /\ l \in DOMAIN items \cup {k} /\ Cardinality(DOMAIN items) >= Capacity
  /\ k \notin DOMAIN items
  /\ \A m \in DOMAIN items' : Before(m, l, recent')

SetAll(k, e) ==
  /\ items' = [m \in DOMAIN items \cup {k} |-> IF m = k THEN e ELSE items[m]]
  /\ k \in DOMAIN items \/ Cardinality(DOMAIN items) < Capacity

LEMMA SetStep ==
  ASSUME LruStore, NEW k \in Keys, NEW v \in Values, NEW ttl \in TTLs, Entry(v, ttl) \in Entries,
         SetWithTTL(k, v, ttl)
  PROVE  /\ LruStore' /\ reply' = <<"set", k>>
         /\ SetAll(k, Entry(v, ttl)) \/ \E l : SetOne(k, Entry(v, ttl), l)
<1> PICK e \in Entries : e = Entry(v, ttl)
  OBVIOUS
<1> PICK pushed : pushed = <<k>> \o list
  OBVIOUS
<1> PICK grown : grown = Put(k, e)
  OBVIOUS
<1>1. /\ \/ /\ k \in DOMAIN items /\ items' = [items EXCEPT ![k] = e]
            /\ list' = ToFront(list, k)
         \/ /\ k \notin DOMAIN items /\ Len(pushed) > Capacity
            /\ list' = Front(pushed)
            /\ items' = Restrict(grown, DOMAIN grown \ {Last(pushed)})
         \/ /\ k \notin DOMAIN items /\ ~(Len(pushed) > Capacity)
            /\ list' = pushed /\ items' = grown
      /\ recent' = ToFront(recent, k) /\ reply' = <<"set", k>>
  BY DEF SetWithTTL, Use
<1>2. /\ list \in Seq(Keys) /\ Distinct(list) /\ recent \in Seq(Keys) /\ Distinct(recent)
      /\ ToSet(list) = DOMAIN items /\ Len(list) <= Capacity /\ Len(list) \in Nat
      /\ DOMAIN items \subseteq ToSet(recent)
      /\ \A x, y : Before(x, y, list) => Before(x, y, recent)
      /\ items \in [DOMAIN items -> Entries] /\ DOMAIN items \subseteq Keys
  BY DEF LruStore
<1>3. /\ recent' \in Seq(Keys) /\ Distinct(recent') /\ ToSet(recent') = ToSet(recent) \cup {k}
      /\ \A x, y : Before(x, y, recent') <=>
           (x = k /\ y \in ToSet(recent) \ {k}) \/ (x # k /\ y # k /\ Before(x, y, recent))
  BY <1>1, <1>2, Moved
<1>4. Cardinality(DOMAIN items) = Len(list)
  BY <1>2, CountOf
<1>5. grown = [m \in DOMAIN items \cup {k} |-> IF m = k THEN e ELSE items[m]]
  BY DEF Put
<1>6. CASE k \in DOMAIN items /\ items' = [items EXCEPT ![k] = e] /\ list' = ToFront(list, k)
  <2>1. /\ list' \in Seq(Keys) /\ Distinct(list') /\ ToSet(list') = ToSet(list) \cup {k}
        /\ \A x, y : Before(x, y, list') <=>
             (x = k /\ y \in ToSet(list) \ {k}) \/ (x # k /\ y # k /\ Before(x, y, list))
        /\ k \in ToSet(list) => Len(list') = Len(list)
    BY <1>2, <1>6, Moved
  <2>2. \A x, y : Before(x, y, list') => Before(x, y, recent')
    BY <1>2, <1>3, <2>1
  <2>3. DOMAIN items' = DOMAIN items /\ items' \in [DOMAIN items' -> Entries]
    BY <1>2, <1>6
  <2>4. ToSet(list') = DOMAIN items' /\ Len(list') <= Capacity
    BY <1>2, <1>6, <2>1, <2>3
  <2>5. SetAll(k, e)
    <3>1. items' = [m \in DOMAIN items \cup {k} |-> IF m = k THEN e ELSE items[m]]
      BY <1>2, <1>6
    <3> QED
      BY <1>6, <3>1 DEF SetAll
  <2>6. reply'[1] = "set" => reply'[2] \in DOMAIN items'
    BY <1>1, <1>6, <2>3
  <2>7. DOMAIN items' \subseteq Keys /\ DOMAIN items' \subseteq ToSet(recent')
    BY <1>2, <1>3, <2>3
  <2>8. LruStore'
    BY <1>3, <2>1, <2>2, <2>3, <2>4, <2>6, <2>7 DEF LruStore
  <2> QED
    BY <1>1, <2>5, <2>8
<1>7. ASSUME k \notin DOMAIN items
      PROVE  /\ pushed \in Seq(Keys) /\ Distinct(pushed) /\ Len(pushed) = Len(list) + 1
             /\ ToSet(pushed) = ToSet(list) \cup {k}
             /\ \A x, y : Before(x, y, pushed) => Before(x, y, recent')
  <2>1. /\ pushed \in Seq(Keys) /\ Distinct(pushed) /\ Len(pushed) = Len(list) + 1
        /\ ToSet(pushed) = ToSet(list) \cup {k}
        /\ \A x, y : Before(x, y, pushed) <=> (x = k /\ y \in ToSet(list)) \/ Before(x, y, list)
    BY <1>2, <1>7, Fronted
  <2>2. \A x, y : Before(x, y, list) => x \in ToSet(list) /\ y \in ToSet(list)
    BY DEF Before, ToSet
  <2>3. ASSUME NEW x, NEW y, Before(x, y, pushed) PROVE Before(x, y, recent')
    <3>1. CASE x = k /\ y \in ToSet(list)
      BY <1>2, <1>3, <1>7, <3>1
    <3>2. CASE Before(x, y, list)
      BY <1>2, <1>3, <1>7, <2>2, <3>2
    <3> QED
      BY <2>1, <2>3, <3>1, <3>2
  <2> QED
    BY <2>1, <2>3
<1>8. CASE k \notin DOMAIN items /\ ~(Len(pushed) > Capacity) /\ list' = pushed /\ items' = grown
  <2>1. DOMAIN items' = DOMAIN items \cup {k} /\ items' \in [DOMAIN items' -> Entries]
    BY <1>2, <1>5, <1>8
  <2>2. Len(list') <= Capacity /\ Len(list) < Capacity
    BY <1>2, <1>7, <1>8, LruAssumption
  <2>3. SetAll(k, e)
    BY <1>4, <1>5, <1>8, <2>2 DEF SetAll
  <2>4. reply'[1] = "set" => reply'[2] \in DOMAIN items'
    BY <1>1, <2>1
  <2>5. DOMAIN items' \subseteq Keys /\ DOMAIN items' \subseteq ToSet(recent')
    BY <1>2, <1>3, <2>1
  <2>6. ToSet(list') = DOMAIN items'
    BY <1>2, <1>7, <1>8, <2>1
  <2>7. LruStore'
    BY <1>3, <1>7, <1>8, <2>1, <2>2, <2>4, <2>5, <2>6 DEF LruStore
  <2> QED
    BY <1>1, <2>3, <2>7
<1>9. CASE /\ k \notin DOMAIN items /\ Len(pushed) > Capacity
           /\ list' = Front(pushed)
           /\ items' = Restrict(grown, DOMAIN grown \ {Last(pushed)})
  <2> PICK l : l = Last(pushed)
    OBVIOUS
  <2>1. pushed # << >> /\ Len(pushed) = Len(list) + 1
    BY <1>2, <1>7, <1>9
  <2>2. /\ list' \in Seq(Keys) /\ Distinct(list') /\ Len(list') = Len(pushed) - 1
        /\ l \in ToSet(pushed) /\ ToSet(list') = ToSet(pushed) \ {l}
        /\ \A x, y : Before(x, y, list') => Before(x, y, pushed)
        /\ \A x \in ToSet(list') : Before(x, l, pushed)
    BY <1>7, <1>9, <2>1, Shortened
  <2>3. items' = [m \in (DOMAIN items \cup {k}) \ {l} |-> IF m = k THEN e ELSE items[m]]
    <3>1. DOMAIN grown = DOMAIN items \cup {k}
      BY <1>5
    <3>2. \A m \in DOMAIN grown : grown[m] = IF m = k THEN e ELSE items[m]
      BY <1>5
    <3>3. items' = [m \in DOMAIN grown \ {l} |-> grown[m]]
      BY <1>9 DEF Restrict
    <3> QED
      BY <3>1, <3>2, <3>3
  <2>4. DOMAIN items' = (DOMAIN items \cup {k}) \ {l} /\ items' \in [DOMAIN items' -> Entries]
    BY <1>2, <2>3
  <2>5. Len(list') <= Capacity /\ Len(list) >= Capacity
    BY <1>2, <1>9, <2>1, <2>2, LruAssumption
  <2>6. ToSet(list') = DOMAIN items' /\ l \in DOMAIN items \cup {k}
    BY <1>2, <1>7, <1>9, <2>2, <2>4
  <2>7. SetOne(k, e, l)
    BY <1>4, <1>7, <1>9, <2>2, <2>3, <2>5, <2>6 DEF SetOne
  <2>8. k \in DOMAIN items' \/ DOMAIN items' = {}
    <3> SUFFICES ASSUME NEW m \in DOMAIN items', k \notin DOMAIN items' PROVE FALSE
      OBVIOUS
    <3>1. l = k
      BY <2>4
    <3>2. Before(m, k, recent')
      BY <1>7, <1>9, <2>2, <2>6, <3>1
    <3> QED
      BY <1>3, <3>2
  <2>9. DOMAIN items' \subseteq Keys /\ DOMAIN items' \subseteq ToSet(recent')
    BY <1>2, <1>3, <2>4
  <2>10. reply'[1] = "set" => reply'[2] \in DOMAIN items' \/ DOMAIN items' = {}
    BY <1>1, <2>8
  <2>11. \A x, y : Before(x, y, list') => Before(x, y, recent')
    BY <1>7, <1>9, <2>2
  <2>12. LruStore'
    BY <1>3, <2>2, <2>4, <2>5, <2>6, <2>9, <2>10, <2>11 DEF LruStore
  <2> QED
    BY <1>1, <2>7, <2>12
<1> QED
  BY <1>1, <1>6, <1>8, <1>9

LEMMA LruLoadsStep ==
  ASSUME LruInv, [Next]_vars
  PROVE  LruLoads'
<1> USE DEF LruInv
<1>1. /\ now \in 0 .. MaxTime /\ loading \in [Loaders -> Keys \cup {None}]
      /\ loaded \in [Loaders -> Values \cup {None}]
      /\ \A c \in Loaders : loaded[c] # None => loading[c] # None
  BY DEF LruLoads
<1>2. CASE UNCHANGED <<loading, loaded>> /\ (now' = now \/ (now < MaxTime /\ now' = now + 1))
  BY <1>1, <1>2, LruAssumption DEF LruLoads
<1>3. ASSUME NEW c \in Loaders, NEW k \in Keys, BeginLoad(c, k) PROVE LruLoads'
  <2>1. /\ loading[c] = None /\ loaded' = loaded /\ now' = now
        /\ \E x \in Keys \cup {None} : loading' = [loading EXCEPT ![c] = x]
    BY <1>3 DEF BeginLoad
  <2> QED
    BY <1>1, <2>1 DEF LruLoads
<1>4. ASSUME NEW c \in Loaders, Load(c) PROVE LruLoads'
  <2>1. /\ loading[c] # None /\ loaded[c] = None /\ now' = now
        /\ \/ (\E v \in Values : loaded' = [loaded EXCEPT ![c] = v]) /\ loading' = loading
           \/ loading' = [loading EXCEPT ![c] = None] /\ loaded' = loaded
    BY <1>4 DEF Load
  <2> QED
    BY <1>1, <2>1 DEF LruLoads
<1>5. ASSUME NEW c \in Loaders, NEW ttl \in TTLs, StoreLoaded(c, ttl) PROVE LruLoads'
  <2>1. /\ loading' = [loading EXCEPT ![c] = None] /\ loaded' = [loaded EXCEPT ![c] = None]
        /\ now' = now
    BY <1>5 DEF StoreLoaded
  <2> QED
    BY <1>1, <2>1 DEF LruLoads
<1>6. ASSUME NEW k \in Keys, CallGet(k) \/ Delete(k) PROVE LruLoads'
  BY <1>2, <1>6 DEF CallGet, Delete, loadVars
<1>7. ASSUME NEW k \in Keys, NEW v \in Values, NEW ttl \in TTLs, CallSet(k, v, ttl) PROVE LruLoads'
  BY <1>2, <1>7 DEF CallSet, loadVars
<1>8. CASE Clear \/ ListKeys \/ CallLen \/ Tick \/ UNCHANGED vars
  BY <1>2, <1>8 DEF Clear, ListKeys, CallLen, Tick, vars, loadVars
<1> QED
  BY <1>3, <1>4, <1>5, <1>6, <1>7, <1>8 DEF Next

\* What a step does to the store.
LEMMA Steps ==
  ASSUME LruInv, [Next]_vars
  PROVE  \/ \E k \in Keys : Get(k)
         \/ \E k \in Keys, v \in Values, ttl \in TTLs : SetWithTTL(k, v, ttl)
         \/ \E k \in Keys : Drop(k) /\ reply' = <<"delete", k>> /\ recent' = recent
         \/ items' = [k \in {} |-> 0] /\ list' = << >> /\ reply' = <<"clear">> /\ recent' = recent
         \/ /\ UNCHANGED <<items, list, recent>>
            /\ reply' \in {<<"keys", DOMAIN items>>, <<"len", Len(list)>>, reply}
<1>1. ASSUME NEW c \in Loaders, NEW ttl \in TTLs, StoreLoaded(c, ttl)
      PROVE  \E k \in Keys, v \in Values : SetWithTTL(k, v, ttl)
  <2>1. loading[c] \in Keys /\ loaded[c] \in Values
    BY <1>1 DEF StoreLoaded, LruInv, LruLoads
  <2> QED
    BY <1>1, <2>1 DEF StoreLoaded
<1>2. ASSUME NEW k \in Keys, CallGet(k) PROVE Get(k)
  BY <1>2 DEF CallGet
<1>3. ASSUME NEW c \in Loaders, NEW k \in Keys, BeginLoad(c, k) PROVE Get(k)
  BY <1>3 DEF BeginLoad
<1>4. ASSUME NEW k \in Keys, NEW v \in Values, NEW ttl \in TTLs, CallSet(k, v, ttl)
      PROVE  SetWithTTL(k, v, ttl)
  BY <1>4 DEF CallSet
<1>5. ASSUME NEW k \in Keys, Delete(k)
      PROVE  Drop(k) /\ reply' = <<"delete", k>> /\ recent' = recent
  BY <1>5 DEF Delete
<1>6. ASSUME Clear
      PROVE  items' = [k \in {} |-> 0] /\ list' = << >> /\ reply' = <<"clear">> /\ recent' = recent
  BY <1>6 DEF Clear
<1>7. ASSUME ListKeys \/ CallLen \/ Tick \/ UNCHANGED vars \/ \E c \in Loaders : Load(c)
      PROVE  /\ UNCHANGED <<items, list, recent>>
             /\ reply' \in {<<"keys", DOMAIN items>>, <<"len", Len(list)>>, reply}
  BY <1>7 DEF ListKeys, CallLen, Tick, Load, vars, storeVars
<1> QED
  BY <1>1, <1>2, <1>3, <1>4, <1>5, <1>6, <1>7 DEF Next

LEMMA LruStep ==
  ASSUME LruInv, [Next]_vars
  PROVE  LruInv'
<1>1. LruLoads'
  BY LruLoadsStep
<1>2. LruStore /\ LruLoads
  BY DEF LruInv
<1>3. ASSUME NEW k \in Keys, Get(k) PROVE LruStore'
  BY <1>2, <1>3, GetStep
<1>4. ASSUME NEW k \in Keys, NEW v \in Values, NEW ttl \in TTLs, SetWithTTL(k, v, ttl)
      PROVE  LruStore'
  <2>1. Entry(v, ttl) \in Entries
    BY <1>2, EntryType
  <2> QED
    BY <1>2, <1>4, <2>1, SetStep
<1>5. ASSUME NEW k \in Keys, Drop(k) /\ reply' = <<"delete", k>> /\ recent' = recent PROVE LruStore'
  BY <1>2, <1>5, Dropping
<1>6. ASSUME items' = [k \in {} |-> 0], list' = << >>, reply' = <<"clear">>, recent' = recent
      PROVE  LruStore'
  <2>1. DOMAIN items' = {} /\ DOMAIN list' = {} /\ ToSet(list') = {} /\ Len(list') = 0
    BY <1>6 DEF ToSet
  <2> QED
    BY <1>2, <1>6, <2>1, LruAssumption DEF LruStore, Distinct, Before
<1>7. ASSUME UNCHANGED <<items, list, recent>>,
             reply' \in {<<"keys", DOMAIN items>>, <<"len", Len(list)>>, reply}
      PROVE  LruStore'
  BY <1>2, <1>7 DEF LruStore, Before, Distinct
<1> QED
  BY <1>1, <1>3, <1>4, <1>5, <1>6, <1>7, Steps DEF LruInv

\* What a Set pushes out was used before all that stays.
LEMMA LruEvicts ==
  ASSUME LruInv, [Next]_vars, reply'[1] = "set",
         NEW l \in (DOMAIN items \cup {reply'[2]}) \ DOMAIN items', NEW m \in DOMAIN items'
  PROVE  Before(m, l, recent')
<1>1. LruStore /\ LruLoads
  BY DEF LruInv
<1>2. ASSUME NEW k \in Keys, NEW v \in Values, NEW ttl \in TTLs, SetWithTTL(k, v, ttl)
      PROVE  Before(m, l, recent')
  <2> PICK e : e = Entry(v, ttl)
    OBVIOUS
  <2>1. reply' = <<"set", k>> /\ (SetAll(k, e) \/ \E x : SetOne(k, e, x))
    BY <1>1, <1>2, EntryType, SetStep
  <2>2. ~SetAll(k, e)
    BY <2>1 DEF SetAll
  <2>3. PICK x : SetOne(k, e, x)
    BY <2>1, <2>2
  <2>4. l = x
    BY <2>1, <2>3 DEF SetOne
  <2> QED
    BY <2>3, <2>4 DEF SetOne
<1>3. CASE UNCHANGED <<items, list, recent>> /\ reply' = reply
  BY <1>1, <1>3 DEF LruStore
<1>4. ASSUME NEW k \in Keys, Get(k) PROVE FALSE
  BY <1>1, <1>4, GetStep
<1> QED
  BY <1>2, <1>3, <1>4, Steps

\* Cache counts as CachesMC does.
LEMMA SameCount == \A S : Abstract!Cardinality(S) = Cardinality(S)
BY DEF Abstract!Cardinality, Cardinality

\* Every step of the LRU cache is one of a Cache.
LEMMA LruIsACache ==
  ASSUME LruInv, [Next]_vars
  PROVE  [Abstract!Next]_(Abstract!vars)
<1>1. LruStore /\ LruLoads
  BY DEF LruInv
<1>2. items = [k \in DOMAIN items |-> items[k]] /\ items \in [DOMAIN items -> Entries]
  BY <1>1 DEF LruStore
<1>3. ASSUME Abstract!Operation PROVE Abstract!Next
  BY <1>3 DEF Abstract!Next
<1>4. ASSUME NEW k \in Keys, NEW v \in Values, NEW ttl \in TTLs, SetWithTTL(k, v, ttl)
      PROVE  Abstract!Operation
  <2> PICK e \in Entries : e = Entry(v, ttl)
    BY <1>1, EntryType
  <2>1. reply' = <<"set", k>> /\ (SetAll(k, e) \/ \E l : SetOne(k, e, l))
    BY <1>1, <1>4, SetStep
  <2>2. ASSUME SetAll(k, e) PROVE Abstract!Store(k, e)
    BY <2>2, SameCount DEF SetAll, Abstract!Store, Abstract!Cached, Abstract!With
  <2>3. ASSUME NEW l, SetOne(k, e, l) PROVE Abstract!Store(k, e)
    <3>1. k \notin DOMAIN items /\ ~(Cardinality(DOMAIN items) < Capacity)
      <4>1. Cardinality(DOMAIN items) \in Nat
        BY <1>1, CountOf DEF LruStore
      <4> QED
        BY <2>3, <4>1, LruAssumption DEF SetOne
    <3>2. l \in DOMAIN items \cup {k}
      BY <2>3 DEF SetOne
    <3>3. items' = Abstract!Restrict(Abstract!With(k, e), (DOMAIN items \cup {k}) \ {l})
      BY <2>3 DEF SetOne, Abstract!Restrict, Abstract!With, Abstract!Cached
    <3> QED
      BY <3>1, <3>2, <3>3, SameCount DEF Abstract!Store, Abstract!Cached
  <2> QED
    BY <2>1, <2>2, <2>3 DEF Abstract!Operation, Abstract!Set
<1>5. ASSUME NEW k \in Keys, Get(k) PROVE Abstract!Operation
  <2>1. CASE /\ k \in DOMAIN items /\ reply' = <<"hit", k, items[k].value>> /\ items' = items
    BY <2>1 DEF Abstract!Operation, Abstract!Hit, Abstract!Cached, EntryValue
  <2>2. CASE (k \in DOMAIN items => Expired(k)) /\ Drop(k) /\ reply' = <<"miss", k>>
    <3>1. k \notin DOMAIN items \/ items[k] \notin Permanent
      BY <2>2 DEF Expired, Permanent
    <3> QED
      BY <2>2, <3>1 DEF Abstract!Operation, Abstract!Miss, Abstract!Cached, Drop, Restrict,
                        Abstract!Restrict
  <2> QED
    BY <1>5, <2>1, <2>2 DEF Get
<1>6. ASSUME NEW k \in Keys, Drop(k), reply' = <<"delete", k>> PROVE Abstract!Operation
  BY <1>6 DEF Abstract!Operation, Abstract!Delete, Abstract!Cached, Drop, Restrict,
              Abstract!Restrict
<1>7. ASSUME items' = [k \in {} |-> 0], reply' = <<"clear">> PROVE Abstract!Operation
  BY <1>7 DEF Abstract!Operation, Abstract!Clear
<1>8. ASSUME items' = items, reply' \in {<<"keys", DOMAIN items>>, <<"len", Len(list)>>, reply}
      PROVE  Abstract!Operation \/ UNCHANGED Abstract!vars
  <2>1. CASE reply' = <<"keys", DOMAIN items>>
    BY <1>8, <2>1 DEF Abstract!Operation, Abstract!ListKeys, Abstract!Cached
  <2>2. CASE reply' = <<"len", Len(list)>>
    <3>1. Len(list) = Cardinality(DOMAIN items)
      BY <1>1, CountOf DEF LruStore
    <3> QED
      BY <1>8, <2>2, <3>1, SameCount DEF Abstract!Operation, Abstract!Len, Abstract!Cached
  <2>3. CASE reply' = reply
    BY <1>8, <2>3 DEF Abstract!vars
  <2> QED
    BY <1>8, <2>1, <2>2, <2>3
<1> QED
  BY <1>3, <1>4, <1>5, <1>6, <1>7, <1>8, Steps

-----------------------------------------------------------------------------
(* The caches beside each other *)

\* A step of AllNext is one of the LRU cache or leaves it as it is.
LEMMA LruSteps ==
  ASSUME [AllNext]_<<cacheVars, structureVars>>
  PROVE  [Next]_vars
<1>1. CASE UNCHANGED vars
  BY <1>1
<1>2. CASE ~UNCHANGED vars
  <2>1. CacheNext
    BY <1>2 DEF AllNext, cacheVars, InTrie, InList, InSlice, InQueue, InIoc, InMigration
  <2>2. Next
    BY <1>2, <2>1, Zenon DEF CacheNext, InLfu, InHeap, Next
  <2> QED
    BY <2>2
<1> QED
  BY <1>1, <1>2

\* The store of the LRU cache and its loaders, whatever the caches beside it do.
THEOREM LruInvariant == AllSpec => []LruInv
<1>1. AllInit => LruInv
  BY LruInit DEF AllInit, CacheInit
<1>2. LruInv /\ [AllNext]_<<cacheVars, structureVars>> => LruInv'
  BY LruSteps, LruStep
<1> QED
  BY <1>1, <1>2, PTL DEF AllSpec

\* The map and the list of the LRU cache, changed by separate calls, describe the same
\* entries, each once, and never more than the capacity.
THEOREM LruConsistent == AllSpec => []ListMatchesItems
<1>1. LruInv => ListMatchesItems
  BY CountOf DEF LruInv, LruStore, ListMatchesItems
<1> QED
  BY <1>1, LruInvariant, PTL

\* The key that a Set of the LRU cache pushes out was used before every key that stays,
\* for any keys, values, TTLs, loaders and capacity.
THEOREM LruOrder == AllSpec => EvictsLeastRecent
<1>1. LruInv /\ [AllNext]_<<cacheVars, structureVars>> =>
        [reply'[1] = "set" =>
           \A l \in (DOMAIN items \cup {reply'[2]}) \ DOMAIN items', m \in DOMAIN items' :
             \E i, j \in DOMAIN recent' : i < j /\ recent'[i] = m /\ recent'[j] = l]_vars
  BY LruSteps, LruEvicts DEF Before
<1> QED
  BY <1>1, LruInvariant, PTL DEF AllSpec, EvictsLeastRecent

\* The LRU cache does what a Cache does, expiry and loaders included.
THEOREM LruRefinement == AllSpec => ImplementsCache
<1>1. AllInit => Abstract!Init
  BY LruAssumption DEF AllInit, CacheInit, Init, Abstract!Init
<1>2. LruInv /\ [AllNext]_<<cacheVars, structureVars>> => [Abstract!Next]_(Abstract!vars)
  BY LruSteps, LruIsACache
<1> QED
  BY <1>1, <1>2, LruInvariant, PTL DEF AllSpec, ImplementsCache, Abstract!Spec

-----------------------------------------------------------------------------
(* What the steps of both LFU caches do *)

\* The items i, the heap h and the reply r become j, g and q.
Answered(i, h, r, j, g, q, K) ==
  /\ j = i /\ g = h
  /\ \/ q \in {r, <<"keys", DOMAIN i>>, <<"len", Cardinality(DOMAIN i)>>}
     \/ \E k \in K \ DOMAIN i : q \in {<<"miss", k>>, <<"delete", k>>}

Hit(i, h, j, g, q, k) ==
  /\ h.freq[k] < MaxFreq /\ j = i /\ g = AsHeap(Lfu!HeapFix(Used(h, k), h.index[k]))
  /\ q = <<"hit", k, i[k].value>>

Updated(i, h, j, g, q, k, e) ==
  /\ h.freq[k] < MaxFreq /\ j = Grown(i, k, e) /\ g = AsHeap(Lfu!HeapFix(Used(h, k), h.index[k]))
  /\ q = <<"set", k>>

Dropped(i, h, j, g, q, k) ==
  /\ j = Cut(i, k) /\ g = AsHeap(Lfu!HeapRemove(h, h.index[k]))
  /\ q = <<"delete", k>> \/ (q = <<"miss", k>> /\ i[k].until # 0)

Cleared(j, g, q, K) ==
  /\ j = [k \in {} |-> 0] /\ q = <<"clear">>
  /\ g = [slots |-> << >>, freq |-> [k \in K |-> 0], index |-> [k \in K |-> 0]]

Added(i, h, j, g, q, k, e, cap) ==
  /\ ~(Cardinality(DOMAIN i \cup {k}) > cap)
  /\ j = Grown(i, k, e) /\ g = AsHeap(Lfu!HeapPush(h, k)) /\ q = <<"set", k>>

Stores(i, h, j, g, q, K, E, cap) ==
  \/ \E k \in DOMAIN i, e \in E : Updated(i, h, j, g, q, k, e)
  \/ \E k \in K \ DOMAIN i, e \in E : Added(i, h, j, g, q, k, e, cap)
  \/ \E k \in K \ DOMAIN i, e \in E : Evicted(i, h, j, g, q, k, e, cap)

Does(i, h, r, j, g, q, K, E, cap) ==
  \/ Answered(i, h, r, j, g, q, K)
  \/ \E k \in DOMAIN i : Hit(i, h, j, g, q, k) \/ Dropped(i, h, j, g, q, k)
  \/ Cleared(j, g, q, K)
  \/ Stores(i, h, j, g, q, K, E, cap)

\* All of them keep the items beside the heap.
LEMMA DoesStore ==
  ASSUME NEW i, NEW h, NEW r, NEW j, NEW g, NEW q, NEW K, NEW E, NEW cap \in Nat,
         Stored(i, h, K, E, cap), Does(i, h, r, j, g, q, K, E, cap)
  PROVE  Stored(j, g, K, E, cap)
<1>1. CASE Answered(i, h, r, j, g, q, K)
  BY <1>1 DEF Answered
<1>2. ASSUME NEW k \in DOMAIN i, Hit(i, h, j, g, q, k) PROVE Stored(j, g, K, E, cap)
  <2>1. i \in [DOMAIN i -> E] /\ j = i
    BY <1>2 DEF Stored, Hit
  <2>2. g = AsHeap(Lfu!HeapFix(Used(h, k), h.index[k]))
    BY <1>2 DEF Hit
  <2> QED
    BY <2>1, <2>2, StoredUse
<1>3. ASSUME NEW k \in DOMAIN i, Dropped(i, h, j, g, q, k) PROVE Stored(j, g, K, E, cap)
  <2>1. g = AsHeap(Lfu!HeapRemove(h, h.index[k])) /\ j = Cut(i, k)
    BY <1>3 DEF Dropped
  <2> QED
    BY <2>1, StoredCut
<1>4. CASE Cleared(j, g, q, K)
  BY <1>4, StoredNothing DEF Cleared
<1>5. ASSUME NEW k \in DOMAIN i, NEW e \in E, Updated(i, h, j, g, q, k, e)
      PROVE  Stored(j, g, K, E, cap)
  <2>1. i \in [DOMAIN i -> E]
    BY DEF Stored
  <2>2. Grown(i, k, e) \in [DOMAIN i -> E]
    BY <2>1 DEF Grown
  <2>3. j \in [DOMAIN i -> E] /\ g = AsHeap(Lfu!HeapFix(Used(h, k), h.index[k]))
    BY <1>5, <2>2 DEF Updated
  <2> QED
    BY <2>3, StoredUse
<1>6. ASSUME NEW k \in K \ DOMAIN i, NEW e \in E, Added(i, h, j, g, q, k, e, cap)
      PROVE  Stored(j, g, K, E, cap)
  <2>1. /\ ~(Cardinality(DOMAIN i \cup {k}) > cap)
        /\ j = Grown(i, k, e) /\ g = AsHeap(Lfu!HeapPush(h, k))
    BY <1>6 DEF Added
  <2>2. k \in K /\ k \notin DOMAIN i
    OBVIOUS
  <2> QED
    BY <2>1, <2>2, StoredGrown
<1>7. ASSUME NEW k \in K \ DOMAIN i, NEW e \in E, Evicted(i, h, j, g, q, k, e, cap)
      PROVE  Stored(j, g, K, E, cap)
  <2>1. k \in K /\ k \notin DOMAIN i
    OBVIOUS
  <2> QED
    BY <1>7, <2>1, StoredEvicted, Zenon
<1> QED
  BY <1>1, <1>2, <1>3, <1>4, <1>5, <1>6, <1>7 DEF Does, Stores

\* Of what a Set pushes out.
LEMMA DoesEvict ==
  ASSUME NEW i, NEW h, NEW r, NEW j, NEW g, NEW q, NEW K, NEW E, NEW cap \in Nat,
         Stored(i, h, K, E, cap), Does(i, h, r, j, g, q, K, E, cap), q[1] = "set",
         NEW l \in DOMAIN i \ DOMAIN j, NEW m \in DOMAIN j
  PROVE  h.freq[l] <= g.freq[m]
<1>1. j # i
  OBVIOUS
<1>2. ASSUME NEW k \in DOMAIN i PROVE ~Hit(i, h, j, g, q, k) /\ ~Dropped(i, h, j, g, q, k)
  BY DEF Hit, Dropped
<1>3. ~Answered(i, h, r, j, g, q, K) /\ ~Cleared(j, g, q, K)
  BY <1>1 DEF Answered, Cleared
<1>4. ASSUME NEW k \in K, NEW e \in E
      PROVE  ~Updated(i, h, j, g, q, k, e) /\ ~Added(i, h, j, g, q, k, e, cap)
  BY DEF Updated, Added, Grown
<1>5. DOMAIN i \subseteq K
  BY DEF Stored
<1>6. PICK k \in K \ DOMAIN i, e \in E : Evicted(i, h, j, g, q, k, e, cap)
  BY <1>2, <1>3, <1>4, <1>5 DEF Does, Stores
<1> PICK x : x = Head(Lfu!HeapPush(h, k).slots)
  OBVIOUS
<1>7. /\ Cardinality(DOMAIN i \cup {k}) > cap
      /\ j = Cut(Grown(i, k, e), x) /\ g = AsHeap(Lfu!HeapPop(Lfu!HeapPush(h, k)))
  BY <1>6 DEF Evicted
<1>8. /\ DOMAIN Grown(i, k, e) = DOMAIN i \cup {k}
      /\ x # k => \A y \in (DOMAIN i \cup {k}) \ {x} : h.freq[x] <= g.freq[y]
  <2>1. k \in K /\ k \notin DOMAIN i
    OBVIOUS
  <2>2. Least(i, h, g, k, Head(Lfu!HeapPush(h, k).slots), cap)
    BY <1>6, <2>1, StoredEvicted, Zenon
  <2> QED
    BY <2>2 DEF Least, Grown
<1>9. DOMAIN j = (DOMAIN i \cup {k}) \ {x}
  BY <1>7, <1>8 DEF Cut
<1> QED
  BY <1>8, <1>9

\* No frequency passes MaxFreq, the bound of the uses that are counted.
Counted(h, K) == \A k \in K : h.freq[k] <= MaxFreq

LEMMA DoesCount ==
  ASSUME NEW i, NEW h, NEW r, NEW j, NEW g, NEW q, NEW K, NEW E, NEW cap \in Nat,
         Stored(i, h, K, E, cap), Counted(h, K), Does(i, h, r, j, g, q, K, E, cap)
  PROVE  Counted(g, K)
<1>1. MaxFreq \in Nat /\ 0 <= MaxFreq /\ 1 <= MaxFreq
  BY CachesAssumption
<1>2. /\ HeapOK(h, K) /\ DOMAIN i \subseteq K /\ ToSet(h.slots) = DOMAIN i
      /\ h.freq \in [K -> Nat] /\ \A k \in K : h.freq[k] \in Nat /\ h.freq[k] <= MaxFreq
  <2>1. HeapOK(h, K) /\ DOMAIN i \subseteq K /\ ToSet(h.slots) = DOMAIN i
    BY DEF Stored
  <2>2. h.freq \in [K -> Nat]
    BY <2>1, HeapTypes DEF HeapOK
  <2> QED
    BY <2>1, <2>2 DEF Counted
\* One frequency changes, to 0, to 1 or by one.
<1>3. ASSUME NEW k \in K, NEW n \in Nat, n <= MaxFreq, NEW d, d.freq = [h.freq EXCEPT ![k] = n],
             g = AsHeap(d)
      PROVE  Counted(g, K)
  BY <1>2, <1>3 DEF Counted, AsHeap
<1>4. ASSUME NEW k \in DOMAIN i, h.freq[k] < MaxFreq, g = AsHeap(Lfu!HeapFix(Used(h, k), h.index[k]))
      PROVE  Counted(g, K)
  <2>1. PICK d : d = Lfu!HeapFix(Used(h, k), h.index[k])
    OBVIOUS
  <2>2. k \in ToSet(h.slots) /\ k \in K
    BY <1>2
  <2>3. d.freq = [h.freq EXCEPT ![k] = h.freq[k] + 1]
    BY <1>2, <2>1, <2>2, HeapFixed
  <2>4. h.freq[k] + 1 \in Nat /\ h.freq[k] + 1 <= MaxFreq
    BY <1>1, <1>2, <1>4, <2>2
  <2> QED
    BY <1>3, <1>4, <2>1, <2>2, <2>3, <2>4
<1>5. ASSUME NEW k \in DOMAIN i, Dropped(i, h, j, g, q, k) PROVE Counted(g, K)
  <2>1. PICK d : d = Lfu!HeapRemove(h, h.index[k])
    OBVIOUS
  <2>2. h.index[k] \in DOMAIN h.slots /\ h.slots[h.index[k]] = k /\ k \in K
    BY <1>2 DEF HeapOK, Placed, ToSet
  <2>3. Without(h, d, k, K)
    BY <1>2, <2>1, <2>2, HeapRemoved
  <2>4. d.freq = [h.freq EXCEPT ![k] = 0] /\ g = AsHeap(d)
    BY <1>5, <2>1, <2>3 DEF Without, Dropped
  <2> QED
    BY <1>1, <1>3, <2>2, <2>4
<1>6. ASSUME Cleared(j, g, q, K) PROVE Counted(g, K)
  BY <1>1, <1>6 DEF Cleared, Counted
<1>7. ASSUME NEW k \in K, k \notin DOMAIN i
      PROVE  LET p == Lfu!HeapPush(h, k) IN
             /\ HeapOK(p, K) /\ p.freq = [h.freq EXCEPT ![k] = 1] /\ p.slots # << >>
  <2>1. PICK p : p = Lfu!HeapPush(h, k)
    OBVIOUS
  <2>2. /\ HeapOK(p, K) /\ p.freq = [h.freq EXCEPT ![k] = 1]
        /\ ToSet(p.slots) = ToSet(h.slots) \cup {k}
    BY <1>2, <1>7, <2>1, Pushing
  <2>3. p.slots # << >>
    BY <2>2 DEF ToSet
  <2> QED
    BY <2>1, <2>2, <2>3
<1>8. ASSUME NEW k \in K \ DOMAIN i, NEW e \in E, Added(i, h, j, g, q, k, e, cap) PROVE Counted(g, K)
  BY <1>1, <1>3, <1>7, <1>8 DEF Added
<1>9. ASSUME NEW k \in K \ DOMAIN i, NEW e \in E, Evicted(i, h, j, g, q, k, e, cap) PROVE Counted(g, K)
  <2>1. PICK p, d : p = Lfu!HeapPush(h, k) /\ d = Lfu!HeapPop(p)
    OBVIOUS
  <2>2. HeapOK(p, K) /\ p.freq = [h.freq EXCEPT ![k] = 1] /\ p.slots # << >>
    BY <1>7, <2>1
  <2>3. Without(p, d, p.slots[1], K)
    BY <2>1, <2>2, HeapPopped
  <2>4. d.freq = [p.freq EXCEPT ![p.slots[1]] = 0] /\ g = AsHeap(d)
    BY <1>9, <2>1, <2>3 DEF Without, Evicted
  <2> QED
    BY <1>1, <1>2, <2>2, <2>4 DEF Counted, AsHeap
<1> QED
  BY <1>4, <1>5, <1>6, <1>8, <1>9 DEF Does, Stores, Hit, Updated, Answered

\* The second instance computes as the first.
LEMMA SameSifts ==
  ASSUME NEW h, NEW i
  PROVE  Heap!Up(h, i) = Lfu!Up(h, i) /\ \A n : Heap!Down(h, i, n) = Lfu!Down(h, i, n)
BY DEF Heap!Swap, Lfu!Swap, Lfu!Up, Heap!Up, Lfu!RoundUp, Heap!RoundUp, Lfu!Less, Heap!Less,
       Lfu!At, Heap!At, Lfu!Down, Heap!Down, Lfu!RoundDown, Heap!RoundDown, Lfu!Child, Heap!Child

LEMMA SamePops == \A h : Heap!Pop(h) = Lfu!Pop(h)
BY DEF Heap!Pop, Lfu!Pop, Heap!Front, Lfu!Front, Heap!Last, Lfu!Last

LEMMA SameOperations ==
  ASSUME NEW h
  PROVE  /\ \A k : Heap!HeapPush(h, k) = Lfu!HeapPush(h, k)
         /\ \A i : Heap!HeapFix(h, i) = Lfu!HeapFix(h, i)
         /\ Heap!HeapPop(h) = Lfu!HeapPop(h)
         /\ \A i : Heap!HeapRemove(h, i) = Lfu!HeapRemove(h, i)
<1>1. \A d, i, j : Heap!Swap(d, i, j) = Lfu!Swap(d, i, j)
  BY DEF Heap!Swap, Lfu!Swap
<1>2. \A d, i, n : Heap!Sift(d, i, n) = Lfu!Sift(d, i, n)
  BY SameSifts DEF Heap!Sift, Lfu!Sift
<1>3. \A k : Heap!HeapPush(h, k) = Lfu!HeapPush(h, k)
  BY SameSifts DEF Heap!HeapPush, Lfu!HeapPush, Heap!Push, Lfu!Push
<1>4. \A i : Heap!HeapFix(h, i) = Lfu!HeapFix(h, i)
  BY <1>2 DEF Heap!HeapFix, Lfu!HeapFix
<1>5. Heap!HeapPop(h) = Lfu!HeapPop(h)
  BY <1>1, SameSifts, SamePops DEF Heap!HeapPop, Lfu!HeapPop
<1>6. \A i : Heap!HeapRemove(h, i) = Lfu!HeapRemove(h, i)
  BY <1>1, <1>2, SamePops DEF Heap!HeapRemove, Lfu!HeapRemove
<1> QED
  BY <1>3, <1>4, <1>5, <1>6

\* Both count as CachesMC does.
LEMMA SameCounts ==
  \A S : /\ Lfu!Cardinality(S) = Cardinality(S) /\ Heap!Cardinality(S) = Cardinality(S)
         /\ LfuAbstract!Cardinality(S) = Cardinality(S)
BY DEF Lfu!Cardinality, Heap!Cardinality, LfuAbstract!Cardinality, Cardinality

-----------------------------------------------------------------------------
(* The steps of the two instances *)

LfuHeap == [slots |-> freqHeap, freq |-> freq, index |-> heapIndex]

LfuDoes(K, E, cap) ==
  Does(lfuItems, LfuHeap, lfuReply, lfuItems', LfuHeap', lfuReply', K, E, cap)

\* item.freq++ and heap.Fix
LEMMA Bumps ==
  ASSUME NEW k
  PROVE  /\ Lfu!Bump(k) => LfuHeap' = AsHeap(Lfu!HeapFix(Used(LfuHeap, k), LfuHeap.index[k]))
         /\ Heap!Bump(k) => LfuHeap' = AsHeap(Lfu!HeapFix(Used(LfuHeap, k), LfuHeap.index[k]))
         /\ Lfu!Bump(k) \/ Heap!Bump(k) => LfuHeap.freq[k] < MaxFreq
<1>1. /\ Used(LfuHeap, k) = [slots |-> freqHeap, freq |-> [freq EXCEPT ![k] = freq[k] + 1],
                             index |-> heapIndex]
      /\ LfuHeap.index = heapIndex
  BY DEF Used, LfuHeap
<1>2. LfuHeap' = [slots |-> freqHeap', freq |-> freq', index |-> heapIndex']
  BY DEF LfuHeap
<1>3. ASSUME Lfu!Bump(k)
      PROVE  LfuHeap' = AsHeap(Lfu!HeapFix(Used(LfuHeap, k), LfuHeap.index[k]))
  BY <1>1, <1>2, <1>3 DEF Lfu!Bump, Lfu!HeapBecomes, AsHeap
<1>4. ASSUME Heap!Bump(k)
      PROVE  LfuHeap' = AsHeap(Lfu!HeapFix(Used(LfuHeap, k), LfuHeap.index[k]))
  BY <1>1, <1>2, <1>4, SameOperations DEF Heap!Bump, Heap!HeapBecomes, AsHeap
<1>5. LfuHeap.freq = freq
  BY DEF LfuHeap
<1>6. Lfu!Bump(k) \/ Heap!Bump(k) => freq[k] < MaxFreq
  BY DEF Lfu!Bump, Heap!Bump
<1> QED
  BY <1>3, <1>4, <1>5, <1>6

LEMMA Drops ==
  ASSUME NEW k, Lfu!Drop(k) \/ Heap!Drop(k)
  PROVE  /\ LfuHeap' = AsHeap(Lfu!HeapRemove(LfuHeap, LfuHeap.index[k]))
         /\ lfuItems' = Cut(lfuItems, k)
<1>1. /\ LfuHeap' = [slots |-> freqHeap', freq |-> freq', index |-> heapIndex']
      /\ LfuHeap.index = heapIndex /\ Lfu!Heap = LfuHeap /\ Heap!Heap = LfuHeap
  BY DEF LfuHeap, Lfu!Heap, Heap!Heap
<1>2. CASE Lfu!Drop(k)
  BY <1>1, <1>2 DEF Lfu!Drop, Lfu!HeapBecomes, AsHeap, Cut, Lfu!Restrict
<1>3. CASE Heap!Drop(k)
  BY <1>1, <1>3, SameOperations DEF Heap!Drop, Heap!HeapBecomes, AsHeap, Cut, Heap!Restrict
<1> QED
  BY <1>2, <1>3

LEMMA Gets ==
  ASSUME NEW K, NEW E, NEW cap, NEW k \in K, Lfu!Get(k) \/ Heap!Get(k)
  PROVE  LfuDoes(K, E, cap)
<1>1. \/ /\ k \in DOMAIN lfuItems /\ (Lfu!Bump(k) \/ Heap!Bump(k))
         /\ lfuReply' = <<"hit", k, lfuItems[k].value>> /\ lfuItems' = lfuItems
      \/ /\ k \in DOMAIN lfuItems /\ lfuItems[k].until # 0 /\ (Lfu!Drop(k) \/ Heap!Drop(k))
         /\ lfuReply' = <<"miss", k>>
      \/ /\ k \notin DOMAIN lfuItems /\ lfuReply' = <<"miss", k>> /\ lfuItems' = lfuItems
         /\ freqHeap' = freqHeap /\ freq' = freq /\ heapIndex' = heapIndex
  BY DEF Lfu!Get, Heap!Get, Lfu!Expired, Heap!Expired, Lfu!heapVars, Heap!heapVars
<1>2. CASE /\ k \in DOMAIN lfuItems /\ (Lfu!Bump(k) \/ Heap!Bump(k))
           /\ lfuReply' = <<"hit", k, lfuItems[k].value>> /\ lfuItems' = lfuItems
  <2>1. /\ LfuHeap' = AsHeap(Lfu!HeapFix(Used(LfuHeap, k), LfuHeap.index[k]))
        /\ LfuHeap.freq[k] < MaxFreq
    BY <1>2, Bumps
  <2>2. Hit(lfuItems, LfuHeap, lfuItems', LfuHeap', lfuReply', k)
    BY <1>2, <2>1 DEF Hit
  <2> QED
    BY <1>2, <2>2 DEF LfuDoes, Does
<1>3. CASE /\ k \in DOMAIN lfuItems /\ lfuItems[k].until # 0 /\ (Lfu!Drop(k) \/ Heap!Drop(k))
           /\ lfuReply' = <<"miss", k>>
  <2>1. Dropped(lfuItems, LfuHeap, lfuItems', LfuHeap', lfuReply', k)
    BY <1>3, Drops DEF Dropped
  <2> QED
    BY <1>3, <2>1 DEF LfuDoes, Does
<1>4. CASE /\ k \notin DOMAIN lfuItems /\ lfuReply' = <<"miss", k>> /\ lfuItems' = lfuItems
           /\ freqHeap' = freqHeap /\ freq' = freq /\ heapIndex' = heapIndex
  <2>1. LfuHeap' = LfuHeap
    BY <1>4 DEF LfuHeap
  <2>2. Answered(lfuItems, LfuHeap, lfuReply, lfuItems', LfuHeap', lfuReply', K)
    BY <1>4, <2>1 DEF Answered
  <2> QED
    BY <2>2 DEF LfuDoes, Does
<1> QED
  BY <1>1, <1>2, <1>3, <1>4

LEMMA Sets ==
  ASSUME NEW K, NEW E, NEW cap, NEW k \in K, NEW v, NEW ttl,
         \/ Lfu!SetWithTTL(k, v, ttl) /\ Lfu!Entry(v, ttl) \in E /\ cap = Capacity
         \/ Heap!SetWithTTL(k, v, ttl) /\ Heap!Entry(v, ttl) \in E /\ cap = HeapRoom
  PROVE  LfuDoes(K, E, cap)
<1>1. /\ Lfu!Entry(v, ttl) = Heap!Entry(v, ttl)
      /\ \A e : Lfu!Put(k, e) = Grown(lfuItems, k, e) /\ Heap!Put(k, e) = Grown(lfuItems, k, e)
  BY DEF Lfu!Entry, Heap!Entry, Lfu!Put, Heap!Put, Grown
<1> PICK e \in E : e = Lfu!Entry(v, ttl)
  BY <1>1
<1> PICK w : w = Grown(lfuItems, k, e)
  OBVIOUS
<1>2. DOMAIN w = DOMAIN lfuItems \cup {k}
  BY DEF Grown
<1> PICK p : p = Lfu!HeapPush(LfuHeap, k)
  OBVIOUS
<1>3. /\ LfuHeap' = [slots |-> freqHeap', freq |-> freq', index |-> heapIndex']
      /\ Lfu!Heap = LfuHeap /\ Heap!Heap = LfuHeap
  BY DEF LfuHeap, Lfu!Heap, Heap!Heap
<1>4. \A h : /\ Lfu!HeapBecomes(h) => LfuHeap' = AsHeap(h)
             /\ Heap!HeapBecomes(h) => LfuHeap' = AsHeap(h)
  BY <1>3 DEF Lfu!HeapBecomes, Heap!HeapBecomes, AsHeap
<1>5. \A h : Lfu!Evict(h, w) \/ Heap!Evict(h, w) =>
               LfuHeap' = AsHeap(Lfu!HeapPop(h)) /\ lfuItems' = Cut(w, Head(h.slots))
  BY <1>4, SameOperations DEF Lfu!Evict, Heap!Evict, Cut, Lfu!Restrict, Heap!Restrict
<1>6. /\ lfuReply' = <<"set", k>>
      /\ \/ k \in DOMAIN lfuItems /\ lfuItems' = w /\ (Lfu!Bump(k) \/ Heap!Bump(k))
         \/ k \notin DOMAIN lfuItems /\ Cardinality(DOMAIN w) > cap /\ (Lfu!Evict(p, w) \/ Heap!Evict(p, w))
         \/ /\ k \notin DOMAIN lfuItems /\ ~(Cardinality(DOMAIN w) > cap)
            /\ (Lfu!HeapBecomes(p) \/ Heap!HeapBecomes(p))
            /\ lfuItems' = w
  <2>1. CASE Lfu!SetWithTTL(k, v, ttl) /\ cap = Capacity
    BY <1>1, <1>3, <2>1, SameCounts DEF Lfu!SetWithTTL
  <2>2. CASE Heap!SetWithTTL(k, v, ttl) /\ cap = HeapRoom
    BY <1>1, <1>3, <2>2, SameCounts, SameOperations DEF Heap!SetWithTTL
  <2> QED
    BY <2>1, <2>2
<1>7. CASE k \in DOMAIN lfuItems /\ lfuItems' = w /\ (Lfu!Bump(k) \/ Heap!Bump(k))
  <2>1. /\ LfuHeap' = AsHeap(Lfu!HeapFix(Used(LfuHeap, k), LfuHeap.index[k]))
        /\ LfuHeap.freq[k] < MaxFreq
    BY <1>7, Bumps
  <2>2. Updated(lfuItems, LfuHeap, lfuItems', LfuHeap', lfuReply', k, e)
    BY <1>6, <1>7, <2>1 DEF Updated
  <2> QED
    BY <1>7, <2>2 DEF LfuDoes, Does, Stores
<1>8. CASE /\ k \notin DOMAIN lfuItems /\ Cardinality(DOMAIN w) > cap
           /\ (Lfu!Evict(p, w) \/ Heap!Evict(p, w))
  <2>1. Evicted(lfuItems, LfuHeap, lfuItems', LfuHeap', lfuReply', k, e, cap)
    BY <1>2, <1>5, <1>6, <1>8 DEF Evicted
  <2> QED
    BY <1>8, <2>1 DEF LfuDoes, Does, Stores
<1>9. CASE /\ k \notin DOMAIN lfuItems /\ ~(Cardinality(DOMAIN w) > cap)
           /\ (Lfu!HeapBecomes(p) \/ Heap!HeapBecomes(p))
           /\ lfuItems' = w
  <2>1. Added(lfuItems, LfuHeap, lfuItems', LfuHeap', lfuReply', k, e, cap)
    BY <1>2, <1>4, <1>6, <1>9 DEF Added
  <2> QED
    BY <1>9, <2>1 DEF LfuDoes, Does, Stores
<1> QED
  BY <1>6, <1>7, <1>8, <1>9

\* The invariant of the LFU cache: in the kind "heap" it has other keys and no loaders.
LfuStore ==
  IF kind = "heap" THEN Stored(lfuItems, LfuHeap, HeapKeys, Heap!Entries, HeapRoom)
                   ELSE Stored(lfuItems, LfuHeap, Keys, Entries, Capacity)

LfuLoads ==
  kind # "heap" =>
    /\ lfuNow \in 0 .. MaxTime
    /\ lfuLoading \in [Loaders -> Keys \cup {None}]
    /\ lfuLoaded \in [Loaders -> Values \cup {None}]
    /\ \A c \in Loaders : lfuLoaded[c] # None => lfuLoading[c] # None

LfuInv == LfuStore /\ LfuLoads

LfuSteps ==
  IF kind = "heap" THEN LfuDoes(HeapKeys, Heap!Entries, HeapRoom)
                   ELSE LfuDoes(Keys, Entries, Capacity)

\* A step that answers from the map or leaves it alone.
LEMMA LfuSameStore ==
  ASSUME UNCHANGED <<lfuItems, freqHeap, freq, heapIndex>>,
         lfuReply' \in {lfuReply, <<"keys", DOMAIN lfuItems>>, <<"len", Cardinality(DOMAIN lfuItems)>>}
  PROVE  LfuSteps
<1>1. LfuHeap' = LfuHeap
  BY DEF LfuHeap
<1>2. \A K : Answered(lfuItems, LfuHeap, lfuReply, lfuItems', LfuHeap', lfuReply', K)
  BY <1>1 DEF Answered
<1> QED
  BY <1>2 DEF LfuSteps, LfuDoes, Does

LEMMA LfuDeletes ==
  ASSUME NEW K, NEW E, NEW cap, NEW k \in K, Lfu!Delete(k) \/ Heap!Delete(k)
  PROVE  LfuDoes(K, E, cap)
<1>1. /\ lfuReply' = <<"delete", k>>
      /\ \/ k \in DOMAIN lfuItems /\ (Lfu!Drop(k) \/ Heap!Drop(k))
         \/ /\ k \notin DOMAIN lfuItems /\ lfuItems' = lfuItems
            /\ freqHeap' = freqHeap /\ freq' = freq /\ heapIndex' = heapIndex
  BY DEF Lfu!Delete, Heap!Delete, Lfu!heapVars, Heap!heapVars
<1>2. CASE k \in DOMAIN lfuItems /\ (Lfu!Drop(k) \/ Heap!Drop(k))
  <2>1. Dropped(lfuItems, LfuHeap, lfuItems', LfuHeap', lfuReply', k)
    BY <1>1, <1>2, Drops DEF Dropped
  <2> QED
    BY <1>2, <2>1 DEF LfuDoes, Does
<1>3. CASE /\ k \notin DOMAIN lfuItems /\ lfuItems' = lfuItems
           /\ freqHeap' = freqHeap /\ freq' = freq /\ heapIndex' = heapIndex
  <2>1. LfuHeap' = LfuHeap
    BY <1>3 DEF LfuHeap
  <2>2. Answered(lfuItems, LfuHeap, lfuReply, lfuItems', LfuHeap', lfuReply', K)
    BY <1>1, <1>3, <2>1 DEF Answered
  <2> QED
    BY <2>2 DEF LfuDoes, Does
<1> QED
  BY <1>1, <1>2, <1>3

LEMMA LfuClears ==
  ASSUME Lfu!Clear
  PROVE  LfuDoes(Keys, Entries, Capacity)
<1>1. LfuHeap' = [slots |-> << >>, freq |-> [k \in Keys |-> 0], index |-> [k \in Keys |-> 0]]
  BY DEF Lfu!Clear, LfuHeap
<1>2. Cleared(lfuItems', LfuHeap', lfuReply', Keys)
  BY <1>1 DEF Lfu!Clear, Cleared
<1> QED
  BY <1>2 DEF LfuDoes, Does

LEMMA LfuEntryType ==
  ASSUME LfuLoads, kind # "heap", NEW v \in Values, NEW ttl \in TTLs
  PROVE  Lfu!Entry(v, ttl) \in Entries
BY LruAssumption DEF LfuLoads, Lfu!Entry, Entries

\* Every step does something of Does to the store of its kind.
LEMMA LfuDoing ==
  ASSUME LfuInv, [AllNext]_<<cacheVars, structureVars>>
  PROVE  LfuSteps /\ kind' = kind
<1> USE DEF LfuInv
<1>1. ASSUME InLfu PROVE kind = "lfu" /\ kind' = kind
  BY <1>1 DEF InLfu
<1>2. ASSUME InHeap PROVE kind = "heap" /\ kind' = kind
  BY <1>2 DEF InHeap
<1> DEFINE Done == LfuSteps /\ kind' = kind
<1>3. ASSUME NEW k \in Keys, InLfu, Lfu!CallGet(k) \/ Lfu!Delete(k) PROVE Done
  BY <1>1, <1>3, Gets, LfuDeletes DEF Lfu!CallGet, LfuSteps
<1>4. ASSUME NEW k \in Keys, NEW v \in Values, NEW ttl \in TTLs, InLfu, Lfu!CallSet(k, v, ttl)
      PROVE  Done
  <2>1. Lfu!SetWithTTL(k, v, ttl) /\ Lfu!Entry(v, ttl) \in Entries
    BY <1>1, <1>4, LfuEntryType DEF Lfu!CallSet
  <2> QED
    BY <1>1, <1>4, <2>1, Sets DEF LfuSteps
<1>5. ASSUME NEW c \in Loaders, NEW k \in Keys, InLfu, Lfu!BeginLoad(c, k) PROVE Done
  BY <1>1, <1>5, Gets DEF Lfu!BeginLoad, LfuSteps
<1>6. ASSUME NEW c \in Loaders, InLfu, Lfu!Load(c) PROVE Done
  BY <1>1, <1>6, LfuSameStore DEF Lfu!Load, Lfu!storeVars, Lfu!heapVars
<1>7. ASSUME NEW c \in Loaders, NEW ttl \in TTLs, InLfu, Lfu!StoreLoaded(c, ttl) PROVE Done
  <2>1. lfuLoading[c] \in Keys /\ lfuLoaded[c] \in Values
    BY <1>1, <1>7 DEF Lfu!StoreLoaded, LfuLoads
  <2>2. /\ Lfu!SetWithTTL(lfuLoading[c], lfuLoaded[c], ttl)
        /\ Lfu!Entry(lfuLoaded[c], ttl) \in Entries
    BY <1>1, <1>7, <2>1, LfuEntryType DEF Lfu!StoreLoaded
  <2> QED
    BY <1>1, <1>7, <2>1, <2>2, Sets DEF LfuSteps
<1>8. ASSUME InLfu, Lfu!Clear PROVE Done
  BY <1>1, <1>8, LfuClears DEF LfuSteps
<1>9. ASSUME InLfu, Lfu!ListKeys \/ Lfu!Tick PROVE Done
  <2>1. UNCHANGED <<lfuItems, freqHeap, freq, heapIndex>>
    BY <1>9 DEF Lfu!ListKeys, Lfu!Tick, Lfu!storeVars, Lfu!heapVars
  <2>2. lfuReply' \in {lfuReply, <<"keys", DOMAIN lfuItems>>, <<"len", Cardinality(DOMAIN lfuItems)>>}
    BY <1>9, SameCounts DEF Lfu!ListKeys, Lfu!Tick, Lfu!storeVars
  <2> QED
    BY <1>1, <1>9, <2>1, <2>2, LfuSameStore
<1>10. ASSUME NEW k \in HeapKeys, InHeap, Heap!CallGet(k) \/ Heap!Delete(k) PROVE Done
  BY <1>2, <1>10, Gets, LfuDeletes DEF Heap!CallGet, LfuSteps
<1>11. ASSUME NEW k \in HeapKeys, InHeap, Heap!CallSet(k, OneValue, 0) PROVE Done
  <2>1. Heap!SetWithTTL(k, OneValue, 0) /\ Heap!Entry(OneValue, 0) \in Heap!Entries
    BY <1>11 DEF Heap!CallSet, Heap!Entry, Heap!Entries
  <2> QED
    BY <1>2, <1>11, <2>1, Sets DEF LfuSteps
<1>12. ASSUME UNCHANGED <<kind, lfuVars>> PROVE Done
  BY <1>12, LfuSameStore DEF lfuVars
<1>13. ASSUME ~UNCHANGED <<kind, lfuVars>> PROVE CacheNext /\ ~InLru
  BY <1>13 DEF AllNext, cacheVars, InTrie, InList, InSlice, InQueue, InIoc, InMigration, InLru
<1> HIDE DEF Done
<1>14. ASSUME CacheNext /\ ~InLru PROVE Done
  BY <1>3, <1>4, <1>5, <1>6, <1>7, <1>8, <1>9, <1>10, <1>11, <1>14, Zenon DEF CacheNext
<1>15. Done
  BY <1>12, <1>13, <1>14, Zenon
<1> QED
  BY <1>15 DEF Done

LEMMA LfuLoadsStep ==
  ASSUME LfuInv, [AllNext]_<<cacheVars, structureVars>>
  PROVE  LfuLoads'
<1>0. kind' = kind
  BY LfuDoing
<1> SUFFICES ASSUME kind # "heap" PROVE LfuLoads'
  BY <1>0 DEF LfuLoads
<1>1. /\ lfuNow \in 0 .. MaxTime
      /\ lfuLoading \in [Loaders -> Keys \cup {None}]
      /\ lfuLoaded \in [Loaders -> Values \cup {None}]
      /\ \A c \in Loaders : lfuLoaded[c] # None => lfuLoading[c] # None
  BY DEF LfuInv, LfuLoads
<1>2. CASE /\ UNCHANGED <<lfuLoading, lfuLoaded>>
           /\ lfuNow' = lfuNow \/ (lfuNow < MaxTime /\ lfuNow' = lfuNow + 1)
  BY <1>1, <1>2, LruAssumption DEF LfuLoads
<1>3. ASSUME NEW c \in Loaders, NEW k \in Keys, Lfu!BeginLoad(c, k) PROVE LfuLoads'
  <2>1. /\ lfuLoading[c] = None /\ lfuLoaded' = lfuLoaded /\ lfuNow' = lfuNow
        /\ \E x \in Keys \cup {None} : lfuLoading' = [lfuLoading EXCEPT ![c] = x]
    BY <1>3 DEF Lfu!BeginLoad
  <2> QED
    BY <1>1, <2>1 DEF LfuLoads
<1>4. ASSUME NEW c \in Loaders, Lfu!Load(c) PROVE LfuLoads'
  <2>1. /\ lfuLoading[c] # None /\ lfuLoaded[c] = None /\ lfuNow' = lfuNow
        /\ \/ (\E v \in Values : lfuLoaded' = [lfuLoaded EXCEPT ![c] = v]) /\ lfuLoading' = lfuLoading
           \/ lfuLoading' = [lfuLoading EXCEPT ![c] = None] /\ lfuLoaded' = lfuLoaded
    BY <1>4 DEF Lfu!Load
  <2> QED
    BY <1>1, <2>1 DEF LfuLoads
<1>5. ASSUME NEW c \in Loaders, NEW ttl \in TTLs, Lfu!StoreLoaded(c, ttl) PROVE LfuLoads'
  <2>1. /\ lfuLoading' = [lfuLoading EXCEPT ![c] = None]
        /\ lfuLoaded' = [lfuLoaded EXCEPT ![c] = None] /\ lfuNow' = lfuNow
    BY <1>5 DEF Lfu!StoreLoaded
  <2> QED
    BY <1>1, <2>1 DEF LfuLoads
<1>6. ASSUME NEW k \in Keys, Lfu!CallGet(k) \/ Lfu!Delete(k) PROVE LfuLoads'
  BY <1>2, <1>6 DEF Lfu!CallGet, Lfu!Delete, Lfu!loadVars
<1>7. ASSUME NEW k \in Keys, NEW v \in Values, NEW ttl \in TTLs, Lfu!CallSet(k, v, ttl)
      PROVE  LfuLoads'
  BY <1>2, <1>7 DEF Lfu!CallSet, Lfu!loadVars
<1>8. ASSUME Lfu!Clear \/ Lfu!ListKeys \/ Lfu!Tick \/ UNCHANGED lfuVars PROVE LfuLoads'
  BY <1>2, <1>8 DEF Lfu!Clear, Lfu!ListKeys, Lfu!Tick, Lfu!loadVars, lfuVars
<1>9. ASSUME ~UNCHANGED lfuVars PROVE CacheNext /\ ~InLru /\ ~InHeap
  BY <1>9 DEF AllNext, cacheVars, InTrie, InList, InSlice, InQueue, InIoc, InMigration, InLru,
              InHeap
<1>10. ASSUME CacheNext /\ ~InLru /\ ~InHeap PROVE LfuLoads'
  BY <1>3, <1>4, <1>5, <1>6, <1>7, <1>8, <1>10, Zenon DEF CacheNext
<1> QED
  BY <1>8, <1>9, <1>10, Zenon

LEMMA LfuStep ==
  ASSUME LfuInv, [AllNext]_<<cacheVars, structureVars>>
  PROVE  LfuInv'
<1>1. LfuLoads' /\ LfuSteps /\ kind' = kind
  BY LfuDoing, LfuLoadsStep
<1>2. LfuStore
  BY DEF LfuInv
<1>3. CASE kind = "heap"
  <2>1. /\ Stored(lfuItems, LfuHeap, HeapKeys, Heap!Entries, HeapRoom)
        /\ LfuDoes(HeapKeys, Heap!Entries, HeapRoom)
    BY <1>1, <1>2, <1>3 DEF LfuStore, LfuSteps
  <2>2. Stored(lfuItems', LfuHeap', HeapKeys, Heap!Entries, HeapRoom)
    BY <2>1, DoesStore, CachesAssumption DEF LfuDoes
  <2> QED
    BY <1>1, <1>3, <2>2 DEF LfuInv, LfuStore, LfuHeap
<1>4. CASE kind # "heap"
  <2>1. /\ Stored(lfuItems, LfuHeap, Keys, Entries, Capacity)
        /\ LfuDoes(Keys, Entries, Capacity)
    BY <1>1, <1>2, <1>4 DEF LfuStore, LfuSteps
  <2>2. Stored(lfuItems', LfuHeap', Keys, Entries, Capacity)
    BY <2>1, DoesStore, LruAssumption DEF LfuDoes
  <2> QED
    BY <1>1, <1>4, <2>2 DEF LfuInv, LfuStore, LfuHeap
<1> QED
  BY <1>3, <1>4

LEMMA LfuInit == AllInit => LfuInv
<1> SUFFICES ASSUME AllInit PROVE LfuInv
  OBVIOUS
<1>1. IF kind = "heap" THEN Heap!Init ELSE Lfu!Init
  BY DEF AllInit, CacheInit
<1>2. CASE kind = "heap"
  <2>1. /\ lfuItems = [k \in {} |-> 0]
        /\ LfuHeap = [slots |-> << >>, freq |-> [k \in HeapKeys |-> 0],
                      index |-> [k \in HeapKeys |-> 0]]
    BY <1>1, <1>2 DEF Heap!Init, LfuHeap
  <2>2. Stored(lfuItems, LfuHeap, HeapKeys, Heap!Entries, HeapRoom)
    BY <2>1, StoredNothing, CachesAssumption
  <2> QED
    BY <1>2, <2>2 DEF LfuInv, LfuStore, LfuLoads
<1>3. CASE kind # "heap"
  <2>1. /\ lfuItems = [k \in {} |-> 0]
        /\ LfuHeap = [slots |-> << >>, freq |-> [k \in Keys |-> 0], index |-> [k \in Keys |-> 0]]
    BY <1>1, <1>3 DEF Lfu!Init, LfuHeap
  <2>2. Stored(lfuItems, LfuHeap, Keys, Entries, Capacity)
    BY <2>1, StoredNothing, LruAssumption
  <2>3. LfuLoads
    BY <1>1, <1>3, LruAssumption DEF Lfu!Init, LfuLoads
  <2> QED
    BY <1>3, <2>2, <2>3 DEF LfuInv, LfuStore
<1> QED
  BY <1>2, <1>3

\* The store of either LFU cache and its loaders.
THEOREM LfuInvariant == AllSpec => []LfuInv
<1>1. LfuInv /\ [AllNext]_<<cacheVars, structureVars>> => LfuInv'
  BY LfuStep
<1> QED
  BY <1>1, LfuInit, PTL DEF AllSpec

-----------------------------------------------------------------------------
(* The types of the caches *)

\* The frequencies of either kind stay below their bound, and the kind "heap" has no clock
\* and no loaders.
LfuCounted ==
  /\ Counted(LfuHeap, IF kind = "heap" THEN HeapKeys ELSE Keys)
  /\ kind = "heap" =>
       lfuNow = 1 /\ lfuLoading = [c \in {} |-> None] /\ lfuLoaded = [c \in {} |-> None]

LEMMA LfuCountInit == AllInit => LfuCounted
<1> SUFFICES ASSUME AllInit PROVE LfuCounted
  OBVIOUS
<1>1. IF kind = "heap" THEN Heap!Init ELSE Lfu!Init
  BY DEF AllInit, CacheInit
<1>2. MaxFreq \in Nat /\ 0 <= MaxFreq
  BY CachesAssumption
<1>3. CASE kind = "heap"
  <2>1. /\ LfuHeap.freq = [k \in HeapKeys |-> 0] /\ lfuNow = 1
        /\ lfuLoading = [c \in {} |-> None] /\ lfuLoaded = [c \in {} |-> None]
    BY <1>1, <1>3 DEF Heap!Init, LfuHeap
  <2> QED
    BY <1>2, <1>3, <2>1 DEF LfuCounted, Counted
<1>4. CASE kind # "heap"
  <2>1. LfuHeap.freq = [k \in Keys |-> 0]
    BY <1>1, <1>4 DEF Lfu!Init, LfuHeap
  <2> QED
    BY <1>2, <1>4, <2>1 DEF LfuCounted, Counted
<1> QED
  BY <1>3, <1>4

LEMMA LfuCountStep ==
  ASSUME LfuInv, LfuCounted, [AllNext]_<<cacheVars, structureVars>>
  PROVE  LfuCounted'
<1>1. LfuSteps /\ kind' = kind /\ LfuStore
  BY LfuDoing DEF LfuInv
<1>2. CASE kind = "heap"
  <2>1. /\ Stored(lfuItems, LfuHeap, HeapKeys, Heap!Entries, HeapRoom)
        /\ LfuDoes(HeapKeys, Heap!Entries, HeapRoom) /\ Counted(LfuHeap, HeapKeys)
    BY <1>1, <1>2 DEF LfuStore, LfuSteps, LfuCounted
  <2>2. Counted(LfuHeap', HeapKeys)
    BY <2>1, DoesCount, CachesAssumption DEF LfuDoes
  <2>3. lfuNow' = lfuNow /\ lfuLoading' = lfuLoading /\ lfuLoaded' = lfuLoaded
    <3>1. InHeap /\ CacheNext => \E k \in HeapKeys : Heap!CallGet(k) \/ Heap!Delete(k) \/ Heap!CallSet(k, OneValue, 0)
      BY Zenon DEF CacheNext, InLru, InLfu, InHeap
    <3>2. ASSUME NEW k \in HeapKeys, Heap!CallGet(k) \/ Heap!Delete(k) \/ Heap!CallSet(k, OneValue, 0)
          PROVE  lfuNow' = lfuNow /\ lfuLoading' = lfuLoading /\ lfuLoaded' = lfuLoaded
      BY <3>2 DEF Heap!CallGet, Heap!Delete, Heap!CallSet, Heap!loadVars
    <3>3. ASSUME ~(lfuNow' = lfuNow /\ lfuLoading' = lfuLoading /\ lfuLoaded' = lfuLoaded)
          PROVE  CacheNext /\ ~InLru
      BY <3>3 DEF AllNext, cacheVars, lfuVars, InTrie, InList, InSlice, InQueue, InIoc, InMigration, InLru
    <3>4. CacheNext /\ ~InLru => InHeap
      BY <1>2 DEF CacheNext, InLfu
    <3> QED
      BY <3>1, <3>2, <3>3, <3>4
  <2> QED
    BY <1>1, <1>2, <2>2, <2>3 DEF LfuCounted, LfuHeap, Counted
<1>3. CASE kind # "heap"
  <2>1. /\ Stored(lfuItems, LfuHeap, Keys, Entries, Capacity)
        /\ LfuDoes(Keys, Entries, Capacity) /\ Counted(LfuHeap, Keys)
    BY <1>1, <1>3 DEF LfuStore, LfuSteps, LfuCounted
  <2>2. Counted(LfuHeap', Keys)
    BY <2>1, DoesCount, LruAssumption DEF LfuDoes
  <2> QED
    BY <1>1, <1>3, <2>2 DEF LfuCounted, LfuHeap, Counted
<1> QED
  BY <1>2, <1>3

\* A key's place in the heap is one of those that there is room for.
LEMMA StoredTypes ==
  ASSUME NEW K, NEW E, NEW cap \in Nat, Stored(lfuItems, LfuHeap, K, E, cap), Counted(LfuHeap, K)
  PROVE  /\ DOMAIN lfuItems \subseteq K /\ \A k \in DOMAIN lfuItems : lfuItems[k] \in E
         /\ freqHeap \in Seq(K) /\ freq \in [K -> 0 .. MaxFreq] /\ heapIndex \in [K -> 0 .. cap]
<1>1. LfuHeap.slots = freqHeap /\ LfuHeap.freq = freq /\ LfuHeap.index = heapIndex
  BY DEF LfuHeap
<1>2. /\ DOMAIN lfuItems \subseteq K /\ lfuItems \in [DOMAIN lfuItems -> E]
      /\ Placed(LfuHeap, K) /\ Len(freqHeap) <= cap
  BY <1>1 DEF Stored, HeapOK
<1>3. freqHeap \in Seq(K) /\ freq \in [K -> Nat] /\ heapIndex \in [K -> Nat]
  BY <1>1, <1>2, HeapTypes
<1>4. \A k \in K : freq[k] \in 0 .. MaxFreq
  BY <1>1, <1>3, CachesAssumption DEF Counted
<1>5. ASSUME NEW k \in K PROVE heapIndex[k] \in 0 .. cap
  <2>1. CASE k \in ToSet(freqHeap)
    <3>1. PICK i \in DOMAIN freqHeap : freqHeap[i] = k
      BY <2>1 DEF ToSet
    <3>2. heapIndex[k] = i /\ i \in 1 .. Len(freqHeap) /\ Len(freqHeap) \in Nat
      BY <1>1, <1>2, <1>3, <3>1 DEF Placed
    <3> QED
      BY <1>2, <3>2
  <2>2. CASE k \notin ToSet(freqHeap)
    BY <1>1, <1>2, <2>2 DEF Placed
  <2> QED
    BY <2>1, <2>2
<1> QED
  BY <1>2, <1>3, <1>4, <1>5

LEMMA CacheTypes ==
  ASSUME LruInv, LfuInv, LfuCounted
  PROVE  CacheTypesOK
<1>1. TypeOK
  BY DEF LruInv, LruStore, LruLoads, TypeOK
<1>2. CASE kind = "heap"
  <2>1. Stored(lfuItems, LfuHeap, HeapKeys, Heap!Entries, HeapRoom) /\ Counted(LfuHeap, HeapKeys)
    BY <1>2 DEF LfuInv, LfuStore, LfuCounted
  <2>2. lfuNow \in 0 .. 1 /\ lfuLoading \in [{} -> HeapKeys \cup {None}]
        /\ lfuLoaded \in [{} -> {OneValue} \cup {None}]
    BY <1>2 DEF LfuCounted
  <2>3. Heap!TypeOK
    BY <2>1, <2>2, StoredTypes, CachesAssumption DEF Heap!TypeOK
  <2> QED
    BY <1>1, <1>2, <2>3 DEF CacheTypesOK
<1>3. CASE kind # "heap"
  <2>1. Stored(lfuItems, LfuHeap, Keys, Entries, Capacity) /\ Counted(LfuHeap, Keys)
    BY <1>3 DEF LfuInv, LfuStore, LfuCounted
  <2>2. Lfu!Entries = Entries
    BY DEF Lfu!Entries, Entries
  <2>3. Lfu!TypeOK
    BY <1>3, <2>1, <2>2, StoredTypes, LruAssumption DEF Lfu!TypeOK, LfuInv, LfuLoads
  <2> QED
    BY <1>1, <1>3, <2>3 DEF CacheTypesOK
<1> QED
  BY <1>2, <1>3

\* The types of both caches, for any keys, values, TTLs, loaders, capacities and bounds.
THEOREM CachesTyped == AllSpec => []CacheTypesOK
<1>1. AllInit => LfuCounted
  BY LfuCountInit
<1>2. LfuInv /\ LfuCounted /\ [AllNext]_<<cacheVars, structureVars>> => LfuCounted'
  BY LfuCountStep
<1>3. LruInv /\ LfuInv /\ LfuCounted => CacheTypesOK
  BY CacheTypes
<1> QED
  BY <1>1, <1>2, <1>3, LruInvariant, LfuInvariant, PTL DEF AllSpec

-----------------------------------------------------------------------------
(* The properties of both caches *)

\* What the invariant of a store says of its heap.
LEMMA StoredConsistent ==
  ASSUME NEW i, NEW h, NEW K, NEW E, NEW cap \in Nat, Stored(i, h, K, E, cap)
  PROVE  /\ ToSet(h.slots) = DOMAIN i /\ \A p \in DOMAIN h.slots : h.index[h.slots[p]] = p
         /\ Len(h.slots) = Cardinality(DOMAIN i) /\ Len(h.slots) <= cap
         /\ \A p \in DOMAIN h.slots :
              p > 1 => h.freq[h.slots[p \div 2]] <= h.freq[h.slots[p]]
<1> PICK s \in Seq(K) : s = h.slots
  BY HeapTypes DEF Stored, HeapOK
<1> PICK n \in Nat : n = Len(s) /\ DOMAIN s = 1 .. n
  OBVIOUS
<1>1. /\ ToSet(s) = DOMAIN i /\ Len(s) <= cap /\ \A p \in DOMAIN s : h.index[s[p]] = p
      /\ Ordered(Weights(h, n), n)
  BY DEF Stored, HeapOK, Placed
<1>2. Len(s) = Cardinality(DOMAIN i)
  BY StoredCount
<1>3. ASSUME NEW p \in 1 .. n, p > 1 PROVE h.freq[s[p \div 2]] <= h.freq[s[p]]
  <2>1. p \in 2 .. n
    BY <1>3
  <2> PICK d : d = Parent(p)
    OBVIOUS
  <2>2. d \in 1 .. n
    BY <2>1, Parents
  <2>3. Weights(h, n)[d] <= Weights(h, n)[p]
    BY <1>1, <2>1 DEF Ordered, InOrder
  <2>4. Weights(h, n)[d] = h.freq[s[d]] /\ Weights(h, n)[p] = h.freq[s[p]]
    BY <2>2 DEF Weights
  <2> QED
    BY <2>3, <2>4 DEF Parent
<1> QED
  BY <1>1, <1>2, <1>3

\* The LRU cache's list has the keys of its map; the LFU cache's heap has those of its map,
\* each of which knows its place, and no parent is used more often than its children,
\* whatever was set, used, deleted, loaded and evicted.
THEOREM Consistent == AllSpec => []CachesConsistent
<1>1. LfuInv /\ ListMatchesItems => CachesConsistent
  <2> SUFFICES ASSUME LfuInv, ListMatchesItems PROVE CachesConsistent
    OBVIOUS
  <2>0. /\ LfuHeap.slots = freqHeap /\ LfuHeap.freq = freq /\ LfuHeap.index = heapIndex
        /\ \A s : Lfu!ToSet(s) = ToSet(s) /\ Heap!ToSet(s) = ToSet(s)
    BY DEF LfuHeap, Lfu!ToSet, Heap!ToSet, ToSet
  <2>1. CASE kind = "heap"
    <3>1. Stored(lfuItems, LfuHeap, HeapKeys, Heap!Entries, HeapRoom)
      BY <2>1 DEF LfuInv, LfuStore
    <3>2. /\ ToSet(freqHeap) = DOMAIN lfuItems
          /\ \A p \in DOMAIN freqHeap : heapIndex[freqHeap[p]] = p
          /\ Len(freqHeap) = Cardinality(DOMAIN lfuItems) /\ Len(freqHeap) <= HeapRoom
          /\ \A p \in DOMAIN freqHeap :
               p > 1 => freq[freqHeap[p \div 2]] <= freq[freqHeap[p]]
      BY <2>0, <3>1, StoredConsistent, CachesAssumption
    <3>3. Heap!IndexConsistent
      BY <2>0, <3>2, SameCounts DEF Heap!IndexConsistent
    <3>4. Lfu!HeapOrdered
      BY <3>2 DEF Lfu!HeapOrdered
    <3> QED
      BY <2>1, <3>3, <3>4 DEF CachesConsistent
  <2>2. CASE kind # "heap"
    <3>1. Stored(lfuItems, LfuHeap, Keys, Entries, Capacity)
      BY <2>2 DEF LfuInv, LfuStore
    <3>2. /\ ToSet(freqHeap) = DOMAIN lfuItems
          /\ \A p \in DOMAIN freqHeap : heapIndex[freqHeap[p]] = p
          /\ Len(freqHeap) = Cardinality(DOMAIN lfuItems) /\ Len(freqHeap) <= Capacity
          /\ \A p \in DOMAIN freqHeap :
               p > 1 => freq[freqHeap[p \div 2]] <= freq[freqHeap[p]]
      BY <2>0, <3>1, StoredConsistent, LruAssumption
    <3>3. Lfu!IndexConsistent
      BY <2>0, <3>2, SameCounts DEF Lfu!IndexConsistent
    <3>4. Lfu!HeapOrdered
      BY <3>2 DEF Lfu!HeapOrdered
    <3> QED
      BY <2>2, <3>3, <3>4 DEF CachesConsistent
  <2> QED
    BY <2>1, <2>2
<1> QED
  BY <1>1, LruConsistent, LfuInvariant, PTL

\* What a Set of either cache pushes out was used before all that stays (LRU), or no more often
\* than anything that stays (LFU).
THEOREM EvictionOrder == AllSpec => EvictsInOrder
<1>1. LfuInv /\ [AllNext]_<<cacheVars, structureVars>> =>
        [\A l \in DOMAIN lfuItems \ DOMAIN lfuItems' :
           lfuReply'[1] = "set" => \A m \in DOMAIN lfuItems' : freq[l] <= freq'[m]]_(Lfu!vars)
  <2> SUFFICES ASSUME LfuInv, [AllNext]_<<cacheVars, structureVars>>,
                      NEW l \in DOMAIN lfuItems \ DOMAIN lfuItems', lfuReply'[1] = "set",
                      NEW m \in DOMAIN lfuItems'
               PROVE  freq[l] <= freq'[m]
    OBVIOUS
  <2>1. LfuSteps /\ LfuStore
    BY LfuDoing DEF LfuInv
  <2>2. LfuHeap.freq = freq /\ LfuHeap'.freq = freq'
    BY DEF LfuHeap
  <2>3. CASE kind = "heap"
    <3>1. /\ Stored(lfuItems, LfuHeap, HeapKeys, Heap!Entries, HeapRoom)
          /\ LfuDoes(HeapKeys, Heap!Entries, HeapRoom)
      BY <2>1, <2>3 DEF LfuStore, LfuSteps
    <3>2. LfuHeap.freq[l] <= LfuHeap'.freq[m]
      BY <3>1, DoesEvict, CachesAssumption DEF LfuDoes
    <3> QED
      BY <2>2, <3>2
  <2>4. CASE kind # "heap"
    <3>1. /\ Stored(lfuItems, LfuHeap, Keys, Entries, Capacity)
          /\ LfuDoes(Keys, Entries, Capacity)
      BY <2>1, <2>4 DEF LfuStore, LfuSteps
    <3>2. LfuHeap.freq[l] <= LfuHeap'.freq[m]
      BY <3>1, DoesEvict, LruAssumption DEF LfuDoes
    <3> QED
      BY <2>2, <3>2
  <2> QED
    BY <2>3, <2>4
<1>2. AllSpec => Lfu!EvictsLeastFrequent
  BY <1>1, LfuInvariant, PTL DEF AllSpec, Lfu!EvictsLeastFrequent
<1> QED
  BY <1>2, LruOrder, PTL DEF EvictsInOrder

\* A step of a store with the keys K, entries E and room cap, in the words of Cache.
LEMMA DoesCache ==
  ASSUME NEW K, NEW E, NEW cap \in Nat, Stored(lfuItems, LfuHeap, K, E, cap),
         LfuDoes(K, E, cap), K \subseteq Keys \cup HeapKeys, E \subseteq Entries \cup Heap!Entries,
         cap = IF kind = "heap" THEN HeapRoom ELSE Capacity
  PROVE  LfuAbstract!Operation \/ (lfuItems' = lfuItems /\ lfuReply' = lfuReply)
<1> PICK i : i = lfuItems
  OBVIOUS
<1> PICK j : j = lfuItems'
  OBVIOUS
<1> PICK q : q = lfuReply'
  OBVIOUS
<1> PICK h : h = LfuHeap
  OBVIOUS
<1> PICK g : g = LfuHeap'
  OBVIOUS
<1>0. Does(i, h, lfuReply, j, g, q, K, E, cap) /\ Stored(i, h, K, E, cap)
  BY DEF LfuDoes
<1>k. DOMAIN i \subseteq K /\ i \in [DOMAIN i -> E]
  BY <1>0 DEF Stored
<1>a. i = [k \in DOMAIN i |-> i[k]]
  BY <1>k
<1>1. CASE Answered(i, h, lfuReply, j, g, q, K)
  <2>1. CASE q \in {lfuReply, <<"keys", DOMAIN i>>, <<"len", Cardinality(DOMAIN i)>>} /\ j = i
    BY <2>1, SameCounts DEF LfuAbstract!Operation, LfuAbstract!ListKeys, LfuAbstract!Len,
                            LfuAbstract!Cached
  <2>2. ASSUME NEW k \in K \ DOMAIN i, q \in {<<"miss", k>>, <<"delete", k>>}, j = i
        PROVE  LfuAbstract!Operation
    <3>1. j = LfuAbstract!Restrict(i, DOMAIN i \ {k})
      <4>1. DOMAIN i \ {k} = DOMAIN i
        OBVIOUS
      <4> QED
        BY <1>a, <2>2, <4>1 DEF LfuAbstract!Restrict
    <3>2. LfuAbstract!Miss(k) \/ LfuAbstract!Delete(k)
      BY <2>2, <3>1 DEF LfuAbstract!Miss, LfuAbstract!Delete, LfuAbstract!Cached
    <3> QED
      BY <3>2 DEF LfuAbstract!Operation
  <2> QED
    BY <1>1, <2>1, <2>2 DEF Answered
<1>2. ASSUME NEW k \in DOMAIN i, Hit(i, h, j, g, q, k) PROVE LfuAbstract!Operation
  <2>1. LfuAbstract!Hit(k)
    BY <1>2 DEF Hit, LfuAbstract!Hit, LfuAbstract!Cached, EntryValue
  <2> QED
    BY <1>k, <2>1 DEF LfuAbstract!Operation
<1>3. ASSUME NEW k \in DOMAIN i, Dropped(i, h, j, g, q, k) PROVE LfuAbstract!Operation
  <2>1. j = LfuAbstract!Restrict(i, DOMAIN i \ {k})
    BY <1>3 DEF Dropped, Cut, LfuAbstract!Restrict
  <2>2. CASE q = <<"delete", k>>
    BY <1>k, <2>1, <2>2 DEF LfuAbstract!Operation, LfuAbstract!Delete, LfuAbstract!Cached
  <2>3. CASE q = <<"miss", k>> /\ i[k].until # 0
    <3>1. i[k] \notin Permanent \cup Heap!Permanent
      BY <2>3 DEF Permanent, Heap!Permanent
    <3>2. LfuAbstract!Miss(k)
      BY <2>1, <2>3, <3>1 DEF LfuAbstract!Miss, LfuAbstract!Cached
    <3> QED
      BY <1>k, <3>2 DEF LfuAbstract!Operation
  <2> QED
    BY <1>3, <2>2, <2>3 DEF Dropped
<1>4. ASSUME Cleared(j, g, q, K) PROVE LfuAbstract!Operation
  BY <1>4 DEF Cleared, LfuAbstract!Operation, LfuAbstract!Clear
<1>5. \A k, e : LfuAbstract!With(k, e) = Grown(i, k, e)
  BY DEF LfuAbstract!With, LfuAbstract!Cached, Grown
<1>6. ASSUME NEW k \in K, NEW e \in E, LfuAbstract!Store(k, e), q = <<"set", k>>
      PROVE  LfuAbstract!Operation
  <2>1. e \in Entries \cup Heap!Entries /\ k \in Keys \cup HeapKeys
    OBVIOUS
  <2>2. LfuAbstract!Set(k)
    BY <1>6, <2>1 DEF LfuAbstract!Set
  <2> QED
    BY <2>1, <2>2 DEF LfuAbstract!Operation
<1>7. ASSUME NEW k \in DOMAIN i, NEW e \in E, Updated(i, h, j, g, q, k, e)
      PROVE  LfuAbstract!Operation
  <2>1. LfuAbstract!Store(k, e) /\ q = <<"set", k>>
    BY <1>5, <1>7 DEF Updated, LfuAbstract!Store, LfuAbstract!Cached
  <2> QED
    BY <1>6, <1>k, <2>1
<1>8. ASSUME NEW k \in K \ DOMAIN i, NEW e \in E, Added(i, h, j, g, q, k, e, cap)
      PROVE  LfuAbstract!Operation
  <2>1. /\ ~(Cardinality(DOMAIN i \cup {k}) > cap) /\ g = AsHeap(Lfu!HeapPush(h, k))
        /\ k \in K /\ k \notin DOMAIN i /\ j = Grown(i, k, e) /\ q = <<"set", k>>
    BY <1>8 DEF Added
  <2>2. Cardinality(DOMAIN i) < cap
    BY <1>0, <2>1, StoredGrown
  <2>3. LfuAbstract!Store(k, e)
    BY <1>5, <2>1, <2>2, SameCounts DEF LfuAbstract!Store, LfuAbstract!Cached
  <2> QED
    BY <1>6, <2>1, <2>3
<1>9. ASSUME NEW k \in K \ DOMAIN i, NEW e \in E, Evicted(i, h, j, g, q, k, e, cap)
      PROVE  LfuAbstract!Operation
  <2> PICK l : l = Head(Lfu!HeapPush(h, k).slots)
    OBVIOUS
  <2>1. k \in K /\ k \notin DOMAIN i /\ q = <<"set", k>> /\ j = Cut(Grown(i, k, e), l)
    BY <1>9 DEF Evicted
  <2>2. Least(i, h, g, k, Head(Lfu!HeapPush(h, k).slots), cap)
    BY <1>0, <1>9, <2>1, StoredEvicted, Zenon
  <2>3. ~(Cardinality(DOMAIN i) < cap) /\ l \in DOMAIN i \cup {k}
    <3>1. Cardinality(DOMAIN i) \in Nat
      BY <1>0, StoredCount
    <3> QED
      BY <2>2, <3>1 DEF Least
  <2>4. j = LfuAbstract!Restrict(LfuAbstract!With(k, e), (DOMAIN i \cup {k}) \ {l})
    BY <1>5, <2>1 DEF LfuAbstract!Restrict, Cut, Grown
  <2>5. LfuAbstract!Store(k, e)
    BY <2>1, <2>3, <2>4, SameCounts DEF LfuAbstract!Store, LfuAbstract!Cached
  <2> QED
    BY <1>6, <2>1, <2>5
<1> QED
  BY <1>0, <1>1, <1>2, <1>3, <1>4, <1>7, <1>8, <1>9 DEF Does, Stores

\* Both caches do what a Cache does, expiry and loaders included.
THEOREM Refinement == AllSpec => ImplementCache
<1>1. AllInit => LfuAbstract!Init
  <2> SUFFICES ASSUME AllInit PROVE LfuAbstract!Init
    OBVIOUS
  <2>1. lfuItems = [k \in {} |-> 0] /\ lfuReply = <<"none">>
    BY DEF AllInit, CacheInit, Heap!Init, Lfu!Init
  <2>2. (IF kind = "heap" THEN HeapRoom ELSE Capacity) \in Nat
    BY LruAssumption, CachesAssumption
  <2> QED
    BY <2>1, <2>2 DEF LfuAbstract!Init
<1>2. LfuInv /\ [AllNext]_<<cacheVars, structureVars>> => [LfuAbstract!Next]_(LfuAbstract!vars)
  <2> SUFFICES ASSUME LfuInv, [AllNext]_<<cacheVars, structureVars>>
               PROVE  [LfuAbstract!Next]_(LfuAbstract!vars)
    OBVIOUS
  <2>1. LfuSteps /\ LfuStore /\ kind' = kind
    BY LfuDoing DEF LfuInv
  <2>2. LfuAbstract!Operation \/ (lfuItems' = lfuItems /\ lfuReply' = lfuReply)
    <3>1. CASE kind = "heap"
      <4>1. /\ Stored(lfuItems, LfuHeap, HeapKeys, Heap!Entries, HeapRoom)
            /\ LfuDoes(HeapKeys, Heap!Entries, HeapRoom)
        BY <2>1, <3>1 DEF LfuStore, LfuSteps
      <4> QED
        BY <3>1, <4>1, DoesCache, CachesAssumption
    <3>2. CASE kind # "heap"
      <4>1. /\ Stored(lfuItems, LfuHeap, Keys, Entries, Capacity)
            /\ LfuDoes(Keys, Entries, Capacity)
        BY <2>1, <3>2 DEF LfuStore, LfuSteps
      <4> QED
        BY <3>2, <4>1, DoesCache, LruAssumption
    <3> QED
      BY <3>1, <3>2
  <2> QED
    BY <2>1, <2>2 DEF LfuAbstract!Next, LfuAbstract!vars
<1>3. AllSpec => LfuAbstract!Spec
  BY <1>1, <1>2, LfuInvariant, PTL DEF AllSpec, LfuAbstract!Spec
<1> QED
  BY <1>3, LruRefinement, PTL DEF ImplementCache
=============================================================================
