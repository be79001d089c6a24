----------------------------- MODULE ListProofs -----------------------------
(***************************************************************************)
(* Theorems about the insertion list and the linked list of StructuresMC,  *)
(* and about all its structures together.                                  *)
(***************************************************************************)
EXTENDS StructuresProofs

-----------------------------------------------------------------------------
(* InsertionList *)

LEMMA Keyed ==
  ASSUME NEW s \in Seq(Items)
  PROVE  /\ Len(s) \in Nat /\ DOMAIN s = 1 .. Len(s)
         /\ \A i \in 1 .. Len(s) : s[i] \in Items /\ Key[s[i]] \in Int /\ Key[s[i]] \in Slice!KeyValues
<1>1. Len(s) \in Nat /\ DOMAIN s = 1 .. Len(s) /\ \A i \in 1 .. Len(s) : s[i] \in Items
  OBVIOUS
<1>2. \A x \in Items : Key[x] \in Int /\ Key[x] \in Slice!KeyValues
  BY StructuresAssumption DEF Slice!KeyValues
<1> QED
  BY <1>1, <1>2

\* What InsertAt and RemoveAt make.
LEMMA Inserted ==
  ASSUME NEW T, NEW s \in Seq(T), NEW j \in 1 .. Len(s) + 1, NEW x \in T
  PROVE  /\ Slice!SE!InsertAt(s, j, x) \in Seq(T) /\ Len(Slice!SE!InsertAt(s, j, x)) = Len(s) + 1
         /\ \A i \in 1 .. Len(s) + 1 :
              Slice!SE!InsertAt(s, j, x)[i] = IF i < j THEN s[i] ELSE IF i = j THEN x ELSE s[i - 1]
<1> PICK n \in Nat : n = Len(s)
  OBVIOUS
<1> DEFINE a == SubSeq(s, 1, j - 1)
           b == SubSeq(s, j, n)
<1>1. /\ a \in Seq(T) /\ Len(a) = j - 1 /\ \A i \in 1 .. j - 1 : a[i] = s[i]
  <2> PICK k \in 0 .. n : k = j - 1
    OBVIOUS
  <2>1. SubSeq(s, 1, k) \in Seq(T) /\ Len(SubSeq(s, 1, k)) = k /\ \A i \in 1 .. k : SubSeq(s, 1, k)[i] = s[i]
    OBVIOUS
  <2> QED
    BY <2>1
<1>2. b \in Seq(T) /\ Len(b) = n - j + 1 /\ \A i \in 1 .. n - j + 1 : b[i] = s[i + j - 1]
  OBVIOUS
<1>3. /\ <<x>> \in Seq(T) /\ Len(<<x>>) = 1 /\ <<x>>[1] = x
  OBVIOUS
<1> HIDE DEF a, b
<1>4. /\ a \o <<x>> \in Seq(T) /\ Len(a \o <<x>>) = j
      /\ \A i \in 1 .. j : (a \o <<x>>)[i] = IF i < j THEN s[i] ELSE x
  <2>1. /\ a \o <<x>> \in Seq(T) /\ Len(a \o <<x>>) = Len(a) + 1
        /\ \A i \in 1 .. Len(a) + 1 : (a \o <<x>>)[i] = IF i <= Len(a) THEN a[i] ELSE <<x>>[i - Len(a)]
    BY <1>1, <1>3, Joined
  <2> QED
    BY <1>1, <1>3, <2>1
<1> PICK c : c = a \o <<x>>
  OBVIOUS
<1>5. /\ c \o b \in Seq(T) /\ Len(c \o b) = Len(c) + Len(b)
      /\ \A i \in 1 .. Len(c) + Len(b) : (c \o b)[i] = IF i <= Len(c) THEN c[i] ELSE b[i - Len(c)]
  <2>1. c \in Seq(T)
    BY <1>4
  <2> QED
    BY ONLY <1>2, <2>1, Joined
<1>6. /\ c \o b \in Seq(T) /\ Len(c \o b) = n + 1
      /\ \A i \in 1 .. n + 1 : (c \o b)[i] = IF i < j THEN s[i] ELSE IF i = j THEN x ELSE s[i - 1]
  <2>1. Len(c) = j /\ Len(b) = n - j + 1 /\ \A i \in 1 .. j : c[i] = IF i < j THEN s[i] ELSE x
    BY <1>2, <1>4
  <2>2. ASSUME NEW i \in 1 .. n + 1
        PROVE  (c \o b)[i] = IF i < j THEN s[i] ELSE IF i = j THEN x ELSE s[i - 1]
    <3>1. CASE i <= j
      <4>1. i \in 1 .. j /\ i \in 1 .. Len(c) + Len(b) /\ i <= Len(c)
        BY <2>1, <3>1
      <4>2. (c \o b)[i] = c[i]
        BY <1>5, <4>1
      <4>3. c[i] = IF i < j THEN s[i] ELSE x
        BY <2>1, <4>1
      <4>4. i < j \/ i = j
        BY <3>1
      <4> QED
        BY <4>2, <4>3, <4>4
    <3>2. CASE i > j
      <4>1. i - j \in 1 .. n - j + 1 /\ i - j + j - 1 = i - 1
        BY <3>2
      <4>2. b[i - j] = s[i - 1]
        BY <1>2, <4>1
      <4>3. i \in 1 .. Len(c) + Len(b) /\ ~(i <= Len(c)) /\ Len(c) = j /\ ~(i < j) /\ i # j
        BY <2>1, <3>2
      <4>4. (c \o b)[i] = b[i - Len(c)]
        BY <1>5, <4>3
      <4> QED
        BY <4>2, <4>3, <4>4, Zenon
    <3>3. i <= j \/ i > j
      OBVIOUS
    <3> QED
      BY <3>1, <3>2, <3>3, Zenon
  <2> QED
    BY <1>5, <2>1, <2>2
<1>7. Slice!SE!InsertAt(s, j, x) = c \o b
  BY DEF Slice!SE!InsertAt, a, b
<1> QED
  BY <1>6, <1>7

LEMMA Removed ==
  ASSUME NEW T, NEW s \in Seq(T), NEW j \in 1 .. Len(s)
  PROVE  /\ Slice!SE!RemoveAt(s, j) \in Seq(T) /\ Len(Slice!SE!RemoveAt(s, j)) = Len(s) - 1
         /\ \A i \in 1 .. Len(s) - 1 : Slice!SE!RemoveAt(s, j)[i] = IF i < j THEN s[i] ELSE s[i + 1]
<1> PICK n \in Nat : n = Len(s)
  OBVIOUS
<1> DEFINE a == SubSeq(s, 1, j - 1)
           b == SubSeq(s, j + 1, n)
<1>1. /\ a \in Seq(T) /\ Len(a) = j - 1 /\ \A i \in 1 .. j - 1 : a[i] = s[i]
  <2> PICK k \in 0 .. n : k = j - 1
    OBVIOUS
  <2>1. SubSeq(s, 1, k) \in Seq(T) /\ Len(SubSeq(s, 1, k)) = k /\ \A i \in 1 .. k : SubSeq(s, 1, k)[i] = s[i]
    OBVIOUS
  <2> QED
    BY <2>1
<1>2. b \in Seq(T) /\ Len(b) = n - j /\ \A i \in 1 .. n - j : b[i] = s[i + j]
  OBVIOUS
<1> HIDE DEF a, b
<1>3. /\ a \o b \in Seq(T) /\ Len(a \o b) = Len(a) + Len(b)
      /\ \A i \in 1 .. Len(a) + Len(b) : (a \o b)[i] = IF i <= Len(a) THEN a[i] ELSE b[i - Len(a)]
  BY <1>1, <1>2, Joined
<1>4. ASSUME NEW i \in 1 .. n - 1
      PROVE  (a \o b)[i] = IF i < j THEN s[i] ELSE s[i + 1]
  <2>1. CASE i < j
    <3>1. i \in 1 .. Len(a) + Len(b) /\ i <= Len(a) /\ i \in 1 .. j - 1
      BY <1>1, <1>2, <2>1
    <3> QED
      BY <1>1, <1>3, <2>1, <3>1
  <2>2. CASE i >= j
    <3>1. i - (j - 1) \in 1 .. n - j /\ i - (j - 1) + j = i + 1
      BY <2>2
    <3>2. b[i - (j - 1)] = s[i + 1]
      BY <1>2, <3>1
    <3>3. i \in 1 .. Len(a) + Len(b) /\ ~(i <= Len(a)) /\ Len(a) = j - 1 /\ ~(i < j)
      BY <1>1, <1>2, <2>2
    <3>4. (a \o b)[i] = b[i - Len(a)]
      BY <1>3, <3>3
    <3> QED
      BY <3>2, <3>3, <3>4, Zenon
  <2>3. i < j \/ i >= j
    OBVIOUS
  <2> QED
    BY <2>1, <2>2, <2>3, Zenon
<1>5. Slice!SE!RemoveAt(s, j) = a \o b
  BY DEF Slice!SE!RemoveAt, a, b
<1> QED
  BY <1>1, <1>2, <1>3, <1>4, <1>5

\* A sequence in order, at any two places.
LEMMA Ascending ==
  ASSUME NEW s \in Seq(Items), Slice!InOrder(s), NEW i \in 1 .. Len(s), NEW j \in i .. Len(s)
  PROVE  Key[s[i]] <= Key[s[j]]
<1> DEFINE Wrong == {k \in i .. Len(s) : ~(Key[s[i]] <= Key[s[k]])}
<1>1. Wrong = {}
  <2> SUFFICES ASSUME Wrong # {} PROVE FALSE
    OBVIOUS
  <2>1. PICK k \in Wrong : \A l \in Wrong : k <= l
    <3>1. Wrong \in SUBSET Nat
      BY Keyed
    <3> HIDE DEF Wrong
    <3> QED
      BY <3>1, LeastNumber
  <2>2. Key[s[i]] \in Int /\ Len(s) \in Nat
    BY Keyed
  <2>3. k # i
    BY <2>1, <2>2
  <2>4. k - 1 \in i .. Len(s) /\ k - 1 \in 1 .. Len(s) - 1 /\ k - 1 + 1 = k /\ k \in 1 .. Len(s) /\ ~(k <= k - 1)
    BY <2>1, <2>2, <2>3
  <2>5. Key[s[i]] <= Key[s[k - 1]]
    BY <2>1, <2>4
  <2>6. Key[s[k - 1]] <= Key[s[k]]
    BY <2>4 DEF Slice!InOrder
  <2>7. Key[s[k - 1]] \in Int /\ Key[s[k]] \in Int
    BY <2>4, Keyed
  <2> QED
    BY <2>1, <2>2, <2>5, <2>6, <2>7
<1> QED
  BY <1>1

\* The places of a key.
Places(s, k) == {i \in 1 .. Len(s) : Key[s[i]] = k}

LEMMA PlacesInserted ==
  ASSUME NEW s \in Seq(Items), NEW j \in 1 .. Len(s) + 1, NEW x \in Items, NEW k
  PROVE  /\ IsFiniteSet(Places(s, k)) /\ Cardinality(Places(s, k)) \in Nat
         /\ Cardinality(Places(Slice!SE!InsertAt(s, j, x), k))
              = IF Key[x] = k THEN Cardinality(Places(s, k)) + 1 ELSE Cardinality(Places(s, k))
<1> PICK n \in Nat : n = Len(s)
  OBVIOUS
<1> PICK t : t = Slice!SE!InsertAt(s, j, x)
  OBVIOUS
<1>1. Len(t) = n + 1 /\ \A i \in 1 .. n + 1 : t[i] = IF i < j THEN s[i] ELSE IF i = j THEN x ELSE s[i - 1]
  BY Inserted
<1> DEFINE S == Places(s, k)
           D == Places(t, k) \ {j}
           f == [i \in S |-> IF i < j THEN i ELSE i + 1]
<1>2. S \subseteq 1 .. n
  BY DEF Places
<1>3. IsFiniteSet(1 .. n)
  BY FS_Interval
<1>4. IsFiniteSet(S) /\ Cardinality(S) \in Nat
  <2> HIDE DEF S
  <2> QED
    BY <1>2, <1>3, FS_Subset, FS_CardinalityType
<1>5. f \in [S -> D]
  <2>1. ASSUME NEW i \in S PROVE f[i] \in D
    <3>1. i \in 1 .. n /\ Key[s[i]] = k
      BY DEF Places
    <3>2. CASE i < j
      BY <1>1, <3>1, <3>2 DEF Places
    <3>3. CASE i >= j
      <4>1. f[i] = i + 1 /\ i + 1 \in 1 .. n + 1 /\ ~(i + 1 < j) /\ i + 1 # j /\ i + 1 - 1 = i
        BY <3>1, <3>3
      <4>2. t[i + 1] = s[i]
        <5> PICK h \in 1 .. n + 1 : h = i + 1
          BY <4>1
        <5>1. ~(h < j) /\ h # j /\ h - 1 = i
          BY ONLY <3>1, <4>1, h = i + 1
        <5>2. t[h] = s[h - 1]
          BY <1>1, <5>1
        <5> QED
          BY <5>1, <5>2, Zenon
      <4> QED
        BY <1>1, <3>1, <4>1, <4>2 DEF Places
    <3> QED
      BY <3>1, <3>2, <3>3
  <2> QED
    BY <2>1
<1>6. \A a, b \in S : f[a] = f[b] => a = b
  BY <1>2
<1>7. ASSUME NEW y \in D PROVE \E i \in S : f[i] = y
  <2>1. y \in 1 .. n + 1 /\ y # j /\ Key[t[y]] = k
    BY <1>1 DEF Places
  <2>2. CASE y < j
    <3>1. y \in S /\ f[y] = y
      BY <1>1, <2>1, <2>2 DEF Places
    <3> QED
      BY <3>1
  <2>3. CASE y > j
    <3>1. y - 1 \in 1 .. n /\ ~(y < j) /\ y - 1 + 1 = y /\ ~(y - 1 < j)
      BY <2>1, <2>3
    <3>2. t[y] = s[y - 1]
      BY <1>1, <2>1, <3>1
    <3>3. y - 1 \in S
      BY <2>1, <3>1, <3>2 DEF Places
    <3>4. f[y - 1] = y
      BY <3>1, <3>3
    <3> QED
      BY <3>3, <3>4
  <2> QED
    BY <2>1, <2>2, <2>3
<1>8. IsFiniteSet(D) /\ Cardinality(D) = Cardinality(S)
  <2>1. f \in Bijection(S, D)
    BY <1>5, <1>6, <1>7 DEF Bijection, Injection, Surjection, IsInjective
  <2> HIDE DEF f, S, D
  <2> QED
    BY <1>4, <2>1, FS_Bijection DEF ExistsBijection
<1>9. j \in Places(t, k) <=> Key[x] = k
  BY <1>1 DEF Places
<1>10. CASE Key[x] = k
  <2>1. Places(t, k) = D \cup {j} /\ j \notin D
    BY <1>9, <1>10
  <2> HIDE DEF S, D
  <2>2. Cardinality(Places(t, k)) = Cardinality(S) + 1
    BY <1>8, <2>1, FS_AddElement
  <2> QED
    BY <1>4, <1>10, <2>2 DEF S
<1>11. CASE Key[x] # k
  <2>1. Places(t, k) = D
    BY <1>9, <1>11
  <2> QED
    BY <1>4, <1>8, <1>11, <2>1
<1> QED
  BY <1>10, <1>11

\* Removing an element is undone by inserting it again.
LEMMA InsertedAgain ==
  ASSUME NEW r \in Seq(Items), NEW j \in 1 .. Len(r) + 1, NEW x \in Items,
         NEW s \in Seq(Items), Len(s) = Len(r) + 1, s[j] = x,
         \A i \in 1 .. Len(r) : r[i] = IF i < j THEN s[i] ELSE s[i + 1]
  PROVE  Slice!SE!InsertAt(r, j, x) = s
<1> PICK t : t = Slice!SE!InsertAt(r, j, x)
  OBVIOUS
<1>1. /\ t \in Seq(Items) /\ Len(t) = Len(r) + 1
      /\ \A i \in 1 .. Len(r) + 1 : t[i] = IF i < j THEN r[i] ELSE IF i = j THEN x ELSE r[i - 1]
  BY ONLY r \in Seq(Items), j \in 1 .. Len(r) + 1, x \in Items, t = Slice!SE!InsertAt(r, j, x), Inserted
<1>2. ASSUME NEW i \in 1 .. Len(r) + 1 PROVE t[i] = s[i]
  <2>1. CASE i < j
    <3>1. i \in 1 .. Len(r)
      BY <2>1
    <3> QED
      BY <1>1, <2>1, <3>1
  <2>2. CASE i = j
    BY <1>1, <2>2
  <2>3. CASE i > j
    <3> PICK h : h = i - 1
      OBVIOUS
    <3>1. h \in 1 .. Len(r) /\ ~(h < j) /\ h + 1 = i /\ ~(i < j) /\ i # j
      BY <2>3
    <3>2. r[h] = s[h + 1]
      BY <3>1
    <3>3. t[i] = r[i - 1]
      BY <1>1, <3>1
    <3> QED
      BY <3>1, <3>2, <3>3, Zenon
  <2>4. i < j \/ i = j \/ i > j
    OBVIOUS
  <2> QED
    BY <2>1, <2>2, <2>3, <2>4, Zenon
<1> QED
  BY <1>1, <1>2

LEMMA PlacesRemoved ==
  ASSUME NEW s \in Seq(Items), NEW j \in 1 .. Len(s), NEW k
  PROVE  /\ Cardinality(Places(s, k)) \in Nat
         /\ Cardinality(Places(Slice!SE!RemoveAt(s, j), k))
              = IF Key[s[j]] = k THEN Cardinality(Places(s, k)) - 1 ELSE Cardinality(Places(s, k))
<1>1. /\ Slice!SE!RemoveAt(s, j) \in Seq(Items) /\ Len(Slice!SE!RemoveAt(s, j)) = Len(s) - 1
      /\ s[j] \in Items /\ Len(s) \in Nat
      /\ \A i \in 1 .. Len(s) - 1 : Slice!SE!RemoveAt(s, j)[i] = IF i < j THEN s[i] ELSE s[i + 1]
  BY Removed, Keyed
<1> PICK r \in Seq(Items) : r = Slice!SE!RemoveAt(s, j)
  BY <1>1
<1> PICK x \in Items : x = s[j]
  BY <1>1
<1>2. /\ Len(r) = Len(s) - 1
      /\ \A i \in 1 .. Len(s) - 1 : r[i] = IF i < j THEN s[i] ELSE s[i + 1]
  BY <1>1
<1>3. j \in 1 .. Len(r) + 1 /\ Len(s) = Len(r) + 1
  BY <1>1, <1>2
<1>4. \A i \in 1 .. Len(r) : r[i] = IF i < j THEN s[i] ELSE s[i + 1]
  BY <1>2, Zenon
<1>5. Slice!SE!InsertAt(r, j, x) = s
  BY <1>3, <1>4, InsertedAgain, Zenon
<1>6. /\ Cardinality(Places(r, k)) \in Nat
      /\ Cardinality(Places(Slice!SE!InsertAt(r, j, x), k))
           = IF Key[x] = k THEN Cardinality(Places(r, k)) + 1 ELSE Cardinality(Places(r, k))
  BY ONLY r \in Seq(Items), x \in Items, <1>3, PlacesInserted
<1> QED
  BY <1>5, <1>6

\* Inserting between the smaller elements and the others, and removing, keep the order.
LEMMA OrderInserted ==
  ASSUME NEW s \in Seq(Items), Slice!InOrder(s), NEW j \in 1 .. Len(s) + 1, NEW x \in Items,
         \A i \in 1 .. Len(s) : i < j <=> Key[s[i]] < Key[x]
  PROVE  Slice!InOrder(Slice!SE!InsertAt(s, j, x))
<1> PICK n \in Nat : n = Len(s)
  OBVIOUS
<1> PICK t : t = Slice!SE!InsertAt(s, j, x)
  OBVIOUS
<1>1. Len(t) = n + 1 /\ \A i \in 1 .. n + 1 : t[i] = IF i < j THEN s[i] ELSE IF i = j THEN x ELSE s[i - 1]
  BY Inserted
<1>2. Key[x] \in Int /\ \A i \in 1 .. n : Key[s[i]] \in Int
  BY Keyed, StructuresAssumption
<1>3. ASSUME NEW i \in 1 .. n PROVE Key[t[i]] <= Key[t[i + 1]]
  <2> PICK h \in 2 .. n + 1 : h = i + 1 /\ h - 1 = i
    OBVIOUS
  <2>1. CASE h < j
    <3>1. t[i] = s[i] /\ t[h] = s[h] /\ h \in 1 .. n /\ i \in 1 .. n - 1
      BY <1>1, <2>1
    <3> QED
      BY <3>1 DEF Slice!InOrder
  <2>2. CASE h = j
    <3>1. t[i] = s[i] /\ t[h] = x /\ Key[s[i]] < Key[x]
      BY <1>1, <2>2
    <3> QED
      BY <1>2, <3>1
  <2>3. CASE i = j
    <3>1. t[i] = x /\ t[h] = s[i] /\ ~(Key[s[i]] < Key[x])
      BY <1>1, <2>3
    <3> QED
      BY <1>2, <3>1
  <2>4. CASE i > j
    <3> PICK g \in 1 .. n - 1 : g = i - 1 /\ g + 1 = i
      BY <2>4
    <3>1. t[i] = s[g] /\ t[h] = s[i]
      BY <1>1, <2>4
    <3>2. Key[s[g]] <= Key[s[g + 1]]
      BY DEF Slice!InOrder
    <3> QED
      BY <3>1, <3>2
  <2>5. h < j \/ h = j \/ i = j \/ i > j
    OBVIOUS
  <2> QED
    BY <2>1, <2>2, <2>3, <2>4, <2>5
<1>4. Len(t) - 1 = n
  BY <1>1
<1> QED
  BY <1>3, <1>4 DEF Slice!InOrder

LEMMA OrderRemoved ==
  ASSUME NEW s \in Seq(Items), Slice!InOrder(s), NEW j \in 1 .. Len(s)
  PROVE  Slice!InOrder(Slice!SE!RemoveAt(s, j))
<1> PICK n \in Nat : n = Len(s)
  OBVIOUS
<1> PICK t : t = Slice!SE!RemoveAt(s, j)
  OBVIOUS
<1>1. Len(t) = n - 1 /\ \A i \in 1 .. n - 1 : t[i] = IF i < j THEN s[i] ELSE s[i + 1]
  BY Removed
<1>2. ASSUME NEW i \in 1 .. n - 2 PROVE Key[t[i]] <= Key[t[i + 1]]
  <2> PICK h \in 2 .. n - 1 : h = i + 1
    OBVIOUS
  <2>1. \A a \in 1 .. n, b \in 1 .. n : a <= b => Key[s[a]] <= Key[s[b]]
    BY Ascending
  <2>2. \E a \in 1 .. n : \E b \in 1 .. n : a <= b /\ t[i] = s[a] /\ t[h] = s[b]
    <3>1. CASE h < j
      BY <1>1, <3>1
    <3>2. CASE h >= j /\ i < j
      <4>1. t[i] = s[i] /\ t[h] = s[h + 1] /\ i <= h + 1 /\ i \in 1 .. n /\ h + 1 \in 1 .. n
        BY <1>1, <3>2
      <4> QED
        BY <4>1
    <3>3. CASE i >= j
      <4>1. t[i] = s[i + 1] /\ t[h] = s[h + 1] /\ i + 1 <= h + 1 /\ i + 1 \in 1 .. n /\ h + 1 \in 1 .. n
        BY <1>1, <3>3
      <4> QED
        BY <4>1
    <3> QED
      BY <3>1, <3>2, <3>3
  <2> QED
    BY <2>1, <2>2
<1>3. Len(t) - 1 = n - 2
  BY <1>1
<1> QED
  BY <1>2, <1>3 DEF Slice!InOrder

\* The binary searches, unrolled.
LEMMA AddLoop ==
  ASSUME NEW x, Len(slice) \in Nat
  PROVE  \E f : /\ f[0] = [left |-> 0, right |-> Len(slice)] /\ Slice!LowerBound(x) = f[Len(slice)].right
                /\ \A k \in 1 .. Len(slice) : f[k] = Slice!AddRound(f[k - 1], x)
<1> DEFINE Unrolled(f, m) ==
      f = [k \in 0 .. m |-> IF k = 0 THEN [left |-> 0, right |-> Len(slice)] ELSE Slice!AddRound(f[k - 1], x)]
           Missing == {m \in Nat : ~ \E f : Unrolled(f, m)}
<1>1. Missing = {}
  <2> SUFFICES ASSUME Missing # {} PROVE FALSE
    OBVIOUS
  <2>1. PICK m \in Missing : \A l \in Missing : m <= l
    <3>1. Missing \in SUBSET Nat
      OBVIOUS
    <3> HIDE DEF Missing
    <3> QED
      BY <3>1, LeastNumber
  <2>2. m # 0
    <3>1. Unrolled([k \in 0 .. 0 |-> [left |-> 0, right |-> Len(slice)]], 0)
      OBVIOUS
    <3> QED
      BY <3>1
  <2>3. m \in Nat /\ m - 1 \in Nat /\ ~(m <= m - 1)
    BY <2>1, <2>2
  <2>4. PICK f : Unrolled(f, m - 1)
    <3>1. m - 1 \notin Missing
      <4> HIDE DEF Missing
      <4> QED
        BY <2>1, <2>3
    <3> QED
      BY <2>3, <3>1
  <2> DEFINE g == [k \in 0 .. m |-> IF k = m THEN Slice!AddRound(f[m - 1], x) ELSE f[k]]
  <2>5. ASSUME NEW k \in 0 .. m
        PROVE  g[k] = IF k = 0 THEN [left |-> 0, right |-> Len(slice)] ELSE Slice!AddRound(g[k - 1], x)
    BY <2>2, <2>3, <2>4
  <2>6. Unrolled(g, m)
    BY <2>5
  <2> QED
    BY <2>1, <2>6
<1> PICK f : Unrolled(f, Len(slice))
  BY <1>1
<1>2. Slice!LowerBound(x) = (CHOOSE g : Unrolled(g, Len(slice)))[Len(slice)].right
  BY DEF Slice!LowerBound
<1> PICK g : g = CHOOSE e : Unrolled(e, Len(slice))
  OBVIOUS
<1>3. Unrolled(g, Len(slice))
  OBVIOUS
<1>4. \A k \in 1 .. Len(slice) : k \in 0 .. Len(slice) /\ k # 0
  OBVIOUS
<1>5. DOMAIN g = 0 .. Len(slice) /\ 0 \in 0 .. Len(slice)
  BY <1>3
<1>6. ASSUME NEW k \in 0 .. Len(slice)
      PROVE  g[k] = IF k = 0 THEN [left |-> 0, right |-> Len(slice)] ELSE Slice!AddRound(g[k - 1], x)
  BY <1>3
<1> QED
  BY <1>2, <1>4, <1>5, <1>6

LEMMA FindLoop ==
  ASSUME NEW x, Len(slice) \in Nat
  PROVE  \E f : /\ f[0] = [left |-> 0, right |-> Len(slice) - 1] /\ Slice!Find(x) = IF f[Len(slice)].left > f[Len(slice)].right THEN 0 - 1 ELSE Slice!Middle(f[Len(slice)])
                /\ \A k \in 1 .. Len(slice) : f[k] = Slice!FindRound(f[k - 1], x)
<1> DEFINE Unrolled(f, m) ==
      f = [k \in 0 .. m |-> IF k = 0 THEN [left |-> 0, right |-> Len(slice) - 1] ELSE Slice!FindRound(f[k - 1], x)]
           Missing == {m \in Nat : ~ \E f : Unrolled(f, m)}
<1>1. Missing = {}
  <2> SUFFICES ASSUME Missing # {} PROVE FALSE
    OBVIOUS
  <2>1. PICK m \in Missing : \A l \in Missing : m <= l
    <3>1. Missing \in SUBSET Nat
      OBVIOUS
    <3> HIDE DEF Missing
    <3> QED
      BY <3>1, LeastNumber
  <2>2. m # 0
    <3>1. Unrolled([k \in 0 .. 0 |-> [left |-> 0, right |-> Len(slice) - 1]], 0)
      OBVIOUS
    <3> QED
      BY <3>1
  <2>3. m \in Nat /\ m - 1 \in Nat /\ ~(m <= m - 1)
    BY <2>1, <2>2
  <2>4. PICK f : Unrolled(f, m - 1)
    <3>1. m - 1 \notin Missing
      <4> HIDE DEF Missing
      <4> QED
        BY <2>1, <2>3
    <3> QED
      BY <2>3, <3>1
  <2> DEFINE g == [k \in 0 .. m |-> IF k = m THEN Slice!FindRound(f[m - 1], x) ELSE f[k]]
  <2>5. ASSUME NEW k \in 0 .. m
        PROVE  g[k] = IF k = 0 THEN [left |-> 0, right |-> Len(slice) - 1] ELSE Slice!FindRound(g[k - 1], x)
    BY <2>2, <2>3, <2>4
  <2>6. Unrolled(g, m)
    BY <2>5
  <2> QED
    BY <2>1, <2>6
<1> PICK f : Unrolled(f, Len(slice))
  BY <1>1
<1>2. Slice!Find(x) = IF (CHOOSE g : Unrolled(g, Len(slice)))[Len(slice)].left > (CHOOSE g : Unrolled(g, Len(slice)))[Len(slice)].right THEN 0 - 1 ELSE Slice!Middle((CHOOSE g : Unrolled(g, Len(slice)))[Len(slice)])
  BY DEF Slice!Find
<1> PICK g : g = CHOOSE e : Unrolled(e, Len(slice))
  OBVIOUS
<1>3. Unrolled(g, Len(slice))
  OBVIOUS
<1>4. \A k \in 1 .. Len(slice) : k \in 0 .. Len(slice) /\ k # 0
  OBVIOUS
<1>5. DOMAIN g = 0 .. Len(slice) /\ 0 \in 0 .. Len(slice)
  BY <1>3
<1>6. ASSUME NEW k \in 0 .. Len(slice)
      PROVE  g[k] = IF k = 0 THEN [left |-> 0, right |-> Len(slice) - 1] ELSE Slice!FindRound(g[k - 1], x)
  BY <1>3
<1> QED
  BY <1>2, <1>4, <1>5, <1>6

\* What is left to search, after some rounds: the elements before it are smaller, and the
\* ones behind it are not smaller (Add) or greater (Find).
AddLeft(l, r, x) ==
  Slice!InOrder(slice) =>
    /\ \A j \in 1 .. l : Key[slice[j]] < Key[x]
    /\ \A j \in r + 1 .. Len(slice) : Key[slice[j]] >= Key[x]
FindLeft(l, r, x) ==
  Slice!InOrder(slice) =>
    /\ \A j \in 1 .. l : Key[slice[j]] < Key[x]
    /\ \A j \in r + 2 .. Len(slice) : Key[slice[j]] > Key[x]

LEMMA Halfway ==
  ASSUME NEW l \in Nat, NEW r \in Nat, l <= r
  PROVE  /\ (l + r) \div 2 \in l .. r
         /\ l < r => (l + r) \div 2 \in l .. r - 1
OBVIOUS
LEMMA AddRoundIs ==
  ASSUME NEW l \in Int, NEW r \in Int, NEW x, Key[x] \in Int
  PROVE  /\ l >= r => Slice!AddRound([left |-> l, right |-> r], x) = [left |-> l, right |-> r]
         /\ \A k \in Int : \A m \in Int :
              m = (l + r) \div 2 /\ k = Key[slice[m + 1]] /\ ~(l >= r) =>
                Slice!AddRound([left |-> l, right |-> r], x) =
                  IF k >= Key[x] THEN [left |-> l, right |-> m] ELSE [left |-> m + 1, right |-> r]
<1> PICK w : w = [left |-> l, right |-> r]
  OBVIOUS
<1>1. w.left = l /\ w.right = r
  OBVIOUS
<1>2. ASSUME l >= r
      PROVE  Slice!AddRound([left |-> l, right |-> r], x) = [left |-> l, right |-> r]
  <2>1. Slice!AddRound(w, x) = w
    BY <1>1, <1>2 DEF Slice!AddRound
  <2> QED
    BY <2>1
<1>3. ASSUME NEW k \in Int, NEW m \in Int, m = (l + r) \div 2, k = Key[slice[m + 1]], ~(l >= r)
      PROVE  Slice!AddRound([left |-> l, right |-> r], x) =
               IF k >= Key[x] THEN [left |-> l, right |-> m] ELSE [left |-> m + 1, right |-> r]
  <2>1. CASE k >= Key[x]
    <3>1. Slice!AddRound(w, x) = [left |-> l, right |-> m]
      BY <1>1, <1>3, <2>1 DEF Slice!AddRound, Slice!Middle
    <3> QED
      BY <2>1, <3>1
  <2>2. CASE ~(k >= Key[x])
    <3>1. Slice!AddRound(w, x) = [left |-> m + 1, right |-> r]
      BY <1>1, <1>3, <2>2 DEF Slice!AddRound, Slice!Middle
    <3> QED
      BY <2>2, <3>1
  <2> QED
    BY <2>1, <2>2
<1> QED
  BY <1>2, <1>3, Zenon

LEMMA FindRoundIs ==
  ASSUME NEW l \in Int, NEW r \in Int, NEW x, Key[x] \in Int
  PROVE  /\ l > r => Slice!FindRound([left |-> l, right |-> r], x) = [left |-> l, right |-> r]
         /\ \A k \in Int : \A m \in Int :
              m = (l + r) \div 2 /\ k = Key[slice[m + 1]] /\ ~(l > r) =>
                Slice!FindRound([left |-> l, right |-> r], x) =
                  IF k = Key[x] THEN [left |-> l, right |-> r]
                  ELSE IF k > Key[x] THEN [left |-> l, right |-> m - 1] ELSE [left |-> m + 1, right |-> r]
<1> PICK w : w = [left |-> l, right |-> r]
  OBVIOUS
<1>1. w.left = l /\ w.right = r
  OBVIOUS
<1>2. ASSUME l > r
      PROVE  Slice!FindRound([left |-> l, right |-> r], x) = [left |-> l, right |-> r]
  <2>1. Slice!FindRound(w, x) = w
    BY <1>1, <1>2 DEF Slice!FindRound
  <2> QED
    BY <2>1
<1>3. ASSUME NEW k \in Int, NEW m \in Int, m = (l + r) \div 2, k = Key[slice[m + 1]], ~(l > r)
      PROVE  Slice!FindRound([left |-> l, right |-> r], x) =
               IF k = Key[x] THEN [left |-> l, right |-> r]
               ELSE IF k > Key[x] THEN [left |-> l, right |-> m - 1] ELSE [left |-> m + 1, right |-> r]
  <2>1. CASE k = Key[x]
    <3>1. ~(w.left > w.right) /\ w.left <= w.right
      BY <1>1, <1>3
    <3>2. Key[slice[Slice!Middle(w) + 1]] = Key[x]
      BY <1>1, <1>3, <2>1 DEF Slice!Middle
    <3>3. ~(Key[x] > Key[x]) /\ ~(Key[x] < Key[x])
      OBVIOUS
    <3>4. Slice!FindRound(w, x) = w
      BY ONLY <3>1, <3>2, <3>3 DEF Slice!FindRound
    <3> QED
      BY <2>1, <3>4
  <2>2. CASE k # Key[x] /\ k > Key[x]
    <3>1. Slice!FindRound(w, x) = [left |-> l, right |-> m - 1]
      BY <1>1, <1>3, <2>2 DEF Slice!FindRound, Slice!Middle
    <3> QED
      BY <2>2, <3>1
  <2>3. CASE k # Key[x] /\ ~(k > Key[x])
    <3>1. /\ ~(w.left > w.right) /\ w.left <= w.right /\ Slice!Middle(w) = m /\ w.right = r
          /\ k # Key[x] /\ ~(k > Key[x]) /\ k < Key[x]
      BY <1>1, <1>3, <2>3 DEF Slice!Middle
    <3>2. Slice!FindRound(w, x) = [left |-> m + 1, right |-> r]
      BY ONLY <3>1, k = Key[slice[m + 1]] DEF Slice!FindRound
    <3> QED
      BY <2>3, <3>2
  <2> QED
    BY <2>1, <2>2, <2>3
<1> QED
  BY <1>2, <1>3, Zenon

\* What a window of at most d + 1 elements leaves to Add's search.
AddFrom(w, d, x) ==
  \E l \in 0 .. Len(slice) : \E r \in l .. Len(slice) :
    w = [left |-> l, right |-> r] /\ r - l <= d /\ AddLeft(l, r, x)

LEMMA AddRounds ==
  ASSUME slice \in Seq(Items), NEW x \in Items, NEW w, NEW d \in Nat, AddFrom(w, d + 1, x)
  PROVE  AddFrom(Slice!AddRound(w, x), d, x)
<1> PICK n \in Nat : n = Len(slice)
  BY Keyed
<1> PICK l \in 0 .. n : \E r \in l .. n :
      w = [left |-> l, right |-> r] /\ r - l <= d + 1 /\ AddLeft(l, r, x)
  BY DEF AddFrom
<1> PICK r \in l .. n : w = [left |-> l, right |-> r] /\ r - l <= d + 1 /\ AddLeft(l, r, x)
  OBVIOUS
<1> SUFFICES \E a \in 0 .. n : \E b \in a .. n :
               /\ Slice!AddRound([left |-> l, right |-> r], x) = [left |-> a, right |-> b]
               /\ b - a <= d /\ AddLeft(a, b, x)
  BY DEF AddFrom
<1>1. Key[x] \in Int /\ \A i \in 1 .. n : Key[slice[i]] \in Int
  BY Keyed, StructuresAssumption
<1> PICK m : m = (l + r) \div 2
  OBVIOUS
<1>2. CASE l >= r
  <2>1. Slice!AddRound([left |-> l, right |-> r], x) = [left |-> l, right |-> r]
    <3>1. l \in Int /\ r \in Int /\ Key[x] \in Int
      BY <1>1
    <3> QED
      BY ONLY <1>2, <3>1, AddRoundIs
  <2> QED
    BY <1>2, <2>1
<1>3. CASE l < r
  <2>1. m \in l .. r - 1 /\ m + 1 \in 1 .. n /\ m \in Int
    BY <1>3, Halfway
  <2> PICK k : k = Key[slice[m + 1]]
    OBVIOUS
  <2>2. k \in Int /\ ~(l >= r)
    BY <1>1, <1>3, <2>1
  <2>3. Slice!AddRound([left |-> l, right |-> r], x) =
          IF k >= Key[x] THEN [left |-> l, right |-> m] ELSE [left |-> m + 1, right |-> r]
    <3>1. l \in Int /\ r \in Int /\ Key[x] \in Int
      BY <1>1
    <3>2. m \in Int /\ k \in Int /\ m = (l + r) \div 2 /\ k = Key[slice[m + 1]] /\ ~(l >= r)
      BY <2>1, <2>2
    <3> QED
      BY ONLY <3>1, <3>2, AddRoundIs
  <2>4. ASSUME Slice!InOrder(slice)
        PROVE  /\ \A j \in 1 .. m + 1 : Key[slice[j]] <= k
               /\ \A j \in m + 1 .. n : k <= Key[slice[j]]
    BY ONLY <2>1, <2>4, Ascending, slice \in Seq(Items), n = Len(slice), k = Key[slice[m + 1]], n \in Nat
  <2>5. CASE k >= Key[x]
    <3>1. m \in l .. n /\ m - l <= d
      BY <1>3, <2>1
    <3>2. AddLeft(l, m, x)
      BY <1>1, <2>1, <2>2, <2>4, <2>5 DEF AddLeft
    <3> QED
      BY <2>3, <2>5, <3>1, <3>2
  <2>6. CASE ~(k >= Key[x])
    <3>1. m + 1 \in 0 .. n /\ r \in m + 1 .. n /\ r - (m + 1) <= d
      BY <1>3, <2>1
    <3>2. AddLeft(m + 1, r, x)
      BY <1>1, <2>1, <2>2, <2>4, <2>6 DEF AddLeft
    <3> QED
      BY <2>3, <2>6, <3>1, <3>2
  <2> QED
    BY <2>5, <2>6
<1>4. l >= r \/ l < r
  OBVIOUS
<1> QED
  BY <1>2, <1>3, <1>4, Zenon
\* Add's search ends at the first element that is not smaller.
LEMMA Searched ==
  ASSUME slice \in Seq(Items), NEW x \in Items
  PROVE  /\ Slice!LowerBound(x) \in 0 .. Len(slice)
         /\ Slice!InOrder(slice) =>
              \A j \in 1 .. Len(slice) : j < Slice!LowerBound(x) + 1 <=> Key[slice[j]] < Key[x]
<1> PICK n \in Nat : n = Len(slice)
  BY Keyed
<1>1. PICK f : /\ f[0] = [left |-> 0, right |-> n] /\ Slice!LowerBound(x) = f[n].right
               /\ \A k \in 1 .. n : f[k] = Slice!AddRound(f[k - 1], x)
  BY AddLoop
<1> DEFINE Good(i, d) == AddFrom(f[i], d, x)
           Wrong == {i \in 0 .. n : ~Good(i, n - i)}
<1>2. Good(0, n)
  <2>1. AddLeft(0, n, x)
    BY DEF AddLeft
  <2>2. 0 \in 0 .. n /\ n \in 0 .. n /\ n - 0 <= n
    OBVIOUS
  <2> QED
    BY <1>1, <2>1, <2>2 DEF AddFrom
<1>3. ASSUME NEW i \in 1 .. n, NEW d \in Nat, Good(i - 1, d + 1)
      PROVE  Good(i, d)
  BY <1>1, <1>3, AddRounds
<1>4. Wrong = {}
  <2> SUFFICES ASSUME Wrong # {} PROVE FALSE
    OBVIOUS
  <2>1. PICK i \in Wrong : \A l \in Wrong : i <= l
    <3>1. Wrong \in SUBSET Nat
      OBVIOUS
    <3> HIDE DEF Wrong
    <3> QED
      BY <3>1, LeastNumber
  <2>2. i \in 0 .. n /\ ~Good(i, n - i)
    OBVIOUS
  <2> HIDE DEF Good
  <2>3. i # 0
    <3>1. n - 0 = n
      OBVIOUS
    <3> QED
      BY <1>2, <2>2, <3>1
  <2>4. /\ i - 1 \in 0 .. n /\ i \in 1 .. n /\ ~(i <= i - 1) /\ n - i \in Nat
        /\ n - (i - 1) = (n - i) + 1
    BY <2>2, <2>3
  <2>5. Good(i - 1, (n - i) + 1)
    BY <2>1, <2>4
  <2>6. Good(i, n - i)
    BY <1>3, <2>4, <2>5
  <2> QED
    BY <2>2, <2>6
<1>5. Good(n, 0)
  <2>1. n - n = 0 /\ n \in 0 .. n
    OBVIOUS
  <2> HIDE DEF Good
  <2> QED
    BY <1>4, <2>1
<1>6. PICK l \in 0 .. n : \E r \in l .. n :
        f[n] = [left |-> l, right |-> r] /\ r - l <= 0 /\ AddLeft(l, r, x)
  BY <1>5 DEF AddFrom
<1>7. PICK r \in l .. n : f[n] = [left |-> l, right |-> r] /\ r - l <= 0 /\ AddLeft(l, r, x)
  BY <1>6
<1>8. Slice!LowerBound(x) = r /\ r = l
  BY <1>1, <1>7
<1>9. Key[x] \in Int /\ \A i \in 1 .. n : Key[slice[i]] \in Int
  BY Keyed, StructuresAssumption
<1>10. ASSUME Slice!InOrder(slice), NEW j \in 1 .. n PROVE j < l + 1 <=> Key[slice[j]] < Key[x]
  BY <1>7, <1>8, <1>9, <1>10 DEF AddLeft
<1> QED
  BY <1>8, <1>10
\* What a window of at most d + 1 elements leaves to Find, unless it has found x.
FindFrom(w, d, x) ==
  \E l \in 0 .. Len(slice) : \E r \in l - 1 .. Len(slice) - 1 :
    /\ w = [left |-> l, right |-> r] /\ FindLeft(l, r, x)
    /\ r - l + 1 <= d \/ (l <= r /\ Key[slice[(l + r) \div 2 + 1]] = Key[x])

LEMMA FindRounds ==
  ASSUME slice \in Seq(Items), NEW x \in Items, NEW w, NEW d \in Nat, FindFrom(w, d + 1, x)
  PROVE  FindFrom(Slice!FindRound(w, x), d, x)
<1> PICK n \in Nat : n = Len(slice)
  BY Keyed
<1> PICK l \in 0 .. n : \E r \in l - 1 .. n - 1 :
      /\ w = [left |-> l, right |-> r] /\ FindLeft(l, r, x)
      /\ r - l + 1 <= d + 1 \/ (l <= r /\ Key[slice[(l + r) \div 2 + 1]] = Key[x])
  BY DEF FindFrom
<1>0. PICK r \in l - 1 .. n - 1 :
        /\ w = [left |-> l, right |-> r] /\ FindLeft(l, r, x)
        /\ r - l + 1 <= d + 1 \/ (l <= r /\ Key[slice[(l + r) \div 2 + 1]] = Key[x])
  OBVIOUS
<1> SUFFICES \E a \in 0 .. n : \E b \in a - 1 .. n - 1 :
               /\ Slice!FindRound([left |-> l, right |-> r], x) = [left |-> a, right |-> b]
               /\ FindLeft(a, b, x)
               /\ b - a + 1 <= d \/ (a <= b /\ Key[slice[(a + b) \div 2 + 1]] = Key[x])
  BY <1>0 DEF FindFrom
<1>1. Key[x] \in Int /\ \A i \in 1 .. n : Key[slice[i]] \in Int
  BY Keyed, StructuresAssumption
<1> PICK m : m = (l + r) \div 2
  OBVIOUS
<1>2. CASE l > r
  <2>1. Slice!FindRound([left |-> l, right |-> r], x) = [left |-> l, right |-> r]
    <3>1. l \in Int /\ r \in Int /\ Key[x] \in Int
      BY <1>1
    <3> QED
      BY ONLY <1>2, <3>1, FindRoundIs
  <2>2. r - l + 1 <= d
    BY <1>2
  <2> QED
    BY <1>0, <2>1, <2>2
<1>3. CASE ~(l > r)
  <2>1. m \in l .. r /\ m + 1 \in 1 .. n /\ m \in Int
    <3>1. l \in Nat /\ r \in Nat /\ l <= r
      BY <1>3
    <3>2. m \in l .. r
      BY ONLY <3>1, Halfway, m = (l + r) \div 2
    <3> QED
      BY <3>1, <3>2
  <2> PICK k : k = Key[slice[m + 1]]
    OBVIOUS
  <2>2. k \in Int
    BY <1>1, <2>1
  <2>3. Slice!FindRound([left |-> l, right |-> r], x) =
          IF k = Key[x] THEN [left |-> l, right |-> r]
          ELSE IF k > Key[x] THEN [left |-> l, right |-> m - 1] ELSE [left |-> m + 1, right |-> r]
    <3>1. l \in Int /\ r \in Int /\ Key[x] \in Int
      BY <1>1
    <3>2. m \in Int /\ k \in Int /\ m = (l + r) \div 2 /\ k = Key[slice[m + 1]] /\ ~(l > r)
      BY <1>3, <2>1, <2>2
    <3> QED
      BY ONLY <3>1, <3>2, FindRoundIs
  <2>4. ASSUME Slice!InOrder(slice)
        PROVE  /\ \A j \in 1 .. m + 1 : Key[slice[j]] <= k
               /\ \A j \in m + 1 .. n : k <= Key[slice[j]]
    BY ONLY <2>1, <2>4, Ascending, slice \in Seq(Items), n = Len(slice), k = Key[slice[m + 1]], n \in Nat
  <2>5. CASE k = Key[x]
    <3>1. Slice!FindRound([left |-> l, right |-> r], x) = [left |-> l, right |-> r]
      BY <2>3, <2>5
    <3>2. l <= r /\ Key[slice[(l + r) \div 2 + 1]] = Key[x]
      BY <1>3, <2>5
    <3> QED
      BY <1>0, <3>1, <3>2
  <2>6. CASE k # Key[x] /\ k > Key[x]
    <3>1. m - 1 \in l - 1 .. n - 1 /\ (m - 1) - l + 1 <= d
      BY <1>0, <1>3, <2>1, <2>6
    <3>2. FindLeft(l, m - 1, x)
      BY <1>0, <1>1, <2>1, <2>2, <2>4, <2>6 DEF FindLeft
    <3> QED
      BY <2>3, <2>6, <3>1, <3>2
  <2>7. CASE k # Key[x] /\ ~(k > Key[x])
    <3>1. m + 1 \in 0 .. n /\ r \in m + 1 - 1 .. n - 1 /\ r - (m + 1) + 1 <= d
      BY <1>0, <1>3, <2>1, <2>7
    <3>2. FindLeft(m + 1, r, x)
      BY <1>0, <1>1, <2>1, <2>2, <2>4, <2>7 DEF FindLeft
    <3> QED
      BY <2>3, <2>7, <3>1, <3>2
  <2> QED
    BY <2>5, <2>6, <2>7
<1> QED
  BY <1>2, <1>3
\* Find returns the place of an element that equals x, if there is one in a sorted list.
LEMMA Found ==
  ASSUME slice \in Seq(Items), NEW x \in Items
  PROVE  /\ Slice!Find(x) \in -1 .. Len(slice) - 1
         /\ Slice!Find(x) # -1 => Key[slice[Slice!Find(x) + 1]] = Key[x]
         /\ Slice!InOrder(slice) =>
              (Slice!Find(x) # -1 <=> \E j \in 1 .. Len(slice) : Key[slice[j]] = Key[x])
<1> PICK n \in Nat : n = Len(slice)
  BY Keyed
<1>1. PICK f : /\ f[0] = [left |-> 0, right |-> n - 1]
               /\ Slice!Find(x) = IF f[n].left > f[n].right THEN 0 - 1 ELSE Slice!Middle(f[n])
               /\ \A k \in 1 .. n : f[k] = Slice!FindRound(f[k - 1], x)
  BY FindLoop
<1> DEFINE Good(i, d) == FindFrom(f[i], d, x)
           Wrong == {i \in 0 .. n : ~Good(i, n - i)}
<1>2. Good(0, n)
  <2>1. FindLeft(0, n - 1, x)
    BY DEF FindLeft
  <2>2. 0 \in 0 .. n /\ n - 1 \in 0 - 1 .. n - 1 /\ n - 1 - 0 + 1 <= n
    OBVIOUS
  <2> QED
    BY <1>1, <2>1, <2>2 DEF FindFrom
<1>3. ASSUME NEW i \in 1 .. n, NEW d \in Nat, Good(i - 1, d + 1)
      PROVE  Good(i, d)
  BY <1>1, <1>3, FindRounds
<1>4. Wrong = {}
  <2> SUFFICES ASSUME Wrong # {} PROVE FALSE
    OBVIOUS
  <2>1. PICK i \in Wrong : \A l \in Wrong : i <= l
    <3>1. Wrong \in SUBSET Nat
      OBVIOUS
    <3> HIDE DEF Wrong
    <3> QED
      BY <3>1, LeastNumber
  <2>2. i \in 0 .. n /\ ~Good(i, n - i)
    OBVIOUS
  <2> HIDE DEF Good
  <2>3. i # 0
    <3>1. n - 0 = n
      OBVIOUS
    <3> QED
      BY <1>2, <2>2, <3>1
  <2>4. /\ i - 1 \in 0 .. n /\ i \in 1 .. n /\ ~(i <= i - 1) /\ n - i \in Nat
        /\ n - (i - 1) = (n - i) + 1
    BY <2>2, <2>3
  <2>5. Good(i - 1, (n - i) + 1)
    BY <2>1, <2>4
  <2>6. Good(i, n - i)
    BY <1>3, <2>4, <2>5
  <2> QED
    BY <2>2, <2>6
<1>5. Good(n, 0)
  <2>1. n - n = 0 /\ n \in 0 .. n
    OBVIOUS
  <2> HIDE DEF Good
  <2> QED
    BY <1>4, <2>1
<1>6. PICK l \in 0 .. n : \E r \in l - 1 .. n - 1 :
        /\ f[n] = [left |-> l, right |-> r] /\ FindLeft(l, r, x)
        /\ r - l + 1 <= 0 \/ (l <= r /\ Key[slice[(l + r) \div 2 + 1]] = Key[x])
  BY <1>5 DEF FindFrom
<1>7. PICK r \in l - 1 .. n - 1 :
        /\ f[n] = [left |-> l, right |-> r] /\ FindLeft(l, r, x)
        /\ r - l + 1 <= 0 \/ (l <= r /\ Key[slice[(l + r) \div 2 + 1]] = Key[x])
  BY <1>6
<1>8. Slice!Find(x) = IF l > r THEN 0 - 1 ELSE (l + r) \div 2
  BY <1>1, <1>7 DEF Slice!Middle
<1>9. Key[x] \in Int /\ \A i \in 1 .. n : Key[slice[i]] \in Int
  BY Keyed, StructuresAssumption
<1>10. CASE l > r
  <2>1. Slice!Find(x) = 0 - 1 /\ 0 - 1 \in -1 .. n - 1 /\ 0 - 1 = -1
    BY <1>8, <1>10
  <2>2. ASSUME Slice!InOrder(slice), NEW j \in 1 .. n PROVE Key[slice[j]] # Key[x]
    <3>1. j \in 1 .. l \/ j \in r + 2 .. n
      BY <1>10
    <3>2. Key[slice[j]] < Key[x] \/ Key[slice[j]] > Key[x]
      BY <1>7, <2>2, <3>1 DEF FindLeft
    <3> QED
      BY <1>9, <3>2
  <2> QED
    BY <2>1, <2>2
<1>11. CASE ~(l > r)
  <2>1. l \in Nat /\ r \in Nat /\ l <= r
    BY <1>11
  <2> PICK m : m = (l + r) \div 2
    OBVIOUS
  <2>2. m \in l .. r
    BY ONLY <2>1, Halfway, m = (l + r) \div 2
  <2>3. Slice!Find(x) = m /\ Key[slice[m + 1]] = Key[x]
    BY <1>7, <1>8, <1>11, <2>1
  <2>4. m \in -1 .. n - 1 /\ m + 1 \in 1 .. n /\ m # -1
    BY <2>1, <2>2
  <2> QED
    BY <2>3, <2>4
<1> QED
  BY <1>10, <1>11
\* Element i goes back among the elements before it.
SortRound(s, i, e) ==
  SubSeq(e, 1, Slice!RunStart(s, i) - 1) \o <<s[i]>> \o SubSeq(e, Slice!RunStart(s, i), i - 1)

LEMMA SortLoop ==
  ASSUME NEW s, Len(s) \in Nat
  PROVE  \E f : /\ f[0] = << >> /\ Slice!SortCopy(s) = f[Len(s)]
                /\ \A k \in 1 .. Len(s) : f[k] = SortRound(s, k, f[k - 1])
<1> DEFINE Unrolled(f, m) ==
      f = [k \in 0 .. m |-> IF k = 0 THEN << >>
                            ELSE SortRound(s, k, f[k - 1])]
           Missing == {m \in Nat : ~ \E f : Unrolled(f, m)}
<1>1. Missing = {}
  <2> SUFFICES ASSUME Missing # {} PROVE FALSE
    OBVIOUS
  <2>1. PICK m \in Missing : \A l \in Missing : m <= l
    <3>1. Missing \in SUBSET Nat
      OBVIOUS
    <3> HIDE DEF Missing
    <3> QED
      BY <3>1, LeastNumber
  <2>2. m # 0
    <3>1. Unrolled([k \in 0 .. 0 |-> << >>], 0)
      OBVIOUS
    <3> QED
      BY <3>1
  <2>3. m \in Nat /\ m - 1 \in Nat /\ ~(m <= m - 1)
    BY <2>1, <2>2
  <2>4. PICK f : Unrolled(f, m - 1)
    <3>1. m - 1 \notin Missing
      <4> HIDE DEF Missing
      <4> QED
        BY <2>1, <2>3
    <3> QED
      BY <2>3, <3>1
  <2> DEFINE g == [k \in 0 .. m |-> IF k = m
                                    THEN SortRound(s, m, f[m - 1])
                                    ELSE f[k]]
  <2>5. ASSUME NEW k \in 0 .. m
        PROVE  g[k] = IF k = 0 THEN << >>
                      ELSE SortRound(s, k, g[k - 1])
    BY <2>2, <2>3, <2>4
  <2>6. Unrolled(g, m)
    BY <2>5
  <2> QED
    BY <2>1, <2>6
<1> PICK f : Unrolled(f, Len(s))
  BY <1>1
<1>2. Slice!SortCopy(s) = (CHOOSE g : Unrolled(g, Len(s)))[Len(s)]
  BY DEF Slice!SortCopy, SortRound
<1> PICK g : g = CHOOSE e : Unrolled(e, Len(s))
  OBVIOUS
<1>3. Unrolled(g, Len(s))
  OBVIOUS
<1>4. \A k \in 1 .. Len(s) : k \in 0 .. Len(s) /\ k # 0
  OBVIOUS
<1>5. DOMAIN g = 0 .. Len(s) /\ 0 \in 0 .. Len(s)
  BY <1>3
<1>6. ASSUME NEW k \in 0 .. Len(s)
      PROVE  g[k] = IF k = 0 THEN << >>
                    ELSE SortRound(s, k, g[k - 1])
  BY <1>3
<1> QED
  BY <1>2, <1>4, <1>5, <1>6

LEMMA RunStarts ==
  ASSUME NEW s \in Seq(Items), NEW i \in 1 .. Len(s)
  PROVE  Slice!RunStart(s, i) \in 1 .. i
<1> DEFINE Down == {j \in 1 .. i : \A k \in j + 1 .. i : Key[s[k]] < Key[s[k - 1]]}
<1>1. i \in Down /\ Down \in SUBSET Nat
  OBVIOUS
<1>2. PICK j \in Down : \A l \in Down : j <= l
  <2> HIDE DEF Down
  <2> QED
    BY <1>1, LeastNumber
<1>3. j = 1 \/ Key[s[j]] >= Key[s[j - 1]]
  <2> SUFFICES ASSUME j # 1, ~(Key[s[j]] >= Key[s[j - 1]]) PROVE FALSE
    OBVIOUS
  <2>1. j \in 2 .. i /\ j - 1 \in 1 .. i /\ ~(j <= j - 1) /\ j \in 1 .. Len(s) /\ j - 1 \in 1 .. Len(s)
    BY <1>2
  <2>2. Key[s[j]] \in Int /\ Key[s[j - 1]] \in Int
    BY <2>1, Keyed
  <2>3. Key[s[j]] < Key[s[j - 1]]
    BY <2>2
  <2>4. ASSUME NEW k \in j - 1 + 1 .. i PROVE Key[s[k]] < Key[s[k - 1]]
    <3>1. k = j \/ k \in j + 1 .. i
      BY <2>1
    <3> QED
      BY <1>2, <2>3, <3>1
  <2>5. j - 1 \in Down
    BY <2>1, <2>4
  <2> QED
    BY <1>2, <2>1, <2>5
<1>4. \E e \in 1 .. i : /\ \A k \in e + 1 .. i : Key[s[k]] < Key[s[k - 1]]
                        /\ e = 1 \/ Key[s[e]] >= Key[s[e - 1]]
  BY <1>2, <1>3
<1> QED
  BY <1>4, Zenon DEF Slice!RunStart
LEMMA CountedPlaces ==
  ASSUME NEW s
  PROVE  Slice!CountIn(s) = [k \in Slice!KeyValues |-> Cardinality(Places(s, k))]
<1>1. \A S : Slice!Cardinality(S) = Cardinality(S)
  BY DEF Slice!Cardinality, Cardinality
<1> QED
  BY <1>1 DEF Slice!CountIn, Places

\* The copy has the elements of the argument, in some order.
LEMMA Copied ==
  ASSUME NEW s \in Seq(Items)
  PROVE  Slice!SortCopy(s) \in Seq(Items) /\ Slice!CountIn(Slice!SortCopy(s)) = Slice!CountIn(s)
<1> PICK n \in Nat : n = Len(s)
  BY Keyed
<1>1. PICK f : f[0] = << >> /\ Slice!SortCopy(s) = f[n] /\ \A k \in 1 .. n : f[k] = SortRound(s, k, f[k - 1])
  BY SortLoop
<1> DEFINE first(i) == SubSeq(s, 1, i)
           Good(i) == /\ f[i] \in Seq(Items) /\ Len(f[i]) = i
                      /\ \A k : Cardinality(Places(f[i], k)) = Cardinality(Places(first(i), k))
           Wrong == {i \in 0 .. n : ~Good(i)}
<1>2. ASSUME NEW i \in 0 .. n
      PROVE  first(i) \in Seq(Items) /\ Len(first(i)) = i /\ \A j \in 1 .. i : first(i)[j] = s[j]
  OBVIOUS
<1>3. Good(0)
  <2>1. << >> \in Seq(Items) /\ Len(<< >>) = 0 /\ first(0) = << >>
    OBVIOUS
  <2> HIDE DEF first
  <2> QED
    BY <1>1, <2>1
<1>4. ASSUME NEW i \in 1 .. n, Good(i - 1) PROVE Good(i)
  <2>1. /\ i \in 1 .. Len(s) /\ i - 1 \in 0 .. n /\ i \in 0 .. n /\ s[i] \in Items
    BY Keyed
  <2> PICK e \in Seq(Items) : e = f[i - 1]
    BY <1>4
  <2> PICK j \in 1 .. i : j = Slice!RunStart(s, i)
    BY <2>1, RunStarts
  <2> HIDE DEF first
  <2>2. Len(e) = i - 1 /\ j \in 1 .. Len(e) + 1
    BY <1>4
  <2>3. f[i] = Slice!SE!InsertAt(e, j, s[i])
    <3>1. f[i] = SortRound(s, i, e)
      BY <1>1
    <3> QED
      BY <2>2, <3>1 DEF SortRound, Slice!SE!InsertAt
  <2>4. Slice!SE!InsertAt(first(i - 1), i, s[i]) = first(i)
    <3>1. /\ first(i - 1) \in Seq(Items) /\ Len(first(i - 1)) = i - 1
          /\ \A k \in 1 .. i - 1 : first(i - 1)[k] = s[k]
      BY <1>2, <2>1
    <3>2. first(i) \in Seq(Items) /\ Len(first(i)) = i /\ \A k \in 1 .. i : first(i)[k] = s[k]
      BY <1>2, <2>1
    <3>3. /\ i \in 1 .. Len(first(i - 1)) + 1 /\ Len(first(i)) = Len(first(i - 1)) + 1 /\ first(i)[i] = s[i]
          /\ \A k \in 1 .. Len(first(i - 1)) :
               first(i - 1)[k] = IF k < i THEN first(i)[k] ELSE first(i)[k + 1]
      BY <3>1, <3>2
    <3> QED
      BY ONLY <2>1, <3>1, <3>2, <3>3, InsertedAgain
  <2>5. f[i] \in Seq(Items) /\ Len(f[i]) = i
    BY <2>1, <2>2, <2>3, Inserted
  <2>6. ASSUME NEW k
        PROVE  Cardinality(Places(f[i], k)) = Cardinality(Places(first(i), k))
    <3>1. Cardinality(Places(Slice!SE!InsertAt(e, j, s[i]), k))
            = IF Key[s[i]] = k THEN Cardinality(Places(e, k)) + 1 ELSE Cardinality(Places(e, k))
      BY <2>1, <2>2, PlacesInserted
    <3>2. /\ first(i - 1) \in Seq(Items) /\ i \in 1 .. Len(first(i - 1)) + 1
      BY <1>2, <2>1
    <3>3. Cardinality(Places(Slice!SE!InsertAt(first(i - 1), i, s[i]), k))
            = IF Key[s[i]] = k THEN Cardinality(Places(first(i - 1), k)) + 1
              ELSE Cardinality(Places(first(i - 1), k))
      BY <2>1, <3>2, PlacesInserted
    <3>4. Cardinality(Places(e, k)) = Cardinality(Places(first(i - 1), k))
      BY <1>4
    <3> QED
      BY <2>3, <2>4, <3>1, <3>3, <3>4, Zenon
  <2> QED
    BY <2>5, <2>6
<1>5. Wrong = {}
  <2> SUFFICES ASSUME Wrong # {} PROVE FALSE
    OBVIOUS
  <2>1. PICK i \in Wrong : \A l \in Wrong : i <= l
    <3>1. Wrong \in SUBSET Nat
      OBVIOUS
    <3> HIDE DEF Wrong
    <3> QED
      BY <3>1, LeastNumber
  <2>2. i \in 0 .. n /\ ~Good(i)
    OBVIOUS
  <2> HIDE DEF Good
  <2>3. i # 0
    BY <1>3, <2>2
  <2>4. i - 1 \in 0 .. n /\ i \in 1 .. n /\ ~(i <= i - 1)
    BY <2>2, <2>3
  <2>5. Good(i - 1)
    BY <2>1, <2>4
  <2> QED
    BY <1>4, <2>2, <2>4, <2>5
<1>6. Good(n)
  <2>1. n \in 0 .. n
    OBVIOUS
  <2> HIDE DEF Good
  <2> QED
    BY <1>5, <2>1
<1>7. first(n) = s
  BY <1>2
<1> HIDE DEF first
<1>8. ASSUME NEW k
      PROVE  Cardinality(Places(f[n], k)) = Cardinality(Places(s, k))
  BY <1>6, <1>7
<1> QED
  BY <1>1, <1>6, <1>8, CountedPlaces

\* The list holds as many items of a key as the calls say, and stays in order.
SliceInv ==
  /\ slice \in Seq(Items) /\ count = Slice!CountIn(slice) /\ sorted \in BOOLEAN
  /\ sorted => Slice!InOrder(slice)

LEMMA SliceInit == Slice!NewInsertionListOf => SliceInv
<1> SUFFICES ASSUME Slice!NewInsertionListOf PROVE SliceInv
  OBVIOUS
<1>1. PICK s \in Slice!SE!BoundedSeq(Items, MaxLen) :
        slice = Slice!SortCopy(s) /\ count = Slice!CountIn(s) /\ sorted = Slice!InOrder(slice)
  BY DEF Slice!NewInsertionListOf
<1>2. s \in Seq(Items)
  <2>1. PICK m \in 0 .. MaxLen : s \in [1 .. m -> Items]
    BY DEF Slice!SE!BoundedSeq, Slice!SE!SeqOf
  <2> QED
    BY <2>1, StructuresAssumption
<1>3. slice \in Seq(Items) /\ count = Slice!CountIn(slice)
  BY <1>1, <1>2, Copied
<1>4. sorted \in BOOLEAN /\ (sorted => Slice!InOrder(slice))
  BY <1>1, Zenon DEF Slice!InOrder
<1> QED
  BY <1>3, <1>4 DEF SliceInv

\* One item more, or less, of a key.
LEMMA OneMore ==
  ASSUME NEW s \in Seq(Items), NEW j \in 1 .. Len(s) + 1, NEW x \in Items
  PROVE  Slice!CountIn(Slice!SE!InsertAt(s, j, x)) = [Slice!CountIn(s) EXCEPT ![Key[x]] = @ + 1]
<1>1. Key[x] \in Slice!KeyValues
  BY DEF Slice!KeyValues
<1>2. ASSUME NEW k
      PROVE  Cardinality(Places(Slice!SE!InsertAt(s, j, x), k))
               = IF Key[x] = k THEN Cardinality(Places(s, k)) + 1 ELSE Cardinality(Places(s, k))
  BY PlacesInserted
<1> QED
  BY <1>1, <1>2, CountedPlaces

LEMMA OneLess ==
  ASSUME NEW s \in Seq(Items), NEW j \in 1 .. Len(s)
  PROVE  Slice!CountIn(Slice!SE!RemoveAt(s, j)) = [Slice!CountIn(s) EXCEPT ![Key[s[j]]] = @ - 1]
<1>1. Key[s[j]] \in Slice!KeyValues
  BY Keyed
<1>2. ASSUME NEW k
      PROVE  Cardinality(Places(Slice!SE!RemoveAt(s, j), k))
               = IF Key[s[j]] = k THEN Cardinality(Places(s, k)) - 1 ELSE Cardinality(Places(s, k))
  BY PlacesRemoved
<1> QED
  BY <1>1, <1>2, CountedPlaces

LEMMA SliceStep ==
  ASSUME SliceInv, [Slice!Next]_sliceVars
  PROVE  SliceInv'
<1>0. slice \in Seq(Items) /\ count = Slice!CountIn(slice) /\ Len(slice) \in Nat
  BY Keyed DEF SliceInv
<1>1. ASSUME NEW x \in Items, Slice!Add(x) PROVE SliceInv'
  <2> PICK j : j = Slice!LowerBound(x) + 1
    OBVIOUS
  <2>1. /\ slice' = Slice!SE!InsertAt(slice, j, x) /\ count' = [count EXCEPT ![Key[x]] = @ + 1]
        /\ sorted' = sorted
    BY <1>1 DEF Slice!Add
  <2>2. j \in 1 .. Len(slice) + 1
    BY <1>0, Searched
  <2>3. Slice!InOrder(slice) => \A i \in 1 .. Len(slice) : i < j <=> Key[slice[i]] < Key[x]
    BY <1>0, Searched
  <2>4. slice' \in Seq(Items)
    BY <1>0, <2>1, <2>2, Inserted
  <2>5. count' = Slice!CountIn(slice')
    BY <1>0, <2>1, <2>2, OneMore
  <2>6. Slice!InOrder(slice) => Slice!InOrder(slice')
    BY <1>0, <2>1, <2>2, <2>3, OrderInserted
  <2> QED
    BY <2>1, <2>4, <2>5, <2>6, Zenon DEF SliceInv
<1>2. ASSUME NEW j \in 1 .. Len(slice), slice' = Slice!SE!RemoveAt(slice, j), sorted' = sorted,
             count' = [count EXCEPT ![Key[slice[j]]] = @ - 1]
      PROVE  SliceInv'
  <2>1. slice' \in Seq(Items)
    BY <1>0, <1>2, Removed
  <2>2. count' = Slice!CountIn(slice')
    BY <1>0, <1>2, OneLess
  <2>3. Slice!InOrder(slice) => Slice!InOrder(slice')
    BY <1>0, <1>2, OrderRemoved
  <2> QED
    BY <1>2, <2>1, <2>2, <2>3, Zenon DEF SliceInv
<1>3. ASSUME NEW x \in Items, Slice!Remove(x) PROVE SliceInv'
  <2> PICK j : j = Slice!Find(x) + 1
    OBVIOUS
  <2>1. /\ Slice!Find(x) # 0 - 1 /\ slice' = Slice!SE!RemoveAt(slice, j) /\ sorted' = sorted
        /\ count' = [count EXCEPT ![Key[x]] = @ - 1]
    BY <1>3 DEF Slice!Remove
  <2>2. j \in 1 .. Len(slice) /\ Key[slice[j]] = Key[x]
    BY <1>0, <2>1, Found
  <2> QED
    BY <1>2, <2>1, <2>2
<1>4. ASSUME NEW i \in 0 .. MaxLen, Slice!RemoveAt(i) PROVE SliceInv'
  <2> PICK j : j = i + 1
    OBVIOUS
  <2>1. /\ j \in 1 .. Len(slice) /\ slice' = Slice!SE!RemoveAt(slice, j) /\ sorted' = sorted
        /\ count' = [count EXCEPT ![Key[slice[j]]] = @ - 1]
    BY <1>0, <1>4 DEF Slice!RemoveAt
  <2> QED
    BY <1>2, <2>1
<1>5. ASSUME Slice!Clear PROVE SliceInv'
  <2>1. slice' = << >> /\ count' = [k \in Slice!KeyValues |-> 0] /\ sorted' = sorted
    BY <1>5 DEF Slice!Clear
  <2>2. << >> \in Seq(Items) /\ Len(<< >>) = 0
    OBVIOUS
  <2>3. Slice!InOrder(<< >>)
    BY <2>2 DEF Slice!InOrder
  <2>4. Slice!CountIn(<< >>) = [k \in Slice!KeyValues |-> 0]
    <3>1. ASSUME NEW k PROVE Cardinality(Places(<< >>, k)) = 0
      <4>1. Places(<< >>, k) = {}
        BY DEF Places
      <4> QED
        BY <4>1, FS_EmptySet
    <3> QED
      BY <3>1, CountedPlaces
  <2> QED
    BY <2>1, <2>2, <2>3, <2>4 DEF SliceInv
<1>6. CASE UNCHANGED sliceVars
  BY <1>6 DEF sliceVars, SliceInv
<1> QED
  BY <1>1, <1>3, <1>4, <1>5, <1>6, Zenon DEF Slice!Next

LEMMA SliceRight == SliceInv => Slice!SortedAndFound /\ Slice!TypeOK
<1> SUFFICES ASSUME SliceInv PROVE Slice!SortedAndFound /\ Slice!TypeOK
  OBVIOUS
<1>0. slice \in Seq(Items) /\ count = Slice!CountIn(slice) /\ Len(slice) \in Nat
  BY Keyed DEF SliceInv
<1>1. \A k : IsFiniteSet(Places(slice, k)) /\ Cardinality(Places(slice, k)) \in Nat
  <2> SUFFICES ASSUME NEW k
               PROVE  IsFiniteSet(Places(slice, k)) /\ Cardinality(Places(slice, k)) \in Nat
    OBVIOUS
  <2>1. IsFiniteSet(1 .. Len(slice))
    BY <1>0, FS_Interval
  <2>2. Places(slice, k) \subseteq 1 .. Len(slice)
    BY DEF Places
  <2>3. IsFiniteSet(Places(slice, k))
    BY <2>1, <2>2, FS_Subset
  <2> QED
    BY <2>3, FS_CardinalityType
<1>2. count = [k \in Slice!KeyValues |-> Cardinality(Places(slice, k))]
  BY <1>0, CountedPlaces
<1>3. Slice!TypeOK
  <2>1. count \in [Slice!KeyValues -> Int]
    BY <1>1, <1>2
  <2> QED
    BY <2>1, Zenon DEF SliceInv, Slice!TypeOK
<1>4. ASSUME sorted, NEW x \in Items
      PROVE  (Slice!Find(x) # 0 - 1) <=> count[Key[x]] > 0
  <2>1. Slice!InOrder(slice)
    BY <1>4, Zenon DEF SliceInv
  <2>2. Slice!Find(x) # 0 - 1 <=> \E j \in 1 .. Len(slice) : Key[slice[j]] = Key[x]
    BY <1>0, <2>1, Found
  <2>3. (\E j \in 1 .. Len(slice) : Key[slice[j]] = Key[x]) <=> Places(slice, Key[x]) # {}
    BY DEF Places
  <2>4. count[Key[x]] = Cardinality(Places(slice, Key[x]))
    BY <1>2 DEF Slice!KeyValues
  <2>5. Cardinality(Places(slice, Key[x])) = 0 <=> Places(slice, Key[x]) = {}
    BY <1>1, FS_EmptySet
  <2>6. count[Key[x]] > 0 <=> Places(slice, Key[x]) # {}
    BY <1>1, <2>4, <2>5
  <2> QED
    BY <2>2, <2>3, <2>6, Zenon
<1> QED
  BY <1>0, <1>3, <1>4, Zenon DEF SliceInv, Slice!SortedAndFound

-----------------------------------------------------------------------------
(* LinkedList *)

\* m rounds of a loop over the values V, from z on.
Loop(V, z, step, m) ==
  \E f \in [0 .. m -> V] : f[0] = z /\ \A i \in 1 .. m : f[i] = step[f[i - 1]]

LEMMA Rounds ==
  ASSUME NEW V, NEW z \in V, NEW step \in [V -> V], NEW m \in Nat
  PROVE  Loop(V, z, step, m)
<1> DEFINE Looped(f, k) == f \in [0 .. k -> V] /\ f[0] = z /\ \A i \in 1 .. k : f[i] = step[f[i - 1]]
           Missing == {k \in Nat : ~ \E f : Looped(f, k)}
<1>1. Missing = {}
  <2> SUFFICES ASSUME Missing # {} PROVE FALSE
    OBVIOUS
  <2>1. PICK k \in Missing : \A l \in Missing : k <= l
    <3>1. Missing \in SUBSET Nat
      OBVIOUS
    <3> HIDE DEF Missing
    <3> QED
      BY <3>1, LeastNumber
  <2>2. k # 0
    <3>1. Looped([i \in 0 .. 0 |-> z], 0)
      OBVIOUS
    <3> QED
      BY <3>1
  <2>3. k \in Nat /\ k - 1 \in Nat /\ ~(k <= k - 1)
    BY <2>1, <2>2
  <2>4. PICK f : Looped(f, k - 1)
    <3>1. k - 1 \notin Missing
      <4> HIDE DEF Missing
      <4> QED
        BY <2>1, <2>3
    <3> QED
      BY <2>3, <3>1
  <2> DEFINE g == [i \in 0 .. k |-> IF i = k THEN step[f[k - 1]] ELSE f[i]]
  <2>5. Looped(g, k)
    BY <2>2, <2>3, <2>4
  <2> QED
    BY <2>1, <2>5
<1> QED
  BY <1>1 DEF Loop

\* The types of the ends and links of a list, and the walk along its links.
LinkTypes == [List!Ends -> [List!Nodes -> List!Nodes \cup {List!Nil}]]
EndTypes  == [List!Ends -> List!Nodes \cup {List!Nil}]

LEMMA TwoEnds ==
  /\ List!Ends = {"head", "tail"} /\ "head" # "tail"
  /\ List!Opp("head") = "tail" /\ List!Opp("tail") = "head"
  /\ \A e \in List!Ends : List!Opp(e) \in List!Ends /\ List!Opp(List!Opp(e)) = e
  /\ List!Nil = 0 /\ List!Nodes = 1 .. MaxNodes /\ List!Nil \notin List!Nodes
BY DEF List!Ends, List!Opp, List!Nil, List!Nodes

\* Walk stays in a set that is closed under the links.
Leads(V, e) == List!Nil \in V /\ \A v \in V : v # List!Nil => link[e][v] \in V
Walked(V, n, e, k) ==
  \E f \in [0 .. k -> V] :
    /\ f[0] = n /\ List!Walk(n, e, k) = f[k]
    /\ \A i \in 1 .. k : f[i] = IF f[i - 1] = List!Nil THEN List!Nil ELSE link[e][f[i - 1]]

LEMMA Walks ==
  ASSUME NEW V, NEW n \in V, NEW e, NEW k \in Nat, Leads(V, e)
  PROVE  Walked(V, n, e, k)
<1> List!Nil \in V /\ \A v \in V : v # List!Nil => link[e][v] \in V
  BY DEF Leads
<1> DEFINE step == [v \in V |-> IF v = List!Nil THEN List!Nil ELSE link[e][v]]
           Unrolled(f) == f = [i \in 0 .. k |-> IF i = 0 THEN n
                                 ELSE IF f[i - 1] = List!Nil THEN List!Nil ELSE link[e][f[i - 1]]]
<1>1. step \in [V -> V]
  OBVIOUS
<1>2. PICK f \in [0 .. k -> V] : f[0] = n /\ \A i \in 1 .. k : f[i] = step[f[i - 1]]
  <2> HIDE DEF step
  <2>1. Loop(V, n, step, k)
    BY <1>1, Rounds
  <2> QED
    BY <2>1 DEF Loop
<1>3. Unrolled(f)
  <2>1. ASSUME NEW i \in 0 .. k
        PROVE  f[i] = IF i = 0 THEN n ELSE IF f[i - 1] = List!Nil THEN List!Nil ELSE link[e][f[i - 1]]
    <3>1. CASE i = 0
      BY <1>2, <3>1
    <3>2. CASE i # 0
      <4>1. i \in 1 .. k /\ i - 1 \in 0 .. k
        BY <3>2
      <4> QED
        BY <1>2, <3>2, <4>1
    <3> QED
      BY <3>1, <3>2
  <2> QED
    BY <2>1
<1> PICK g : g = CHOOSE h : Unrolled(h)
  OBVIOUS
<1>4. Unrolled(g)
  BY <1>3
<1>5. List!Walk(n, e, k) = g[k]
  BY DEF List!Walk
<1>6. ASSUME NEW i \in 0 .. k
      PROVE  g[i] = IF i = 0 THEN n ELSE IF g[i - 1] = List!Nil THEN List!Nil ELSE link[e][g[i - 1]]
  BY <1>4
<1>7. \A i \in 0 .. k : g[i] \in V
  <2> DEFINE Out == {i \in 0 .. k : g[i] \notin V}
  <2> SUFFICES ASSUME Out # {} PROVE FALSE
    OBVIOUS
  <2>1. PICK i \in Out : \A l \in Out : i <= l
    <3>1. Out \in SUBSET Nat
      OBVIOUS
    <3> HIDE DEF Out
    <3> QED
      BY <3>1, LeastNumber
  <2>2. i # 0
    BY <1>6, <2>1
  <2>3. i - 1 \in 0 .. k /\ ~(i <= i - 1)
    BY <2>1, <2>2
  <2>4. g[i - 1] \in V
    BY <2>1, <2>3
  <2> QED
    BY <1>6, <2>1, <2>2, <2>4
<1>8. g \in [0 .. k -> V] /\ g[0] = n
  <2>1. g = [i \in 0 .. k |-> g[i]]
    BY <1>4
  <2>2. 0 \in 0 .. k
    OBVIOUS
  <2> QED
    BY <1>6, <1>7, <2>1, <2>2
<1>9. \A i \in 1 .. k : i \in 0 .. k /\ i # 0
  OBVIOUS
<1> QED
  BY <1>5, <1>6, <1>8, <1>9 DEF Walked

\* What is alive is closed under the links, and nothing smaller is.
Closed(S, en, ln) ==
  /\ \A e \in List!Ends : en[e] # List!Nil => en[e] \in S
  /\ \A e \in List!Ends, n \in S : ln[e][n] # List!Nil => ln[e][n] \in S

\* Where the ends lead, and one round of following the links.
EndsOf(en)     == {en[e] : e \in List!Ends}
Onward(S, ln) == S \cup {ln[e][n] : e \in List!Ends, n \in S \ {List!Nil}}

LEMMA AliveLoop ==
  ASSUME NEW en \in EndTypes, NEW ln \in LinkTypes
  PROVE  \E f \in [0 .. MaxNodes -> SUBSET (List!Nodes \cup {List!Nil})] :
           /\ f[0] = EndsOf(en) /\ \A i \in 1 .. MaxNodes : f[i] = Onward(f[i - 1], ln)
           /\ List!Alive(en, ln) = f[MaxNodes] \ {List!Nil}
<1> DEFINE V == SUBSET (List!Nodes \cup {List!Nil})
           step == [S \in V |-> Onward(S, ln)]
           Unrolled(f) == f = [i \in 0 .. MaxNodes |-> IF i = 0 THEN EndsOf(en) ELSE Onward(f[i - 1], ln)]
<1>1. /\ EndsOf(en) \in V /\ step \in [V -> V] /\ MaxNodes \in Nat
      /\ \A S \in V : Onward(S, ln) \in V
  <2>1. \A S \in V : Onward(S, ln) \in V
    BY DEF LinkTypes, Onward
  <2>2. EndsOf(en) \in V /\ MaxNodes \in Nat
    BY StructuresAssumption DEF EndTypes, EndsOf
  <2> HIDE DEF V
  <2> QED
    BY <2>1, <2>2
<1>2. PICK f \in [0 .. MaxNodes -> V] : f[0] = EndsOf(en) /\ \A i \in 1 .. MaxNodes : f[i] = step[f[i - 1]]
  <2> HIDE DEF step, V
  <2>1. Loop(V, EndsOf(en), step, MaxNodes)
    BY <1>1, Rounds
  <2> QED
    BY <2>1 DEF Loop
<1>3. Unrolled(f)
  <2>1. ASSUME NEW i \in 0 .. MaxNodes
        PROVE  f[i] = IF i = 0 THEN EndsOf(en) ELSE Onward(f[i - 1], ln)
    <3> HIDE DEF V
    <3>1. CASE i = 0
      BY <1>2, <3>1
    <3>2. CASE i # 0
      <4>1. i \in 1 .. MaxNodes /\ i - 1 \in 0 .. MaxNodes
        BY <1>1, <3>2
      <4> QED
        BY <1>2, <3>2, <4>1
    <3> QED
      BY <3>1, <3>2
  <2>2. f = [i \in 0 .. MaxNodes |-> f[i]]
    BY <1>2
  <2> QED
    BY <2>1, <2>2
<1> PICK g : g = CHOOSE h : Unrolled(h)
  OBVIOUS
<1>4. Unrolled(g)
  BY <1>3
<1>5. List!Alive(en, ln) = g[MaxNodes] \ {List!Nil}
  BY DEF List!Alive, EndsOf, Onward
<1>6. ASSUME NEW i \in 0 .. MaxNodes
      PROVE  g[i] = IF i = 0 THEN EndsOf(en) ELSE Onward(g[i - 1], ln)
  BY <1>4
<1> HIDE DEF V
<1>7. \A i \in 0 .. MaxNodes : g[i] \in V
  <2> DEFINE Out == {i \in 0 .. MaxNodes : g[i] \notin V}
  <2> SUFFICES ASSUME Out # {} PROVE FALSE
    OBVIOUS
  <2>1. PICK i \in Out : \A l \in Out : i <= l
    <3>1. Out \in SUBSET Nat
      BY <1>1
    <3> HIDE DEF Out
    <3> QED
      BY <3>1, LeastNumber
  <2>2. i # 0
    BY <1>1, <1>6, <2>1
  <2>3. i - 1 \in 0 .. MaxNodes /\ ~(i <= i - 1)
    BY <1>1, <2>1, <2>2
  <2>4. g[i - 1] \in V
    BY <2>1, <2>3
  <2> QED
    BY <1>1, <1>6, <2>1, <2>2, <2>4
<1>8. g \in [0 .. MaxNodes -> V] /\ g[0] = EndsOf(en)
  <2>1. g = [i \in 0 .. MaxNodes |-> g[i]]
    BY <1>4
  <2>2. 0 \in 0 .. MaxNodes
    BY <1>1
  <2> QED
    BY <1>6, <1>7, <2>1, <2>2
<1>9. \A i \in 1 .. MaxNodes : i \in 0 .. MaxNodes /\ i # 0
  BY <1>1
<1>10. \A i \in 1 .. MaxNodes : g[i] = Onward(g[i - 1], ln)
  BY <1>6, <1>9
<1> QED
  BY <1>5, <1>8, <1>10 DEF V

LEMMA Onwards ==
  ASSUME NEW S, NEW ln, NEW x, x # List!Nil
  PROVE  x \in Onward(S, ln) <=>
           x \in S \/ \E e \in List!Ends : \E n \in S : n # List!Nil /\ x = ln[e][n]
BY DEF Onward

\* What is alive is closed under the links, after as many rounds as there are nodes; and
\* it is the smallest such set.
LEMMA AliveClosed ==
  ASSUME NEW en \in EndTypes, NEW ln \in LinkTypes
  PROVE  /\ List!Alive(en, ln) \subseteq List!Nodes /\ Closed(List!Alive(en, ln), en, ln)
         /\ \A S \in SUBSET List!Nodes : Closed(S, en, ln) => List!Alive(en, ln) \subseteq S
<1> PICK N \in Nat : N = MaxNodes
  BY StructuresAssumption
<1>1. PICK f \in [0 .. N -> SUBSET (List!Nodes \cup {List!Nil})] :
        /\ f[0] = EndsOf(en) /\ \A i \in 1 .. N : f[i] = Onward(f[i - 1], ln)
        /\ List!Alive(en, ln) = f[N] \ {List!Nil}
  BY AliveLoop
<1> DEFINE g(i) == f[i] \ {List!Nil}
           Kept(S) == \A e \in List!Ends, n \in S : ln[e][n] # List!Nil => ln[e][n] \in S
           Good(i) == Kept(g(i)) \/ Cardinality(g(i)) >= i + 1
           Wrong == {i \in 0 .. N : ~Good(i)}
<1>2. /\ IsFiniteSet(List!Nodes) /\ Cardinality(List!Nodes) = N
      /\ \A i \in 0 .. N : /\ g(i) \subseteq List!Nodes /\ IsFiniteSet(g(i))
                           /\ Cardinality(g(i)) \in Nat /\ Cardinality(g(i)) <= N
  <2>1. IsFiniteSet(List!Nodes) /\ Cardinality(List!Nodes) = N
    BY FS_Interval DEF List!Nodes
  <2>2. ASSUME NEW i \in 0 .. N
        PROVE  g(i) \subseteq List!Nodes
    OBVIOUS
  <2> HIDE DEF g
  <2> QED
    BY <2>1, <2>2, FS_Subset, FS_CardinalityType
<1>3. ASSUME NEW i \in 1 .. N, NEW x
      PROVE  x \in g(i) <=>
               x \in g(i - 1) \/ \E e \in List!Ends : \E n \in g(i - 1) : x = ln[e][n] /\ x # List!Nil
  <2>1. CASE x = List!Nil
    BY <2>1
  <2>2. CASE x # List!Nil
    BY <1>1, <2>2, Onwards
  <2> QED
    BY <2>1, <2>2
<1>4. \A e \in List!Ends : en[e] # List!Nil => en[e] \in g(0)
  BY <1>1 DEF EndsOf
<1>5. ASSUME NEW x \in g(0) PROVE \E e \in List!Ends : x = en[e]
  BY <1>1 DEF EndsOf
<1> HIDE DEF g
<1>6. Good(0)
  <2>1. CASE g(0) = {}
    BY <2>1
  <2>2. CASE g(0) # {}
    <3>1. 0 \in 0 .. N
      OBVIOUS
    <3>2. Cardinality(g(0)) # 0 /\ Cardinality(g(0)) \in Nat
      BY <1>2, <2>2, <3>1, FS_EmptySet
    <3> QED
      BY <3>2
  <2> QED
    BY <2>1, <2>2
<1>7. ASSUME NEW i \in 1 .. N, Good(i - 1) PROVE Good(i)
  <2>1. i - 1 \in 0 .. N /\ i \in 0 .. N
    OBVIOUS
  <2>2. CASE Kept(g(i - 1))
    <3>1. ASSUME NEW x PROVE x \in g(i) <=> x \in g(i - 1)
      BY <1>3, <2>2
    <3>2. g(i) = g(i - 1)
      <4> HIDE DEF Kept
      <4>1. \A x : x \in g(i) <=> x \in g(i - 1)
        BY <3>1
      <4> QED
        BY <4>1, SetExtensionality
    <3> QED
      BY <2>2, <3>2
  <2>3. CASE ~Kept(g(i - 1)) /\ Cardinality(g(i - 1)) >= i - 1 + 1
    <3>1. g(i - 1) \subseteq g(i)
      BY <1>3
    <3>2. PICK e \in List!Ends, n \in g(i - 1) : ln[e][n] # List!Nil /\ ln[e][n] \notin g(i - 1)
      BY <2>3
    <3>3. ln[e][n] \in g(i)
      BY <1>3, <3>2
    <3>4. g(i - 1) # g(i)
      BY <3>2, <3>3
    <3>5. /\ Cardinality(g(i - 1)) <= Cardinality(g(i))
          /\ Cardinality(g(i - 1)) # Cardinality(g(i))
      BY <1>2, <2>1, <3>1, <3>4, FS_Subset
    <3>6. Cardinality(g(i - 1)) \in Nat /\ Cardinality(g(i)) \in Nat
      BY <1>2, <2>1
    <3> QED
      BY <2>3, <3>5, <3>6
  <2> QED
    BY <1>7, <2>2, <2>3
<1> HIDE DEF Kept
<1>8. Wrong = {}
  <2> SUFFICES ASSUME Wrong # {} PROVE FALSE
    OBVIOUS
  <2>1. PICK i \in Wrong : \A l \in Wrong : i <= l
    <3>1. Wrong \in SUBSET Nat
      OBVIOUS
    <3> HIDE DEF Wrong
    <3> QED
      BY <3>1, LeastNumber
  <2>2. i \in 0 .. N /\ ~Good(i)
    OBVIOUS
  <2> HIDE DEF Good
  <2>3. i # 0
    BY <1>6, <2>2
  <2>4. i - 1 \in 0 .. N /\ i \in 1 .. N /\ ~(i <= i - 1)
    BY <2>2, <2>3
  <2>5. Good(i - 1)
    BY <2>1, <2>4
  <2> QED
    BY <1>7, <2>2, <2>4, <2>5
<1>9. Kept(g(N))
  <2>1. N \in 0 .. N
    OBVIOUS
  <2>2. Good(N)
    <3> HIDE DEF Good
    <3> QED
      BY <1>8, <2>1
  <2>3. ~(Cardinality(g(N)) >= N + 1)
    BY <1>2, <2>1
  <2> QED
    BY <2>2, <2>3
<1>10. \A i \in 0 .. N : g(0) \subseteq g(i)
  <2> DEFINE Less == {i \in 0 .. N : ~(g(0) \subseteq g(i))}
  <2> SUFFICES ASSUME Less # {} PROVE FALSE
    OBVIOUS
  <2>1. PICK i \in Less : \A l \in Less : i <= l
    <3>1. Less \in SUBSET Nat
      OBVIOUS
    <3> HIDE DEF Less
    <3> QED
      BY <3>1, LeastNumber
  <2>2. i # 0
    BY <2>1
  <2>3. i - 1 \in 0 .. N /\ ~(i <= i - 1) /\ i \in 1 .. N
    BY <2>1, <2>2
  <2>4. g(0) \subseteq g(i - 1)
    BY <2>1, <2>3
  <2> QED
    BY <1>3, <2>1, <2>3, <2>4
<1>11. ASSUME NEW S \in SUBSET List!Nodes, Closed(S, en, ln)
       PROVE  \A i \in 0 .. N : g(i) \subseteq S
  <2> DEFINE Out == {i \in 0 .. N : ~(g(i) \subseteq S)}
  <2> SUFFICES ASSUME Out # {} PROVE FALSE
    OBVIOUS
  <2>1. PICK i \in Out : \A l \in Out : i <= l
    <3>1. Out \in SUBSET Nat
      OBVIOUS
    <3> HIDE DEF Out
    <3> QED
      BY <3>1, LeastNumber
  <2>2. i # 0
    <3>1. g(0) \subseteq S
      <4>1. ASSUME NEW x \in g(0) PROVE x # List!Nil
        BY DEF g
      <4> QED
        BY <1>5, <1>11, <4>1 DEF Closed
    <3> QED
      BY <2>1, <3>1
  <2>3. i - 1 \in 0 .. N /\ ~(i <= i - 1) /\ i \in 1 .. N
    BY <2>1, <2>2
  <2>4. g(i - 1) \subseteq S
    BY <2>1, <2>3
  <2> QED
    BY <1>3, <1>11, <2>1, <2>3, <2>4 DEF Closed
<1>12. List!Alive(en, ln) = g(N) /\ N \in 0 .. N
  BY <1>1 DEF g
<1>13. Closed(g(N), en, ln)
  BY <1>4, <1>9, <1>10, <1>12 DEF Closed, Kept
<1> QED
  BY <1>2, <1>11, <1>12, <1>13

\* A node that is free has no links.
Collected ==
  \A n \in List!Nodes : n \notin List!Alive(ends, link) => \A e \in List!Ends : link[e][n] = List!Nil

LEMMA Collects ==
  ASSUME NEW en \in EndTypes, NEW ln \in LinkTypes, List!SetHeap(en, ln)
  PROVE  /\ ends' = en /\ link' \in LinkTypes /\ Collected'
         /\ \A e \in List!Ends, n \in List!Nodes :
              link'[e][n] = IF n \in List!Alive(en, ln) THEN ln[e][n] ELSE List!Nil
<1> PICK A : A = List!Alive(en, ln)
  OBVIOUS
<1> PICK k : k = link'
  OBVIOUS
<1>1. ends' = en /\ k = [e \in List!Ends |-> [n \in List!Nodes |-> IF n \in A THEN ln[e][n] ELSE List!Nil]]
  BY DEF List!SetHeap
<1>2. k \in LinkTypes
  BY <1>1 DEF LinkTypes
<1>3. \A e \in List!Ends, n \in List!Nodes : k[e][n] = IF n \in A THEN ln[e][n] ELSE List!Nil
  BY <1>1
<1>4. A \subseteq List!Nodes /\ Closed(A, en, ln) /\ \A S \in SUBSET List!Nodes : Closed(S, en, ln) => A \subseteq S
  BY AliveClosed
<1> PICK B : B = List!Alive(en, k)
  OBVIOUS
<1>5. B \subseteq List!Nodes /\ Closed(B, en, k)
  BY <1>2, AliveClosed
<1>6. Closed(A \cap B, en, ln)
  BY <1>3, <1>4, <1>5 DEF Closed
<1>7. A \subseteq B
  <2>1. A \cap B \in SUBSET List!Nodes
    BY <1>4
  <2>2. A \subseteq A \cap B
    BY <1>4, <1>6, <2>1
  <2> QED
    BY <2>2
<1>8. Collected'
  <2>1. \A n \in List!Nodes : n \notin B => \A e \in List!Ends : k[e][n] = List!Nil
    BY <1>3, <1>7
  <2> QED
    BY <1>1, <2>1 DEF Collected
<1> QED
  BY <1>1, <1>2, <1>3, <1>8

\* order[a] has the nodes behind a; every link leads on in it, or back.
Orders(order, ln) ==
  /\ order \in [List!Nodes -> SUBSET List!Nodes]
  /\ \A a \in List!Nodes : a \notin order[a] /\ \A b \in order[a] : order[b] \subseteq order[a]
  /\ \A n \in List!Nodes : /\ ln["tail"][n] # List!Nil => ln["tail"][n] \in order[n]
                           /\ ln["head"][n] # List!Nil => n \in order[ln["head"][n]]

LEMMA StaysOrdered ==
  ASSUME NEW en \in EndTypes, NEW ln \in LinkTypes, List!SetHeap(en, ln), NEW order, Orders(order, ln)
  PROVE  Orders(order, link')
<1> PICK k : k = link'
  OBVIOUS
<1>1. \A e \in List!Ends, n \in List!Nodes : k[e][n] = ln[e][n] \/ k[e][n] = List!Nil
  BY Collects
<1>2. \A n \in List!Nodes : /\ k["tail"][n] = ln["tail"][n] \/ k["tail"][n] = List!Nil
                            /\ k["head"][n] = ln["head"][n] \/ k["head"][n] = List!Nil
  BY <1>1, TwoEnds
<1> QED
  BY <1>2 DEF Orders

\* A new node right behind n, or right before it.
PutAfter(order, n, new) ==
  [a \in List!Nodes |-> IF a = new THEN order[n] \ {new}
                        ELSE IF a = n \/ n \in order[a] THEN order[a] \cup {new} ELSE order[a] \ {new}]
PutBefore(order, n, new) ==
  [a \in List!Nodes |-> IF a = new THEN (order[n] \ {new}) \cup {n}
                        ELSE IF n \in order[a] THEN order[a] \cup {new} ELSE order[a] \ {new}]

LEMMA Unlinks ==
  ASSUME link \in LinkTypes, NEW n \in List!Nodes
  PROVE  /\ List!Unlink(n) \in LinkTypes
         /\ \A m \in List!Nodes :
              /\ List!Unlink(n)["tail"][m]
                   = IF m = link["head"][n] THEN link["tail"][n] ELSE link["tail"][m]
              /\ List!Unlink(n)["head"][m]
                   = IF m = link["tail"][n] THEN link["head"][n] ELSE link["head"][m]
<1> PICK p \in List!Nodes \cup {List!Nil} : p = link["head"][n]
  BY TwoEnds DEF LinkTypes
<1> PICK q \in List!Nodes \cup {List!Nil} : q = link["tail"][n]
  BY TwoEnds DEF LinkTypes
<1> PICK l1 : l1 = IF p = List!Nil THEN link ELSE [link EXCEPT !["tail"][p] = q]
  OBVIOUS
<1>1. /\ l1 \in LinkTypes /\ l1["head"] = link["head"]
      /\ \A m \in List!Nodes : l1["tail"][m] = IF m = p THEN q ELSE link["tail"][m]
  BY TwoEnds DEF LinkTypes
<1>2. List!Unlink(n) = IF q = List!Nil THEN l1 ELSE [l1 EXCEPT !["head"][q] = p]
  BY DEF List!Unlink
<1>3. /\ List!Unlink(n) \in LinkTypes /\ List!Unlink(n)["tail"] = l1["tail"]
      /\ \A m \in List!Nodes : List!Unlink(n)["head"][m] = IF m = q THEN p ELSE l1["head"][m]
  <2>1. CASE q = List!Nil
    BY <1>1, <1>2, <2>1, TwoEnds
  <2>2. CASE q # List!Nil
    <3> PICK l2 : l2 = [l1 EXCEPT !["head"][q] = p]
      OBVIOUS
    <3>1. /\ l2 \in LinkTypes /\ l2["tail"] = l1["tail"]
          /\ \A m \in List!Nodes : l2["head"][m] = IF m = q THEN p ELSE l1["head"][m]
      BY <1>1, <2>2, TwoEnds DEF LinkTypes
    <3>2. List!Unlink(n) = l2
      BY <1>2, <2>2
    <3> QED
      BY <3>1, <3>2
  <2> QED
    BY <2>1, <2>2
<1> QED
  BY <1>1, <1>3

LEMMA UnlinkOrdered ==
  ASSUME link \in LinkTypes, NEW n \in List!Nodes, NEW order, Orders(order, link)
  PROVE  Orders(order, List!Unlink(n))
<1> PICK k : k = List!Unlink(n)
  OBVIOUS
<1>1. \A m \in List!Nodes :
        /\ k["tail"][m] = IF m = link["head"][n] THEN link["tail"][n] ELSE link["tail"][m]
        /\ k["head"][m] = IF m = link["tail"][n] THEN link["head"][n] ELSE link["head"][m]
  BY Unlinks
<1>2. \A m \in List!Nodes : link["tail"][m] \in List!Nodes \cup {List!Nil} /\ link["head"][m] \in List!Nodes \cup {List!Nil}
  BY TwoEnds DEF LinkTypes
<1>3. \A m \in List!Nodes : /\ k["tail"][m] # List!Nil => k["tail"][m] \in order[m]
                            /\ k["head"][m] # List!Nil => m \in order[k["head"][m]]
  <2> SUFFICES ASSUME NEW m \in List!Nodes
               PROVE  /\ k["tail"][m] # List!Nil => k["tail"][m] \in order[m]
                      /\ k["head"][m] # List!Nil => m \in order[k["head"][m]]
    OBVIOUS
  <2> PICK p : p = link["head"][n]
    OBVIOUS
  <2> PICK q : q = link["tail"][n]
    OBVIOUS
  <2>1. /\ p # List!Nil => p \in List!Nodes /\ n \in order[p]
        /\ q # List!Nil => q \in List!Nodes /\ q \in order[n]
    BY <1>2 DEF Orders
  <2>2. p # List!Nil /\ q # List!Nil => q \in order[p]
    BY <2>1 DEF Orders
  <2>3. CASE m = p
    BY <1>1, <2>2, <2>3, TwoEnds DEF Orders
  <2>4. CASE m = q
    BY <1>1, <2>2, <2>4, TwoEnds DEF Orders
  <2>5. CASE m # p /\ m # q
    BY <1>1, <2>5 DEF Orders
  <2> QED
    BY <2>3, <2>4, <2>5
<1>4. Orders(order, k)
  BY <1>3 DEF Orders
<1> QED
  BY <1>4

\* Nothing refers to a node that is free.
Fresh(n) ==
  /\ n \in List!Nodes
  /\ \A e \in List!Ends : /\ ends[e] # n /\ link[e][n] = List!Nil
                          /\ \A m \in List!Nodes : link[e][m] # n

LEMMA NewIsFresh ==
  ASSUME ends \in EndTypes, link \in LinkTypes, Collected, List!HasRoom
  PROVE  Fresh(List!New)
<1> PICK A : A = List!Alive(ends, link)
  OBVIOUS
<1>1. A \subseteq List!Nodes /\ Closed(A, ends, link)
  BY AliveClosed
<1>2. List!Free # {} /\ List!Free = List!Nodes \ A
  BY DEF List!HasRoom, List!Free
<1>3. List!Free \in SUBSET Nat
  BY <1>2, TwoEnds
<1>4. \E n \in List!Free : \A m \in List!Free : n <= m
  BY <1>2, <1>3, LeastNumber
<1>5. List!New \in List!Free
  BY <1>4, Zenon DEF List!New
<1> PICK n \in List!Free : n = List!New
  BY <1>5
<1>6. n \in List!Nodes /\ n \notin A
  BY <1>2
<1>7. n # List!Nil
  BY <1>6, TwoEnds
<1>8. ASSUME NEW e \in List!Ends
      PROVE  /\ ends[e] # n /\ link[e][n] = List!Nil
             /\ \A m \in List!Nodes : link[e][m] # n
  <2>1. ends[e] # n
    BY <1>1, <1>6, <1>7 DEF Closed
  <2>2. link[e][n] = List!Nil
    BY <1>6 DEF Collected
  <2>3. ASSUME NEW m \in List!Nodes, link[e][m] = n PROVE FALSE
    <3>1. CASE m \in A
      BY <1>1, <1>6, <1>7, <2>3, <3>1 DEF Closed
    <3>2. CASE m \notin A
      BY <1>7, <2>3, <3>2 DEF Collected
    <3> QED
      BY <3>1, <3>2
  <2> QED
    BY <2>1, <2>2, <2>3
<1> QED
  BY <1>6, <1>8 DEF Fresh

LEMMA Apart ==
  ASSUME link \in LinkTypes, NEW new, Fresh(new)
  PROVE  /\ new \in List!Nodes
         /\ \A m \in List!Nodes : /\ link["tail"][m] # new /\ link["head"][m] # new
                                  /\ link["tail"][m] \in List!Nodes \cup {List!Nil}
                                  /\ link["head"][m] \in List!Nodes \cup {List!Nil}
<1>1. "head" \in List!Ends /\ "tail" \in List!Ends
  BY TwoEnds
<1>2. new \in List!Nodes /\ \A m \in List!Nodes : link["tail"][m] # new /\ link["head"][m] # new
  BY <1>1, Zenon DEF Fresh
<1>3. \A m \in List!Nodes : /\ link["tail"][m] \in List!Nodes \cup {List!Nil}
                            /\ link["head"][m] \in List!Nodes \cup {List!Nil}
  BY <1>1 DEF LinkTypes
<1> QED
  BY <1>2, <1>3

\* A node that was free may be linked behind n, or before it.
LEMMA PlacedBehind ==
  ASSUME link \in LinkTypes, NEW order, Orders(order, link), NEW n \in List!Nodes,
         NEW new, Fresh(new), n # new, NEW ln,
         \A m \in List!Nodes : m # new => /\ ln["tail"][m] = IF m = n THEN new ELSE link["tail"][m]
                                          /\ \/ ln["head"][m] = link["head"][m]
                                             \/ ln["head"][m] = new /\ m = link["tail"][n],
         ln["tail"][new] \in {List!Nil, link["tail"][n]}, ln["head"][new] = n
  PROVE  Orders(PutAfter(order, n, new), ln)
<1> PICK o : o = PutAfter(order, n, new)
  OBVIOUS
<1>1. /\ new \in List!Nodes
      /\ \A m \in List!Nodes : /\ link["tail"][m] # new /\ link["head"][m] # new
                               /\ link["tail"][m] \in List!Nodes \cup {List!Nil}
                               /\ link["head"][m] \in List!Nodes \cup {List!Nil}
  BY Apart
<1>2. /\ o \in [List!Nodes -> SUBSET List!Nodes] /\ o[new] = order[n] \ {new}
      /\ \A a \in List!Nodes : a # new =>
           o[a] = IF a = n \/ n \in order[a] THEN order[a] \cup {new} ELSE order[a] \ {new}
  BY <1>1 DEF Orders, PutAfter
<1>3. /\ order \in [List!Nodes -> SUBSET List!Nodes]
      /\ \A a \in List!Nodes : a \notin order[a] /\ \A b \in order[a] : order[b] \subseteq order[a]
      /\ \A m \in List!Nodes : /\ link["tail"][m] # List!Nil => link["tail"][m] \in order[m]
                               /\ link["head"][m] # List!Nil => m \in order[link["head"][m]]
  BY DEF Orders
<1>4. ASSUME NEW a \in List!Nodes PROVE a \notin o[a]
  BY <1>2, <1>3
<1>5. ASSUME NEW a \in List!Nodes, NEW b \in o[a], NEW c \in o[b] PROVE c \in o[a]
  <2>1. b \in List!Nodes /\ c \in List!Nodes
    BY <1>2
  <2>2. CASE a = new
    <3>1. b \in order[n] /\ b # new
      BY <1>2, <2>2
    <3>2. n \notin order[b] /\ b # n
      BY <1>3, <2>1, <3>1
    <3> QED
      BY <1>2, <1>3, <2>1, <2>2, <3>1, <3>2
  <2>3. CASE a # new /\ b = new
    <3>1. a = n \/ n \in order[a]
      BY <1>1, <1>2, <2>3
    <3> QED
      BY <1>2, <1>3, <2>1, <2>3, <3>1
  <2>4. CASE a # new /\ b # new
    <3>1. b \in order[a]
      BY <1>2, <2>4
    <3> QED
      BY <1>2, <1>3, <2>1, <2>4, <3>1
  <2> QED
    BY <2>2, <2>3, <2>4
<1>6. ASSUME NEW m \in List!Nodes
      PROVE  /\ ln["tail"][m] # List!Nil => ln["tail"][m] \in o[m]
             /\ ln["head"][m] # List!Nil => m \in o[ln["head"][m]]
  <2>1. CASE m = new
    <3>1. ln["tail"][m] # List!Nil => ln["tail"][m] \in o[m]
      BY <1>1, <1>2, <1>3, <2>1
    <3>2. m \in o[ln["head"][m]]
      BY <1>1, <1>2, <2>1
    <3> QED
      BY <3>1, <3>2
  <2>2. CASE m # new
    <3>1. ln["tail"][m] # List!Nil => ln["tail"][m] \in o[m]
      BY <1>1, <1>2, <1>3, <2>2
    <3>2. CASE ln["head"][m] = link["head"][m]
      BY <1>1, <1>2, <1>3, <2>2, <3>2
    <3>3. CASE ln["head"][m] = new /\ m = link["tail"][n]
      <4>1. m \in order[n] /\ m \in o[new]
        BY <1>2, <1>3, <2>2, <3>3, TwoEnds
      <4> QED
        BY <3>1, <3>3, <4>1
    <3> QED
      BY <2>2, <3>1, <3>2, <3>3
  <2> QED
    BY <2>1, <2>2
<1> QED
  BY <1>2, <1>4, <1>5, <1>6 DEF Orders

LEMMA PlacedBefore ==
  ASSUME link \in LinkTypes, NEW order, Orders(order, link), NEW n \in List!Nodes,
         NEW new, Fresh(new), n # new, NEW ln,
         \A m \in List!Nodes : m # new => /\ ln["head"][m] = IF m = n THEN new ELSE link["head"][m]
                                          /\ \/ ln["tail"][m] = link["tail"][m]
                                             \/ ln["tail"][m] = new /\ m = link["head"][n],
         ln["head"][new] \in {List!Nil, link["head"][n]}, ln["tail"][new] = n
  PROVE  Orders(PutBefore(order, n, new), ln)
<1> PICK o : o = PutBefore(order, n, new)
  OBVIOUS
<1>1. /\ new \in List!Nodes
      /\ \A m \in List!Nodes : /\ link["tail"][m] # new /\ link["head"][m] # new
                               /\ link["tail"][m] \in List!Nodes \cup {List!Nil}
                               /\ link["head"][m] \in List!Nodes \cup {List!Nil}
  BY Apart
<1>2. /\ o \in [List!Nodes -> SUBSET List!Nodes] /\ o[new] = (order[n] \ {new}) \cup {n}
      /\ \A a \in List!Nodes : a # new =>
           o[a] = IF n \in order[a] THEN order[a] \cup {new} ELSE order[a] \ {new}
  BY <1>1 DEF Orders, PutBefore
<1>3. /\ order \in [List!Nodes -> SUBSET List!Nodes]
      /\ \A a \in List!Nodes : a \notin order[a] /\ \A b \in order[a] : order[b] \subseteq order[a]
      /\ \A m \in List!Nodes : /\ link["tail"][m] # List!Nil => link["tail"][m] \in order[m]
                               /\ link["head"][m] # List!Nil => m \in order[link["head"][m]]
  BY DEF Orders
<1>4. ASSUME NEW a \in List!Nodes PROVE a \notin o[a]
  BY <1>2, <1>3
<1>5. ASSUME NEW a \in List!Nodes, NEW b \in o[a], NEW c \in o[b] PROVE c \in o[a]
  <2>1. b \in List!Nodes /\ c \in List!Nodes
    BY <1>2
  <2>2. CASE a = new
    <3>1. (b = n \/ b \in order[n]) /\ b # new
      BY <1>2, <2>2
    <3>2. n \notin order[b]
      BY <1>3, <2>1, <3>1
    <3> QED
      BY <1>2, <1>3, <2>1, <2>2, <3>1, <3>2
  <2>3. CASE a # new /\ b = new
    <3>1. n \in order[a]
      BY <1>1, <1>2, <2>3
    <3> QED
      BY <1>2, <1>3, <2>1, <2>3, <3>1
  <2>4. CASE a # new /\ b # new
    <3>1. b \in order[a]
      BY <1>2, <2>4
    <3> QED
      BY <1>2, <1>3, <2>1, <2>4, <3>1
  <2> QED
    BY <2>2, <2>3, <2>4
<1>6. ASSUME NEW m \in List!Nodes
      PROVE  /\ ln["tail"][m] # List!Nil => ln["tail"][m] \in o[m]
             /\ ln["head"][m] # List!Nil => m \in o[ln["head"][m]]
  <2>1. CASE m = new
    <3>1. ln["tail"][m] \in o[m]
      BY <1>1, <1>2, <2>1
    <3>2. ASSUME ln["head"][m] # List!Nil PROVE m \in o[ln["head"][m]]
      <4> PICK h \in List!Nodes : h = ln["head"][m] /\ h = link["head"][n]
        BY <1>1, <2>1, <3>2
      <4>1. n \in order[h] /\ h # new
        BY <1>1, <1>3, <3>2
      <4> QED
        BY <1>2, <2>1, <4>1
    <3> QED
      BY <3>1, <3>2
  <2>2. CASE m # new
    <3>1. ln["head"][m] # List!Nil => m \in o[ln["head"][m]]
      BY <1>1, <1>2, <1>3, <2>2
    <3>2. CASE ln["tail"][m] = link["tail"][m]
      BY <1>1, <1>2, <1>3, <2>2, <3>1, <3>2
    <3>3. CASE ln["tail"][m] = new /\ m = link["head"][n]
      <4>1. n \in order[m] /\ new \in o[m]
        BY <1>1, <1>2, <1>3, <2>2, <3>3, TwoEnds
      <4> QED
        BY <3>1, <3>3, <4>1
    <3> QED
      BY <2>2, <3>1, <3>2, <3>3
  <2> QED
    BY <2>1, <2>2
<1> QED
  BY <1>2, <1>4, <1>5, <1>6 DEF Orders

\* One link changed.
Relink(ln, e, n, v) == [ln EXCEPT ![e][n] = v]

LEMMA Besides ==
  ASSUME link \in LinkTypes, NEW n \in List!Nodes, NEW new \in List!Nodes, n # new,
         NEW e \in List!Ends, link[e][n] # new
  PROVE  /\ List!Beside(n, new, e) \in LinkTypes
         /\ \A m \in List!Nodes :
              /\ List!Beside(n, new, e)[e][m]
                   = IF m = n THEN new ELSE IF m = new THEN link[e][n] ELSE link[e][m]
              /\ List!Beside(n, new, e)[List!Opp(e)][m]
                   = IF m = new THEN n ELSE IF m = link[e][n] THEN new ELSE link[List!Opp(e)][m]
<1> PICK o \in List!Ends : o = List!Opp(e)
  BY TwoEnds
<1> PICK far \in List!Nodes \cup {List!Nil} : far = link[e][n]
  BY DEF LinkTypes
<1>0. o # e /\ far # new
  BY TwoEnds
<1> PICK la : la = Relink(link, o, new, n)
  OBVIOUS
<1>1. la \in LinkTypes /\ \A f \in List!Ends, m \in List!Nodes : la[f][m] = IF f = o /\ m = new THEN n ELSE link[f][m]
  BY DEF LinkTypes, Relink
<1> PICK lb : lb = Relink(la, e, new, far)
  OBVIOUS
<1>2. lb \in LinkTypes /\ \A f \in List!Ends, m \in List!Nodes : lb[f][m] = IF f = e /\ m = new THEN far ELSE la[f][m]
  BY <1>1 DEF LinkTypes, Relink
<1> PICK lc : lc = Relink(lb, e, n, new)
  OBVIOUS
<1>3. lc \in LinkTypes /\ \A f \in List!Ends, m \in List!Nodes : lc[f][m] = IF f = e /\ m = n THEN new ELSE lb[f][m]
  BY <1>2 DEF LinkTypes, Relink
<1>4. lc = [link EXCEPT ![o][new] = n, ![e][new] = far, ![e][n] = new]
  BY DEF Relink
<1>5. List!Beside(n, new, e) = IF far = List!Nil THEN lc ELSE [lc EXCEPT ![o][far] = new]
  BY <1>4 DEF List!Beside
<1>6. \A m \in List!Nodes : /\ lc[e][m] = IF m = n THEN new ELSE IF m = new THEN far ELSE link[e][m]
                            /\ lc[o][m] = IF m = new THEN n ELSE link[o][m]
  BY <1>0, <1>1, <1>2, <1>3
<1>7. CASE far = List!Nil
  <2>1. far \notin List!Nodes
    BY <1>7, TwoEnds
  <2> QED
    BY <1>3, <1>5, <1>6, <1>7, <2>1
<1>8. CASE far # List!Nil
  <2> PICK ld : ld = Relink(lc, o, far, new)
    OBVIOUS
  <2>1. ld \in LinkTypes /\ \A f \in List!Ends, m \in List!Nodes : ld[f][m] = IF f = o /\ m = far THEN new ELSE lc[f][m]
    BY <1>3, <1>8 DEF LinkTypes, Relink
  <2>2. List!Beside(n, new, e) = ld
    BY <1>5, <1>8 DEF Relink
  <2>3. \A m \in List!Nodes :
          /\ ld[e][m] = IF m = n THEN new ELSE IF m = new THEN far ELSE link[e][m]
          /\ ld[o][m] = IF m = new THEN n ELSE IF m = far THEN new ELSE link[o][m]
    BY <1>0, <1>6, <2>1
  <2> QED
    BY <2>1, <2>2, <2>3
<1> QED
  BY <1>7, <1>8

\* What AddSecond makes of the links.
Second(n, e) ==
  [link EXCEPT ![List!Opp(e)][n] = ends[List!Opp(e)], ![e][ends[List!Opp(e)]] = n]

LEMMA Seconds ==
  ASSUME link \in LinkTypes, NEW n \in List!Nodes, NEW e \in List!Ends,
         ends[List!Opp(e)] \in List!Nodes, ends[List!Opp(e)] # n
  PROVE  /\ Second(n, e) \in LinkTypes
         /\ \A m \in List!Nodes :
              /\ Second(n, e)[e][m] = IF m = ends[List!Opp(e)] THEN n ELSE link[e][m]
              /\ Second(n, e)[List!Opp(e)][m] = IF m = n THEN ends[List!Opp(e)] ELSE link[List!Opp(e)][m]
<1> PICK o \in List!Ends : o = List!Opp(e)
  BY TwoEnds
<1> PICK at \in List!Nodes : at = ends[List!Opp(e)]
  OBVIOUS
<1>0. o # e
  BY TwoEnds
<1> PICK la : la = Relink(link, o, n, at)
  OBVIOUS
<1>1. la \in LinkTypes /\ \A f \in List!Ends, m \in List!Nodes : la[f][m] = IF f = o /\ m = n THEN at ELSE link[f][m]
  BY DEF LinkTypes, Relink
<1> PICK lb : lb = Relink(la, e, at, n)
  OBVIOUS
<1>2. lb \in LinkTypes /\ \A f \in List!Ends, m \in List!Nodes : lb[f][m] = IF f = e /\ m = at THEN n ELSE la[f][m]
  BY <1>1 DEF LinkTypes, Relink
<1>3. Second(n, e) = lb
  BY DEF Second, Relink
<1>4. \A m \in List!Nodes : /\ lb[e][m] = IF m = at THEN n ELSE link[e][m]
                            /\ lb[o][m] = IF m = n THEN at ELSE link[o][m]
  BY <1>0, <1>1, <1>2
<1> QED
  BY <1>2, <1>3, <1>4

\* Both keep an order.
LEMMA PlacedBeside ==
  ASSUME link \in LinkTypes, NEW order, Orders(order, link), NEW n \in List!Nodes,
         NEW new, Fresh(new), n # new, NEW e \in List!Ends, NEW ln,
         \A m \in List!Nodes :
           m # new => /\ ln[e][m] = IF m = n THEN new ELSE link[e][m]
                      /\ \/ ln[List!Opp(e)][m] = link[List!Opp(e)][m]
                         \/ ln[List!Opp(e)][m] = new /\ m = link[e][n],
         ln[e][new] \in {List!Nil, link[e][n]}, ln[List!Opp(e)][new] = n
  PROVE  \E o : Orders(o, ln)
<1>1. CASE e = "tail"
  <2>1. Orders(PutAfter(order, n, new), ln)
    BY <1>1, TwoEnds, PlacedBehind
  <2> QED
    BY <2>1
<1>2. CASE e = "head"
  <2>1. Orders(PutBefore(order, n, new), ln)
    BY <1>2, TwoEnds, PlacedBefore
  <2> QED
    BY <2>1
<1> QED
  BY <1>1, <1>2, TwoEnds

\* getNode stays where the ends and the links lead.
LEMMA GetsNode ==
  ASSUME ends \in EndTypes, link \in LinkTypes, listSize \in Int, NEW V, List!Nil \in V,
         \A e \in List!Ends : /\ ends[e] \in V
                              /\ \A v \in V : v # List!Nil => link[e][v] \in V,
         NEW i \in Nat
  PROVE  List!GetNode(i) \in V
<1>1. /\ "head" \in List!Ends /\ "tail" \in List!Ends
  BY TwoEnds
<1>2. ASSUME NEW e \in List!Ends, NEW d \in List!Ends, NEW k \in Nat
      PROVE  List!Walk(ends[e], d, k) \in V
  <2>1. \A v \in V : v # List!Nil => link[d][v] \in V
    OBVIOUS
  <2>2. ends[e] \in V
    OBVIOUS
  <2>3. PICK n : n = ends[e]
    OBVIOUS
  <2>4. n \in V
    BY <2>2, <2>3
  <2>5. Walked(V, n, d, k)
    BY <2>1, <2>4, Walks DEF Leads
  <2>6. List!Walk(n, d, k) \in V
    BY ONLY <2>5, k \in Nat DEF Walked
  <2>7. QED
    BY ONLY <2>3, <2>6
<1>3. ends["head"] \in V /\ ends["tail"] \in V
  BY <1>1
<1>4. List!Walk(ends["head"], "tail", i) \in V
  BY ONLY <1>1, <1>2, i \in Nat, Zenon
<1>5. i \in 1 .. listSize - 2 => List!Walk(ends["tail"], "head", listSize - i + 1) \in V
  <2>1. i \in 1 .. listSize - 2 => listSize - i + 1 \in Nat
    BY ONLY i \in Nat, listSize \in Int, SMT
  <2>2. QED
    BY ONLY <1>1, <1>2, <2>1, Zenon
<1>6. \/ i \notin 0 .. listSize - 1 \/ i = 0 \/ (i > 0 /\ i = listSize - 1)
      \/ (i \in 1 .. listSize - 2 /\ i <= listSize \div 2)
      \/ (i \in 1 .. listSize - 2 /\ i > listSize \div 2)
  BY ONLY i \in Nat, listSize \in Int, SMT
<1>7. QED
  BY ONLY <1>3, <1>4, <1>5, <1>6, List!Nil \in V, i \in Nat, listSize \in Int DEF List!GetNode

-----------------------------------------------------------------------------
(* The heap of the list *)

\* The nodes stay in some order, tail links up and head links down, whatever is called:
\* so no walk runs round.
ListHeap ==
  /\ ends \in EndTypes /\ link \in LinkTypes /\ listSize \in Int /\ intact \in BOOLEAN
  /\ Collected /\ \E o : Orders(o, link)

LEMMA ListInit ==
  ASSUME List!NewLinkedList
  PROVE  ListHeap
<1>1. /\ ends \in EndTypes /\ link \in LinkTypes /\ listSize \in Int /\ intact \in BOOLEAN
      /\ \A e \in List!Ends, n \in List!Nodes : link[e][n] = List!Nil
  BY DEF List!NewLinkedList, EndTypes, LinkTypes
<1>2. Collected
  BY <1>1 DEF Collected
<1>3. Orders([n \in List!Nodes |-> {}], link)
  BY <1>1, TwoEnds DEF Orders
<1>4. QED
  BY <1>1, <1>2, <1>3 DEF ListHeap

\* A call that sets the heap to links in some order.
LEMMA HeapSet ==
  ASSUME NEW en \in EndTypes, NEW ln \in LinkTypes, List!SetHeap(en, ln), \E o : Orders(o, ln),
         listSize' \in Int, intact' \in BOOLEAN
  PROVE  ListHeap'
<1>1. PICK o : Orders(o, ln)
  OBVIOUS
<1>2. Orders(o, link')
  BY <1>1, StaysOrdered
<1>3. ends' = en /\ link' \in LinkTypes /\ Collected'
  BY Collects
<1>4. QED
  BY ONLY <1>2, <1>3, en \in EndTypes, listSize' \in Int, intact' \in BOOLEAN DEF ListHeap, EndTypes, LinkTypes, Orders, List!Nodes, List!Ends, List!Nil

\* The new node is beside another.
LEMMA HeapBeside ==
  ASSUME ListHeap, NEW n \in List!Nodes, NEW new, Fresh(new), n # new, NEW e \in List!Ends
  PROVE  /\ List!Beside(n, new, e) \in LinkTypes
         /\ \E o : Orders(o, List!Beside(n, new, e))
<1>1. link \in LinkTypes /\ \E o : Orders(o, link)
  BY DEF ListHeap
<1>2. new \in List!Nodes /\ link[e][n] # new /\ link[e][n] \in List!Nodes \cup {List!Nil}
  BY <1>1 DEF Fresh, LinkTypes
<1>3. PICK ln : ln = List!Beside(n, new, e)
  OBVIOUS
<1>4. /\ ln \in LinkTypes
      /\ \A m \in List!Nodes :
           /\ ln[e][m] = IF m = n THEN new ELSE IF m = new THEN link[e][n] ELSE link[e][m]
           /\ ln[List!Opp(e)][m]
                = IF m = new THEN n ELSE IF m = link[e][n] THEN new ELSE link[List!Opp(e)][m]
  BY ONLY <1>1, <1>2, <1>3, Besides, n \in List!Nodes, n # new, e \in List!Ends
<1>5. \A m \in List!Nodes :
        m # new => /\ ln[e][m] = IF m = n THEN new ELSE link[e][m]
                   /\ \/ ln[List!Opp(e)][m] = link[List!Opp(e)][m]
                      \/ ln[List!Opp(e)][m] = new /\ m = link[e][n]
  BY ONLY <1>4
<1>6. ln[e][new] \in {List!Nil, link[e][n]} /\ ln[List!Opp(e)][new] = n
  BY ONLY <1>2, <1>4, n # new
<1>7. PICK o : Orders(o, link)
  BY <1>1
<1>8. \E p : Orders(p, ln)
  BY ONLY <1>1, <1>5, <1>6, <1>7, PlacedBeside, n \in List!Nodes, Fresh(new), n # new, e \in List!Ends
<1>9. QED
  BY ONLY <1>3, <1>4, <1>8

\* Both ends are those of a list, whatever they point to.
LEMMA EndTypesAre ==
  /\ \A n \in List!Nodes : [e \in List!Ends |-> n] \in EndTypes
  /\ ends \in EndTypes => \A e \in List!Ends, n \in List!Nodes \cup {List!Nil} :
                            [ends EXCEPT ![e] = n] \in EndTypes
BY DEF EndTypes

LEMMA SizesStay ==
  ASSUME listSize \in Int
  PROVE  listSize + 1 \in Int /\ listSize - 1 \in Int
OBVIOUS

\* intact' is a Boolean: a call describes a sequence.
LEMMA DescribesType ==
  ASSUME NEW s, NEW right, List!Describes(s, right)
  PROVE  intact' \in BOOLEAN
BY DEF List!Describes

\* The first node, or the second, is linked; or a node beside an end.
LEMMA HeapPush ==
  ASSUME ListHeap, NEW e \in List!Ends, List!Push(e)
  PROVE  ListHeap'
<1>1. PICK n : n = List!New
  OBVIOUS
<1>2. /\ ends \in EndTypes /\ link \in LinkTypes /\ listSize \in Int /\ Collected
      /\ \E o : Orders(o, link)
  BY DEF ListHeap
<1>3. Fresh(n)
  BY <1>1, <1>2, NewIsFresh DEF List!Push
<1>4. n \in List!Nodes /\ List!Opp(e) \in List!Ends
  BY <1>3, TwoEnds DEF Fresh
<1>5. intact' \in BOOLEAN
  BY DEF List!Push, List!Describes
<1>6. \/ List!InitFirstNode(n) \/ (ends[e] # List!Nil /\ List!AddSecond(n, e))
      \/ /\ ends[e] # List!Nil /\ List!SetHeap([ends EXCEPT ![e] = n], List!Beside(ends[e], n, e))
         /\ listSize' = listSize + 1
  BY <1>1 DEF List!Push
<1>7. CASE List!InitFirstNode(n)
  <2>1. PICK en : en = [d \in List!Ends |-> n]
    OBVIOUS
  <2>2. en \in EndTypes /\ List!SetHeap(en, link) /\ listSize' \in Int
    BY <1>2, <1>4, <1>7, <2>1, EndTypesAre, SizesStay DEF List!InitFirstNode
  <2> QED
    BY ONLY <1>2, <1>5, <2>2, HeapSet
<1>8. CASE ends[e] # List!Nil /\ List!AddSecond(n, e)
  <2>1. PICK en : en = [ends EXCEPT ![e] = n]
    OBVIOUS
  <2>2. en \in EndTypes /\ listSize' \in Int
    BY <1>2, <1>4, <1>8, <2>1, EndTypesAre, SizesStay DEF List!AddSecond
  <2>3. CASE ends[List!Opp(e)] = List!Nil
    <3>1. List!SetHeap(en, link)
      BY <1>8, <2>1, <2>3 DEF List!AddSecond
    <3> QED
      BY ONLY <1>2, <1>5, <2>2, <3>1, HeapSet
  <2>4. CASE ends[List!Opp(e)] # List!Nil
    <3>1. PICK o, ln : o = ends[List!Opp(e)] /\ ln = Second(n, e)
      OBVIOUS
    <3>2. List!SetHeap(en, ln)
      BY <1>8, <2>1, <2>4, <3>1 DEF List!AddSecond, Second
    <3>3. o \in List!Nodes /\ o # n /\ \A d \in List!Ends : link[d][o] # n
      BY <1>2, <1>3, <1>4, <2>4, <3>1 DEF EndTypes, Fresh
    <3>4. /\ ln \in LinkTypes
          /\ \A m \in List!Nodes :
               /\ ln[e][m] = IF m = o THEN n ELSE link[e][m]
               /\ ln[List!Opp(e)][m] = IF m = n THEN o ELSE link[List!Opp(e)][m]
      BY <1>2, <1>4, <3>1, <3>3, Seconds
    <3>5. \A m \in List!Nodes :
            m # n => /\ ln[e][m] = IF m = o THEN n ELSE link[e][m]
                     /\ \/ ln[List!Opp(e)][m] = link[List!Opp(e)][m]
                        \/ ln[List!Opp(e)][m] = n /\ m = link[e][o]
      BY ONLY <3>4
    <3>6. ln[e][n] \in {List!Nil, link[e][o]} /\ ln[List!Opp(e)][n] = o
      <4>1. link[e][n] = List!Nil
        BY <1>3 DEF Fresh
      <4> QED
        BY ONLY <1>4, <3>3, <3>4, <4>1
    <3>7. PICK ord : Orders(ord, link)
      BY <1>2
    <3>8. \E p : Orders(p, ln)
      BY ONLY <1>2, <1>3, <3>3, <3>5, <3>6, <3>7, PlacedBeside, e \in List!Ends
    <3> QED
      BY ONLY <1>5, <2>2, <3>2, <3>4, <3>8, HeapSet
  <2> QED
    BY <2>3, <2>4
<1>9. CASE /\ ends[e] # List!Nil /\ List!SetHeap([ends EXCEPT ![e] = n], List!Beside(ends[e], n, e))
           /\ listSize' = listSize + 1
  <2>1. PICK en, at, ln : en = [ends EXCEPT ![e] = n] /\ at = ends[e] /\ ln = List!Beside(at, n, e)
    OBVIOUS
  <2>2. List!SetHeap(en, ln) /\ en \in EndTypes /\ listSize' \in Int
    BY <1>2, <1>4, <1>9, <2>1, EndTypesAre, SizesStay
  <2>3. at \in List!Nodes /\ at # n
    BY <1>2, <1>3, <1>9, <2>1 DEF EndTypes, Fresh
  <2>4. ln \in LinkTypes /\ \E p : Orders(p, ln)
    BY <1>3, <2>1, <2>3, HeapBeside
  <2> QED
    BY ONLY <1>5, <2>2, <2>4, HeapSet
<1> QED
  BY <1>6, <1>7, <1>8, <1>9

\* What the heap is without a node.
LEMMA HeapUnlink ==
  ASSUME ListHeap, NEW n \in List!Nodes
  PROVE  List!Unlink(n) \in LinkTypes /\ \E o : Orders(o, List!Unlink(n))
<1>1. PICK o : link \in LinkTypes /\ Orders(o, link)
  BY DEF ListHeap
<1> QED
  BY <1>1, Unlinks, UnlinkOrdered

LEMMA HeapTake ==
  ASSUME ListHeap, NEW e \in List!Ends, List!Take(e)
  PROVE  ListHeap'
<1>1. ends \in EndTypes /\ listSize \in Int /\ List!Opp(e) \in List!Ends
  BY TwoEnds DEF ListHeap
<1>2. PICK n, ln : n = ends[e] /\ ln = List!Unlink(n)
  OBVIOUS
<1>3. PICK v : v = ln[List!Opp(e)][n]
  OBVIOUS
<1>4. n \in List!Nodes
  BY <1>1, <1>2 DEF List!Take, EndTypes
<1>5. ln \in LinkTypes /\ \E o : Orders(o, ln)
  BY <1>2, <1>4, HeapUnlink
<1>6. v \in List!Nodes \cup {List!Nil}
  BY <1>1, <1>3, <1>4, <1>5 DEF LinkTypes
<1>7. PICK en : en = [ends EXCEPT ![e] = v]
  OBVIOUS
<1>8. en \in EndTypes /\ listSize' \in Int
  BY <1>1, <1>6, <1>7, EndTypesAre, SizesStay DEF List!Take
<1>9. List!SetHeap(en, ln)
  BY <1>2, <1>3, <1>7 DEF List!Take
<1>10. intact' \in BOOLEAN
  BY DEF List!Take, List!Describes
<1> QED
  BY ONLY <1>5, <1>8, <1>9, <1>10, HeapSet

\* getNode returns nothing that is not in the heap.
LEMMA GetsFresh ==
  ASSUME ListHeap, NEW new, NEW i \in Nat, List!GetNode(i) # List!Nil
  PROVE  List!GetNode(i) \in List!Nodes /\ (Fresh(new) => List!GetNode(i) # new)
<1>1. ends \in EndTypes /\ link \in LinkTypes /\ listSize \in Int
  BY DEF ListHeap
<1>2. List!GetNode(i) \in List!Nodes
  <2>1. PICK V : V = List!Nodes \cup {List!Nil}
    OBVIOUS
  <2>2. \A e \in List!Ends : /\ ends[e] \in V
                             /\ \A v \in V : v # List!Nil => link[e][v] \in V
    BY <1>1, <2>1 DEF EndTypes, LinkTypes
  <2>3. List!GetNode(i) \in V
    BY <1>1, <2>1, <2>2, GetsNode
  <2> QED
    BY <2>1, <2>3
<1>3. ASSUME Fresh(new) PROVE List!GetNode(i) # new
  <2>1. PICK V : V = (List!Nodes \ {new}) \cup {List!Nil}
    OBVIOUS
  <2>2. \A e \in List!Ends : /\ ends[e] \in V
                             /\ \A v \in V : v # List!Nil => link[e][v] \in V
    BY <1>1, <1>3, <2>1 DEF EndTypes, LinkTypes, Fresh
  <2>3. List!GetNode(i) \in V
    BY <1>1, <2>1, <2>2, GetsNode
  <2> QED
    BY <1>3, <2>1, <2>3, TwoEnds DEF Fresh
<1> QED
  BY <1>2, <1>3

LEMMA HeapInsert ==
  ASSUME ListHeap, NEW i \in 0 .. MaxNodes, List!Insert(i)
  PROVE  ListHeap'
<1>1. PICK n, at : n = List!New /\ at = List!GetNode(i)
  OBVIOUS
<1>2. /\ ends \in EndTypes /\ link \in LinkTypes /\ listSize \in Int /\ Collected
      /\ \E o : Orders(o, link)
  BY DEF ListHeap
<1>3. Fresh(n)
  BY <1>1, <1>2, NewIsFresh DEF List!Insert
<1>4. n \in List!Nodes /\ intact' \in BOOLEAN
  BY <1>3 DEF Fresh, List!Insert, List!Describes
<1>5. \/ List!InitFirstNode(n)
      \/ at # List!Nil /\ List!SetHeap(ends, List!Beside(at, n, "head")) /\ listSize' = listSize + 1
  BY <1>1 DEF List!Insert
<1>6. CASE List!InitFirstNode(n)
  <2>1. PICK en : en = [d \in List!Ends |-> n]
    OBVIOUS
  <2>2. en \in EndTypes /\ List!SetHeap(en, link) /\ listSize' \in Int
    BY <1>2, <1>4, <1>6, <2>1, EndTypesAre, SizesStay DEF List!InitFirstNode
  <2> QED
    BY ONLY <1>2, <1>4, <2>2, HeapSet
<1>7. CASE at # List!Nil /\ List!SetHeap(ends, List!Beside(at, n, "head")) /\ listSize' = listSize + 1
  <2>1. at \in List!Nodes /\ at # n
    BY <1>1, <1>3, <1>7, GetsFresh
  <2>2. PICK ln : ln = List!Beside(at, n, "head")
    OBVIOUS
  <2>3. ln \in LinkTypes /\ \E p : Orders(p, ln)
    BY <1>3, <2>1, <2>2, HeapBeside, TwoEnds
  <2>4. List!SetHeap(ends, ln) /\ listSize' \in Int
    BY <1>2, <1>7, <2>2, SizesStay
  <2> QED
    BY ONLY <1>2, <1>4, <2>3, <2>4, HeapSet
<1> QED
  BY <1>5, <1>6, <1>7

LEMMA HeapRemove ==
  ASSUME ListHeap, NEW i \in 0 .. MaxNodes, List!Remove(i)
  PROVE  ListHeap'
<1>1. PICK n, ln : n = List!GetNode(i) /\ ln = List!Unlink(n)
  OBVIOUS
<1>2. ends \in EndTypes /\ listSize \in Int
  BY DEF ListHeap
<1>3. n \in List!Nodes
  BY <1>1, GetsFresh DEF List!Remove
<1>4. ln \in LinkTypes /\ \E o : Orders(o, ln)
  BY <1>1, <1>3, HeapUnlink
<1>5. List!SetHeap(ends, ln) /\ listSize' \in Int /\ intact' \in BOOLEAN
  BY <1>1, <1>2, SizesStay DEF List!Remove, List!Describes
<1> QED
  BY ONLY <1>2, <1>4, <1>5, HeapSet

-----------------------------------------------------------------------------
(* A walk ends *)

\* Each node of a walk that has not ended follows all those before it: there are no more of
\* them than there are nodes.
LEMMA WalkEnds ==
  ASSUME ListHeap
  PROVE  List!NoCycle
<1>1. PICK o : ends \in EndTypes /\ link \in LinkTypes /\ Orders(o, link)
  BY DEF ListHeap
<1>2. MaxNodes \in Nat
  BY StructuresAssumption
<1>3. PICK V : V = List!Nodes \cup {List!Nil}
  OBVIOUS
<1>4. ends["head"] \in V /\ Leads(V, "tail")
  <2>1. "head" \in List!Ends /\ "tail" \in List!Ends
    BY TwoEnds
  <2>2. ends["head"] \in V
    BY <1>1, <1>3, <2>1 DEF EndTypes
  <2>3. ASSUME NEW v \in V, v # List!Nil PROVE link["tail"][v] \in V
    BY <1>1, <1>3, <2>1, <2>3 DEF LinkTypes
  <2> QED
    BY ONLY <1>3, <2>2, <2>3 DEF Leads
<1>5. Walked(V, ends["head"], "tail", MaxNodes)
  BY <1>2, <1>4, Walks
<1>6. PICK f \in [0 .. MaxNodes -> V] :
        /\ List!Walk(ends["head"], "tail", MaxNodes) = f[MaxNodes]
        /\ \A i \in 1 .. MaxNodes : f[i] = IF f[i - 1] = List!Nil THEN List!Nil ELSE link["tail"][f[i - 1]]
  BY <1>5 DEF Walked
<1> SUFFICES ASSUME f[MaxNodes] # List!Nil PROVE FALSE
  BY <1>6 DEF List!NoCycle
\* None of the nodes on the way is nil.
<1>7. \A i \in 0 .. MaxNodes : f[i] \in List!Nodes
  <2> DEFINE Ahead == {k \in 0 .. MaxNodes : f[MaxNodes - k] = List!Nil}
  <2> SUFFICES ASSUME Ahead # {} PROVE FALSE
    <3>1. ASSUME NEW i \in 0 .. MaxNodes, f[i] = List!Nil PROVE Ahead # {}
      <4>1. MaxNodes - i \in 0 .. MaxNodes /\ MaxNodes - (MaxNodes - i) = i
        BY <1>2
      <4> QED
        BY <3>1, <4>1
    <3> QED
      BY <1>3, <3>1
  <2>1. PICK k \in Ahead : \A l \in Ahead : k <= l
    <3>1. Ahead \in SUBSET Nat
      OBVIOUS
    <3> HIDE DEF Ahead
    <3> QED
      BY <3>1, LeastNumber
  <2>2. k \in 1 .. MaxNodes
    <3>1. MaxNodes - 0 = MaxNodes
      BY <1>2
    <3> QED
      BY <2>1, <3>1
  <2>3. /\ k - 1 \in 0 .. MaxNodes /\ ~(k <= k - 1)
        /\ MaxNodes - k + 1 \in 1 .. MaxNodes /\ MaxNodes - (k - 1) = MaxNodes - k + 1
        /\ MaxNodes - k + 1 - 1 = MaxNodes - k
    BY <1>2, <2>2
  <2>4. f[MaxNodes - k + 1] # List!Nil
    BY <2>1, <2>3
  <2>5. k - 1 >= 0 /\ f[MaxNodes - k] = List!Nil /\ MaxNodes - k + 1 \in Nat
    BY <1>2, <2>1, <2>2
  <2>6. PICK j : j = MaxNodes - k + 1
    OBVIOUS
  <2>7. j \in 1 .. MaxNodes /\ f[j] # List!Nil /\ f[j - 1] = List!Nil
    <3>1. j - 1 = MaxNodes - k
      BY <1>2, <2>2, <2>6
    <3> QED
      BY ONLY <2>3, <2>4, <2>5, <2>6, <3>1, Zenon
  <2> QED
    BY ONLY <1>6, <2>7
<1>8. \A i \in 1 .. MaxNodes : i - 1 \in 0 .. MaxNodes /\ f[i] \in o[f[i - 1]]
  <2>1. ASSUME NEW i \in 1 .. MaxNodes PROVE i - 1 \in 0 .. MaxNodes /\ f[i] \in o[f[i - 1]]
    <3>1. i - 1 \in 0 .. MaxNodes /\ i \in 0 .. MaxNodes
      BY <1>2
    <3>2. f[i] = link["tail"][f[i - 1]] /\ f[i] # List!Nil /\ f[i - 1] \in List!Nodes
      BY <1>6, <1>7, <3>1, TwoEnds
    <3> QED
      BY <1>1, <3>1, <3>2 DEF Orders
  <2> QED
    BY <2>1
\* So each follows those before it.
<1>9. \A j \in 0 .. MaxNodes : \A i \in 0 .. MaxNodes : i < j => f[j] \in o[f[i]]
  <2> DEFINE Bad == {j \in 0 .. MaxNodes : \E i \in 0 .. MaxNodes : i < j /\ f[j] \notin o[f[i]]}
  <2> SUFFICES ASSUME Bad # {} PROVE FALSE
    OBVIOUS
  <2>1. PICK j \in Bad : \A l \in Bad : j <= l
    <3>1. Bad \in SUBSET Nat
      OBVIOUS
    <3> HIDE DEF Bad
    <3> QED
      BY <3>1, LeastNumber
  <2>2. PICK i \in 0 .. MaxNodes : i < j /\ f[j] \notin o[f[i]]
    BY <2>1
  <2>3. j \in 1 .. MaxNodes /\ j - 1 \in 0 .. MaxNodes /\ ~(j <= j - 1) /\ (i = j - 1 \/ i < j - 1)
    BY <1>2, <2>1, <2>2
  <2>4. f[j] \in o[f[j - 1]]
    BY <1>8, <2>3
  <2>5. i < j - 1
    BY <2>2, <2>3, <2>4
  <2>6. f[j - 1] \in o[f[i]]
    BY <2>1, <2>3, <2>5
  <2>7. o[f[j - 1]] \subseteq o[f[i]]
    BY <1>1, <1>7, <2>6 DEF Orders
  <2> QED
    BY <2>2, <2>4, <2>7
<1>10. \A i, j \in 0 .. MaxNodes : i # j => f[i] # f[j]
  <2>1. \A i, j \in 0 .. MaxNodes : i < j => f[i] # f[j]
    BY <1>1, <1>7, <1>9 DEF Orders
  <2>2. \A i, j \in 0 .. MaxNodes : i < j \/ j < i \/ i = j
    BY <1>2
  <2> QED
    BY <2>1, <2>2
<1>11. f \in [0 .. MaxNodes -> List!Nodes]
  BY <1>7
<1>12. /\ IsFiniteSet(0 .. MaxNodes) /\ Cardinality(0 .. MaxNodes) = MaxNodes + 1
       /\ IsFiniteSet(List!Nodes) /\ Cardinality(List!Nodes) = MaxNodes
  <2>1. Cardinality(0 .. MaxNodes) = MaxNodes - 0 + 1 /\ IsFiniteSet(0 .. MaxNodes)
    <3>1. 0 \in Int /\ MaxNodes \in Int /\ ~(0 > MaxNodes)
      BY <1>2
    <3> QED
      BY <3>1, FS_Interval
  <2>2. Cardinality(1 .. MaxNodes) = MaxNodes /\ IsFiniteSet(1 .. MaxNodes)
    <3>1. 1 \in Int /\ MaxNodes \in Int
      BY <1>2
    <3>2. IsFiniteSet(1 .. MaxNodes) /\ Cardinality(1 .. MaxNodes) = IF 1 > MaxNodes THEN 0 ELSE MaxNodes - 1 + 1
      BY <3>1, FS_Interval
    <3> QED
      BY <1>2, <3>2
  <2> QED
    BY <1>2, <2>1, <2>2, TwoEnds
<1>13. \E i, j \in 0 .. MaxNodes : i # j /\ f[i] = f[j]
  <2>1. Cardinality(List!Nodes) < Cardinality(0 .. MaxNodes)
    BY <1>2, <1>12
  <2> QED
    BY ONLY <1>11, <1>12, <2>1, FS_PigeonHole
<1> QED
  BY <1>10, <1>13

-----------------------------------------------------------------------------
(* The sequence that the links hold *)

\* The nodes of a sequence, all different, linked one to the next.
Laid(c, en, ln) ==
  /\ c \in Seq(List!Nodes) /\ \A i, j \in 1 .. Len(c) : c[i] = c[j] => i = j
  /\ Len(c) = 0 => en["head"] = List!Nil /\ en["tail"] = List!Nil
  /\ Len(c) > 0 => en["head"] = c[1] /\ en["tail"] = c[Len(c)]
  /\ \A i \in 1 .. Len(c) : /\ ln["tail"][c[i]] = IF i = Len(c) THEN List!Nil ELSE c[i + 1]
                            /\ ln["head"][c[i]] = IF i = 1 THEN List!Nil ELSE c[i - 1]

\* They are alive.
LEMMA LaidAlive ==
  ASSUME NEW c, NEW en \in EndTypes, NEW ln \in LinkTypes, Laid(c, en, ln)
  PROVE  \A i \in 1 .. Len(c) : c[i] \in List!Alive(en, ln)
<1>1. Closed(List!Alive(en, ln), en, ln)
  BY AliveClosed
<1>2. PICK A : A = List!Alive(en, ln)
  OBVIOUS
<1>3. Len(c) \in Nat /\ \A i \in 1 .. Len(c) : c[i] \in List!Nodes /\ c[i] # List!Nil
  <2>1. c \in Seq(List!Nodes)
    BY DEF Laid
  <2>2. Len(c) \in Nat /\ \A i \in 1 .. Len(c) : c[i] \in List!Nodes
    BY <2>1
  <2> QED
    BY <2>2, TwoEnds
<1> DEFINE Out == {i \in 1 .. Len(c) : c[i] \notin A}
<1> SUFFICES ASSUME Out # {} PROVE FALSE
  BY <1>2
<1>4. PICK i \in Out : \A l \in Out : i <= l
  <2>1. Out \in SUBSET Nat
    OBVIOUS
  <2> HIDE DEF Out
  <2> QED
    BY <2>1, LeastNumber
<1>5. i # 1
  <2>1. CASE i = 1
    <3>1. en["head"] = c[i] /\ en["head"] # List!Nil
      BY <1>3, <1>4, <2>1 DEF Laid
    <3> QED
      BY <1>1, <1>2, <1>4, <3>1, TwoEnds DEF Closed
  <2> QED
    BY <2>1
<1>6. i - 1 \in 1 .. Len(c) /\ i - 1 + 1 = i /\ ~(i <= i - 1) /\ i - 1 # Len(c)
  BY <1>3, <1>4, <1>5
<1>7. c[i - 1] \in A
  BY <1>4, <1>6
<1>8. ln["tail"][c[i - 1]] = c[i] /\ c[i] # List!Nil
  <2>1. PICK j : j = i - 1
    OBVIOUS
  <2>2. j \in 1 .. Len(c) /\ j # Len(c) /\ j + 1 = i
    BY ONLY <1>6, <2>1
  <2>3. ln["tail"][c[j]] = c[j + 1]
    BY ONLY <2>2, Laid(c, en, ln) DEF Laid
  <2>4. c[j + 1] = c[i]
    BY ONLY <2>2, Zenon
  <2> QED
    BY <1>3, <1>4, <2>1, <2>3, <2>4
<1> QED
  BY <1>1, <1>2, <1>4, <1>7, <1>8, TwoEnds DEF Closed

\* So they keep their links when the garbage is collected.
LEMMA StaysLaid ==
  ASSUME NEW c, NEW en \in EndTypes, NEW ln \in LinkTypes, Laid(c, en, ln), List!SetHeap(en, ln)
  PROVE  Laid(c, ends', link')
<1>1. PICK k : k = link'
  OBVIOUS
<1>2. /\ ends' = en
      /\ \A e \in List!Ends, n \in List!Nodes :
           k[e][n] = IF n \in List!Alive(en, ln) THEN ln[e][n] ELSE List!Nil
  BY <1>1, Collects
<1>3. \A i \in 1 .. Len(c) : c[i] \in List!Alive(en, ln) /\ c[i] \in List!Nodes
  BY LaidAlive DEF Laid
<1>4. \A i \in 1 .. Len(c) : k["tail"][c[i]] = ln["tail"][c[i]] /\ k["head"][c[i]] = ln["head"][c[i]]
  BY <1>2, <1>3, TwoEnds
<1>5. Laid(c, en, k)
  BY ONLY <1>4, Laid(c, en, ln) DEF Laid
<1> QED
  BY <1>1, <1>2, <1>5

\* d is c with n in place k, and the links follow.
Widened(c, k, n, d) ==
  /\ Len(c) > 0 /\ n \in List!Nodes /\ k \in 1 .. Len(c) + 1 /\ \A i \in 1 .. Len(c) : c[i] # n
  /\ d \in Seq(List!Nodes) /\ Len(d) = Len(c) + 1
  /\ \A i \in 1 .. Len(d) : d[i] = IF i < k THEN c[i] ELSE IF i = k THEN n ELSE c[i - 1]
Linked(c, k, n, en, ln, en2, ln2) ==
  /\ en2["head"] = IF k = 1 THEN n ELSE en["head"]
  /\ en2["tail"] = IF k = Len(c) + 1 THEN n ELSE en["tail"]
  /\ \A i \in 1 .. Len(c) : /\ ln2["tail"][c[i]] = IF i = k - 1 THEN n ELSE ln["tail"][c[i]]
                            /\ ln2["head"][c[i]] = IF i = k THEN n ELSE ln["head"][c[i]]
  /\ ln2["tail"][n] = IF k = Len(c) + 1 THEN List!Nil ELSE c[k]
  /\ ln2["head"][n] = IF k = 1 THEN List!Nil ELSE c[k - 1]

LEMMA LaidWith ==
  ASSUME NEW c, NEW en, NEW ln, Laid(c, en, ln), NEW k, NEW n, NEW d, Widened(c, k, n, d),
         NEW en2, NEW ln2, Linked(c, k, n, en, ln, en2, ln2)
  PROVE  Laid(d, en2, ln2)
<1> USE DEF Widened, Linked
<1>1. /\ c \in Seq(List!Nodes) /\ Len(c) \in Nat /\ \A i, j \in 1 .. Len(c) : c[i] = c[j] => i = j
      /\ en["head"] = c[1] /\ en["tail"] = c[Len(c)]
      /\ \A i \in 1 .. Len(c) : /\ ln["tail"][c[i]] = IF i = Len(c) THEN List!Nil ELSE c[i + 1]
                                /\ ln["head"][c[i]] = IF i = 1 THEN List!Nil ELSE c[i - 1]
  BY DEF Laid
<1>2. ASSUME NEW i \in 1 .. Len(d), NEW j \in 1 .. Len(d), d[i] = d[j]
      PROVE  i = j
  <2>1. (i < k \/ i = k \/ i > k) /\ (j < k \/ j = k \/ j > k)
    OBVIOUS
  <2>2. /\ i < k => i \in 1 .. Len(c) /\ d[i] = c[i]
        /\ i > k => i - 1 \in 1 .. Len(c) /\ d[i] = c[i - 1]
        /\ i = k => d[i] = n
        /\ j < k => j \in 1 .. Len(c) /\ d[j] = c[j]
        /\ j > k => j - 1 \in 1 .. Len(c) /\ d[j] = c[j - 1]
        /\ j = k => d[j] = n
    BY <1>1
  <2>3. CASE i < k
    <3>1. j = k \/ j < k \/ (j > k /\ i # j - 1)
      BY <2>1, <2>3
    <3> QED
      BY <1>1, <1>2, <2>2, <2>3, <3>1
  <2>4. CASE i = k
    BY <1>2, <2>1, <2>2, <2>4
  <2>5. CASE i > k
    <3>1. CASE j = k
      BY <1>2, <2>2, <2>5, <3>1
    <3>2. CASE j < k
      <4>1. j # i - 1
        BY <2>5, <3>2
      <4> QED
        BY <1>1, <1>2, <2>2, <2>5, <3>2, <4>1
    <3>3. CASE j > k
      <4>1. i - 1 = j - 1
        BY <1>1, <1>2, <2>2, <2>5, <3>3
      <4> QED
        BY <4>1
    <3> QED
      BY <2>1, <3>1, <3>2, <3>3
  <2> QED
    BY <2>1, <2>3, <2>4, <2>5
<1>3. en2["head"] = d[1]
  <2>1. 1 \in 1 .. Len(d) /\ (k = 1 \/ 1 < k)
    BY <1>1
  <2> QED
    BY <1>1, <2>1
<1>4. en2["tail"] = d[Len(d)]
  <2>1. Len(d) \in 1 .. Len(d) /\ Len(d) - 1 = Len(c) /\ (k = Len(d) \/ (Len(d) > k /\ k # Len(c) + 1))
    BY <1>1
  <2>2. k = Len(d) => d[Len(d)] = n
    <3>1. k = Len(d) => ~(Len(d) < k)
      OBVIOUS
    <3> QED
      BY <2>1, <3>1
  <2>3. Len(d) > k => d[Len(d)] = c[Len(c)]
    <3>1. Len(d) > k => ~(Len(d) < k) /\ Len(d) # k
      BY <1>1
    <3> QED
      BY <2>1, <3>1
  <2> QED
    BY <1>1, <2>1, <2>2, <2>3
<1>5. ASSUME NEW i \in 1 .. Len(d)
      PROVE  ln2["tail"][d[i]] = IF i = Len(d) THEN List!Nil ELSE d[i + 1]
  <2>1. i < k - 1 \/ i = k - 1 \/ i = k \/ i > k
    OBVIOUS
  <2>2. CASE i < k - 1
    <3>1. i \in 1 .. Len(c) /\ i # Len(c) /\ i + 1 \in 1 .. Len(d) /\ i + 1 < k /\ i < k /\ i # Len(d) /\ i # k - 1
      BY <1>1, <2>2
    <3>2. d[i] = c[i] /\ d[i + 1] = c[i + 1]
      BY <3>1
    <3>3. ln2["tail"][c[i]] = c[i + 1]
      BY <1>1, <3>1
    <3> QED
      BY <3>1, <3>2, <3>3
  <2>3. CASE i = k - 1
    <3>1. i \in 1 .. Len(c) /\ i + 1 \in 1 .. Len(d) /\ i + 1 = k /\ i < k /\ i # Len(d)
      BY <1>1, <2>3
    <3>2. d[i] = c[i] /\ d[i + 1] = n /\ ln2["tail"][c[i]] = n
      BY <2>3, <3>1
    <3> QED
      BY <3>1, <3>2
  <2>4. CASE i = k
    <3>1. d[i] = n
      BY <2>4
    <3>2. CASE k = Len(c) + 1
      BY <2>4, <3>1, <3>2
    <3>3. CASE k # Len(c) + 1
      <4>1. i + 1 \in 1 .. Len(d) /\ i + 1 > k /\ i + 1 - 1 = k /\ i # Len(d)
        BY <1>1, <2>4, <3>3
      <4> QED
        BY <2>4, <3>1, <3>3, <4>1
    <3> QED
      BY <3>2, <3>3
  <2>5. CASE i > k
    <3>1. i - 1 \in 1 .. Len(c) /\ d[i] = c[i - 1] /\ i - 1 # k - 1 /\ (i - 1 = Len(c) <=> i = Len(d)) /\ i - 1 + 1 = i
      BY <1>1, <2>5
    <3>2. PICK j : j = i - 1
      OBVIOUS
    <3>3. ln2["tail"][d[i]] = IF j = Len(c) THEN List!Nil ELSE c[j + 1]
      BY <1>1, <3>1, <3>2
    <3>4. i # Len(d) => d[i + 1] = c[i]
      <4>1. i # Len(d) => i + 1 \in 1 .. Len(d) /\ i + 1 > k /\ i + 1 - 1 = i
        BY <1>1, <2>5
      <4> QED
        BY <4>1
    <3> QED
      BY <3>1, <3>2, <3>3, <3>4
  <2> QED
    BY <2>1, <2>2, <2>3, <2>4, <2>5
<1>6. ASSUME NEW i \in 1 .. Len(d)
      PROVE  ln2["head"][d[i]] = IF i = 1 THEN List!Nil ELSE d[i - 1]
  <2>1. i < k \/ i = k \/ i = k + 1 \/ i > k + 1
    OBVIOUS
  <2>2. CASE i < k
    <3>1. i \in 1 .. Len(c) /\ i # k /\ (i # 1 => i - 1 \in 1 .. Len(d) /\ i - 1 < k)
      BY <1>1, <2>2
    <3> QED
      BY <1>1, <2>2, <3>1
  <2>3. CASE i = k
    <3>1. d[i] = n
      BY <2>3
    <3>2. i # 1 => i - 1 \in 1 .. Len(d) /\ i - 1 < k
      BY <1>1, <2>3
    <3> QED
      BY <2>3, <3>1, <3>2
  <2>4. CASE i = k + 1
    <3>1. k \in 1 .. Len(c) /\ i > k /\ i - 1 = k /\ i # 1 /\ k \in 1 .. Len(d)
      BY <1>1, <2>4
    <3>2. d[i] = c[k] /\ d[k] = n /\ ln2["head"][c[k]] = n
      BY <3>1
    <3> QED
      BY <3>1, <3>2
  <2>5. CASE i > k + 1
    <3>1. /\ i - 1 \in 1 .. Len(c) /\ d[i] = c[i - 1] /\ i - 1 # k /\ i - 1 # 1 /\ i # 1
          /\ i - 1 \in 1 .. Len(d) /\ i - 1 > k
      BY <1>1, <2>5
    <3>2. PICK j : j = i - 1
      OBVIOUS
    <3>3. j \in 1 .. Len(c) /\ j # 1 /\ j # k /\ d[i] = c[j] /\ d[j] = c[j - 1]
      BY <3>1, <3>2
    <3>4. ln2["head"][c[j]] = c[j - 1]
      BY <1>1, <3>3
    <3> QED
      BY <3>1, <3>2, <3>3, <3>4
  <2> QED
    BY <2>1, <2>2, <2>3, <2>4, <2>5
<1>7. Len(d) # 0 /\ Len(d) > 0
  BY <1>1
<1> QED
  BY <1>2, <1>3, <1>4, <1>5, <1>6, <1>7 DEF Laid

\* d is c without its place k, and the links follow.
Narrowed(c, k, d) ==
  /\ Len(c) > 1 /\ k \in 1 .. Len(c) /\ d \in Seq(List!Nodes) /\ Len(d) = Len(c) - 1
  /\ \A i \in 1 .. Len(d) : d[i] = IF i < k THEN c[i] ELSE c[i + 1]
Unlinked(c, k, en, ln, en2, ln2) ==
  /\ en2["head"] = IF k = 1 THEN c[2] ELSE en["head"]
  /\ en2["tail"] = IF k = Len(c) THEN c[Len(c) - 1] ELSE en["tail"]
  /\ \A i \in 1 .. Len(c) : i # k =>
       /\ ln2["tail"][c[i]] = IF i = k - 1 THEN ln["tail"][c[k]] ELSE ln["tail"][c[i]]
       /\ ln2["head"][c[i]] = IF i = k + 1 THEN ln["head"][c[k]] ELSE ln["head"][c[i]]

LEMMA LaidWithout ==
  ASSUME NEW c, NEW en, NEW ln, Laid(c, en, ln), NEW k, NEW d, Narrowed(c, k, d),
         NEW en2, NEW ln2, Unlinked(c, k, en, ln, en2, ln2)
  PROVE  Laid(d, en2, ln2)
<1> USE DEF Narrowed, Unlinked
<1>1. /\ c \in Seq(List!Nodes) /\ Len(c) \in Nat /\ \A i, j \in 1 .. Len(c) : c[i] = c[j] => i = j
      /\ en["head"] = c[1] /\ en["tail"] = c[Len(c)]
      /\ \A i \in 1 .. Len(c) : /\ ln["tail"][c[i]] = IF i = Len(c) THEN List!Nil ELSE c[i + 1]
                                /\ ln["head"][c[i]] = IF i = 1 THEN List!Nil ELSE c[i - 1]
  BY DEF Laid
<1>2. ASSUME NEW i \in 1 .. Len(d), NEW j \in 1 .. Len(d), d[i] = d[j]
      PROVE  i = j
  <2>1. (i < k \/ i >= k) /\ (j < k \/ j >= k)
    OBVIOUS
  <2>2. /\ i < k => i \in 1 .. Len(c) /\ d[i] = c[i]
        /\ i >= k => i + 1 \in 1 .. Len(c) /\ d[i] = c[i + 1]
        /\ j < k => j \in 1 .. Len(c) /\ d[j] = c[j]
        /\ j >= k => j + 1 \in 1 .. Len(c) /\ d[j] = c[j + 1]
    BY <1>1
  <2> QED
    BY <1>1, <1>2, <2>1, <2>2
<1>3. en2["head"] = d[1]
  <2>1. 1 \in 1 .. Len(d) /\ (k = 1 \/ 1 < k)
    BY <1>1
  <2> QED
    BY <1>1, <2>1
<1>4. en2["tail"] = d[Len(d)]
  <2>1. /\ Len(d) \in 1 .. Len(d) /\ Len(d) = Len(c) - 1 /\ Len(d) + 1 = Len(c)
        /\ (k = Len(c) => Len(d) < k) /\ (k # Len(c) => ~(Len(d) < k))
    BY <1>1
  <2> QED
    BY <1>1, <2>1
<1>5. ASSUME NEW i \in 1 .. Len(d)
      PROVE  ln2["tail"][d[i]] = IF i = Len(d) THEN List!Nil ELSE d[i + 1]
  <2>1. i < k - 1 \/ i = k - 1 \/ i >= k
    OBVIOUS
  <2>2. CASE i < k - 1
    <3>1. i \in 1 .. Len(c) /\ i # Len(c) /\ i + 1 \in 1 .. Len(d) /\ i + 1 < k /\ i < k /\ i # Len(d) /\ i # k - 1 /\ i # k
      BY <1>1, <2>2
    <3>2. d[i] = c[i] /\ d[i + 1] = c[i + 1]
      BY <3>1
    <3>3. ln2["tail"][c[i]] = c[i + 1]
      BY <1>1, <3>1
    <3> QED
      BY <3>1, <3>2, <3>3
  <2>3. CASE i = k - 1
    <3>1. /\ i \in 1 .. Len(c) /\ i < k /\ i # k /\ i + 1 = k /\ (i = Len(d) <=> k = Len(c))
          /\ (i # Len(d) => i + 1 \in 1 .. Len(d) /\ ~(i + 1 < k))
      BY <1>1, <2>3
    <3>2. d[i] = c[i] /\ ln2["tail"][c[i]] = ln["tail"][c[k]] /\ (i # Len(d) => d[i + 1] = c[k + 1])
      BY <2>3, <3>1
    <3> QED
      BY <1>1, <3>1, <3>2
  <2>4. CASE i >= k
    <3>1. /\ i + 1 \in 1 .. Len(c) /\ i + 1 # k /\ i + 1 # k - 1 /\ (i + 1 = Len(c) <=> i = Len(d)) /\ d[i] = c[i + 1]
          /\ (i # Len(d) => i + 1 \in 1 .. Len(d) /\ ~(i + 1 < k))
      BY <1>1, <2>4
    <3>2. PICK j : j = i + 1
      OBVIOUS
    <3>3. /\ j \in 1 .. Len(c) /\ j # k /\ j # k - 1 /\ d[i] = c[j] /\ (j = Len(c) <=> i = Len(d))
          /\ (i # Len(d) => d[i + 1] = c[j + 1])
      BY <3>1, <3>2
    <3> QED
      BY <1>1, <3>3
  <2> QED
    BY <2>1, <2>2, <2>3, <2>4
<1>6. ASSUME NEW i \in 1 .. Len(d)
      PROVE  ln2["head"][d[i]] = IF i = 1 THEN List!Nil ELSE d[i - 1]
  <2>1. i < k \/ i = k \/ i > k
    OBVIOUS
  <2>2. CASE i < k
    <3>1. i \in 1 .. Len(c) /\ i # k + 1 /\ i # k /\ (i # 1 => i - 1 \in 1 .. Len(d) /\ i - 1 < k)
      BY <1>1, <2>2
    <3> QED
      BY <1>1, <2>2, <3>1
  <2>3. CASE i = k
    <3>1. k + 1 \in 1 .. Len(c) /\ k + 1 # k /\ d[i] = c[k + 1] /\ (i # 1 => i - 1 \in 1 .. Len(d) /\ i - 1 < k)
      BY <1>1, <2>3
    <3>2. ln2["head"][c[k + 1]] = ln["head"][c[k]]
      BY <3>1
    <3> QED
      BY <1>1, <2>3, <3>1, <3>2
  <2>4. CASE i > k
    <3>1. /\ i + 1 \in 1 .. Len(c) /\ d[i] = c[i + 1] /\ i + 1 # k /\ i + 1 # k + 1 /\ i + 1 # 1 /\ i # 1
          /\ i - 1 \in 1 .. Len(d) /\ ~(i - 1 < k) /\ i - 1 + 1 = i /\ i + 1 - 1 = i
      BY <1>1, <2>4
    <3>2. d[i - 1] = c[i]
      BY <3>1
    <3>3. PICK j : j = i + 1
      OBVIOUS
    <3>4. j \in 1 .. Len(c) /\ j # k /\ j # k + 1 /\ j # 1 /\ j - 1 = i /\ d[i] = c[j]
      BY <3>1, <3>3
    <3>5. ln2["head"][c[j]] = c[j - 1]
      BY <1>1, <3>4
    <3> QED
      BY <3>1, <3>2, <3>4, <3>5
  <2> QED
    BY <2>1, <2>2, <2>3, <2>4
<1>7. Len(d) # 0 /\ Len(d) > 0
  BY <1>1
<1> QED
  BY <1>2, <1>3, <1>4, <1>5, <1>6, <1>7 DEF Laid

\* How a new node beside another one is linked: Beside, and AddSecond too.
Joins(ln, at, n, e) ==
  \A m \in List!Nodes :
    /\ ln[e][m] = IF m = at THEN n ELSE IF m = n THEN link[e][at] ELSE link[e][m]
    /\ ln[List!Opp(e)][m] = IF m = n THEN at ELSE IF m = link[e][at] THEN n ELSE link[List!Opp(e)][m]

\* The ends follow too.
EndsMoved(c, k, n, en) ==
  /\ en["head"] = IF k = 1 THEN n ELSE ends["head"]
  /\ en["tail"] = IF k = Len(c) + 1 THEN n ELSE ends["tail"]

LEMMA JoinedBefore ==
  ASSUME NEW c, Laid(c, ends, link), NEW k, NEW n, NEW d, Widened(c, k, n, d), k # Len(c) + 1,
         NEW en, EndsMoved(c, k, n, en), NEW ln, Joins(ln, c[k], n, "head")
  PROVE  Laid(d, en, ln)
<1>1. /\ c \in Seq(List!Nodes) /\ Len(c) \in Nat /\ \A i, j \in 1 .. Len(c) : c[i] = c[j] => i = j
      /\ \A i \in 1 .. Len(c) : link["head"][c[i]] = IF i = 1 THEN List!Nil ELSE c[i - 1]
  BY DEF Laid
<1>2. /\ n \in List!Nodes /\ k \in 1 .. Len(c) /\ \A i \in 1 .. Len(c) : c[i] # n /\ c[i] \in List!Nodes /\ c[i] # List!Nil
  <2>1. \A i \in 1 .. Len(c) : c[i] \in List!Nodes
    BY <1>1
  <2> QED
    BY <1>1, <2>1, TwoEnds DEF Widened
<1>3. \A m \in List!Nodes :
        /\ ln["head"][m] = IF m = c[k] THEN n ELSE IF m = n THEN link["head"][c[k]] ELSE link["head"][m]
        /\ ln["tail"][m] = IF m = n THEN c[k] ELSE IF m = link["head"][c[k]] THEN n ELSE link["tail"][m]
  BY TwoEnds DEF Joins
<1>4. ASSUME NEW i \in 1 .. Len(c)
      PROVE  /\ ln["tail"][c[i]] = IF i = k - 1 THEN n ELSE link["tail"][c[i]]
             /\ ln["head"][c[i]] = IF i = k THEN n ELSE link["head"][c[i]]
  <2>1. c[i] = c[k] <=> i = k
    BY <1>1, <1>2
  <2>2. c[i] = link["head"][c[k]] <=> i = k - 1
    <3>1. CASE k = 1
      BY <1>1, <1>2, <3>1
    <3>2. CASE k # 1
      <4>1. k - 1 \in 1 .. Len(c)
        BY <1>1, <1>2, <3>2
      <4>2. c[i] = c[k - 1] <=> i = k - 1
        BY <1>1, <4>1
      <4> QED
        BY <1>1, <1>2, <3>2, <4>2
    <3> QED
      BY <3>1, <3>2
  <2> QED
    BY <1>2, <1>3, <2>1, <2>2
<1>5. ln["tail"][n] = c[k] /\ ln["head"][n] = IF k = 1 THEN List!Nil ELSE c[k - 1]
  BY <1>1, <1>2, <1>3
<1>6. Linked(c, k, n, ends, link, en, ln)
  BY <1>4, <1>5 DEF Linked, EndsMoved
<1> QED
  BY <1>6, LaidWith

LEMMA JoinedBehind ==
  ASSUME NEW c, Laid(c, ends, link), NEW k, NEW n, NEW d, Widened(c, k, n, d), k # 1,
         NEW en, EndsMoved(c, k, n, en), NEW ln, Joins(ln, c[k - 1], n, "tail")
  PROVE  Laid(d, en, ln)
<1>1. /\ c \in Seq(List!Nodes) /\ Len(c) \in Nat /\ \A i, j \in 1 .. Len(c) : c[i] = c[j] => i = j
      /\ \A i \in 1 .. Len(c) : link["tail"][c[i]] = IF i = Len(c) THEN List!Nil ELSE c[i + 1]
  BY DEF Laid
<1>2. /\ n \in List!Nodes /\ k \in 2 .. Len(c) + 1 /\ k - 1 \in 1 .. Len(c) /\ k - 1 + 1 = k
      /\ (k - 1 = Len(c) <=> k = Len(c) + 1)
  BY <1>1 DEF Widened
<1>3. \A i \in 1 .. Len(c) : c[i] # n /\ c[i] \in List!Nodes /\ c[i] # List!Nil
  <2>1. \A i \in 1 .. Len(c) : c[i] \in List!Nodes
    BY <1>1
  <2> QED
    BY <1>1, <2>1, TwoEnds DEF Widened
<1>4. PICK j : j = k - 1
  OBVIOUS
<1>5. j \in 1 .. Len(c) /\ j + 1 = k /\ (j = Len(c) <=> k = Len(c) + 1)
  BY <1>2, <1>4
<1>6. \A m \in List!Nodes :
        /\ ln["tail"][m] = IF m = c[j] THEN n ELSE IF m = n THEN link["tail"][c[j]] ELSE link["tail"][m]
        /\ ln["head"][m] = IF m = n THEN c[j] ELSE IF m = link["tail"][c[j]] THEN n ELSE link["head"][m]
  BY <1>4, TwoEnds DEF Joins
<1>7. link["tail"][c[j]] = IF k = Len(c) + 1 THEN List!Nil ELSE c[k]
  BY <1>1, <1>5
<1>8. ASSUME NEW i \in 1 .. Len(c)
      PROVE  /\ ln["tail"][c[i]] = IF i = k - 1 THEN n ELSE link["tail"][c[i]]
             /\ ln["head"][c[i]] = IF i = k THEN n ELSE link["head"][c[i]]
  <2>1. c[i] = c[j] <=> i = j
    BY <1>1, <1>5
  <2>2. c[i] = link["tail"][c[j]] <=> i = k
    <3>1. CASE k = Len(c) + 1
      <4>1. i # k
        BY <1>1, <3>1
      <4> QED
        BY <1>3, <1>7, <3>1, <4>1
    <3>2. CASE k # Len(c) + 1
      <4>1. k \in 1 .. Len(c)
        BY <1>1, <1>2, <3>2
      <4> QED
        BY <1>1, <1>7, <3>2, <4>1
    <3> QED
      BY <3>1, <3>2
  <2> QED
    BY <1>3, <1>4, <1>6, <2>1, <2>2
<1>9. ln["head"][n] = c[j] /\ ln["tail"][n] = IF k = Len(c) + 1 THEN List!Nil ELSE c[k]
  BY <1>2, <1>3, <1>5, <1>6, <1>7
<1>10. Linked(c, k, n, ends, link, en, ln)
  BY <1>4, <1>8, <1>9 DEF Linked, EndsMoved
<1> QED
  BY <1>10, LaidWith

\* removeOnNode's links.
LEMMA LaidUnlinked ==
  ASSUME link \in LinkTypes, NEW c, Laid(c, ends, link), NEW k, NEW d, Narrowed(c, k, d),
         NEW en, en["head"] = IF k = 1 THEN c[2] ELSE ends["head"],
         en["tail"] = IF k = Len(c) THEN c[Len(c) - 1] ELSE ends["tail"]
  PROVE  Laid(d, en, List!Unlink(c[k]))
<1>1. /\ c \in Seq(List!Nodes) /\ Len(c) \in Nat /\ \A i, j \in 1 .. Len(c) : c[i] = c[j] => i = j
      /\ \A i \in 1 .. Len(c) : /\ link["head"][c[i]] = IF i = 1 THEN List!Nil ELSE c[i - 1]
                                /\ link["tail"][c[i]] = IF i = Len(c) THEN List!Nil ELSE c[i + 1]
  BY DEF Laid
<1>2. k \in 1 .. Len(c) /\ \A i \in 1 .. Len(c) : c[i] \in List!Nodes /\ c[i] # List!Nil
  <2>1. \A i \in 1 .. Len(c) : c[i] \in List!Nodes
    BY <1>1
  <2> QED
    BY <1>1, <2>1, TwoEnds DEF Narrowed
<1>3. PICK n, ln : n = c[k] /\ ln = List!Unlink(n)
  OBVIOUS
<1>4. \A m \in List!Nodes :
        /\ ln["tail"][m] = IF m = link["head"][n] THEN link["tail"][n] ELSE link["tail"][m]
        /\ ln["head"][m] = IF m = link["tail"][n] THEN link["head"][n] ELSE link["head"][m]
  BY <1>2, <1>3, Unlinks
<1>5. ASSUME NEW i \in 1 .. Len(c)
      PROVE  /\ ln["tail"][c[i]] = IF i = k - 1 THEN link["tail"][c[k]] ELSE link["tail"][c[i]]
             /\ ln["head"][c[i]] = IF i = k + 1 THEN link["head"][c[k]] ELSE link["head"][c[i]]
  <2>1. c[i] = link["head"][n] <=> i = k - 1
    <3>1. CASE k = 1
      BY <1>1, <1>2, <1>3, <3>1
    <3>2. CASE k # 1
      <4>1. k - 1 \in 1 .. Len(c)
        BY <1>1, <1>2, <3>2
      <4>2. c[i] = c[k - 1] <=> i = k - 1
        BY <1>1, <4>1
      <4> QED
        BY <1>1, <1>2, <1>3, <3>2, <4>2
    <3> QED
      BY <3>1, <3>2
  <2>2. c[i] = link["tail"][n] <=> i = k + 1
    <3>1. CASE k = Len(c)
      <4>1. i # k + 1
        BY <1>1, <3>1
      <4> QED
        BY <1>1, <1>2, <1>3, <3>1, <4>1
    <3>2. CASE k # Len(c)
      <4>1. k + 1 \in 1 .. Len(c)
        BY <1>1, <1>2, <3>2
      <4>2. c[i] = c[k + 1] <=> i = k + 1
        BY <1>1, <4>1
      <4> QED
        BY <1>1, <1>2, <1>3, <3>2, <4>2
    <3> QED
      BY <3>1, <3>2
  <2> QED
    BY <1>2, <1>3, <1>4, <2>1, <2>2
<1>6. Unlinked(c, k, ends, link, en, ln)
  BY <1>5 DEF Unlinked
<1> QED
  BY <1>3, <1>6, LaidWithout

\* contents is what the links hold, until a call that the code gets wrong.
ListRep ==
  /\ contents \in Seq(List!Nodes)
  /\ intact => listSize = Len(contents) /\ Laid(contents, ends, link)

LEMMA RepSet ==
  ASSUME NEW en \in EndTypes, NEW ln \in LinkTypes, List!SetHeap(en, ln),
         NEW s, NEW right, List!Describes(s, right),
         intact /\ right => listSize' = Len(s) /\ Laid(s, en, ln)
  PROVE  ListRep'
<1>1. CASE intact /\ right
  <2>1. intact' /\ contents' = s /\ Laid(s, en, ln) /\ listSize' = Len(s)
    BY <1>1 DEF List!Describes
  <2>2. Laid(s, ends', link') /\ s \in Seq(List!Nodes)
    BY <2>1, StaysLaid DEF Laid
  <2>3. contents' \in Seq(List!Nodes) /\ listSize' = Len(contents') /\ Laid(contents', ends', link')
    BY ONLY <2>1, <2>2
  <2>4. ListRep' <=> /\ contents' \in Seq(List!Nodes)
                     /\ intact' => listSize' = Len(contents') /\ Laid(contents', ends', link')
    BY DEF ListRep, Laid, List!Nodes, List!Nil
  <2> QED
    BY ONLY <2>3, <2>4
<1>2. CASE ~(intact /\ right)
  <2>1. ~intact' /\ contents' = << >>
    BY <1>2 DEF List!Describes
  <2> QED
    BY <2>1 DEF ListRep, List!Nodes
<1> QED
  BY <1>1, <1>2

\* A fresh node is not among them.
LEMMA FreshApart ==
  ASSUME NEW c, Laid(c, ends, link), NEW n, Fresh(n)
  PROVE  \A i \in 1 .. Len(c) : c[i] # n
<1>1. c \in Seq(List!Nodes) /\ Len(c) \in Nat /\ \A i \in 1 .. Len(c) : c[i] \in List!Nodes
  <2>1. c \in Seq(List!Nodes)
    BY DEF Laid
  <2> QED
    BY <2>1
<1>2. /\ ends["head"] # n /\ \A m \in List!Nodes : link["tail"][m] # n
  BY TwoEnds DEF Fresh
<1>3. ASSUME NEW i \in 1 .. Len(c) PROVE c[i] # n
  <2>1. CASE i = 1
    <3>1. ends["head"] = c[i]
      BY <1>1, <2>1 DEF Laid
    <3> QED
      BY <1>2, <3>1
  <2>2. CASE i # 1
    <3>1. PICK j : j = i - 1
      OBVIOUS
    <3>2. j \in 1 .. Len(c) /\ j # Len(c) /\ j + 1 = i
      BY <1>1, <2>2, <3>1
    <3>3. link["tail"][c[j]] = c[i]
      BY <3>2 DEF Laid
    <3> QED
      BY <1>1, <1>2, <3>2, <3>3
  <2> QED
    BY <2>1, <2>2
<1> QED
  BY <1>3

\* The ends of what is laid.
LEMMA LaidEnds ==
  ASSUME NEW c, NEW en, NEW ln, Laid(c, en, ln)
  PROVE  /\ Len(c) \in Nat
         /\ Len(c) = 0 => \A e \in List!Ends : en[e] = List!Nil
         /\ Len(c) > 0 => /\ en["head"] = c[1] /\ en["tail"] = c[Len(c)]
                          /\ \A e \in List!Ends : en[e] \in List!Nodes /\ en[e] # List!Nil
<1>1. c \in Seq(List!Nodes) /\ Len(c) \in Nat /\ \A i \in 1 .. Len(c) : c[i] \in List!Nodes
  <2>1. c \in Seq(List!Nodes)
    BY DEF Laid
  <2> QED
    BY <2>1
<1>2. Len(c) > 0 => 1 \in 1 .. Len(c) /\ Len(c) \in 1 .. Len(c)
  BY <1>1
<1> QED
  BY <1>1, <1>2, TwoEnds DEF Laid

LEMMA FirstLaid ==
  ASSUME NEW n, Fresh(n), NEW en, \A e \in List!Ends : en[e] = n
  PROVE  Laid(<<n>>, en, link)
<1>1. /\ n \in List!Nodes /\ en["head"] = n /\ en["tail"] = n
      /\ link["head"][n] = List!Nil /\ link["tail"][n] = List!Nil
  BY TwoEnds DEF Fresh
<1> QED
  BY <1>1 DEF Laid

LEMMA PushLaid ==
  ASSUME NEW c, Laid(c, ends, link), Len(c) > 0, NEW n, Fresh(n), NEW e \in List!Ends,
         ends \in EndTypes, NEW ln, Joins(ln, ends[e], n, e), NEW en, en = [ends EXCEPT ![e] = n]
  PROVE  Laid(IF e = "tail" THEN Append(c, n) ELSE <<n>> \o c, en, ln)
<1>1. /\ c \in Seq(List!Nodes) /\ Len(c) \in Nat /\ n \in List!Nodes
      /\ ends["head"] = c[1] /\ ends["tail"] = c[Len(c)]
      /\ \A i \in 1 .. Len(c) : c[i] # n
  <2>1. c \in Seq(List!Nodes) /\ n \in List!Nodes
    BY DEF Laid, Fresh
  <2>2. Len(c) \in Nat /\ ends["head"] = c[1] /\ ends["tail"] = c[Len(c)]
    BY LaidEnds
  <2>3. \A i \in 1 .. Len(c) : c[i] # n
    BY FreshApart
  <2> QED
    BY ONLY <2>1, <2>2, <2>3
<1>2. CASE e = "tail"
  <2>1. PICK d, k : d = Append(c, n) /\ k = Len(c) + 1
    OBVIOUS
  <2>2. Widened(c, k, n, d)
    BY <1>1, <2>1 DEF Widened
  <2>3. k - 1 = Len(c) /\ k # 1
    BY <1>1, <2>1
  <2>4. EndsMoved(c, k, n, en)
    BY <1>2, <2>1, <2>3, TwoEnds DEF EndsMoved, EndTypes
  <2>5. Joins(ln, c[k - 1], n, "tail")
    BY <1>1, <1>2, <2>3
  <2>6. Laid(d, en, ln)
    BY <2>2, <2>3, <2>4, <2>5, JoinedBehind
  <2> QED
    BY <1>2, <2>1, <2>6
<1>3. CASE e = "head"
  <2>1. PICK d, k : d = <<n>> \o c /\ k = 1
    OBVIOUS
  <2>2. Widened(c, k, n, d)
    <3>1. /\ d \in Seq(List!Nodes) /\ Len(d) = Len(<<n>>) + Len(c)
          /\ \A i \in 1 .. Len(<<n>>) + Len(c) : d[i] = IF i <= Len(<<n>>) THEN <<n>>[i] ELSE c[i - Len(<<n>>)]
      BY <1>1, <2>1
    <3>2. Len(d) = Len(c) + 1 /\ \A i \in 1 .. Len(d) : d[i] = IF i = 1 THEN n ELSE c[i - 1]
      BY <1>1, <3>1
    <3> QED
      BY <1>1, <2>1, <3>1, <3>2 DEF Widened
  <2>3. k # Len(c) + 1
    BY <1>1, <2>1
  <2>4. EndsMoved(c, k, n, en)
    BY <1>3, <2>1, <2>3, TwoEnds DEF EndsMoved, EndTypes
  <2>5. Joins(ln, c[k], n, "head")
    BY <1>1, <1>3, <2>1
  <2>6. Laid(d, en, ln)
    BY <2>2, <2>3, <2>4, <2>5, JoinedBefore
  <2> QED
    BY <1>3, <2>1, <2>6, TwoEnds
<1> QED
  BY <1>2, <1>3, TwoEnds

LEMMA Pushed ==
  ASSUME NEW c \in Seq(List!Nodes), NEW n, NEW e
  PROVE  Len(IF e = "tail" THEN Append(c, n) ELSE <<n>> \o c) = Len(c) + 1
OBVIOUS

LEMMA RepPush ==
  ASSUME ListHeap, ListRep, NEW e \in List!Ends, List!Push(e)
  PROVE  ListRep'
<1>1. PICK n, s : n = List!New /\ s = IF e = "tail" THEN Append(contents, n) ELSE <<n>> \o contents
  OBVIOUS
<1>2. /\ ends \in EndTypes /\ link \in LinkTypes /\ listSize \in Int /\ Collected
  BY DEF ListHeap
<1>3. Fresh(n)
  BY <1>1, <1>2, NewIsFresh DEF List!Push
<1>4. n \in List!Nodes /\ List!Opp(e) \in List!Ends
  BY <1>3, TwoEnds DEF Fresh
<1>5. List!Describes(s, TRUE) /\ contents \in Seq(List!Nodes) /\ Len(s) = Len(contents) + 1
  <2>1. contents \in Seq(List!Nodes)
    BY DEF ListRep
  <2>2. List!Describes(s, TRUE)
    BY <1>1 DEF List!Push
  <2> QED
    BY <1>1, <2>1, <2>2, Pushed
<1>6. \/ ends[e] = List!Nil /\ List!InitFirstNode(n)
      \/ ends[e] # List!Nil /\ listSize = 1 /\ List!AddSecond(n, e)
      \/ /\ ends[e] # List!Nil /\ List!SetHeap([ends EXCEPT ![e] = n], List!Beside(ends[e], n, e))
         /\ listSize' = listSize + 1
  BY <1>1 DEF List!Push
<1>7. PICK en : en = [ends EXCEPT ![e] = n]
  OBVIOUS
<1>8. en \in EndTypes
  BY <1>2, <1>4, <1>7, EndTypesAre
<1>9. intact => Laid(contents, ends, link) /\ listSize = Len(contents)
  BY DEF ListRep
<1>10. CASE ends[e] = List!Nil /\ List!InitFirstNode(n)
  <2>1. PICK all : all = [d \in List!Ends |-> n]
    OBVIOUS
  <2>2. all \in EndTypes /\ List!SetHeap(all, link) /\ listSize' = listSize + 1
    BY <1>4, <1>10, <2>1, EndTypesAre DEF List!InitFirstNode
  <2>3. ASSUME intact PROVE listSize' = Len(s) /\ Laid(s, all, link)
    <3>1. Len(contents) = 0
      BY <1>9, <1>10, <2>3, LaidEnds
    <3>2. s = <<n>>
      BY <1>1, <1>5, <3>1
    <3>3. \A d \in List!Ends : all[d] = n
      BY <2>1
    <3>4. Laid(<<n>>, all, link)
      BY <1>3, <3>3, FirstLaid
    <3> QED
      BY <1>5, <1>9, <2>2, <2>3, <3>2, <3>4
  <2> QED
    BY ONLY <1>2, <1>5, <2>2, <2>3, RepSet
<1>11. CASE ends[e] # List!Nil /\ listSize = 1 /\ List!AddSecond(n, e)
  <2>1. PICK o, ln : o = ends[List!Opp(e)] /\ ln = IF o = List!Nil THEN link ELSE Second(n, e)
    OBVIOUS
  <2>2. List!SetHeap(en, ln) /\ listSize' = IF o = List!Nil THEN listSize ELSE listSize + 1
    BY <1>7, <1>11, <2>1 DEF List!AddSecond, Second
  <2>3. ASSUME o # List!Nil
        PROVE  /\ o \in List!Nodes /\ o # n /\ ln \in LinkTypes
               /\ \A m \in List!Nodes : /\ ln[e][m] = IF m = o THEN n ELSE link[e][m]
                                        /\ ln[List!Opp(e)][m] = IF m = n THEN o ELSE link[List!Opp(e)][m]
    <3>1. o \in List!Nodes /\ o # n
      BY <1>2, <1>3, <1>4, <2>1, <2>3 DEF EndTypes, Fresh
    <3> QED
      BY <1>2, <1>4, <2>1, <2>3, <3>1, Seconds
  <2>4. ln \in LinkTypes
    BY <1>2, <2>1, <2>3
  <2>5. ASSUME intact PROVE listSize' = Len(s) /\ Laid(s, en, ln)
    <3>1. /\ Laid(contents, ends, link) /\ Len(contents) = 1 /\ o = contents[1] /\ o = ends[e] /\ o # List!Nil
      <4>1. Laid(contents, ends, link) /\ Len(contents) = 1
        BY <1>9, <1>11, <2>5
      <4>2. ends["head"] = contents[1] /\ ends["tail"] = contents[1]
        BY <4>1, LaidEnds
      <4> QED
        BY <1>11, <2>1, <4>1, <4>2, TwoEnds
    <3>2. link[e][o] = List!Nil /\ link[e][n] = List!Nil
      <4>1. link["head"][o] = List!Nil /\ link["tail"][o] = List!Nil
        <5>1. 1 \in 1 .. Len(contents) /\ 1 = Len(contents)
          BY <3>1
        <5>2. /\ link["tail"][contents[1]] = IF 1 = Len(contents) THEN List!Nil ELSE contents[1 + 1]
              /\ link["head"][contents[1]] = IF 1 = 1 THEN List!Nil ELSE contents[1 - 1]
          BY ONLY <3>1, <5>1 DEF Laid
        <5> QED
          BY ONLY <3>1, <5>1, <5>2
      <4> QED
        BY <1>3, <4>1, TwoEnds DEF Fresh
    <3>3. Joins(ln, o, n, e)
      <4>1. \A m \in List!Nodes : m # List!Nil
        BY TwoEnds
      <4> QED
        BY <2>3, <3>1, <3>2, <4>1 DEF Joins
    <3>4. Joins(ln, ends[e], n, e) /\ Len(contents) > 0
      BY ONLY <3>1, <3>3
    <3>5. Laid(IF e = "tail" THEN Append(contents, n) ELSE <<n>> \o contents, en, ln)
      BY <1>2, <1>3, <1>7, <3>1, <3>4, PushLaid
    <3> QED
      BY <1>1, <1>5, <1>9, <2>2, <2>5, <3>1, <3>5
  <2> QED
    BY ONLY <1>5, <1>8, <2>2, <2>4, <2>5, RepSet
<1>12. CASE /\ ends[e] # List!Nil /\ List!SetHeap([ends EXCEPT ![e] = n], List!Beside(ends[e], n, e))
            /\ listSize' = listSize + 1
  <2>1. PICK at, ln : at = ends[e] /\ ln = List!Beside(at, n, e)
    OBVIOUS
  <2>2. List!SetHeap(en, ln) /\ listSize' = listSize + 1
    BY <1>7, <1>12, <2>1
  <2>3. at \in List!Nodes /\ at # n /\ link[e][at] # n
    BY <1>2, <1>3, <1>12, <2>1 DEF EndTypes, Fresh
  <2>4. ln \in LinkTypes /\ Joins(ln, at, n, e)
    BY <1>2, <1>4, <2>1, <2>3, Besides DEF Joins
  <2>5. ASSUME intact PROVE listSize' = Len(s) /\ Laid(s, en, ln)
    <3>1. Laid(contents, ends, link) /\ Len(contents) > 0 /\ listSize = Len(contents)
      BY <1>9, <1>12, <2>5, LaidEnds
    <3>2. Joins(ln, ends[e], n, e)
      BY <2>1, <2>4
    <3>3. Laid(IF e = "tail" THEN Append(contents, n) ELSE <<n>> \o contents, en, ln)
      BY <1>2, <1>3, <1>7, <3>1, <3>2, PushLaid
    <3> QED
      BY <1>1, <1>5, <2>2, <3>1, <3>3
  <2> QED
    BY ONLY <1>5, <1>8, <2>2, <2>4, <2>5, RepSet
<1> QED
  BY <1>6, <1>10, <1>11, <1>12

\* Poll and Pop of a list of more than one node.
LEMMA TakeLaid ==
  ASSUME link \in LinkTypes, ends \in EndTypes, NEW c, Laid(c, ends, link), Len(c) > 1, NEW e \in List!Ends,
         NEW en, en = [ends EXCEPT ![e] = List!Unlink(ends[e])[List!Opp(e)][ends[e]]]
  PROVE  Laid(IF e = "head" THEN Tail(c) ELSE List!SE!Front(c), en, List!Unlink(ends[e]))
<1>1. /\ c \in Seq(List!Nodes) /\ Len(c) \in Nat /\ 1 \in 1 .. Len(c) /\ Len(c) \in 1 .. Len(c)
      /\ Len(c) - 1 \in Nat /\ Len(c) # 1 /\ Len(c) # 0
  <2>1. c \in Seq(List!Nodes)
    BY DEF Laid
  <2>2. PICK l \in Nat : l = Len(c)
    BY <2>1
  <2>3. l > 1
    BY <2>2
  <2>4. 1 \in 1 .. l /\ l \in 1 .. l /\ l - 1 \in Nat /\ l # 1 /\ l # 0
    BY ONLY l \in Nat, <2>3
  <2> QED
    BY ONLY <2>1, <2>2, <2>4
<1>2. ends["head"] = c[1] /\ ends["tail"] = c[Len(c)]
  BY LaidEnds
<1>3. c[1] \in List!Nodes /\ c[Len(c)] \in List!Nodes /\ \A m \in List!Nodes : m # List!Nil
  <2>1. c[1] \in List!Nodes /\ c[Len(c)] \in List!Nodes
    BY <1>1
  <2> QED
    BY <2>1, TwoEnds
<1>4. CASE e = "head"
  <2>1. PICK n, ln : n = ends[e] /\ ln = List!Unlink(n)
    OBVIOUS
  <2>2. n = c[1] /\ n \in List!Nodes
    BY <1>2, <1>3, <1>4, <2>1
  <2>3. link["head"][n] = List!Nil /\ link["tail"][n] = c[2]
    BY <1>1, <2>2 DEF Laid
  <2>4. ln["tail"][n] = c[2]
    BY <1>3, <2>1, <2>2, <2>3, Unlinks
  <2>5. en["head"] = c[2] /\ en["tail"] = ends["tail"]
    BY <1>4, <2>1, <2>4, TwoEnds DEF EndTypes
  <2>6. PICK d : d = Tail(c)
    OBVIOUS
  <2>7. Narrowed(c, 1, d)
    BY <1>1, <2>6 DEF Narrowed
  <2>8. Laid(d, en, List!Unlink(c[1]))
    BY <1>1, <2>5, <2>7, LaidUnlinked
  <2> QED
    BY <1>4, <2>1, <2>2, <2>6, <2>8
<1>5. CASE e = "tail"
  <2>1. PICK n, ln : n = ends[e] /\ ln = List!Unlink(n)
    OBVIOUS
  <2>2. n = c[Len(c)] /\ n \in List!Nodes
    BY <1>2, <1>3, <1>5, <2>1
  <2>3. link["tail"][n] = List!Nil /\ link["head"][n] = c[Len(c) - 1]
    BY <1>1, <2>2 DEF Laid
  <2>4. ln["head"][n] = c[Len(c) - 1]
    BY <1>3, <2>1, <2>2, <2>3, Unlinks
  <2>5. en["tail"] = c[Len(c) - 1] /\ en["head"] = ends["head"]
    BY <1>5, <2>1, <2>4, TwoEnds DEF EndTypes
  <2>6. PICK d : d = List!SE!Front(c)
    OBVIOUS
  <2>7. Narrowed(c, Len(c), d)
    <3>1. d = SubSeq(c, 1, Len(c) - 1)
      BY <2>6 DEF List!SE!Front
    <3>2. d \in Seq(List!Nodes) /\ Len(d) = Len(c) - 1 /\ \A i \in 1 .. Len(c) - 1 : d[i] = c[i]
      BY <1>1, <3>1
    <3>3. \A i \in 1 .. Len(d) : i < Len(c) /\ d[i] = c[i]
      BY <1>1, <3>2
    <3> QED
      BY <1>1, <3>2, <3>3 DEF Narrowed
  <2>8. Laid(d, en, List!Unlink(c[Len(c)]))
    BY <1>1, <2>5, <2>7, LaidUnlinked
  <2> QED
    BY <1>5, <2>1, <2>2, <2>6, <2>8, TwoEnds
<1> QED
  BY <1>4, <1>5, TwoEnds

LEMMA RepTake ==
  ASSUME ListHeap, ListRep, NEW e \in List!Ends, List!Take(e)
  PROVE  ListRep'
<1>1. PICK s, right : /\ s = IF contents = << >> THEN << >>
                             ELSE IF e = "head" THEN Tail(contents) ELSE List!SE!Front(contents)
                      /\ right = (listSize > 1)
  OBVIOUS
<1>2. PICK n, ln : n = ends[e] /\ ln = List!Unlink(n)
  OBVIOUS
<1>3. PICK en : en = [ends EXCEPT ![e] = List!Unlink(ends[e])[List!Opp(e)][ends[e]]]
  OBVIOUS
<1>4. ends \in EndTypes /\ link \in LinkTypes /\ listSize \in Int /\ List!Opp(e) \in List!Ends
  BY TwoEnds DEF ListHeap
<1>5. n \in List!Nodes
  BY <1>2, <1>4 DEF List!Take, EndTypes
<1>6. ln \in LinkTypes
  BY <1>2, <1>4, <1>5, Unlinks
<1>7. PICK v : v = ln[List!Opp(e)][n]
  OBVIOUS
<1>8. v \in List!Nodes \cup {List!Nil}
  BY <1>4, <1>5, <1>6, <1>7 DEF LinkTypes
<1>9. en \in EndTypes
  BY <1>2, <1>3, <1>4, <1>7, <1>8, EndTypesAre
<1>10. List!SetHeap(en, ln) /\ List!Describes(s, right) /\ listSize' = listSize - 1
  BY <1>1, <1>2, <1>3 DEF List!Take
<1>11. ASSUME intact, right PROVE listSize' = Len(s) /\ Laid(s, en, ln)
  <2>1. contents \in Seq(List!Nodes) /\ Laid(contents, ends, link) /\ listSize = Len(contents) /\ Len(contents) > 1
    BY <1>1, <1>11 DEF ListRep
  <2>2. contents # << >>
    BY <2>1
  <2>3. Laid(s, en, ln)
    BY <1>1, <1>2, <1>3, <1>4, <2>1, <2>2, TakeLaid
  <2>4. Len(s) = Len(contents) - 1
    BY <1>1, <2>1, <2>2 DEF List!SE!Front
  <2> QED
    BY <1>10, <2>1, <2>3, <2>4
<1> QED
  BY ONLY <1>6, <1>9, <1>10, <1>11, RepSet

\* Walks from an end visit the sequence.
LEMMA WalksForth ==
  ASSUME link \in LinkTypes, ends \in EndTypes, NEW c, Laid(c, ends, link), NEW k \in Nat
  PROVE  List!Walk(ends["head"], "tail", k) = IF k < Len(c) THEN c[k + 1] ELSE List!Nil
<1>1. PICK V : V = List!Nodes \cup {List!Nil}
  OBVIOUS
<1>2. "head" \in List!Ends /\ "tail" \in List!Ends /\ \A m \in List!Nodes : m # List!Nil
  BY TwoEnds
<1>3. ends["head"] \in V /\ Leads(V, "tail")
  <2>1. \A v \in V : v # List!Nil => link["tail"][v] \in V
    BY <1>1, <1>2 DEF LinkTypes
  <2> QED
    BY <1>1, <1>2, <2>1 DEF EndTypes, Leads
<1>4. PICK f \in [0 .. k -> V] :
        /\ f[0] = ends["head"] /\ List!Walk(ends["head"], "tail", k) = f[k]
        /\ \A i \in 1 .. k : f[i] = IF f[i - 1] = List!Nil THEN List!Nil ELSE link["tail"][f[i - 1]]
  <2>1. Walked(V, ends["head"], "tail", k)
    BY <1>3, Walks
  <2> QED
    BY <2>1 DEF Walked
<1>5. c \in Seq(List!Nodes) /\ Len(c) \in Nat /\ \A i \in 1 .. Len(c) : c[i] # List!Nil
  <2>1. c \in Seq(List!Nodes)
    BY DEF Laid
  <2>2. \A i \in 1 .. Len(c) : c[i] \in List!Nodes
    BY <2>1
  <2> QED
    BY <1>2, <2>1, <2>2
<1> DEFINE Off == {i \in 0 .. k : f[i] # IF i < Len(c) THEN c[i + 1] ELSE List!Nil}
<1> SUFFICES ASSUME Off # {} PROVE FALSE
  BY <1>4
<1>6. PICK i \in Off : \A l \in Off : i <= l
  <2>1. Off \in SUBSET Nat
    OBVIOUS
  <2> HIDE DEF Off
  <2> QED
    BY <2>1, LeastNumber
<1>7. i # 0
  <2>1. Len(c) > 0 => ends["head"] = c[0 + 1]
    BY LaidEnds
  <2>2. Len(c) = 0 => ends["head"] = List!Nil
    BY <1>2, LaidEnds
  <2> QED
    BY <1>4, <1>5, <1>6, <2>1, <2>2
<1>8. i \in 1 .. k /\ i - 1 \in 0 .. k /\ ~(i <= i - 1)
  BY <1>6, <1>7
<1>9. PICK j : j = i - 1
  OBVIOUS
<1>10. j \in 0 .. k /\ j + 1 = i /\ f[j] = IF j < Len(c) THEN c[j + 1] ELSE List!Nil
  BY <1>6, <1>8, <1>9
<1>11. f[i] = IF f[j] = List!Nil THEN List!Nil ELSE link["tail"][f[j]]
  BY <1>4, <1>8, <1>9
<1>12. CASE j < Len(c)
  <2>1. i \in 1 .. Len(c) /\ f[j] = c[i] /\ (i = Len(c) <=> ~(i < Len(c)))
    BY <1>5, <1>10, <1>12
  <2>2. f[i] = link["tail"][c[i]]
    BY <1>5, <1>11, <2>1
  <2>3. f[i] = IF i = Len(c) THEN List!Nil ELSE c[i + 1]
    BY ONLY <2>1, <2>2, Laid(c, ends, link) DEF Laid
  <2> QED
    BY <1>6, <2>1, <2>3
<1>13. CASE ~(j < Len(c))
  <2>1. ~(i < Len(c))
    BY <1>5, <1>10, <1>13
  <2> QED
    BY <1>6, <1>10, <1>11, <1>13, <2>1
<1> QED
  BY <1>12, <1>13

LEMMA WalksBack ==
  ASSUME link \in LinkTypes, ends \in EndTypes, NEW c, Laid(c, ends, link), NEW k \in Nat
  PROVE  List!Walk(ends["tail"], "head", k) = IF k < Len(c) THEN c[Len(c) - k] ELSE List!Nil
<1>1. PICK V : V = List!Nodes \cup {List!Nil}
  OBVIOUS
<1>2. "head" \in List!Ends /\ "tail" \in List!Ends /\ \A m \in List!Nodes : m # List!Nil
  BY TwoEnds
<1>3. ends["tail"] \in V /\ Leads(V, "head")
  <2>1. \A v \in V : v # List!Nil => link["head"][v] \in V
    BY <1>1, <1>2 DEF LinkTypes
  <2> QED
    BY <1>1, <1>2, <2>1 DEF EndTypes, Leads
<1>4. PICK f \in [0 .. k -> V] :
        /\ f[0] = ends["tail"] /\ List!Walk(ends["tail"], "head", k) = f[k]
        /\ \A i \in 1 .. k : f[i] = IF f[i - 1] = List!Nil THEN List!Nil ELSE link["head"][f[i - 1]]
  <2>1. Walked(V, ends["tail"], "head", k)
    BY <1>3, Walks
  <2> QED
    BY <2>1 DEF Walked
<1>5. c \in Seq(List!Nodes) /\ Len(c) \in Nat /\ \A i \in 1 .. Len(c) : c[i] # List!Nil
  <2>1. c \in Seq(List!Nodes)
    BY DEF Laid
  <2>2. \A i \in 1 .. Len(c) : c[i] \in List!Nodes
    BY <2>1
  <2> QED
    BY <1>2, <2>1, <2>2
<1> DEFINE Off == {i \in 0 .. k : f[i] # IF i < Len(c) THEN c[Len(c) - i] ELSE List!Nil}
<1> SUFFICES ASSUME Off # {} PROVE FALSE
  BY <1>4
<1>6. PICK i \in Off : \A l \in Off : i <= l
  <2>1. Off \in SUBSET Nat
    OBVIOUS
  <2> HIDE DEF Off
  <2> QED
    BY <2>1, LeastNumber
<1>7. i # 0
  <2>1. Len(c) > 0 => ends["tail"] = c[Len(c)]
    BY LaidEnds
  <2>2. Len(c) = 0 => ends["tail"] = List!Nil
    BY <1>2, LaidEnds
  <2>3. Len(c) - 0 = Len(c)
    BY <1>5
  <2> QED
    BY <1>4, <1>5, <1>6, <2>1, <2>2, <2>3
<1>8. i \in 1 .. k /\ i - 1 \in 0 .. k /\ ~(i <= i - 1)
  BY <1>6, <1>7
<1>9. PICK j : j = i - 1
  OBVIOUS
<1>10. j \in 0 .. k /\ j + 1 = i /\ f[j] = IF j < Len(c) THEN c[Len(c) - j] ELSE List!Nil
  BY <1>6, <1>8, <1>9
<1>11. f[i] = IF f[j] = List!Nil THEN List!Nil ELSE link["head"][f[j]]
  BY <1>4, <1>8, <1>9
<1>12. CASE j < Len(c)
  <2>1. PICK m : m = Len(c) - j
    OBVIOUS
  <2>2. m \in 1 .. Len(c) /\ f[j] = c[m] /\ (m = 1 <=> ~(i < Len(c))) /\ m - 1 = Len(c) - i
    BY <1>5, <1>10, <1>12, <2>1
  <2>3. f[i] = link["head"][c[m]]
    BY <1>5, <1>11, <2>2
  <2>4. f[i] = IF m = 1 THEN List!Nil ELSE c[m - 1]
    BY ONLY <2>2, <2>3, Laid(c, ends, link) DEF Laid
  <2> QED
    BY <1>6, <2>2, <2>4
<1>13. CASE ~(j < Len(c))
  <2>1. ~(i < Len(c))
    BY <1>5, <1>10, <1>13
  <2> QED
    BY <1>6, <1>10, <1>11, <1>13, <2>1
<1> QED
  BY <1>12, <1>13

\* getNode, up to the middle and at the last place.
LEMMA GetsRight ==
  ASSUME link \in LinkTypes, ends \in EndTypes, NEW c, Laid(c, ends, link), listSize = Len(c),
         NEW i \in 0 .. listSize - 1, List!FindsRight(i)
  PROVE  List!GetNode(i) = c[i + 1]
<1>1. Len(c) \in Nat /\ Len(c) > 0 /\ i \in Nat /\ ends["head"] = c[1] /\ ends["tail"] = c[Len(c)]
  <2>1. Len(c) \in Nat
    BY LaidEnds
  <2>2. Len(c) > 0 /\ i \in Nat
    BY <2>1
  <2> QED
    BY <2>1, <2>2, LaidEnds
<1>2. List!Walk(ends["head"], "tail", i) = c[i + 1]
  <2>1. i < Len(c)
    BY <1>1
  <2> QED
    BY <1>1, <2>1, WalksForth
<1>3. \/ i = 0 \/ (i > 0 /\ i = listSize - 1)
      \/ (i # 0 /\ i # listSize - 1 /\ i \in 1 .. listSize - 2 /\ i <= listSize \div 2)
  BY <1>1 DEF List!FindsRight
<1>4. CASE i = 0
  <2>1. List!GetNode(i) = ends["head"]
    BY <1>4 DEF List!GetNode
  <2> QED
    BY <1>1, <1>4, <2>1
<1>5. CASE i > 0 /\ i = listSize - 1
  <2>1. List!GetNode(i) = ends["tail"]
    <3>1. i # 0 /\ ~(i \notin 0 .. listSize - 1) /\ ~(i \in 1 .. listSize - 2)
      BY <1>1, <1>5
    <3> QED
      BY <1>5, <3>1, Zenon DEF List!GetNode
  <2>2. i + 1 = Len(c)
    BY <1>1, <1>5
  <2> QED
    BY <1>1, <2>1, <2>2
<1>6. CASE i # 0 /\ i # listSize - 1 /\ i \in 1 .. listSize - 2 /\ i <= listSize \div 2
  <2>1. List!GetNode(i) = List!Walk(ends["head"], "tail", i)
    <3>1. ~(i > listSize \div 2)
      BY <1>1, <1>6
    <3> QED
      BY <1>6, <3>1, Zenon DEF List!GetNode
  <2> QED
    BY <1>2, <2>1
<1> QED
  BY <1>3, <1>4, <1>5, <1>6

\* InsertAt and RemoveAt are those of the insertion list.
LEMMA ListInserted ==
  ASSUME NEW c \in Seq(List!Nodes), NEW k \in 1 .. Len(c) + 1, NEW n \in List!Nodes
  PROVE  /\ List!SE!InsertAt(c, k, n) \in Seq(List!Nodes) /\ Len(List!SE!InsertAt(c, k, n)) = Len(c) + 1
         /\ \A i \in 1 .. Len(c) + 1 :
              List!SE!InsertAt(c, k, n)[i] = IF i < k THEN c[i] ELSE IF i = k THEN n ELSE c[i - 1]
<1>1. List!SE!InsertAt(c, k, n) = Slice!SE!InsertAt(c, k, n)
  BY DEF List!SE!InsertAt, Slice!SE!InsertAt
<1>2. PICK T : T = List!Nodes
  OBVIOUS
<1>3. c \in Seq(T) /\ n \in T
  BY <1>2
<1>4. /\ Slice!SE!InsertAt(c, k, n) \in Seq(T) /\ Len(Slice!SE!InsertAt(c, k, n)) = Len(c) + 1
      /\ \A i \in 1 .. Len(c) + 1 :
           Slice!SE!InsertAt(c, k, n)[i] = IF i < k THEN c[i] ELSE IF i = k THEN n ELSE c[i - 1]
  BY ONLY <1>3, k \in 1 .. Len(c) + 1, Inserted
<1> QED
  BY ONLY <1>1, <1>2, <1>4

LEMMA InsertedAlone ==
  ASSUME NEW n
  PROVE  List!SE!InsertAt(<< >>, 1, n) = <<n>>
<1>1. SubSeq(<< >>, 1, 0) = << >> /\ SubSeq(<< >>, 1, Len(<< >>)) = << >>
  OBVIOUS
<1>2. List!SE!InsertAt(<< >>, 1, n) = SubSeq(<< >>, 1, 0) \o <<n>> \o SubSeq(<< >>, 1, Len(<< >>))
  BY DEF List!SE!InsertAt
<1>3. << >> \o <<n>> \o << >> = <<n>>
  OBVIOUS
<1> QED
  BY <1>1, <1>2, <1>3

LEMMA ListRemoved ==
  ASSUME NEW c \in Seq(List!Nodes), NEW k \in 1 .. Len(c)
  PROVE  /\ List!SE!RemoveAt(c, k) \in Seq(List!Nodes) /\ Len(List!SE!RemoveAt(c, k)) = Len(c) - 1
         /\ \A i \in 1 .. Len(c) - 1 : List!SE!RemoveAt(c, k)[i] = IF i < k THEN c[i] ELSE c[i + 1]
<1>1. List!SE!RemoveAt(c, k) = Slice!SE!RemoveAt(c, k)
  BY DEF List!SE!RemoveAt, Slice!SE!RemoveAt
<1>2. PICK T : T = List!Nodes
  OBVIOUS
<1>3. c \in Seq(T)
  BY <1>2
<1>4. /\ Slice!SE!RemoveAt(c, k) \in Seq(T) /\ Len(Slice!SE!RemoveAt(c, k)) = Len(c) - 1
      /\ \A i \in 1 .. Len(c) - 1 : Slice!SE!RemoveAt(c, k)[i] = IF i < k THEN c[i] ELSE c[i + 1]
  BY ONLY <1>3, k \in 1 .. Len(c), Removed
<1> QED
  BY ONLY <1>1, <1>2, <1>4

LEMMA RepInsert ==
  ASSUME ListHeap, ListRep, NEW i \in 0 .. MaxNodes, List!Insert(i)
  PROVE  ListRep'
<1>1. PICK n, at, s, right :
        /\ n = List!New /\ at = List!GetNode(i)
        /\ s = IF i <= Len(contents) THEN List!SE!InsertAt(contents, i + 1, n) ELSE << >>
        /\ right = (listSize = 0 \/ (i > 0 /\ List!FindsRight(i)))
  OBVIOUS
<1>2. /\ ends \in EndTypes /\ link \in LinkTypes /\ listSize \in Int /\ Collected
  BY DEF ListHeap
<1>3. Fresh(n)
  BY <1>1, <1>2, NewIsFresh DEF List!Insert
<1>4. n \in List!Nodes
  BY <1>3 DEF Fresh
<1>5. List!Describes(s, right) /\ contents \in Seq(List!Nodes) /\ Len(contents) \in Nat
  <2>1. contents \in Seq(List!Nodes)
    BY DEF ListRep
  <2>2. List!Describes(s, right)
    BY <1>1 DEF List!Insert
  <2> QED
    BY <2>1, <2>2
<1>6. intact => Laid(contents, ends, link) /\ listSize = Len(contents)
  BY DEF ListRep
<1>7. \/ listSize = 0 /\ i = 0 /\ List!InitFirstNode(n)
      \/ at # List!Nil /\ List!SetHeap(ends, List!Beside(at, n, "head")) /\ listSize' = listSize + 1
  BY <1>1 DEF List!Insert
<1>8. CASE listSize = 0 /\ i = 0 /\ List!InitFirstNode(n)
  <2>1. PICK all : all = [d \in List!Ends |-> n]
    OBVIOUS
  <2>2. all \in EndTypes /\ List!SetHeap(all, link) /\ listSize' = listSize + 1
    BY <1>4, <1>8, <2>1, EndTypesAre DEF List!InitFirstNode
  <2>3. ASSUME intact PROVE listSize' = Len(s) /\ Laid(s, all, link)
    <3>1. Len(contents) = 0
      BY <1>6, <1>8, <2>3
    <3>2. s = List!SE!InsertAt(contents, 1, n) /\ contents = << >>
      BY <1>1, <1>5, <1>8, <3>1
    <3>3. s = <<n>>
      BY <3>2, InsertedAlone
    <3>4. \A d \in List!Ends : all[d] = n
      BY <2>1
    <3>5. Laid(<<n>>, all, link)
      BY <1>3, <3>4, FirstLaid
    <3>6. listSize' = 1 /\ Len(<<n>>) = 1
      BY <1>8, <2>2
    <3> QED
      BY <3>3, <3>5, <3>6
  <2> QED
    BY ONLY <1>2, <1>5, <2>2, <2>3, RepSet
<1>9. CASE at # List!Nil /\ List!SetHeap(ends, List!Beside(at, n, "head")) /\ listSize' = listSize + 1
  <2>1. at \in List!Nodes /\ at # n
    BY <1>1, <1>3, <1>9, GetsFresh
  <2>2. PICK ln : ln = List!Beside(at, n, "head")
    OBVIOUS
  <2>3. List!SetHeap(ends, ln) /\ listSize' = listSize + 1
    BY <1>9, <2>2
  <2>4. "head" \in List!Ends /\ link["head"][at] # n
    BY <1>3, <2>1, TwoEnds DEF Fresh
  <2>5. PICK e \in List!Ends : e = "head"
    BY <2>4
  <2>6. ln \in LinkTypes /\ Joins(ln, at, n, e)
    BY <1>2, <1>4, <2>1, <2>2, <2>4, <2>5, Besides DEF Joins
  <2>7. ASSUME intact, right PROVE listSize' = Len(s) /\ Laid(s, ends, ln)
    <3>1. Laid(contents, ends, link) /\ listSize = Len(contents)
      BY <1>6, <2>7
    <3>2. i \in 0 .. listSize - 1
      <4>1. CASE i \notin 0 .. listSize - 1
        <5>1. List!GetNode(i) = List!Nil
          <6>1. /\ ~(i = 0 /\ listSize > 0) /\ ~(i > 0 /\ i = listSize - 1)
                /\ ~(i \in 1 .. listSize - 2)
            BY <1>2, <4>1
          <6> QED
            BY <4>1, <6>1, Zenon DEF List!GetNode
        <5> QED
          BY <1>1, <1>9, <5>1
      <4> QED
        BY <4>1
    <3>3. i > 0 /\ List!FindsRight(i)
      <4>1. listSize # 0
        BY <1>5, <3>1, <3>2
      <4> QED
        BY <1>1, <2>7, <4>1
    <3>4. at = contents[i + 1]
      BY <1>1, <1>2, <3>1, <3>2, <3>3, GetsRight
    <3>5. PICK k : k = i + 1
      OBVIOUS
    <3>6. k \in 1 .. Len(contents) + 1 /\ k # 1 /\ k # Len(contents) + 1 /\ Len(contents) > 0 /\ i <= Len(contents)
      BY <1>5, <3>1, <3>2, <3>3, <3>5
    <3>7. s = List!SE!InsertAt(contents, k, n)
      BY <1>1, <3>5, <3>6
    <3>8. /\ s \in Seq(List!Nodes) /\ Len(s) = Len(contents) + 1
          /\ \A j \in 1 .. Len(contents) + 1 :
               s[j] = IF j < k THEN contents[j] ELSE IF j = k THEN n ELSE contents[j - 1]
      BY ONLY <1>4, <1>5, <3>6, <3>7, ListInserted
    <3>9. \A j \in 1 .. Len(contents) : contents[j] # n
      BY <1>3, <3>1, FreshApart
    <3>10. Widened(contents, k, n, s)
      BY ONLY <1>4, <3>6, <3>8, <3>9 DEF Widened
    <3>11. EndsMoved(contents, k, n, ends)
      BY <3>6 DEF EndsMoved
    <3>12. Joins(ln, contents[k], n, "head")
      BY <2>5, <2>6, <3>4, <3>5
    <3>13. Laid(s, ends, ln)
      BY <3>1, <3>6, <3>10, <3>11, <3>12, JoinedBefore
    <3> QED
      BY <2>3, <3>1, <3>8, <3>13
  <2> QED
    BY ONLY <1>2, <1>5, <2>3, <2>6, <2>7, RepSet
<1> QED
  BY <1>7, <1>8, <1>9

LEMMA RepRemove ==
  ASSUME ListHeap, ListRep, NEW i \in 0 .. MaxNodes, List!Remove(i)
  PROVE  ListRep'
<1>1. PICK n, ln, s, right :
        /\ n = List!GetNode(i) /\ ln = List!Unlink(n)
        /\ s = IF i < Len(contents) THEN List!SE!RemoveAt(contents, i + 1) ELSE << >>
        /\ right = (i > 0 /\ i < listSize - 1 /\ List!FindsRight(i))
  OBVIOUS
<1>2. ends \in EndTypes /\ link \in LinkTypes /\ listSize \in Int
  BY DEF ListHeap
<1>3. n \in List!Nodes
  <2>1. List!GetNode(i) # List!Nil /\ i \in Nat
    BY DEF List!Remove
  <2>2. List!GetNode(i) \in List!Nodes
    BY <2>1, GetsFresh
  <2> QED
    BY <1>1, <2>2
<1>4. ln \in LinkTypes
  BY <1>1, <1>2, <1>3, Unlinks
<1>5. List!SetHeap(ends, ln) /\ List!Describes(s, right) /\ listSize' = listSize - 1
  BY <1>1 DEF List!Remove
<1>6. ASSUME intact, right PROVE listSize' = Len(s) /\ Laid(s, ends, ln)
  <2>1. /\ contents \in Seq(List!Nodes) /\ Len(contents) \in Nat
        /\ Laid(contents, ends, link) /\ listSize = Len(contents)
    <3>1. contents \in Seq(List!Nodes) /\ Laid(contents, ends, link) /\ listSize = Len(contents)
      BY <1>6 DEF ListRep
    <3> QED
      BY <3>1
  <2>2. i \in 0 .. listSize - 1 /\ i > 0 /\ i < listSize - 1 /\ List!FindsRight(i)
    <3>1. i > 0 /\ i < listSize - 1 /\ List!FindsRight(i)
      BY <1>1, <1>6, Zenon
    <3>2. i \in 0 .. listSize - 1
      BY <2>1, <3>1
    <3> QED
      BY <3>1, <3>2, Zenon
  <2>3. n = contents[i + 1]
    BY <1>1, <1>2, <2>1, <2>2, GetsRight
  <2>4. PICK k : k = i + 1
    OBVIOUS
  <2>5. k \in 1 .. Len(contents) /\ k # 1 /\ k # Len(contents) /\ Len(contents) > 1 /\ i < Len(contents)
    BY <2>1, <2>2, <2>4
  <2>6. s = List!SE!RemoveAt(contents, k)
    BY <1>1, <2>4, <2>5
  <2>7. /\ s \in Seq(List!Nodes) /\ Len(s) = Len(contents) - 1
        /\ \A j \in 1 .. Len(contents) - 1 : s[j] = IF j < k THEN contents[j] ELSE contents[j + 1]
    BY ONLY <2>1, <2>5, <2>6, ListRemoved
  <2>8. Narrowed(contents, k, s)
    BY ONLY <2>5, <2>7 DEF Narrowed
  <2>9. /\ ends["head"] = IF k = 1 THEN contents[2] ELSE ends["head"]
        /\ ends["tail"] = IF k = Len(contents) THEN contents[Len(contents) - 1] ELSE ends["tail"]
    BY ONLY <2>5
  <2>10. Laid(s, ends, List!Unlink(contents[k]))
    BY ONLY <1>2, <2>1, <2>8, <2>9, LaidUnlinked
  <2> QED
    BY <1>1, <1>5, <2>1, <2>3, <2>4, <2>7, <2>10
<1> QED
  BY ONLY <1>2, <1>4, <1>5, <1>6, RepSet

-----------------------------------------------------------------------------
(* The invariant of the list *)

ListInv == ListHeap /\ ListRep

LEMMA ListStarts ==
  ASSUME List!NewLinkedList
  PROVE  ListInv
<1>1. contents = << >> /\ listSize = 0 /\ ends["head"] = List!Nil /\ ends["tail"] = List!Nil
  BY TwoEnds DEF List!NewLinkedList
<1>2. Laid(contents, ends, link)
  BY <1>1 DEF Laid
<1> QED
  BY <1>1, <1>2, ListInit DEF ListInv, ListRep

LEMMA ListStep ==
  ASSUME ListInv, [List!Next]_listVars
  PROVE  ListInv'
<1> ListHeap /\ ListRep
  BY DEF ListInv
<1>1. CASE List!Next
  <2>1. \/ \E e \in List!Ends : List!Push(e) \/ List!Take(e)
        \/ \E i \in 0 .. MaxNodes : List!Insert(i) \/ List!Remove(i)
    BY <1>1 DEF List!Next
  <2>2. ASSUME NEW e \in List!Ends, List!Push(e) PROVE ListInv'
    BY <2>2, HeapPush, RepPush DEF ListInv
  <2>3. ASSUME NEW e \in List!Ends, List!Take(e) PROVE ListInv'
    BY <2>3, HeapTake, RepTake DEF ListInv
  <2>4. ASSUME NEW i \in 0 .. MaxNodes, List!Insert(i) PROVE ListInv'
    BY <2>4, HeapInsert, RepInsert DEF ListInv
  <2>5. ASSUME NEW i \in 0 .. MaxNodes, List!Remove(i) PROVE ListInv'
    BY <2>5, HeapRemove, RepRemove DEF ListInv
  <2> QED
    BY <2>1, <2>2, <2>3, <2>4, <2>5
<1>2. CASE UNCHANGED listVars
  <2>1. ends' = ends /\ link' = link /\ listSize' = listSize /\ contents' = contents /\ intact' = intact
    BY <1>2 DEF listVars
  <2>2. PICK B : B = List!Alive(ends, link)
    OBVIOUS
  <2>3. \A n \in List!Nodes : n \notin B => \A e \in List!Ends : link[e][n] = List!Nil
    BY <2>2 DEF ListHeap, Collected
  <2>4. Collected'
    BY <2>1, <2>2, <2>3 DEF Collected
  <2>5. ListHeap'
    <3>1. PICK o : Orders(o, link)
      BY DEF ListHeap
    <3>2. Orders(o, link')
      BY <2>1, <3>1
    <3> QED
      BY <2>1, <2>4, <3>2 DEF ListHeap, EndTypes, LinkTypes, Orders, List!Nodes, List!Ends, List!Nil
  <2>6. ListRep'
    <3>1. contents' \in Seq(List!Nodes) /\ (intact' => listSize' = Len(contents') /\ Laid(contents', ends', link'))
      BY <2>1 DEF ListRep
    <3>2. ListRep' <=> /\ contents' \in Seq(List!Nodes)
                       /\ intact' => listSize' = Len(contents') /\ Laid(contents', ends', link')
      BY DEF ListRep, Laid, List!Nodes, List!Nil
    <3> QED
      BY ONLY <3>1, <3>2
  <2> QED
    BY <2>5, <2>6 DEF ListInv
<1> QED
  BY <1>1, <1>2

\* What the list promises of every state.
LEMMA ListRight ==
  ASSUME ListInv
  PROVE  List!TypeOK /\ List!IsSequence /\ List!NoCycle
<1>1. ListHeap /\ ListRep
  BY DEF ListInv
<1>2. List!TypeOK
  BY <1>1 DEF ListHeap, ListRep, List!TypeOK, EndTypes, LinkTypes
<1>3. List!NoCycle
  BY <1>1, WalkEnds
<1>4. ASSUME intact
      PROVE  /\ listSize = Len(contents)
             /\ List!Chain("head") = contents /\ List!Chain("tail") = List!SE!Reverse(contents)
             /\ \A e \in List!Ends : List!Walk(ends[e], List!Opp(e), listSize) = List!Nil
             /\ \A i \in 0 .. listSize - 1 : List!FindsRight(i) => List!GetNode(i) = contents[i + 1]
  <2>1. /\ contents \in Seq(List!Nodes) /\ Len(contents) \in Nat /\ link \in LinkTypes /\ ends \in EndTypes
        /\ Laid(contents, ends, link) /\ listSize = Len(contents)
    <3>1. contents \in Seq(List!Nodes) /\ Laid(contents, ends, link) /\ listSize = Len(contents)
      BY <1>1, <1>4 DEF ListRep
    <3> QED
      BY <1>1, <3>1 DEF ListHeap
  <2>2. \A k \in Nat : List!Walk(ends["head"], "tail", k) = IF k < Len(contents) THEN contents[k + 1] ELSE List!Nil
    BY <2>1, WalksForth
  <2>3. \A k \in Nat :
          List!Walk(ends["tail"], "head", k) = IF k < Len(contents) THEN contents[Len(contents) - k] ELSE List!Nil
    BY <2>1, WalksBack
  <2>4. ASSUME NEW k \in 1 .. Len(contents)
        PROVE  /\ List!Walk(ends["head"], "tail", k - 1) = contents[k]
               /\ List!Walk(ends["tail"], "head", k - 1) = contents[Len(contents) - k + 1]
    <3>1. /\ k - 1 \in Nat /\ k - 1 < Len(contents) /\ k - 1 + 1 = k
          /\ Len(contents) - (k - 1) = Len(contents) - k + 1
      BY <2>1
    <3> QED
      BY <2>2, <2>3, <3>1
  <2>5. List!Chain("head") = contents
    <3>1. List!Chain("head") = [k \in 1 .. Len(contents) |-> contents[k]]
      BY <2>4, TwoEnds DEF List!Chain
    <3>2. contents = [k \in 1 .. Len(contents) |-> contents[k]]
      BY <2>1
    <3> QED
      BY ONLY <3>1, <3>2
  <2>6. List!Chain("tail") = List!SE!Reverse(contents)
    BY <2>4, TwoEnds DEF List!Chain, List!SE!Reverse
  <2>7. ASSUME NEW e \in List!Ends PROVE List!Walk(ends[e], List!Opp(e), listSize) = List!Nil
    <3>1. ~(listSize < Len(contents)) /\ listSize \in Nat
      BY <2>1
    <3>2. /\ List!Walk(ends["head"], "tail", listSize) = List!Nil
          /\ List!Walk(ends["tail"], "head", listSize) = List!Nil
      BY <2>2, <2>3, <3>1
    <3> QED
      BY <3>2, TwoEnds
  <2>8. ASSUME NEW i \in 0 .. listSize - 1, List!FindsRight(i) PROVE List!GetNode(i) = contents[i + 1]
    BY <2>1, <2>8, GetsRight
  <2> QED
    BY <2>1, <2>5, <2>6, <2>7, <2>8
<1>5. List!IsSequence
  BY <1>4 DEF List!IsSequence
<1> QED
  BY <1>2, <1>3, <1>5

-----------------------------------------------------------------------------
(* All the structures *)

\* The invariant of the linked list.
THEOREM ListInvariant == AllSpec => []ListInv
<1>1. AllInit => ListInv
  BY ListStarts DEF AllInit
<1>2. ListInv /\ [AllNext]_<<cacheVars, structureVars>> => ListInv'
  BY OneStructure, ListStep
<1> QED
  BY <1>1, <1>2, PTL DEF AllSpec

\* The invariant of the insertion list.
THEOREM SliceInvariant == AllSpec => []SliceInv
<1>1. AllInit => SliceInv
  BY SliceInit DEF AllInit
<1>2. SliceInv /\ [AllNext]_<<cacheVars, structureVars>> => SliceInv'
  BY OneStructure, SliceStep
<1> QED
  BY <1>1, <1>2, PTL DEF AllSpec

\* The linked list has the links, the size and the nodes of the sequence that the calls
\* describe, until a call that the code gets wrong, and a walk of it ends even then; the
\* insertion list has the items the calls put there and, unless its constructor left it
\* unsorted, stays in order and finds them; elements leave the safe queue in the order in
\* which they came: for any items, keys, callers and bounds.
THEOREM AsSequences == AllSpec => []SequencesKept
<1>1. ListInv /\ SliceInv /\ ContainersInv => SequencesKept
  BY ListRight, SliceRight, TakenInOrder DEF SequencesKept, ContainersInv
<1> QED
  BY <1>1, ListInvariant, SliceInvariant, Invariant, PTL

\* The types of every structure.
THEOREM StructuresTyped == AllSpec => []TypesOK
<1>1. CacheTypesOK /\ TrieInv /\ ListInv /\ SliceInv /\ ContainersInv => TypesOK
  BY TrieTypes, ListRight, SliceRight, TakenInOrder, SharesInstances, ExecutedOnce
  DEF TypesOK, ContainersInv
<1> QED
  BY <1>1, CachesTyped, TrieInvariant, ListInvariant, SliceInvariant, Invariant, PTL
=============================================================================
