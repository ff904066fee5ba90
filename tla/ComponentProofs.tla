--------------------------- MODULE ComponentProofs ---------------------------
(* Three parts of the engine, each by itself.                                 *)
(*                                                                            *)
(* The linked list of lru_replacer.cpp implements what a replacer promises,   *)
(* for every finite set of values.  There is exactly one walk along the links *)
(* from head to tail; Insert, Victim and Erase turn it into the list that the *)
(* abstract replacer makes of it.                                             *)
(*                                                                            *)
(* RWMutex excludes and loses no wake-up, for every set of threads.           *)
(*                                                                            *)
(* Heap, index and transaction of the virtual table, for every number of      *)
(* columns' values, rows, statements and sessions, and every set of indexed   *)
(* columns.                                                                   *)
EXTENDS LRUReplacer, LRUList, RWMutex, VirtualTable, WellFoundedInduction,
        FiniteSetTheorems, TLAPS

\* A set of natural numbers that is not empty has a least element.
LEMMA Least ==
  ASSUME NEW T \in SUBSET Nat, T # {}
  PROVE  \E m \in T : \A k \in T : m <= k
<1> DEFINE R == OpToRel(<, Nat)
<1>1. IsWellFoundedOn(R, Nat)
  BY NatLessThanWellFounded, Zenon
<1>2. \A a, b \in Nat : <<a, b>> \in R <=> a < b
  BY DEF OpToRel
<1> HIDE DEF R
<1>3. PICK m \in T : \A k \in T : ~(<<k, m>> \in R)
  BY <1>1, WFMin, Zenon
<1>4. \A k \in T : ~(k < m)
  BY <1>2, <1>3, Zenon
<1> QED BY <1>4

\* t is s without its k-th element: those behind it move up.
IsWithout(t, s, k) ==
  /\ Len(t) = Len(s) - 1
  /\ \A i \in 1 .. k - 1 : t[i] = s[i]
  /\ \A i \in k .. Len(s) - 1 : t[i] = s[i + 1]

\* A list without duplicates and without its k-th element.
LEMMA WithoutElement ==
  ASSUME NEW S, NEW s \in Seq(S), IsInjective(s), NEW n \in Nat, n = Len(s),
         NEW k \in 1 .. n, NEW t \in Seq(S), IsWithout(t, s, k)
  PROVE  IsInjective(t) /\ Range(t) = Range(s) \ {s[k]}
<1> DEFINE up(x) == IF x < k THEN x ELSE x + 1
<1>1. /\ DOMAIN s = 1 .. n /\ DOMAIN t = 1 .. n - 1
      /\ \A i \in 1 .. k - 1 : t[i] = s[i]
      /\ \A i \in k .. n - 1 : t[i] = s[i + 1]
  BY DEF IsWithout
<1>2. \A i \in 1 .. n - 1 : up(i) \in 1 .. n /\ up(i) # k /\ t[i] = s[up(i)]
  BY <1>1
<1>3. \A i, j \in 1 .. n - 1 : up(i) = up(j) => i = j
  OBVIOUS
<1>4. \A i \in 1 .. n : i # k => \E j \in 1 .. n - 1 : up(j) = i
  <2> TAKE i \in 1 .. n
  <2> HAVE i # k
  <2>1. CASE i < k
    <3>1. i \in 1 .. n - 1 /\ up(i) = i
      BY <2>1
    <3> QED BY <3>1
  <2>2. CASE i > k
    <3>1. i - 1 \in 1 .. n - 1 /\ up(i - 1) = i
      BY <2>2
    <3> QED BY <3>1
  <2> QED BY <2>1, <2>2
<1> HIDE DEF up
<1>5. IsInjective(t)
  <2> SUFFICES ASSUME NEW i \in 1 .. n - 1, NEW j \in 1 .. n - 1, t[i] = t[j]
               PROVE  i = j
    BY <1>1, Zenon DEF IsInjective
  <2>1. up(i) \in 1 .. n /\ up(j) \in 1 .. n /\ s[up(i)] = s[up(j)]
    BY <1>2
  <2>2. up(i) = up(j)
    BY <1>1, <2>1, Zenon DEF IsInjective
  <2> QED BY <1>3, <2>2
<1>6. \A x : x \in Range(t) => x \in Range(s) \ {s[k]}
  BY <1>1, <1>2 DEF IsInjective, Range
<1>7. ASSUME NEW x \in Range(s) \ {s[k]} PROVE x \in Range(t)
  <2>1. PICK i \in 1 .. n : x = s[i] /\ i # k
    BY <1>1 DEF Range
  <2>2. PICK j \in 1 .. n - 1 : up(j) = i
    BY <1>4, <2>1
  <2>3. j \in DOMAIN t /\ t[j] = x
    BY <1>1, <1>2, <2>1, <2>2
  <2> QED BY <2>3 DEF Range
<1> QED BY <1>5, <1>6, <1>7

\* Taking the last element off.
LEMMA OldestIsWithout ==
  ASSUME NEW S, NEW s \in Seq(S), s # <<>>
  PROVE  /\ Len(s) \in Nat /\ Len(s) \in 1 .. Len(s) /\ Oldest(s) = s[Len(s)]
         /\ WithoutOldest(s) \in Seq(S) /\ IsWithout(WithoutOldest(s), s, Len(s))
<1>1. Len(s) \in Nat \ {0}
  OBVIOUS
<1>2. WithoutOldest(s) \in Seq(S) /\ Len(WithoutOldest(s)) = Len(s) - 1
  <2>1. WithoutOldest(s) \in Seq(S) /\ DOMAIN WithoutOldest(s) = 1 .. Len(s) - 1
    BY <1>1 DEF WithoutOldest
  <2> QED BY <1>1, <2>1
<1>3. \A i \in 1 .. Len(s) - 1 : WithoutOldest(s)[i] = s[i]
  BY <1>1 DEF WithoutOldest
<1>4. \A i \in Len(s) .. Len(s) - 1 : FALSE
  BY <1>1
<1> QED BY <1>1, <1>2, <1>3, <1>4 DEF IsWithout, Oldest

LEMMA OldestOfList ==
  ASSUME NEW S, NEW s \in Seq(S), s # <<>>, IsInjective(s)
  PROVE  /\ WithoutOldest(s) \in Seq(S)
         /\ IsInjective(WithoutOldest(s))
         /\ Range(WithoutOldest(s)) = Range(s) \ {Oldest(s)}
         /\ Oldest(s) \in Range(s)
         /\ Oldest(s) \in S
<1>1. /\ Len(s) \in Nat /\ Len(s) \in 1 .. Len(s) /\ Oldest(s) = s[Len(s)]
      /\ WithoutOldest(s) \in Seq(S) /\ IsWithout(WithoutOldest(s), s, Len(s))
  BY OldestIsWithout
<1>2. /\ IsInjective(WithoutOldest(s))
      /\ Range(WithoutOldest(s)) = Range(s) \ {s[Len(s)]}
  BY <1>1, WithoutElement
<1>3. s[Len(s)] \in Range(s) /\ s[Len(s)] \in S
  BY <1>1 DEF Range
<1> QED BY <1>1, <1>2, <1>3

\* Erasing a value that is there.
LEMMA ErasedElements ==
  ASSUME NEW S, NEW s \in Seq(S), IsInjective(s),
         NEW n \in Nat, n = Len(s), NEW k \in 1 .. n, NEW v, v = s[k]
  PROVE  Erased(s, v) \in Seq(S) /\ IsWithout(Erased(s, v), s, k)
<1> DEFINE t == [j \in 1 .. n - 1 |-> s[IF j < k THEN j ELSE j + 1]]
<1>1. v \in Range(s) /\ \A j \in DOMAIN s : s[j] = v <=> j = k
  BY DEF IsInjective, Range
<1>2. (CHOOSE j \in DOMAIN s : s[j] = v) = k
  BY <1>1
<1>3. Erased(s, v) = t
  BY <1>1, <1>2 DEF Erased
<1>4. t \in Seq(S) /\ Len(t) = n - 1
  <2>1. n - 1 \in Nat /\ \A j \in 1 .. n - 1 : t[j] \in S
    OBVIOUS
  <2> QED BY <2>1
<1> QED BY <1>3, <1>4 DEF IsWithout

\* Erasing a value, which need not be there.
LEMMA EraseFromList ==
  ASSUME NEW S, NEW s \in Seq(S), NEW v, IsInjective(s)
  PROVE  /\ Erased(s, v) \in Seq(S)
         /\ IsInjective(Erased(s, v))
         /\ Range(Erased(s, v)) = Range(s) \ {v}
<1>1. CASE v \notin Range(s)
  BY <1>1 DEF Erased
<1>2. CASE v \in Range(s)
  <2>1. PICK k \in 1 .. Len(s) : v = s[k]
    BY <1>2 DEF Range
  <2>2. Len(s) \in Nat
    OBVIOUS
  <2>3. Erased(s, v) \in Seq(S) /\ IsWithout(Erased(s, v), s, k)
    BY <2>1, <2>2, ErasedElements
  <2> QED BY <2>1, <2>2, <2>3, WithoutElement
<1> QED BY <1>1, <1>2

\* Adding a new element at the front.
LEMMA ConsToList ==
  ASSUME NEW S, NEW s \in Seq(S), NEW v \in S, IsInjective(s), v \notin Range(s)
  PROVE  /\ <<v>> \o s \in Seq(S)
         /\ IsInjective(<<v>> \o s)
         /\ Range(<<v>> \o s) = Range(s) \cup {v}
<1> DEFINE t == <<v>> \o s
           n == Len(s)
<1>1. /\ n \in Nat
      /\ DOMAIN s = 1 .. n
      /\ t \in Seq(S)
      /\ DOMAIN t = 1 .. n + 1
      /\ \A i \in 1 .. n : t[i + 1] = s[i]
      /\ t[1] = v
  OBVIOUS
<1> HIDE DEF t, n
<1>2. \A i \in DOMAIN t : i = 1 \/ (i - 1 \in DOMAIN s /\ t[i] = s[i - 1])
  BY <1>1
<1>3. IsInjective(t)
  BY <1>1, <1>2 DEF IsInjective, Range
<1>4. \A x : x \in Range(t) => x \in Range(s) \cup {v}
  BY <1>1, <1>2 DEF Range
<1>5. ASSUME NEW x \in Range(s) PROVE x \in Range(t)
  <2>1. PICK i \in DOMAIN s : x = s[i]
    BY DEF Range
  <2>2. i + 1 \in DOMAIN t /\ t[i + 1] = x
    BY <1>1, <2>1
  <2> QED BY <2>2 DEF Range
<1>6. v \in Range(t)
  BY <1>1 DEF Range
<1> QED BY <1>1, <1>3, <1>4, <1>5, <1>6 DEF t
------------------------------------------------------------------------------
\* The nodes of a list are nodes, and no node is met twice.
LEMMA NodesOfList ==
  ASSUME NEW s \in Seq(Item)
  PROVE  \A i \in 0 .. Len(s) + 1 : NodeAt(s, i) \in Node
<1> SUFFICES ASSUME NEW i \in 0 .. Len(s) + 1 PROVE NodeAt(s, i) \in Node
  OBVIOUS
<1>1. i # 0 /\ i # Len(s) + 1 => i \in 1 .. Len(s)
  OBVIOUS
<1>2. i \in 1 .. Len(s) => s[i] \in Item
  OBVIOUS
<1> QED BY <1>1, <1>2 DEF NodeAt, Node

LEMMA NodesDiffer ==
  ASSUME NEW s \in Seq(Item), IsInjective(s),
         NEW i \in 0 .. Len(s) + 1, NEW j \in 0 .. Len(s) + 1,
         NodeAt(s, i) = NodeAt(s, j)
  PROVE  i = j
<1> DEFINE n == Len(s)
<1>1. n \in Nat /\ DOMAIN s = 1 .. n /\ \A x \in 1 .. n : s[x] \in Item
  OBVIOUS
<1>2. Head0 \notin Item /\ Tail0 \notin Item /\ Head0 # Tail0
  BY SentinelAssumption
<1>3. ASSUME NEW x \in 0 .. n + 1
      PROVE  \/ x = 0 /\ NodeAt(s, x) = Head0
             \/ x = n + 1 /\ NodeAt(s, x) = Tail0
             \/ x \in 1 .. n /\ NodeAt(s, x) = s[x] /\ s[x] \in Item
  BY <1>1 DEF NodeAt
<1> HIDE DEF n
<1>4. i \in 0 .. n + 1 /\ j \in 0 .. n + 1
  BY DEF n
<1>5. \A x, y \in 1 .. n : s[x] = s[y] => x = y
  BY <1>1 DEF IsInjective
<1> QED BY <1>2, <1>3, <1>4, <1>5

\* Only one list can be read off the links.
LEMMA OneWalk ==
  ASSUME NEW n, NEW p, NEW s \in Seq(Item), NEW t \in Seq(Item),
         Linked(n, p, s), Linked(n, p, t)
  PROVE  s = t
<1> DEFINE a == Len(s)
           b == Len(t)
           T == {i \in Nat : i <= a + 1 /\ i <= b + 1 /\ NodeAt(s, i) # NodeAt(t, i)}
<1>1. a \in Nat /\ b \in Nat
  OBVIOUS
<1>2. /\ \A i \in 0 .. a : n[NodeAt(s, i)] = NodeAt(s, i + 1)
      /\ \A i \in 0 .. b : n[NodeAt(t, i)] = NodeAt(t, i + 1)
  BY DEF Linked
<1>3. NodeAt(s, 0) = Head0 /\ NodeAt(t, 0) = Head0
  BY DEF NodeAt
<1>4. NodeAt(s, a + 1) = Tail0 /\ NodeAt(t, b + 1) = Tail0
  BY <1>1 DEF NodeAt
<1>5. /\ \A i \in 1 .. a : NodeAt(s, i) = s[i] /\ s[i] \in Item
      /\ \A i \in 1 .. b : NodeAt(t, i) = t[i] /\ t[i] \in Item
  BY <1>1 DEF NodeAt
<1> HIDE DEF a, b
<1>6. T = {}
  <2> SUFFICES ASSUME T # {} PROVE FALSE
    OBVIOUS
  <2>1. PICK m \in T : \A k \in T : m <= k
    BY Least, Zenon
  <2>2. m \in Nat /\ m <= a + 1 /\ m <= b + 1 /\ NodeAt(s, m) # NodeAt(t, m)
    OBVIOUS
  <2>3. m # 0
    BY <1>3, <2>2
  <2>4. m - 1 \in Nat /\ m - 1 \in 0 .. a /\ m - 1 \in 0 .. b /\ (m - 1) + 1 = m
    BY <1>1, <2>2, <2>3
  <2>5. m - 1 \notin T
    BY <2>1, <2>2
  <2>6. NodeAt(s, m - 1) = NodeAt(t, m - 1)
    BY <1>1, <2>4, <2>5
  <2> QED BY <1>2, <2>2, <2>4, <2>6
<1>7. \A i \in Nat : i <= a + 1 /\ i <= b + 1 => NodeAt(s, i) = NodeAt(t, i)
  BY <1>6
<1> HIDE DEF T
<1>8. a = b
  <2>1. Tail0 \notin Item
    BY SentinelAssumption
  <2>2. ~(a < b)
    <3> SUFFICES ASSUME a < b PROVE FALSE
      OBVIOUS
    <3>1. a + 1 \in Nat /\ a + 1 <= b + 1 /\ a + 1 \in 1 .. b
      BY <1>1
    <3> QED BY <1>1, <1>4, <1>5, <1>7, <2>1, <3>1
  <2>3. ~(b < a)
    <3> SUFFICES ASSUME b < a PROVE FALSE
      OBVIOUS
    <3>1. b + 1 \in Nat /\ b + 1 <= a + 1 /\ b + 1 \in 1 .. a
      BY <1>1
    <3> QED BY <1>1, <1>4, <1>5, <1>7, <2>1, <3>1
  <2> QED BY <1>1, <2>2, <2>3
<1>9. \A i \in 1 .. a : s[i] = t[i]
  BY <1>1, <1>5, <1>7, <1>8
<1> QED BY <1>8, <1>9 DEF a, b

\* A list of the map's keys, each once, is as long as the map.
LEMMA WalkIsList ==
  ASSUME NEW M, NEW s \in Seq(M), IsInjective(s), Range(s) = M
  PROVE  s \in [1 .. Cardinality(M) -> M]
<1>1. Len(s) \in Nat /\ s \in [1 .. Len(s) -> M]
  OBVIOUS
<1>2. s \in Bijection(1 .. Len(s), M)
  BY <1>1 DEF Bijection, Injection, Surjection, IsInjective, Range
<1>3. Cardinality(M) = Len(s)
  BY <1>1, <1>2, FS_CountingElements DEF ExistsBijection
<1> QED BY <1>1, <1>3

\* The nodes after the k-th element is left out.
LEMMA NodesWithout ==
  ASSUME NEW s \in Seq(Item), NEW t \in Seq(Item), NEW k \in 1 .. Len(s),
         IsWithout(t, s, k)
  PROVE  \A i \in 0 .. Len(s) :
           NodeAt(t, i) = IF i < k THEN NodeAt(s, i) ELSE NodeAt(s, i + 1)
<1> SUFFICES ASSUME NEW i \in 0 .. Len(s)
             PROVE  NodeAt(t, i) = IF i < k THEN NodeAt(s, i) ELSE NodeAt(s, i + 1)
  OBVIOUS
<1> DEFINE n == Len(s)
<1>1. n \in Nat /\ k \in 1 .. n /\ i \in 0 .. n
  OBVIOUS
<1>2. /\ Len(t) = n - 1
      /\ \A j \in 1 .. k - 1 : t[j] = s[j]
      /\ \A j \in k .. n - 1 : t[j] = s[j + 1]
  BY Zenon DEF IsWithout
<1>3. \A j : NodeAt(s, j) = IF j = 0 THEN Head0 ELSE IF j = n + 1 THEN Tail0 ELSE s[j]
  BY DEF NodeAt
<1>4. (n - 1) + 1 = n
  BY <1>1
<1>5. NodeAt(t, i) = IF i = 0 THEN Head0 ELSE IF i = n THEN Tail0 ELSE t[i]
  BY <1>2, <1>4 DEF NodeAt
<1> HIDE DEF n
<1>6. CASE i = 0
  BY <1>1, <1>3, <1>5, <1>6
<1>7. CASE i = n
  <2>1. ~(i < k) /\ i # 0 /\ i + 1 = n + 1 /\ i + 1 # 0
    BY <1>1, <1>7
  <2> QED BY <1>3, <1>5, <1>7, <2>1
<1>8. CASE i # 0 /\ i # n /\ i < k
  <2>1. i \in 1 .. k - 1 /\ i # n + 1
    BY <1>1, <1>8
  <2> QED BY <1>2, <1>3, <1>5, <1>8, <2>1
<1>9. CASE i # 0 /\ i # n /\ ~(i < k)
  <2>1. i \in k .. n - 1 /\ i + 1 # n + 1 /\ i + 1 # 0
    BY <1>1, <1>9
  <2> QED BY <1>2, <1>3, <1>5, <1>9, <2>1
<1> QED BY <1>6, <1>7, <1>8, <1>9

\* Joining the neighbours of the k-th element makes the walk without it.
LEMMA UnlinkStep ==
  ASSUME NEW n \in [Node -> Node], NEW p \in [Node -> Node],
         NEW s \in Seq(Item), IsInjective(s), Linked(n, p, s),
         NEW k \in 1 .. Len(s), NEW t \in Seq(Item), IsWithout(t, s, k)
  PROVE  Linked([n EXCEPT ![p[s[k]]] = n[s[k]]], [p EXCEPT ![n[s[k]]] = p[s[k]]], t)
<1> DEFINE m == Len(s)
           At(i) == NodeAt(s, i)
           n2 == [n EXCEPT ![p[s[k]]] = n[s[k]]]
           p2 == [p EXCEPT ![n[s[k]]] = p[s[k]]]
<1>1. m \in Nat /\ k \in 1 .. m /\ k - 1 \in 0 .. m /\ k \in 0 .. m /\ (k - 1) + 1 = k
  OBVIOUS
<1>2. \A i \in 0 .. m : n[At(i)] = At(i + 1) /\ p[At(i + 1)] = At(i)
  BY DEF Linked
<1>3. At(k) = s[k]
  BY <1>1 DEF NodeAt
<1>4. \A i \in 0 .. m + 1 : At(i) \in Node
  BY NodesOfList
<1>5. \A i, j \in 0 .. m + 1 : At(i) = At(j) => i = j
  BY NodesDiffer
<1>6. \A i \in 0 .. m : NodeAt(t, i) = IF i < k THEN At(i) ELSE At(i + 1)
  BY NodesWithout
<1>7. Len(t) = m - 1
  BY DEF IsWithout
<1> HIDE DEF At, m
<1>8. n[s[k]] = At(k + 1) /\ p[s[k]] = At(k - 1)
  BY <1>1, <1>2, <1>3
<1>9. ASSUME NEW x \in Node
      PROVE  /\ n2[x] = IF x = At(k - 1) THEN At(k + 1) ELSE n[x]
             /\ p2[x] = IF x = At(k + 1) THEN At(k - 1) ELSE p[x]
  BY <1>8
<1> HIDE DEF n2, p2
<1>10. ASSUME NEW i \in 0 .. m - 1
       PROVE  n2[NodeAt(t, i)] = NodeAt(t, i + 1) /\ p2[NodeAt(t, i + 1)] = NodeAt(t, i)
  <2>0. i \in 0 .. m /\ i + 1 \in 0 .. m /\ i + 2 \in 0 .. m + 1 /\ (i + 1) + 1 = i + 2
        /\ i \in 0 .. m + 1 /\ i + 1 \in 0 .. m + 1
        /\ k + 1 \in 0 .. m + 1 /\ k - 1 \in 0 .. m + 1
    BY <1>1
  <2>1. CASE i < k - 1
    <3>1. i < k /\ i + 1 < k /\ i # k - 1 /\ i + 1 # k + 1
      BY <1>1, <2>1
    <3>2. NodeAt(t, i) = At(i) /\ NodeAt(t, i + 1) = At(i + 1)
      BY <1>6, <2>0, <3>1
    <3>3. At(i) # At(k - 1) /\ At(i + 1) # At(k + 1)
      BY <1>5, <2>0, <3>1
    <3>4. n2[At(i)] = n[At(i)] /\ p2[At(i + 1)] = p[At(i + 1)]
      BY <1>4, <1>9, <2>0, <3>3, Zenon
    <3> QED BY <1>2, <2>0, <3>2, <3>4, Zenon
  <2>2. CASE i = k - 1
    <3>1. i < k /\ i + 1 = k /\ ~(i + 1 < k) /\ (i + 1) + 1 = k + 1
      BY <1>1, <2>2
    <3>2. NodeAt(t, i) = At(k - 1) /\ NodeAt(t, i + 1) = At(k + 1)
      BY <1>6, <2>0, <2>2, <3>1
    <3> QED BY <1>4, <1>9, <2>0, <3>2, Zenon
  <2>3. CASE i >= k
    <3>1. ~(i < k) /\ ~(i + 1 < k) /\ i + 1 # k - 1 /\ i + 2 # k + 1
      BY <1>1, <2>3
    <3>2. NodeAt(t, i) = At(i + 1) /\ NodeAt(t, i + 1) = At(i + 2)
      BY <1>6, <2>0, <3>1
    <3>3. At(i + 1) # At(k - 1) /\ At(i + 2) # At(k + 1)
      BY <1>5, <2>0, <3>1
    <3>4. n2[At(i + 1)] = n[At(i + 1)] /\ p2[At(i + 2)] = p[At(i + 2)]
      BY <1>4, <1>9, <2>0, <3>3
    <3> QED BY <1>2, <2>0, <3>2, <3>4, Zenon
  <2> QED BY <1>1, <2>1, <2>2, <2>3
<1>11. Linked(n2, p2, t)
  BY <1>7, <1>10, Zenon DEF Linked
<1> QED BY <1>11 DEF n2, p2

\* Linking a value in behind head makes the walk with it in front.
LEMMA PushStep ==
  ASSUME NEW n \in [Node -> Node], NEW p \in [Node -> Node],
         NEW s \in Seq(Item), IsInjective(s), Linked(n, p, s),
         NEW v \in Item, v \notin Range(s)
  PROVE  Linked([n EXCEPT ![v] = n[Head0], ![Head0] = v],
                [p EXCEPT ![n[Head0]] = v, ![v] = Head0], <<v>> \o s)
<1> DEFINE m == Len(s)
           u == <<v>> \o s
           At(i) == NodeAt(s, i)
           n2 == [n EXCEPT ![v] = n[Head0], ![Head0] = v]
           p2 == [p EXCEPT ![n[Head0]] = v, ![v] = Head0]
<1>1. m \in Nat /\ 0 \in 0 .. m
  OBVIOUS
<1>2. \A i \in 0 .. m : n[At(i)] = At(i + 1) /\ p[At(i + 1)] = At(i)
  BY DEF Linked
<1>3. \A i \in 0 .. m + 1 : At(i) \in Node
  BY NodesOfList
<1>4. \A i, j \in 0 .. m + 1 : At(i) = At(j) => i = j
  BY NodesDiffer
<1>5. At(0) = Head0 /\ n[Head0] = At(1)
  <2>1. At(0) = Head0
    BY DEF NodeAt
  <2>2. 0 + 1 = 1
    OBVIOUS
  <2> HIDE DEF At, m
  <2> QED BY <1>1, <1>2, <2>1, <2>2
<1>6. v # Head0 /\ v # Tail0 /\ Head0 # Tail0 /\ v \in Node /\ Head0 \in Node
  BY SentinelAssumption DEF Node
<1>7. \A i \in 1 .. m + 1 : At(i) # v
  <2>1. \A i \in 1 .. m : s[i] # v
    BY DEF Range
  <2>2. \A i \in 1 .. m + 1 : At(i) = IF i = m + 1 THEN Tail0 ELSE s[i]
    BY <1>1 DEF NodeAt
  <2> HIDE DEF At, m
  <2>3. \A i \in 1 .. m + 1 : i # m + 1 => i \in 1 .. m
    BY <1>1
  <2> QED BY <1>6, <2>1, <2>2, <2>3
<1>8. Len(u) = m + 1 /\ NodeAt(u, 0) = Head0 /\ NodeAt(u, 1) = v
  <2>1. Len(u) = m + 1 /\ u[1] = v
    BY <1>1
  <2>2. 1 # 0 /\ 1 # (m + 1) + 1
    BY <1>1
  <2> HIDE DEF u, m
  <2> QED BY <2>1, <2>2 DEF NodeAt
<1>9. ASSUME NEW i \in 1 .. m + 1 PROVE NodeAt(u, i + 1) = At(i)
  <2>1. Len(u) = m + 1 /\ i + 1 # 0 /\ i # 0 /\ (i + 1 = (m + 1) + 1 <=> i = m + 1)
    BY <1>1, <1>8
  <2>2. i # m + 1 => u[i + 1] = s[i]
    BY <1>1
  <2>3. NodeAt(u, i + 1) = IF i + 1 = (m + 1) + 1 THEN Tail0 ELSE u[i + 1]
    BY <2>1 DEF NodeAt
  <2>4. At(i) = IF i = m + 1 THEN Tail0 ELSE s[i]
    BY <2>1 DEF NodeAt
  <2> HIDE DEF u, m, At
  <2> QED BY <2>1, <2>2, <2>3, <2>4
<1> HIDE DEF At, m, u
<1>10. ASSUME NEW x \in Node
       PROVE  /\ n2[x] = IF x = Head0 THEN v ELSE IF x = v THEN At(1) ELSE n[x]
              /\ p2[x] = IF x = v THEN Head0 ELSE IF x = At(1) THEN v ELSE p[x]
  BY <1>5, <1>6
<1> HIDE DEF n2, p2
<1>11. ASSUME NEW i \in 0 .. m + 1
       PROVE  n2[NodeAt(u, i)] = NodeAt(u, i + 1) /\ p2[NodeAt(u, i + 1)] = NodeAt(u, i)
  <2>1. CASE i = 0
    <3>1. NodeAt(u, i) = Head0 /\ NodeAt(u, i + 1) = v
      BY <1>8, <2>1
    <3> QED BY <1>6, <1>10, <3>1
  <2>2. CASE i = 1
    <3>1. NodeAt(u, i) = v /\ NodeAt(u, i + 1) = At(1) /\ At(1) \in Node /\ At(1) # v
      BY <1>1, <1>3, <1>7, <1>8, <1>9, <2>2
    <3> QED BY <1>6, <1>10, <3>1
  <2>3. CASE i > 1
    <3>0. /\ i - 1 \in 1 .. m + 1 /\ i - 1 \in 0 .. m /\ (i - 1) + 1 = i /\ i \in 1 .. m + 1
          /\ i - 1 \in 0 .. m + 1 /\ 0 \in 0 .. m + 1 /\ 1 \in 0 .. m + 1 /\ i - 1 # 0 /\ i # 1
      BY <1>1, <2>3
    <3>1. NodeAt(u, i) = At(i - 1) /\ NodeAt(u, i + 1) = At(i)
      BY <1>9, <3>0
    <3>2. At(i - 1) # v /\ At(i) # v /\ At(i - 1) # Head0 /\ At(i) # At(1)
      BY <1>4, <1>5, <1>7, <3>0
    <3>3. n2[At(i - 1)] = n[At(i - 1)] /\ p2[At(i)] = p[At(i)]
      BY <1>3, <1>10, <3>0, <3>2, Zenon
    <3> QED BY <1>2, <3>0, <3>1, <3>3
  <2> QED BY <1>1, <2>1, <2>2, <2>3
<1>12. Linked(n2, p2, u)
  BY <1>8, <1>11 DEF Linked
<1> QED BY <1>12 DEF n2, p2, u

------------------------------------------------------------------------------
\* The walk is what ForwardWalk chooses.
LEMMA ChosenWalk ==
  ASSUME NEW n, NEW p, NEW M \in SUBSET Item, NEW s \in Seq(M),
         IsInjective(s), Range(s) = M, Linked(n, p, s)
  PROVE  s = CHOOSE t \in [1 .. Cardinality(M) -> M] :
               IsInjective(t) /\ Range(t) = M /\ Linked(n, p, t)
<1> DEFINE L == [1 .. Cardinality(M) -> M]
           W(t) == IsInjective(t) /\ Range(t) = M /\ Linked(n, p, t)
           c == CHOOSE t \in L : W(t)
<1>1. s \in L
  BY WalkIsList
<1>2. c \in L /\ W(c)
  <2>1. W(s)
    OBVIOUS
  <2> HIDE DEF L, W
  <2> QED BY <1>1, <2>1
<1>3. Linked(n, p, c)
  BY <1>2
<1> HIDE DEF c
<1>4. Cardinality(M) \in Nat
  <2>1. IsFiniteSet(M)
    BY SentinelAssumption, FS_Subset
  <2> QED BY <2>1, FS_CardinalityType
<1>5. c \in Seq(Item) /\ s \in Seq(Item)
  <2>1. c \in Seq(M)
    BY <1>2, <1>4
  <2> QED BY <2>1
<1>6. s = c
  BY <1>3, <1>5, OneWalk
<1> QED BY <1>6 DEF c

\* Erasing a value that is in the list, on the links.
LEMMA ErasedWalk ==
  ASSUME ReplacerTypeOK, NEW s \in Seq(map), IsWalk(s), NEW v \in map
  PROVE  /\ Erased(s, v) \in Seq(Item)
         /\ IsInjective(Erased(s, v))
         /\ Range(Erased(s, v)) = map \ {v}
         /\ Linked(Unlinked(v).n, Unlinked(v).p, Erased(s, v))
         /\ Unlinked(v).n \in [Node -> Node] /\ Unlinked(v).p \in [Node -> Node]
<1>1. /\ next \in [Node -> Node] /\ prev \in [Node -> Node] /\ map \subseteq Item
      /\ v \in Node
  BY DEF ReplacerTypeOK, Node
<1>2. IsInjective(s) /\ Range(s) = map /\ Linked(next, prev, s)
  BY DEF IsWalk
<1>3. s \in Seq(Item)
  BY <1>1
<1>4. PICK k \in 1 .. Len(s) : v = s[k]
  BY <1>2 DEF Range
<1>5. Len(s) \in Nat
  OBVIOUS
<1>6. Erased(s, v) \in Seq(Item) /\ IsWithout(Erased(s, v), s, k)
  BY <1>2, <1>3, <1>4, <1>5, ErasedElements
<1>7. IsInjective(Erased(s, v)) /\ Range(Erased(s, v)) = map \ {v}
  BY <1>2, <1>3, EraseFromList
<1>8. /\ Unlinked(v).n = [next EXCEPT ![prev[v]] = next[v]]
      /\ Unlinked(v).p = [prev EXCEPT ![next[v]] = prev[v]]
  BY DEF Unlinked
<1>9. Linked([next EXCEPT ![prev[v]] = next[v]], [prev EXCEPT ![next[v]] = prev[v]],
             Erased(s, v))
  BY <1>1, <1>2, <1>3, <1>4, <1>6, UnlinkStep, Zenon
<1>10. Unlinked(v).n \in [Node -> Node] /\ Unlinked(v).p \in [Node -> Node]
  BY <1>1, <1>8
<1> QED BY <1>6, <1>7, <1>8, <1>9, <1>10

\* A list of values whose range is M is a list over M.
LEMMA ListOverRange ==
  ASSUME NEW M, NEW s \in Seq(Item), Range(s) = M
  PROVE  s \in Seq(M)
BY DEF Range

LEMMA InsertStep ==
  ASSUME ReplacerTypeOK, NEW s \in Seq(map), IsWalk(s), NEW v \in Item, Insert(v)
  PROVE  /\ ReplacerTypeOK'
         /\ <<v>> \o Erased(s, v) \in Seq(map')
         /\ IsWalk(<<v>> \o Erased(s, v))'
<1> DEFINE t == Erased(s, v)
           u == <<v>> \o t
           l == IF v \in map THEN Unlinked(v) ELSE [n |-> next, p |-> prev]
<1>1. /\ next \in [Node -> Node] /\ prev \in [Node -> Node] /\ map \subseteq Item
      /\ v \in Node /\ Head0 \in Node
  BY DEF ReplacerTypeOK, Node
<1>2. IsInjective(s) /\ Range(s) = map /\ Linked(next, prev, s) /\ s \in Seq(Item)
  BY <1>1 DEF IsWalk
<1>3. /\ t \in Seq(Item) /\ IsInjective(t) /\ Range(t) = map \ {v}
      /\ Linked(l.n, l.p, t) /\ l.n \in [Node -> Node] /\ l.p \in [Node -> Node]
  <2>1. CASE v \in map
    <3>1. l = Unlinked(v)
      BY <2>1
    <3> HIDE DEF l
    <3> QED BY <2>1, <3>1, ErasedWalk
  <2>2. CASE v \notin map
    <3>1. l.n = next /\ l.p = prev
      BY <2>2
    <3>2. v \notin Range(s)
      BY <1>2, <2>2
    <3>3. t = s
      BY <3>2 DEF Erased
    <3> HIDE DEF l, t
    <3> QED BY <1>1, <1>2, <2>2, <3>1, <3>3
  <2> QED BY <2>1, <2>2
<1>4. /\ next' = [l.n EXCEPT ![v] = l.n[Head0], ![Head0] = v]
      /\ prev' = [l.p EXCEPT ![l.n[Head0]] = v, ![v] = Head0]
      /\ map' = map \cup {v}
      /\ answer' = <<"Insert", {}>>
  BY DEF Insert, Answer
<1> HIDE DEF l, t
<1>5. Linked(next', prev', u)
  BY <1>3, <1>4, PushStep, Zenon
<1>6. u \in Seq(Item) /\ IsInjective(u) /\ Range(u) = map'
  BY <1>3, <1>4, ConsToList
<1>7. next' \in [Node -> Node] /\ prev' \in [Node -> Node]
  <2>1. l.n[Head0] \in Node
    BY <1>1, <1>3
  <2> QED BY <1>1, <1>3, <1>4, <2>1, Zenon
<1> HIDE DEF u
<1>8. ReplacerTypeOK'
  <2>1. map' \subseteq Item /\ answer' \in {"none", "Insert", "Victim", "Erase"} \X SUBSET Item
    BY <1>1, <1>4
  <2> QED BY <1>7, <2>1 DEF ReplacerTypeOK
<1>9. u \in Seq(map')
  BY <1>6, ListOverRange
<1>10. IsWalk(u)'
  BY <1>5, <1>6 DEF IsWalk
<1> QED BY <1>8, <1>9, <1>10 DEF u, t

LEMMA EraseStep ==
  ASSUME ReplacerTypeOK, NEW s \in Seq(map), IsWalk(s), NEW v \in Item, Erase(v)
  PROVE  /\ ReplacerTypeOK'
         /\ Erased(s, v) \in Seq(map')
         /\ IsWalk(Erased(s, v))'
<1> DEFINE t == Erased(s, v)
<1>1. /\ next \in [Node -> Node] /\ prev \in [Node -> Node] /\ map \subseteq Item
  BY DEF ReplacerTypeOK
<1>2. IsInjective(s) /\ Range(s) = map /\ Linked(next, prev, s) /\ s \in Seq(Item)
  BY <1>1 DEF IsWalk
<1>3. map' = map \ {v} /\ answer' = <<"Erase", {v} \cap map>>
  BY DEF Erase, Answer
<1>4. /\ t \in Seq(Item) /\ IsInjective(t) /\ Range(t) = map \ {v}
      /\ Linked(next', prev', t) /\ next' \in [Node -> Node] /\ prev' \in [Node -> Node]
  <2>1. CASE v \in map
    <3>1. next' = Unlinked(v).n /\ prev' = Unlinked(v).p
      BY <2>1 DEF Erase
    <3> QED BY <2>1, <3>1, ErasedWalk
  <2>2. CASE v \notin map
    <3>1. next' = next /\ prev' = prev
      BY <2>2 DEF Erase
    <3>2. v \notin Range(s)
      BY <1>2, <2>2
    <3>3. t = s
      BY <3>2 DEF Erased
    <3> HIDE DEF t
    <3> QED BY <1>1, <1>2, <2>2, <3>1, <3>3
  <2> QED BY <2>1, <2>2
<1> HIDE DEF t
<1>5. ReplacerTypeOK'
  <2>1. map' \subseteq Item /\ answer' \in {"none", "Insert", "Victim", "Erase"} \X SUBSET Item
    BY <1>1, <1>3
  <2> QED BY <1>4, <2>1 DEF ReplacerTypeOK
<1>6. t \in Seq(map')
  BY <1>3, <1>4, ListOverRange
<1>7. IsWalk(t)'
  BY <1>3, <1>4 DEF IsWalk
<1> QED BY <1>5, <1>6, <1>7 DEF t

LEMMA VictimStep ==
  ASSUME ReplacerTypeOK, NEW s \in Seq(map), IsWalk(s), Victim, map # {}
  PROVE  /\ s # <<>>
         /\ ReplacerTypeOK'
         /\ WithoutOldest(s) \in Seq(map')
         /\ IsWalk(WithoutOldest(s))'
         /\ answer' = <<"Victim", {Oldest(s)}>>
<1> DEFINE m == Len(s)
           v == s[m]
           t == WithoutOldest(s)
<1>1. next \in [Node -> Node] /\ prev \in [Node -> Node] /\ map \subseteq Item
  BY DEF ReplacerTypeOK
<1>2. IsInjective(s) /\ Range(s) = map /\ Linked(next, prev, s) /\ s \in Seq(Item)
  BY <1>1 DEF IsWalk
<1>3. s # <<>> /\ m \in Nat /\ m \in 1 .. m
  <2>1. s # <<>>
    BY <1>2 DEF Range
  <2> QED BY <2>1
<1>4. v \in Item /\ v \in map /\ v \in Node /\ Tail0 \in Node /\ Oldest(s) = v
  BY <1>1, <1>3 DEF Node, Oldest
<1>5. NodeAt(s, m) = v /\ NodeAt(s, m + 1) = Tail0
  BY <1>3 DEF NodeAt
<1>6. prev[Tail0] = v /\ next[v] = Tail0
  <2>1. /\ next[NodeAt(s, m)] = NodeAt(s, m + 1)
        /\ prev[NodeAt(s, m + 1)] = NodeAt(s, m)
    BY <1>2, <1>3 DEF Linked
  <2> QED BY <1>5, <2>1
<1>7. /\ t \in Seq(Item) /\ IsInjective(t) /\ Range(t) = map \ {v}
  BY <1>2, <1>3, <1>4, OldestOfList
<1>8. IsWithout(t, s, m)
  BY <1>2, <1>3, OldestIsWithout
<1>9. Linked([next EXCEPT ![prev[v]] = next[v]], [prev EXCEPT ![next[v]] = prev[v]], t)
  BY <1>1, <1>2, <1>3, <1>7, <1>8, UnlinkStep, Zenon
<1> HIDE DEF v, t
<1>10. /\ next' = [next EXCEPT ![prev[v]] = next[v]]
       /\ prev' = [prev EXCEPT ![next[v]] = prev[v]]
       /\ map' = map \ {v}
       /\ answer' = <<"Victim", {v}>>
  BY <1>6 DEF Victim, Answer
<1>11. ReplacerTypeOK'
  <2>1. map' \subseteq Item /\ answer' \in {"none", "Insert", "Victim", "Erase"} \X SUBSET Item
    BY <1>1, <1>4, <1>10
  <2>2. next' \in [Node -> Node] /\ prev' \in [Node -> Node]
    BY <1>1, <1>4, <1>10
  <2> QED BY <2>1, <2>2 DEF ReplacerTypeOK
<1>12. t \in Seq(map')
  BY <1>7, <1>10, ListOverRange
<1>13. IsWalk(t)'
  BY <1>7, <1>9, <1>10 DEF IsWalk
<1> QED BY <1>3, <1>4, <1>10, <1>11, <1>12, <1>13 DEF t

\* The empty list is the walk of an empty map.
LEMMA EmptyWalk ==
  ASSUME NEW s \in Seq(map), IsWalk(s)
  PROVE  map = {} <=> s = <<>>
<1>1. Range(s) = map
  BY DEF IsWalk
<1>2. s = <<>> => Range(s) = {}
  BY DEF Range
<1>3. s # <<>> => s[1] \in Range(s)
  BY DEF Range
<1> QED BY <1>1, <1>2, <1>3

------------------------------------------------------------------------------
\* There is a walk after every call.
Walkable == ReplacerTypeOK /\ \E s \in Seq(map) : IsWalk(s)

LEMMA InitWalk == ReplacerInit => ReplacerTypeOK /\ <<>> \in Seq(map) /\ IsWalk(<<>>)
<1> SUFFICES ASSUME ReplacerInit PROVE ReplacerTypeOK /\ <<>> \in Seq(map) /\ IsWalk(<<>>)
  OBVIOUS
<1>1. ReplacerTypeOK
  BY DEF ReplacerInit, ReplacerTypeOK, Node
<1>2. <<>> \in Seq(map) /\ IsInjective(<<>>) /\ Range(<<>>) = {} /\ map = {}
  BY DEF ReplacerInit, IsInjective, Range
<1>3. /\ next[Head0] = Tail0 /\ prev[Tail0] = Head0
  BY SentinelAssumption DEF ReplacerInit, Node
<1>4. NodeAt(<<>>, 0) = Head0 /\ NodeAt(<<>>, 1) = Tail0 /\ Len(<<>>) = 0
  BY DEF NodeAt
<1>5. \A i \in 0 .. 0 : i = 0 /\ i + 1 = 1
  OBVIOUS
<1>6. Linked(next, prev, <<>>)
  BY <1>3, <1>4, <1>5 DEF Linked
<1> QED BY <1>1, <1>2, <1>6 DEF IsWalk

\* The walk is the abstract order, before a step and after it.
LEMMA OrderIsWalk ==
  ASSUME ReplacerTypeOK, NEW s \in Seq(map), IsWalk(s)
  PROVE  ForwardWalk = s
<1>1. map \in SUBSET Item /\ IsInjective(s) /\ Range(s) = map /\ Linked(next, prev, s)
  BY DEF ReplacerTypeOK, IsWalk
<1> QED BY <1>1, ChosenWalk, Zenon DEF ForwardWalk, Lists, IsWalk

LEMMA OrderIsWalkAfter ==
  ASSUME ReplacerTypeOK', NEW s \in Seq(map'), IsWalk(s)'
  PROVE  ForwardWalk' = s
<1>1. /\ map' \in SUBSET Item /\ IsInjective(s) /\ Range(s) = map'
      /\ Linked(next', prev', s)
  BY DEF ReplacerTypeOK, IsWalk
<1> QED BY <1>1, ChosenWalk, Zenon DEF ForwardWalk, Lists, IsWalk

\* The list operations of LRU are those of the lemmas.
LEMMA SameErased ==
  ASSUME NEW s, NEW v PROVE Abstract!Erased(s, v) = Erased(s, v)
BY DEF Abstract!Erased, Abstract!Range, Erased, Range

LEMMA SameInserted ==
  ASSUME NEW s, NEW v PROVE Abstract!Inserted(s, v) = <<v>> \o Erased(s, v)
BY SameErased DEF Abstract!Inserted

LEMMA SameEnds ==
  ASSUME NEW s
  PROVE  /\ Abstract!WithoutOldest(s) = WithoutOldest(s)
         /\ Abstract!Oldest(s) = Oldest(s)
BY DEF Abstract!WithoutOldest, Abstract!Oldest, WithoutOldest, Oldest

\* Every step keeps the walk, and is a step of the abstract replacer.
LEMMA StepSimulates ==
  ASSUME Walkable, [ReplacerNext]_replacerVars
  PROVE  Walkable' /\ [Abstract!Next]_<<ForwardWalk, answer>>
<1>1. PICK s \in Seq(map) : IsWalk(s)
  BY DEF Walkable
<1>2. ReplacerTypeOK /\ ForwardWalk = s
  BY <1>1, OrderIsWalk DEF Walkable
<1>3. CASE UNCHANGED replacerVars
  <2>1. ReplacerTypeOK' /\ s \in Seq(map') /\ IsWalk(s)'
    BY <1>1, <1>2, <1>3 DEF replacerVars, ReplacerTypeOK, IsWalk
  <2>2. ForwardWalk' = s
    BY <2>1, OrderIsWalkAfter
  <2>3. UNCHANGED <<ForwardWalk, answer>>
    BY <1>2, <1>3, <2>2 DEF replacerVars
  <2>4. Walkable'
    BY <2>1 DEF Walkable
  <2> QED BY <2>3, <2>4
<1>4. CASE Victim /\ map = {}
  <2>1. /\ UNCHANGED <<next, prev, map>> /\ answer' = <<"Victim", {}>> /\ s = <<>>
    BY <1>1, <1>4, EmptyWalk DEF Victim, Answer
  <2>2. ReplacerTypeOK' /\ s \in Seq(map') /\ IsWalk(s)'
    BY <1>1, <1>2, <2>1 DEF ReplacerTypeOK, IsWalk
  <2>3. ForwardWalk' = s
    BY <2>2, OrderIsWalkAfter
  <2>4. Abstract!Victim
    BY <1>2, <2>1, <2>3 DEF Abstract!Victim, Abstract!Answer
  <2>5. Walkable'
    BY <2>2 DEF Walkable
  <2> QED BY <2>4, <2>5 DEF Abstract!Next
<1>5. CASE Victim /\ map # {}
  <2>1. /\ s # <<>> /\ ReplacerTypeOK' /\ WithoutOldest(s) \in Seq(map') /\ IsWalk(WithoutOldest(s))'
        /\ answer' = <<"Victim", {Oldest(s)}>>
    BY <1>1, <1>2, <1>5, VictimStep
  <2>2. ForwardWalk' = WithoutOldest(s)
    BY <2>1, OrderIsWalkAfter
  <2>3. Abstract!Victim
    BY <1>2, <2>1, <2>2, SameEnds DEF Abstract!Victim, Abstract!Answer
  <2>4. Walkable'
    BY <2>1 DEF Walkable
  <2> QED BY <2>3, <2>4 DEF Abstract!Next
<1>6. ASSUME NEW v \in Item, Insert(v)
      PROVE  Walkable' /\ Abstract!Next
  <2> DEFINE u == <<v>> \o Erased(s, v)
  <2>1. ReplacerTypeOK' /\ u \in Seq(map') /\ IsWalk(u)'
    BY <1>1, <1>2, <1>6, InsertStep
  <2>2. ForwardWalk' = u
    BY <2>1, OrderIsWalkAfter, Zenon
  <2>3. Abstract!Insert(v)
    BY <1>2, <1>6, <2>2, SameInserted, Zenon DEF Abstract!Insert, Abstract!Answer, Insert, Answer
  <2>4. Walkable'
    BY <2>1, Zenon DEF Walkable
  <2> QED BY <2>3, <2>4 DEF Abstract!Next
<1>7. ASSUME NEW v \in Item, Erase(v)
      PROVE  Walkable' /\ Abstract!Next
  <2> DEFINE t == Erased(s, v)
  <2>1. ReplacerTypeOK' /\ t \in Seq(map') /\ IsWalk(t)'
    BY <1>1, <1>2, <1>7, EraseStep
  <2>2. ForwardWalk' = t
    BY <2>1, OrderIsWalkAfter
  <2>3. Abstract!Range(s) = map
    BY <1>1 DEF Abstract!Range, IsWalk, Range
  <2>4. answer' = <<"Erase", {v} \cap map>>
    BY <1>7 DEF Erase, Answer
  <2>5. Abstract!Erase(v)
    BY <1>2, <2>2, <2>3, <2>4, SameErased DEF Abstract!Erase, Abstract!Answer
  <2>6. Walkable'
    BY <2>1 DEF Walkable
  <2> QED BY <2>5, <2>6 DEF Abstract!Next
<1> QED BY <1>3, <1>4, <1>5, <1>6, <1>7 DEF ReplacerNext

\* lru_replacer.cpp: the list and the map agree after every call, for any
\* finite set of values.
THEOREM ListAlwaysMatches == ReplacerSpec => []ListMatchesMap
<1>1. ReplacerInit => Walkable
  BY InitWalk, Zenon DEF Walkable
<1>2. Walkable /\ [ReplacerNext]_replacerVars => Walkable'
  BY StepSimulates
<1>3. Walkable => ListMatchesMap
  <2> SUFFICES ASSUME Walkable PROVE ListMatchesMap
    OBVIOUS
  <2>1. PICK s \in Seq(map) : IsWalk(s)
    BY DEF Walkable
  <2>2. s \in Lists
    BY <2>1, WalkIsList DEF IsWalk, Lists
  <2> QED BY <2>1, <2>2 DEF ListMatchesMap, Walkable
<1> QED BY <1>1, <1>2, <1>3, PTL DEF ReplacerSpec

\* lru_replacer.cpp implements the replacer of include/buffer/replacer.h, for
\* any finite set of values: Victim always gives out the value whose last
\* insertion lies furthest back.
THEOREM ReplacerImplementsLRU == ReplacerSpec => ImplementsLRU
<1>1. ReplacerInit => Walkable /\ Abstract!Init
  <2> SUFFICES ASSUME ReplacerInit PROVE Walkable /\ Abstract!Init
    OBVIOUS
  <2>1. ReplacerTypeOK /\ <<>> \in Seq(map) /\ IsWalk(<<>>)
    BY InitWalk
  <2>2. ForwardWalk = <<>>
    BY <2>1, OrderIsWalk, Zenon
  <2> QED BY <2>1, <2>2, Zenon DEF Walkable, Abstract!Init, ReplacerInit
<1>2. Walkable /\ [ReplacerNext]_replacerVars => Walkable' /\ [Abstract!Next]_<<ForwardWalk, answer>>
  BY StepSimulates
<1> QED BY <1>1, <1>2, PTL DEF ReplacerSpec, ImplementsLRU, Abstract!Spec

------------------------------------------------------------------------------
\* The threads that stand behind writer_entered_.
Writers == {t \in Thread : at[t] \in {"drain", "drain_wait", "writing"}}

\* writer_entered_ stands for one thread, which writes only when the count is 0
\* and sleeps only when it is not; a thread sleeps on reader_ only if the flag
\* is set.
FlagInv ==
  /\ \A t, u \in Writers : t = u
  /\ writer_entered_ <=> Writers # {}
  /\ \A t \in Thread : at[t] = "writing" => reader_count_ = 0
  /\ \A t \in Thread : at[t] = "drain_wait" => reader_count_ > 0

SleepInv == Cardinality(Thread) <= MaxReaders => (OnReader # {} => writer_entered_)

LatchInv == LatchTypeOK /\ CountIsExact /\ FlagInv /\ SleepInv

\* The count is a number and 0 means that there is no reader.
LEMMA CountFacts ==
  ASSUME LatchTypeOK, CountIsExact
  PROVE  /\ IsFiniteSet(Readers)
         /\ reader_count_ = 0 <=> Readers = {}
         /\ \A t \in Thread \ Readers : reader_count_ < Cardinality(Thread)
<1>1. Readers \subseteq Thread /\ IsFiniteSet(Thread)
  BY ReadersAssumption DEF Readers
<1>2. IsFiniteSet(Readers)
  BY <1>1, FS_Subset
<1>3. Cardinality(Readers) = 0 <=> Readers = {}
  BY <1>2, FS_EmptySet
<1>4. ASSUME NEW t \in Thread \ Readers PROVE reader_count_ < Cardinality(Thread)
  <2>1. Readers \cup {t} \subseteq Thread /\ t \notin Readers
    BY <1>1
  <2>2. Cardinality(Readers \cup {t}) = Cardinality(Readers) + 1
    BY <1>2, <2>1, FS_AddElement, Zenon
  <2>3. Cardinality(Readers \cup {t}) <= Cardinality(Thread)
    BY <1>1, <2>1, FS_Subset
  <2>4. Cardinality(Thread) \in Nat /\ Cardinality(Readers) \in Nat
    BY <1>1, <1>2, FS_CardinalityType
  <2> QED BY <2>2, <2>3, <2>4 DEF CountIsExact
<1> QED BY <1>2, <1>3, <1>4 DEF CountIsExact

\* A step that neither adds nor removes a reader keeps the count exact.
LEMMA SameReaders ==
  ASSUME CountIsExact, reader_count_' = reader_count_, Readers' = Readers
  PROVE  CountIsExact'
BY DEF CountIsExact

\* Where threads go when some are woken: those that stay, stay, and a woken
\* thread goes to the test it waited at.
LEMMA WakeMoves ==
  ASSUME LatchTypeOK, NEW S \in SUBSET Thread, NEW t \in Thread, NEW p \in Place,
         WakeAndGo(S, t, p)
  PROVE  /\ at' \in [Thread -> Place]
         /\ at'[t] = p
         /\ \A u \in Thread \ {t} :
              \/ at'[u] = at[u]
              \/ u \in S /\ at[u] = "wlock_wait" /\ at'[u] = "wlock"
              \/ u \in S /\ at[u] = "rlock_wait" /\ at'[u] = "rlock"
              \/ u \in S /\ at[u] = "drain_wait" /\ at'[u] = "drain"
         /\ \A u \in S \ {t} : at'[u] \notin {"wlock_wait", "rlock_wait", "drain_wait"}
<1>1. ASSUME NEW q \in Place
      PROVE  /\ Woken(q) \in Place
             /\ Woken(q) \notin {"wlock_wait", "rlock_wait", "drain_wait"}
             /\ \/ Woken(q) = q
                \/ q = "wlock_wait" /\ Woken(q) = "wlock"
                \/ q = "rlock_wait" /\ Woken(q) = "rlock"
                \/ q = "drain_wait" /\ Woken(q) = "drain"
  BY DEF Woken, Place
<1>2. \A u \in Thread : at[u] \in Place
  BY DEF LatchTypeOK
<1> QED BY <1>1, <1>2 DEF WakeAndGo

\* Only t moves when nobody is woken.
LEMMA GoMoves ==
  ASSUME LatchTypeOK, NEW t \in Thread, NEW p \in Place, WakeAndGo({}, t, p)
  PROVE  /\ at' \in [Thread -> Place]
         /\ at'[t] = p
         /\ \A u \in Thread \ {t} : at'[u] = at[u]
BY DEF WakeAndGo, LatchTypeOK

\* The initial state.
LEMMA InitLatchInv == LatchInit => LatchInv
<1> SUFFICES ASSUME LatchInit PROVE LatchInv
  OBVIOUS
<1>1. Readers = {} /\ Writers = {} /\ OnReader = {}
  BY DEF LatchInit, Readers, Writers, OnReader
<1>2. Cardinality({}) = 0
  BY FS_EmptySet
<1>3. LatchTypeOK
  BY Zenon DEF LatchInit, LatchTypeOK, Place
<1>4. CountIsExact
  BY <1>1, <1>2 DEF LatchInit, CountIsExact
<1>5. FlagInv
  BY <1>1 DEF LatchInit, FlagInv
<1>6. SleepInv
  BY <1>1 DEF SleepInv
<1> QED BY <1>3, <1>4, <1>5, <1>6 DEF LatchInv

\* A step of t that changes no shared variable and moves t between places where
\* it neither reads nor stands behind the flag.
LEMMA OutsideKeeps ==
  ASSUME LatchInv, NEW t \in Thread, NEW p \in {"wlock", "rlock", "wlock_wait", "rlock_wait"},
         at[t] \in {"out", "wlock", "rlock", "wlock_wait", "rlock_wait"},
         p \in {"wlock_wait", "rlock_wait"} => writer_entered_ \/ reader_count_ = MaxReaders,
         WakeAndGo({}, t, p), UNCHANGED <<reader_count_, writer_entered_>>
  PROVE  LatchInv'
<1>0. LatchTypeOK /\ p \in Place
  BY DEF LatchInv, Place
<1>1. /\ at' \in [Thread -> Place] /\ at'[t] = p
      /\ \A u \in Thread \ {t} : at'[u] = at[u]
  BY <1>0, GoMoves
<1>2. Readers' = Readers /\ Writers' = Writers
  BY <1>1 DEF Readers, Writers
<1>3. LatchTypeOK'
  BY <1>1 DEF LatchInv, LatchTypeOK
<1>4. CountIsExact'
  BY <1>2, SameReaders DEF LatchInv
<1>5. FlagInv'
  BY <1>1, <1>2 DEF LatchInv, FlagInv
<1>6. SleepInv'
  <2> SUFFICES ASSUME Cardinality(Thread) <= MaxReaders, OnReader' # {} PROVE writer_entered_
    BY DEF SleepInv
  <2>1. reader_count_ # MaxReaders
    <3>1. t \notin Readers
      BY DEF Readers
    <3>2. reader_count_ < Cardinality(Thread)
      BY <3>1, CountFacts DEF LatchInv
    <3>3. Cardinality(Thread) \in Nat
      BY ReadersAssumption, FS_CardinalityType
    <3> QED BY <3>2, <3>3, ReadersAssumption DEF LatchInv, LatchTypeOK
  <2>2. CASE p \in {"wlock_wait", "rlock_wait"}
    BY <2>1, <2>2
  <2>3. CASE p \notin {"wlock_wait", "rlock_wait"}
    <3>1. OnReader # {}
      BY <1>1, <2>3 DEF OnReader
    <3> QED BY <3>1 DEF LatchInv, SleepInv
  <2> QED BY <2>2, <2>3
<1> QED BY <1>3, <1>4, <1>5, <1>6 DEF LatchInv

\* Moves of the writer: it enters when nobody has, and then writes or sleeps by
\* the count.
LEMMA WriterKeeps ==
  ASSUME LatchInv, NEW t \in Thread,
         \/ at[t] = "wlock" /\ ~writer_entered_
         \/ at[t] = "drain",
         writer_entered_' = TRUE, reader_count_' = reader_count_,
         WakeAndGo({}, t, IF reader_count_ > 0 THEN "drain_wait" ELSE "writing")
  PROVE  LatchInv'
<1> DEFINE p == IF reader_count_ > 0 THEN "drain_wait" ELSE "writing"
<1>0. p \in Place /\ p \in {"drain_wait", "writing"}
  BY DEF Place
<1>1. /\ at' \in [Thread -> Place] /\ at'[t] = p
      /\ \A u \in Thread \ {t} : at'[u] = at[u]
  BY <1>0, GoMoves DEF LatchInv
<1>2. Readers' = Readers
  BY <1>0, <1>1 DEF Readers
<1>3. Writers \subseteq {t}
  BY DEF LatchInv, FlagInv, Writers
<1>4. Writers' = {t}
  BY <1>0, <1>1, <1>3 DEF Writers
<1>5. LatchTypeOK'
  BY <1>1 DEF LatchInv, LatchTypeOK
<1>6. CountIsExact'
  BY <1>2, SameReaders DEF LatchInv
<1>7. FlagInv'
  <2>1. \A u \in Thread : at'[u] \in {"drain", "drain_wait", "writing"} => u = t
    BY <1>4 DEF Writers
  <2>2. reader_count_ \in Nat
    BY DEF LatchInv, LatchTypeOK
  <2>3. \A u \in Thread : at'[u] = "writing" => reader_count_ = 0
    BY <1>1, <2>1, <2>2
  <2>4. \A u \in Thread : at'[u] = "drain_wait" => reader_count_ > 0
    BY <1>1, <2>1, <2>2
  <2> QED BY <1>4, <2>3, <2>4 DEF FlagInv
<1>8. SleepInv'
  BY DEF SleepInv
<1> QED BY <1>5, <1>6, <1>7, <1>8 DEF LatchInv

\* WUnlock drops the flag and leaves nobody asleep on reader_.
LEMMA WUnlockKeeps ==
  ASSUME LatchInv, NEW t \in Thread, WUnlock(t)
  PROVE  LatchInv'
<1>0. OnReader \in SUBSET Thread /\ "out" \in Place /\ WakeAndGo(OnReader, t, "out")
  BY DEF OnReader, Place, WUnlock
<1>a. /\ at' \in [Thread -> Place]
      /\ at'[t] = "out"
      /\ \A u \in Thread \ {t} :
           \/ at'[u] = at[u]
           \/ u \in OnReader /\ at[u] = "wlock_wait" /\ at'[u] = "wlock"
           \/ u \in OnReader /\ at[u] = "rlock_wait" /\ at'[u] = "rlock"
           \/ u \in OnReader /\ at[u] = "drain_wait" /\ at'[u] = "drain"
      /\ \A u \in OnReader \ {t} : at'[u] \notin {"wlock_wait", "rlock_wait", "drain_wait"}
  <2>1. LatchTypeOK
    BY DEF LatchInv
  <2> QED BY <1>0, <2>1, WakeMoves
<1>1. /\ at' \in [Thread -> Place] /\ at'[t] = "out"
      /\ \A u \in Thread \ {t} :
           \/ at'[u] = at[u]
           \/ at[u] = "wlock_wait" /\ at'[u] = "wlock"
           \/ at[u] = "rlock_wait" /\ at'[u] = "rlock"
      /\ \A u \in OnReader \ {t} : at'[u] \notin {"wlock_wait", "rlock_wait"}
  BY <1>a DEF OnReader
<1>2. Readers' = Readers
  BY <1>1 DEF Readers, WUnlock
<1>3. Writers' = {}
  BY <1>1 DEF Writers, WUnlock, LatchInv, FlagInv
<1>4. OnReader' = {}
  BY <1>1 DEF OnReader
<1>5. LatchTypeOK'
  BY <1>1, Zenon DEF LatchInv, LatchTypeOK, WUnlock
<1>6. CountIsExact'
  BY <1>2, SameReaders DEF LatchInv, WUnlock
<1>7. FlagInv'
  BY <1>3 DEF FlagInv, WUnlock, Writers
<1>8. SleepInv'
  BY <1>4 DEF SleepInv
<1> QED BY <1>5, <1>6, <1>7, <1>8 DEF LatchInv

\* A reader comes in: nobody has entered, and the count grows with the readers.
LEMMA ReaderEnters ==
  ASSUME LatchInv, NEW t \in Thread, at[t] = "rlock", ~writer_entered_,
         WakeAndGo({}, t, "reading"), reader_count_' = reader_count_ + 1,
         writer_entered_' = writer_entered_
  PROVE  LatchInv'
<1>0. LatchTypeOK /\ "reading" \in Place
  BY DEF LatchInv, Place
<1>1. /\ at' \in [Thread -> Place] /\ at'[t] = "reading"
      /\ \A u \in Thread \ {t} : at'[u] = at[u]
  BY <1>0, GoMoves
<1>2. Readers' = Readers \cup {t} /\ t \notin Readers
  BY <1>1 DEF Readers
<1>3. Writers' = {}
  BY <1>1 DEF Writers, LatchInv, FlagInv
<1>4. OnReader' \subseteq OnReader
  BY <1>1 DEF OnReader
<1>5. LatchTypeOK'
  BY <1>0, <1>1 DEF LatchTypeOK
<1>6. CountIsExact'
  <2>1. IsFiniteSet(Readers)
    BY CountFacts DEF LatchInv
  <2>2. Cardinality(Readers \cup {t}) = Cardinality(Readers) + 1
    BY <1>2, <2>1, FS_AddElement
  <2> QED BY <1>2, <2>2 DEF CountIsExact, LatchInv
<1>7. FlagInv'
  BY <1>3 DEF FlagInv, Writers
<1>8. SleepInv'
  BY <1>4 DEF SleepInv, LatchInv
<1> QED BY <1>5, <1>6, <1>7, <1>8 DEF LatchInv

\* A reader leaves and wakes the threads of S: the writer when it was the last
\* one, some waiter on reader_, or nobody.
LEMMA ReaderLeaves ==
  ASSUME LatchInv, NEW t \in Thread, at[t] = "reading", NEW S \in SUBSET Thread,
         WakeAndGo(S, t, "out"), reader_count_' = reader_count_ - 1,
         writer_entered_' = writer_entered_,
         writer_entered_ /\ reader_count_ - 1 = 0 => OnWriter \subseteq S
  PROVE  LatchInv'
<1>0. LatchTypeOK /\ "out" \in Place
  BY DEF LatchInv, Place
<1>1. /\ at' \in [Thread -> Place]
      /\ at'[t] = "out"
      /\ \A u \in Thread \ {t} :
           \/ at'[u] = at[u]
           \/ u \in S /\ at[u] = "wlock_wait" /\ at'[u] = "wlock"
           \/ u \in S /\ at[u] = "rlock_wait" /\ at'[u] = "rlock"
           \/ u \in S /\ at[u] = "drain_wait" /\ at'[u] = "drain"
      /\ \A u \in S \ {t} : at'[u] \notin {"wlock_wait", "rlock_wait", "drain_wait"}
  BY <1>0, WakeMoves, Zenon
<1>2. Readers' = Readers \ {t} /\ t \in Readers
  BY <1>1 DEF Readers
<1>3. Writers' = Writers
  BY <1>1 DEF Writers
<1>4. OnReader' \subseteq OnReader
  BY <1>1 DEF OnReader
<1>5. CountIsExact'
  <2>1. IsFiniteSet(Readers)
    BY CountFacts DEF LatchInv
  <2>2. Cardinality(Readers \ {t}) = Cardinality(Readers) - 1
    BY <1>2, <2>1, FS_RemoveElement
  <2> QED BY <1>2, <2>2 DEF CountIsExact, LatchInv
<1>6. reader_count_ \in Nat /\ reader_count_ # 0
  BY <1>2, CountFacts DEF LatchInv, LatchTypeOK
<1>7. LatchTypeOK'
  BY <1>0, <1>1, <1>6 DEF LatchTypeOK
<1>8. FlagInv'
  <2>1. \A u \in Thread : at'[u] # "writing"
    BY <1>1, <1>6 DEF LatchInv, FlagInv
  <2>2. ASSUME NEW u \in Thread, at'[u] = "drain_wait" PROVE reader_count_ - 1 > 0
    <3>1. u # t /\ u \notin S /\ at[u] = "drain_wait"
      BY <1>1, <2>2, Zenon
    <3>2. writer_entered_ /\ u \in OnWriter
      BY <3>1 DEF LatchInv, FlagInv, Writers, OnWriter
    <3>3. reader_count_ - 1 # 0
      BY <3>1, <3>2
    <3> QED BY <1>6, <3>3
  <2> QED BY <1>3, <2>1, <2>2 DEF FlagInv, LatchInv
<1>9. SleepInv'
  BY <1>4 DEF SleepInv, LatchInv
<1> QED BY <1>5, <1>7, <1>8, <1>9 DEF LatchInv

\* RUnlock, by whom it notifies.
LEMMA RUnlockKeeps ==
  ASSUME LatchInv, NEW t \in Thread, RUnlock(t)
  PROVE  LatchInv'
<1>0. /\ at[t] = "reading" /\ reader_count_' = reader_count_ - 1
      /\ writer_entered_' = writer_entered_
      /\ OnWriter \subseteq Thread /\ OnReader \subseteq Thread
  BY DEF RUnlock, OnWriter, OnReader
<1>1. CASE writer_entered_ /\ reader_count_ - 1 = 0
  <2>1. NotifyOne(OnWriter, t, "out")
    BY <1>0, <1>1 DEF RUnlock
  <2>2. \A u, v \in OnWriter : u = v
    BY DEF OnWriter, Writers, LatchInv, FlagInv
  <2>3. \E S \in SUBSET Thread : OnWriter \subseteq S /\ WakeAndGo(S, t, "out")
    <3>1. CASE OnWriter = {} /\ WakeAndGo({}, t, "out")
      BY <3>1
    <3>2. ASSUME NEW u \in OnWriter, WakeAndGo({u}, t, "out")
          PROVE  \E S \in SUBSET Thread : OnWriter \subseteq S /\ WakeAndGo(S, t, "out")
      <4>1. OnWriter \subseteq {u} /\ {u} \in SUBSET Thread
        BY <1>0, <2>2
      <4> QED BY <3>2, <4>1
    <3> QED BY <2>1, <3>1, <3>2, Zenon DEF NotifyOne
  <2> QED BY <1>0, <2>3, ReaderLeaves
<1>2. CASE ~(writer_entered_ /\ reader_count_ - 1 = 0)
  <2>1. \E S \in SUBSET Thread : WakeAndGo(S, t, "out")
    <3>1. NotifyOne(OnReader, t, "out") \/ WakeAndGo({}, t, "out")
      BY <1>0, <1>2 DEF RUnlock
    <3>2. {} \in SUBSET Thread /\ \A u \in OnReader : {u} \in SUBSET Thread
      BY <1>0
    <3> QED BY <3>1, <3>2, Zenon DEF NotifyOne
  <2> QED BY <1>0, <1>2, <2>1, ReaderLeaves
<1> QED BY <1>1, <1>2

\* wait() returns by itself.
LEMMA SpuriousKeeps ==
  ASSUME LatchInv, NEW t \in Thread, SpuriousWakeup(t)
  PROVE  LatchInv'
<1>0. /\ UNCHANGED <<reader_count_, writer_entered_>>
      /\ at[t] \in {"wlock_wait", "rlock_wait", "drain_wait"}
      /\ WakeAndGo({}, t, Woken(at[t]))
  BY DEF SpuriousWakeup, OnReader, OnWriter
<1>1. CASE at[t] = "wlock_wait"
  <2>1. WakeAndGo({}, t, "wlock")
    BY <1>0, <1>1 DEF Woken
  <2> QED BY <1>0, <1>1, <2>1, OutsideKeeps
<1>2. CASE at[t] = "rlock_wait"
  <2>1. WakeAndGo({}, t, "rlock")
    BY <1>0, <1>2 DEF Woken
  <2> QED BY <1>0, <1>2, <2>1, OutsideKeeps
<1>3. CASE at[t] = "drain_wait"
  <2>1. WakeAndGo({}, t, "drain") /\ "drain" \in Place /\ LatchTypeOK
    BY <1>0, <1>3 DEF Woken, Place, LatchInv
  <2>2. /\ at' \in [Thread -> Place] /\ at'[t] = "drain"
        /\ \A u \in Thread \ {t} : at'[u] = at[u]
    BY <2>1, GoMoves
  <2>3. Readers' = Readers /\ Writers' = Writers /\ OnReader' = OnReader
    BY <1>3, <2>2 DEF Readers, Writers, OnReader
  <2>4. LatchTypeOK'
    BY <1>0, <2>1, <2>2 DEF LatchTypeOK
  <2>5. CountIsExact'
    BY <1>0, <2>3, SameReaders DEF LatchInv
  <2>6. FlagInv'
    BY <1>0, <2>2, <2>3 DEF LatchInv, FlagInv
  <2>7. SleepInv'
    BY <1>0, <2>3 DEF LatchInv, SleepInv
  <2> QED BY <2>4, <2>5, <2>6, <2>7 DEF LatchInv
<1> QED BY <1>0, <1>1, <1>2, <1>3

\* Every step keeps the invariant.
LEMMA NextLatchInv == LatchInv /\ [LatchNext]_latchVars => LatchInv'
<1> SUFFICES ASSUME LatchInv, [LatchNext]_latchVars PROVE LatchInv'
  OBVIOUS
<1>1. ASSUME NEW t \in Thread, Call(t) PROVE LatchInv'
  <2>1. at[t] = "out" /\ UNCHANGED <<reader_count_, writer_entered_>>
    BY <1>1 DEF Call
  <2>2. PICK p \in {"wlock", "rlock"} : WakeAndGo({}, t, p)
    BY <1>1 DEF Call
  <2> QED BY <2>1, <2>2, OutsideKeeps
<1>2. ASSUME NEW t \in Thread, WLock(t) PROVE LatchInv'
  <2>1. CASE writer_entered_
    <3>1. /\ at[t] = "wlock" /\ WakeAndGo({}, t, "wlock_wait")
          /\ UNCHANGED <<reader_count_, writer_entered_>>
      BY <1>2, <2>1 DEF WLock
    <3> QED BY <2>1, <3>1, OutsideKeeps
  <2>2. CASE ~writer_entered_
    <3>1. /\ at[t] = "wlock" /\ writer_entered_' = TRUE /\ reader_count_' = reader_count_
          /\ WakeAndGo({}, t, IF reader_count_ > 0 THEN "drain_wait" ELSE "writing")
      BY <1>2, <2>2 DEF WLock
    <3> QED BY <2>2, <3>1, WriterKeeps
  <2> QED BY <2>1, <2>2
<1>3. ASSUME NEW t \in Thread, Drain(t) PROVE LatchInv'
  <2>1. /\ at[t] = "drain" /\ UNCHANGED <<reader_count_, writer_entered_>>
        /\ WakeAndGo({}, t, IF reader_count_ > 0 THEN "drain_wait" ELSE "writing")
    BY <1>3 DEF Drain
  <2>2. writer_entered_ = TRUE
    BY <2>1 DEF LatchInv, LatchTypeOK, FlagInv, Writers
  <2> QED BY <2>1, <2>2, WriterKeeps
<1>4. ASSUME NEW t \in Thread, WUnlock(t) PROVE LatchInv'
  BY <1>4, WUnlockKeeps
<1>5. ASSUME NEW t \in Thread, RLock(t) PROVE LatchInv'
  <2>1. CASE writer_entered_ \/ reader_count_ = MaxReaders
    <3>1. /\ at[t] = "rlock" /\ WakeAndGo({}, t, "rlock_wait")
          /\ UNCHANGED <<reader_count_, writer_entered_>>
      BY <1>5, <2>1 DEF RLock
    <3> QED BY <2>1, <3>1, OutsideKeeps
  <2>2. CASE ~(writer_entered_ \/ reader_count_ = MaxReaders)
    <3>1. /\ at[t] = "rlock" /\ WakeAndGo({}, t, "reading") /\ ~writer_entered_
          /\ reader_count_' = reader_count_ + 1 /\ writer_entered_' = writer_entered_
      BY <1>5, <2>2 DEF RLock
    <3> QED BY <3>1, ReaderEnters
  <2> QED BY <2>1, <2>2
<1>6. ASSUME NEW t \in Thread, RUnlock(t) PROVE LatchInv'
  BY <1>6, RUnlockKeeps
<1>7. ASSUME NEW t \in Thread, SpuriousWakeup(t) PROVE LatchInv'
  BY <1>7, SpuriousKeeps
<1>8. CASE UNCHANGED latchVars
  BY <1>8 DEF latchVars, LatchInv, LatchTypeOK, CountIsExact, Readers, FlagInv, Writers, SleepInv, OnReader
<1> QED BY <1>1, <1>2, <1>3, <1>4, <1>5, <1>6, <1>7, <1>8 DEF LatchNext, Step

\* The invariant holds throughout.
THEOREM LatchInductive == LatchSpec => []LatchInv
BY InitLatchInv, NextLatchInv, PTL DEF LatchSpec

\* The variables keep their types.
THEOREM LatchTypeCorrect == LatchSpec => []LatchTypeOK
<1>1. LatchInv => LatchTypeOK
  BY DEF LatchInv
<1> QED BY <1>1, LatchInductive, PTL

\* reader_count_ counts the readers: no RUnlock takes it below zero.
THEOREM CountCorrect == LatchSpec => []CountIsExact
<1>1. LatchInv => CountIsExact
  BY DEF LatchInv
<1> QED BY <1>1, LatchInductive, PTL

\* A writer is alone: it is the only thread behind the flag, and it writes with
\* the count at 0, which then says that there is no reader.
THEOREM MutualExclusion == LatchSpec => []Exclusion
<1>1. LatchInv => Exclusion
  <2> SUFFICES ASSUME LatchInv, NEW t \in Thread, NEW u \in Thread, at[t] = "writing", t # u
               PROVE  at[u] \notin {"reading", "writing"}
    BY DEF Exclusion
  <2>1. at[u] # "writing"
    BY DEF LatchInv, FlagInv, Writers
  <2>2. Readers = {}
    BY CountFacts DEF LatchInv, FlagInv
  <2> QED BY <2>1, <2>2 DEF Readers
<1> QED BY <1>1, LatchInductive, PTL

\* No wake-up is lost: who sleeps on reader_ has a writer that will notify, and a
\* writer that sleeps has a reader that will.
THEOREM WakeupsArrive == LatchSpec => []NoLostWakeup
<1>1. LatchInv => NoLostWakeup
  <2> SUFFICES ASSUME LatchInv, Cardinality(Thread) <= MaxReaders
               PROVE  /\ OnReader # {} =>
                           \E t \in Thread : at[t] \in {"drain", "drain_wait", "writing"}
                      /\ OnWriter # {} => Readers # {}
    BY DEF NoLostWakeup
  <2>1. OnReader # {} => Writers # {}
    BY DEF LatchInv, SleepInv, FlagInv
  <2>2. OnWriter # {} => reader_count_ > 0
    BY DEF OnWriter, LatchInv, FlagInv
  <2>3. reader_count_ > 0 => Readers # {}
    BY CountFacts DEF LatchInv, LatchTypeOK
  <2> QED BY <2>1, <2>2, <2>3 DEF Writers
<1> QED BY <1>1, LatchInductive, PTL
------------------------------------------------------------------------------
SqlState ==
  [connected : BOOLEAN, sessions : Nat, explicit : BOOLEAN, joined : BOOLEAN,
   writes : {"no", "insert", "delete", "update", "done"}]

Past ==
  [updates : Nat, refused : SUBSET Key, spoiled : BOOLEAN, emptied : BOOLEAN,
   closed : BOOLEAN]

\* The parts of an index, and the one of a cursor that matters here.
IndexShape(ix) ==
  /\ ix = [map |-> ix.map, header |-> ix.header]
  /\ ix.map \in [Key -> Rid \cup {InvalidRid, None}]

CursorShape(c) == "given" \in DOMAIN c

\* The variables' types.
Types ==
  /\ rows \in [Rid -> Row \cup {None}]
  /\ marked \subseteq Rid
  /\ IndexShape(index)
  /\ txn \in {None} \cup [deletes : SUBSET Rid]
  /\ DOMAIN cursors = Stmt
  /\ sql \in SqlState
  /\ past \in Past

Deletes == sql.writes \in {"delete", "update"}

\* The transaction knows of all marks, and there is one where marks are made.
TxnInv ==
  /\ ~Deletes => marked = {} /\ cursors[Writer] = None
  /\ marked # {} => txn # None
  /\ txn # None => txn.deletes = marked
  /\ Deletes /\ cursors[Writer] # None => txn # None

\* Where a statement may find no transaction.
NullInv ==
  /\ sql.joined /\ txn = None => past.closed
  /\ sql.writes = "no" /\ sql.joined => sql.explicit
  /\ sql.writes = "insert" /\ txn = None => sql.explicit
  /\ sql.writes # "no" => sql.joined
  /\ NullTransactionExplained

\* The rows a statement has collected are still there when it comes to them.
GivenInv ==
  LET c == cursors[Writer] IN
  c # None => CursorShape(c) /\ \A r \in c.given : Visible(r)

MarkedInv == \A r \in marked : rows[r] # None

IInv == Types /\ TxnInv /\ NullInv /\ GivenInv /\ MarkedInv /\ IndexMatchesHeap
------------------------------------------------------------------------------
LEMMA KeyOfRow == ASSUME NEW row \in Row PROVE KeyOf(row) \in Key
BY TableAssumption DEF KeyOf, Key, Row

LEMMA InitIInv == Init => IInv
<1> SUFFICES ASSUME Init PROVE IInv
  OBVIOUS
<1>1. Types
  BY DEF Init, Types, IndexShape, SqlState, Past
<1>2. TxnInv /\ GivenInv /\ MarkedInv
  BY TableAssumption DEF Init, TxnInv, GivenInv, MarkedInv, Deletes
<1>3. NullInv
  BY DEF Init, NullInv, NullTransactionExplained
<1>4. IndexMatchesHeap
  BY DEF Init, IndexMatchesHeap, EntriesNameRows, IndexComplete, Visible
<1> QED BY <1>1, <1>2, <1>3, <1>4 DEF IInv

\* What the index holds after an insertion and after a removal.
Entered(ix, new, key, rid) ==
  \A k \in Key : new.map[k] = IF k = key /\ ix.map[key] = None THEN rid ELSE ix.map[k]
Removed(ix, new, key) ==
  \A k \in Key : new.map[k] = IF k = key THEN None ELSE ix.map[k]

LEMMA InsertEntryDoes ==
  ASSUME NEW ix, IndexShape(ix), NEW key \in Key, NEW rid \in Rid \cup {InvalidRid}, NEW moves,
         NEW new, new = InsertEntry(ix, key, rid, moves)
  PROVE  IndexShape(new) /\ Entered(ix, new, key, rid)
BY DEF InsertEntry, IndexShape, Entered

LEMMA DeleteEntryDoes ==
  ASSUME NEW ix, IndexShape(ix), NEW key \in Key, NEW moves,
         NEW new, new = DeleteEntry(ix, key, moves)
  PROVE  IndexShape(new) /\ Removed(ix, new, key)
BY DEF DeleteEntry, IndexShape, Removed

\* A cursor keeps its shape, and a row joins those it has given only if it is there.
LEMMA CursorMoves ==
  ASSUME NEW c, CursorShape(c), NEW G
  PROVE  /\ CursorShape(Filtered(c)) /\ Filtered(c).given = {}
         /\ CursorShape([Advanced(c) EXCEPT !.given = G])
         /\ [Advanced(c) EXCEPT !.given = G].given = G
         /\ CursorShape([c EXCEPT !.given = G, !.clean = FALSE])
         /\ [c EXCEPT !.given = G, !.clean = FALSE].given = G
<1>1. CursorShape(Filtered(c)) /\ Filtered(c).given = {}
  BY DEF CursorShape, Filtered
<1>2. CursorShape(Advanced(c))
  BY DEF CursorShape, Advanced
<1>3. /\ CursorShape([Advanced(c) EXCEPT !.given = G])
      /\ [Advanced(c) EXCEPT !.given = G].given = G
  BY <1>2 DEF CursorShape
<1>4. /\ CursorShape([c EXCEPT !.given = G, !.clean = FALSE])
      /\ [c EXCEPT !.given = G, !.clean = FALSE].given = G
  BY DEF CursorShape
<1> QED BY <1>1, <1>3, <1>4
------------------------------------------------------------------------------
\* Steps that change no row that is to be seen, and no entry of the index.
LEMMA MatchKept ==
  ASSUME IndexMatchesHeap,
         \A r \in Rid : (Visible(r)' <=> Visible(r)) /\ (Visible(r) => rows'[r] = rows[r]),
         index'.map = index.map,
         past'.refused = past.refused, past'.spoiled = past.spoiled
  PROVE  IndexMatchesHeap'
<1>1. EntriesNameRows'
  BY DEF IndexMatchesHeap, EntriesNameRows, Visible
<1>2. IndexComplete'
  BY DEF IndexMatchesHeap, IndexComplete
<1> QED BY <1>1, <1>2 DEF IndexMatchesHeap

\* A commit makes no difference to what is to be seen.
LEMMA CommitDoes ==
  ASSUME IInv, VtabCommit
  PROVE  /\ txn' = None /\ marked' = {}
         /\ rows' \in [Rid -> Row \cup {None}]
         /\ \A r \in Rid : (Visible(r)' <=> Visible(r)) /\ (Visible(r) => rows'[r] = rows[r])
<1>1. /\ rows \in [Rid -> Row \cup {None}]
      /\ marked # {} => txn # None
      /\ txn # None => txn.deletes = marked
  BY DEF IInv, Types, TxnInv
<1>2. txn' = None /\ marked' = {}
  BY <1>1 DEF VtabCommit
<1>3. /\ rows' \in [Rid -> Row \cup {None}]
      /\ \A r \in Rid : rows'[r] = IF r \in marked THEN None ELSE rows[r]
  BY <1>1 DEF VtabCommit
<1> QED BY <1>2, <1>3 DEF Visible, IInv, MarkedInv

\* Calls that only deal with cursors, transactions and sqlite's state.
LEMMA QuietStep ==
  ASSUME IInv, Types', TxnInv', NullInv',
         UNCHANGED <<rows, marked>> \/ VtabCommit,
         index'.map = index.map,
         past'.refused = past.refused, past'.spoiled = past.spoiled,
         LET c == cursors'[Writer] IN
           c # None => CursorShape(c) /\ \A r \in c.given : Visible(r)
  PROVE  IInv'
<1>1. \A r \in Rid : (Visible(r)' <=> Visible(r)) /\ (Visible(r) => rows'[r] = rows[r])
  <2>1. CASE UNCHANGED <<rows, marked>>
    BY <2>1 DEF Visible
  <2> QED BY <2>1, CommitDoes
<1>2. IndexMatchesHeap'
  BY <1>1, MatchKept DEF IInv
<1>3. MarkedInv'
  <2>1. CASE UNCHANGED <<rows, marked>>
    BY <2>1 DEF IInv, MarkedInv
  <2> QED BY <2>1, CommitDoes DEF MarkedInv
<1>4. GivenInv'
  BY <1>1, Zenon DEF GivenInv, Visible
<1> QED BY <1>2, <1>3, <1>4 DEF IInv

\* The end of the process changes nothing else.
LEMMA CrashStep ==
  ASSUME IInv, NEW why, Crashes(why), why = "null transaction" => sql.explicit /\ past.closed
  PROVE  IInv'
<1>1. /\ UNCHANGED <<rows, marked, index, txn, cursors, sql, past>>
      /\ crashed' = why
  BY Zenon DEF Crashes
<1>2. Types' /\ TxnInv'
  BY <1>1, Zenon DEF IInv, Types, TxnInv, Deletes
<1>3. NullInv'
  BY <1>1, Zenon DEF IInv, NullInv, NullTransactionExplained
<1> QED BY <1>1, <1>2, <1>3, QuietStep, Zenon DEF IInv, GivenInv
------------------------------------------------------------------------------
\* sqlite's transactions and statements.
LEMMA SqlBeginStep == ASSUME IInv, SqlBegin PROVE IInv'
<1>1. /\ crashed' = crashed /\ crashed = "no"
      /\ sql.writes = "no" /\ ~sql.explicit
      /\ sql' = [sql EXCEPT !.explicit = TRUE]
      /\ past' = [past EXCEPT !.closed = FALSE]
      /\ UNCHANGED <<rows, marked, index, txn, cursors>>
  BY DEF SqlBegin, Running
<1>2. sql \in SqlState /\ past \in Past
  BY DEF IInv, Types
<1>3. /\ sql' \in SqlState /\ past' \in Past
      /\ sql'.writes = sql.writes /\ sql'.joined = sql.joined
      /\ past'.refused = past.refused /\ past'.spoiled = past.spoiled
  BY <1>1, <1>2, Zenon DEF SqlState, Past
<1>4. Types' /\ TxnInv'
  BY <1>1, <1>3 DEF IInv, Types, TxnInv, Deletes
<1>5. NullInv'
  BY <1>1, <1>3 DEF IInv, NullInv, NullTransactionExplained
<1> QED BY <1>1, <1>3, <1>4, <1>5, QuietStep, Zenon DEF IInv, GivenInv

LEMMA SqlEndStep == ASSUME IInv, NEW commits, SqlEnd(commits) PROVE IInv'
<1>1. /\ crashed' = crashed /\ crashed = "no"
      /\ sql.writes = "no"
      /\ sql' = [sql EXCEPT !.explicit = FALSE, !.joined = FALSE]
      /\ UNCHANGED <<txn, rows, marked>> \/ VtabCommit
      /\ UNCHANGED <<index, cursors, past>>
  BY DEF SqlEnd, Running
<1>2. sql \in SqlState
  BY DEF IInv, Types
<1>3. sql' \in SqlState /\ sql'.writes = "no" /\ ~sql'.joined
  BY <1>1, <1>2, Zenon DEF SqlState
<1>4. CASE UNCHANGED <<txn, rows, marked>>
  <2>1. Types' /\ TxnInv'
    BY <1>1, <1>3, <1>4, Zenon DEF IInv, Types, TxnInv, Deletes
  <2>2. NullInv'
    BY <1>1, <1>3 DEF IInv, NullInv, NullTransactionExplained
  <2> QED BY <1>1, <1>4, <2>1, <2>2, QuietStep, Zenon DEF IInv, GivenInv
<1>5. CASE VtabCommit
  <2>1. Types' /\ TxnInv'
    BY <1>1, <1>3, <1>5, CommitDoes, Zenon DEF IInv, Types, TxnInv, Deletes
  <2>2. NullInv'
    BY <1>1, <1>3 DEF IInv, NullInv, NullTransactionExplained
  <2> QED BY <1>1, <1>5, <2>1, <2>2, QuietStep, Zenon DEF IInv, GivenInv
<1> QED BY <1>1, <1>4, <1>5

LEMMA VtabBeginStep ==
  ASSUME IInv, NEW kind \in {"insert", "delete", "update"}, VtabBegin(kind)
  PROVE  IInv'
<1>1. /\ crashed' = crashed /\ crashed = "no"
      /\ sql.writes = "no"
      /\ sql' = [sql EXCEPT !.writes = kind, !.joined = TRUE]
      /\ txn' = IF sql.joined THEN txn ELSE Begun
      /\ UNCHANGED <<rows, marked, index, cursors, past>>
  BY DEF VtabBegin, Running
<1>2. sql \in SqlState
  BY DEF IInv, Types
<1>3. /\ sql' \in SqlState /\ sql'.writes = kind /\ sql'.joined
      /\ sql'.explicit = sql.explicit
  BY <1>1, <1>2, Zenon DEF SqlState
<1>4. Begun \in [deletes : SUBSET Rid] /\ Begun # None /\ Begun.deletes = {}
  BY NoneAssumption DEF Begun
<1>5. marked = {} /\ cursors[Writer] = None
  BY <1>1 DEF IInv, TxnInv, Deletes
<1>6. Types'
  BY <1>1, <1>3, <1>4 DEF IInv, Types
<1>7. TxnInv'
  BY <1>1, <1>4, <1>5 DEF IInv, TxnInv
<1>8. NullInv'
  BY <1>1, <1>3, <1>4 DEF IInv, NullInv, NullTransactionExplained
<1> QED BY <1>1, <1>6, <1>7, <1>8, QuietStep, Zenon DEF IInv, GivenInv

LEMMA EndWriteStep == ASSUME IInv, EndWrite PROVE IInv'
<1>1. /\ crashed' = crashed /\ crashed = "no"
      /\ ~Deletes
      /\ sql' = [sql EXCEPT !.writes = "no", !.joined = sql.explicit]
      /\ \/ UNCHANGED <<txn, rows, marked>> /\ sql.explicit
         \/ VtabCommit /\ ~sql.explicit
      /\ UNCHANGED <<index, cursors, past>>
  BY DEF EndWrite, Running, Deletes
<1>2. sql \in SqlState /\ sql.writes # "no"
  BY DEF IInv, Types, EndWrite
<1>3. /\ sql' \in SqlState /\ sql'.writes = "no" /\ (sql'.joined <=> sql.explicit)
      /\ (sql'.explicit <=> sql.explicit)
  BY <1>1, <1>2, Zenon DEF SqlState
<1>4. CASE UNCHANGED <<txn, rows, marked>> /\ sql.explicit
  <2>1. Types' /\ TxnInv'
    BY <1>1, <1>3, <1>4 DEF IInv, Types, TxnInv, Deletes
  <2>2. NullInv'
    BY <1>1, <1>2, <1>3, <1>4 DEF IInv, NullInv, NullTransactionExplained
  <2> QED BY <1>1, <1>4, <2>1, <2>2, QuietStep, Zenon DEF IInv, GivenInv
<1>5. CASE VtabCommit /\ ~sql.explicit
  <2>1. Types' /\ TxnInv'
    BY <1>1, <1>3, <1>5, CommitDoes DEF IInv, Types, TxnInv, Deletes
  <2>2. NullInv'
    BY <1>1, <1>3, <1>5 DEF IInv, NullInv, NullTransactionExplained
  <2> QED BY <1>1, <1>5, <2>1, <2>2, QuietStep DEF IInv, GivenInv
<1> QED BY <1>1, <1>4, <1>5
------------------------------------------------------------------------------
\* Sessions.
LEMMA ConnectedDoes ==
  ASSUME IInv, Connected
  PROVE  /\ sql' \in SqlState /\ sql'.writes = sql.writes
         /\ (sql'.joined <=> sql.joined) /\ (sql'.explicit <=> sql.explicit)
<1> DEFINE n == sql.sessions + 1
<1>1. sql \in SqlState /\ n \in Nat
  BY DEF IInv, Types, SqlState
<1>2. sql' = [sql EXCEPT !.connected = TRUE, !.sessions = n]
  BY <1>1 DEF Connected, SqlState
<1> HIDE DEF n
<1> QED BY <1>1, <1>2, Zenon DEF SqlState

LEMMA VtabCreateStep == ASSUME IInv, VtabCreate PROVE IInv'
<1>1. /\ crashed' = crashed /\ crashed = "no"
      /\ Connected
      /\ index' = [index EXCEPT !.header = InsertRecord(@, TableName, 1)]
      /\ UNCHANGED <<rows, marked, txn, cursors, past>>
  BY DEF VtabCreate, MayConnect
<1>2. IndexShape(index)
  BY DEF IInv, Types
<1>3. /\ sql' \in SqlState /\ sql'.writes = sql.writes
      /\ (sql'.joined <=> sql.joined) /\ (sql'.explicit <=> sql.explicit)
  BY <1>1, ConnectedDoes
<1>4. IndexShape(index)' /\ index'.map = index.map
  BY <1>1, <1>2 DEF IndexShape
<1>5. Types' /\ TxnInv'
  BY <1>1, <1>3, <1>4 DEF IInv, Types, TxnInv, Deletes
<1>6. NullInv'
  BY <1>1, <1>3 DEF IInv, NullInv, NullTransactionExplained
<1> QED BY <1>1, <1>4, <1>5, <1>6, QuietStep DEF IInv, GivenInv

LEMMA VtabConnectStep == ASSUME IInv, VtabConnect PROVE IInv'
<1> DEFINE empty == [index EXCEPT !.map = [k \in Key |-> None]]
<1>1. CASE Crashes("bad root")
  BY <1>1, CrashStep, Zenon
<1>2. CASE ~Crashes("bad root")
  <2>1. /\ crashed' = crashed /\ crashed = "no"
        /\ Connected
        /\ index' = index \/ index' = empty
        /\ past' = [past EXCEPT !.spoiled = @ \/ index' # index]
        /\ UNCHANGED <<rows, marked, txn, cursors>>
    BY <1>2, Zenon DEF VtabConnect, MayConnect
  <2>2. IndexShape(index) /\ past \in Past
    BY DEF IInv, Types
  <2>3. /\ sql' \in SqlState /\ sql'.writes = sql.writes
        /\ (sql'.joined <=> sql.joined) /\ (sql'.explicit <=> sql.explicit)
    BY <2>1, ConnectedDoes
  <2>4. /\ past' \in Past /\ past'.closed = past.closed /\ past'.refused = past.refused
        /\ past'.spoiled <=> past.spoiled \/ index' # index
    BY <2>1, <2>2, Zenon DEF Past
  <2>5. IndexShape(empty) /\ \A k \in Key : empty.map[k] = None
    BY <2>2 DEF IndexShape
  <2>6. Types' /\ TxnInv'
    BY <2>1, <2>2, <2>3, <2>4, <2>5, Zenon DEF IInv, Types, TxnInv, Deletes
  <2>7. NullInv'
    BY <2>1, <2>3, <2>4 DEF IInv, NullInv, NullTransactionExplained
  <2>8. GivenInv' /\ MarkedInv'
    BY <2>1 DEF IInv, GivenInv, MarkedInv, Visible
  <2>9. EntriesNameRows'
    BY <2>1, <2>4, <2>5, Zenon DEF IInv, IndexMatchesHeap, EntriesNameRows, Visible
  <2>10. IndexComplete'
    BY <2>1, <2>4 DEF IInv, IndexMatchesHeap, IndexComplete, Visible
  <2> QED BY <2>6, <2>7, <2>8, <2>9, <2>10 DEF IInv, IndexMatchesHeap
<1> QED BY <1>1, <1>2, Zenon

LEMMA VtabDisconnectStep == ASSUME IInv, VtabDisconnect PROVE IInv'
<1>1. /\ crashed' = crashed /\ crashed = "no"
      /\ sql.writes = "no" /\ ~sql.explicit
      /\ sql' = [sql EXCEPT !.connected = FALSE]
      /\ txn' = None
      /\ UNCHANGED <<rows, marked, index, cursors, past>>
  BY DEF VtabDisconnect, Running
<1>2. sql \in SqlState
  BY DEF IInv, Types
<1>3. /\ sql' \in SqlState /\ sql'.writes = "no"
      /\ sql'.joined = sql.joined /\ sql'.explicit = sql.explicit
  BY <1>1, <1>2, Zenon DEF SqlState
<1>4. Types' /\ TxnInv'
  BY <1>1, <1>3 DEF IInv, Types, TxnInv, Deletes
<1>5. NullInv'
  BY <1>1, <1>3 DEF IInv, NullInv, NullTransactionExplained
<1> QED BY <1>1, <1>4, <1>5, QuietStep, Zenon DEF IInv, GivenInv
------------------------------------------------------------------------------
\* Cursors.
LEMMA VtabOpenStep ==
  ASSUME IInv, NEW s \in Stmt, NEW where, VtabOpen(s, where)
  PROVE  IInv'
<1> DEFINE c == [where |-> where, iter |-> ScanBegin, results |-> <<>>, offset |-> 0,
                 is_index_scan |-> FALSE, filters |-> 0, given |-> {}, clean |-> TRUE]
<1>1. /\ crashed' = crashed /\ crashed = "no"
      /\ s = Writer <=> sql.writes # "no"
      /\ sql.writes \in {"no", "delete", "update"}
      /\ txn' = IF txn = None THEN Begun ELSE txn
      /\ cursors' = [cursors EXCEPT ![s] = c]
      /\ UNCHANGED <<rows, marked, index, sql, past>>
  BY DEF VtabOpen, MayCall, Running
<1>2. CursorShape(c) /\ c.given = {}
  BY DEF CursorShape
<1> HIDE DEF c
<1>3. Begun \in [deletes : SUBSET Rid] /\ Begun # None /\ Begun.deletes = {}
  BY NoneAssumption DEF Begun
<1>4. /\ DOMAIN cursors' = Stmt
      /\ cursors'[Writer] = IF s = Writer THEN c ELSE cursors[Writer]
  BY <1>1, TableAssumption DEF IInv, Types
<1>5. Types'
  BY <1>1, <1>3, <1>4 DEF IInv, Types
<1>6. TxnInv'
  BY <1>1, <1>3, <1>4 DEF IInv, TxnInv, Deletes
<1>7. NullInv'
  BY <1>1, <1>3 DEF IInv, NullInv, NullTransactionExplained
<1> QED BY <1>1, <1>2, <1>4, <1>5, <1>6, <1>7, QuietStep, Zenon DEF IInv, GivenInv

\* A call that changes one cursor, and adds to what it has given rows that are there.
LEMMA CursorStep ==
  ASSUME IInv, NEW s \in Stmt, MayCall(s), cursors[s] # None,
         NEW c, s = Writer => CursorShape(c) /\ \A r \in c.given : Visible(r),
         cursors' = [cursors EXCEPT ![s] = c],
         UNCHANGED <<rows, marked, index, txn, sql, crashed, past>>
  PROVE  IInv'
<1>1. crashed = "no" /\ (s = Writer <=> sql.writes # "no")
  BY DEF MayCall, Running
<1>2. /\ DOMAIN cursors' = Stmt
      /\ cursors'[Writer] = IF s = Writer THEN c ELSE cursors[Writer]
  BY TableAssumption DEF IInv, Types
<1>3. Types'
  BY <1>2 DEF IInv, Types
<1>4. TxnInv'
  BY <1>1, <1>2 DEF IInv, TxnInv, Deletes
<1>5. NullInv'
  BY <1>1 DEF IInv, NullInv, NullTransactionExplained
<1> QED BY <1>2, <1>3, <1>4, <1>5, QuietStep, Zenon DEF IInv, GivenInv

LEMMA VtabFilterStep == ASSUME IInv, NEW s \in Stmt, VtabFilter(s) PROVE IInv'
<1>1. /\ MayCall(s) /\ cursors[s] # None
      /\ cursors' = [cursors EXCEPT ![s] = Filtered(cursors[s])]
      /\ UNCHANGED <<rows, marked, index, txn, sql, crashed, past>>
  BY DEF VtabFilter
<1>2. s = Writer => /\ CursorShape(Filtered(cursors[s]))
                    /\ Filtered(cursors[s]).given = {}
  BY <1>1, CursorMoves, Zenon DEF IInv, GivenInv
<1> QED BY <1>1, <1>2, CursorStep, Zenon

LEMMA VtabNextStep == ASSUME IInv, NEW s \in Stmt, VtabNext(s) PROVE IInv'
<1>1. CASE Crashes("bad tuple")
  BY <1>1, CrashStep
<1>2. CASE ~Crashes("bad tuple")
  <2> DEFINE c == cursors[s]
             r == GetCurrentRid(c)
             matches == c.clean /\ Visible(r) /\ Matches(rows[r], c.where)
             G == IF matches THEN c.given \cup {r} ELSE c.given
             d == [Advanced(c) EXCEPT !.given = G]
  <2>1. /\ MayCall(s) /\ c # None
        /\ cursors' = [cursors EXCEPT ![s] = d]
        /\ UNCHANGED <<rows, marked, index, txn, sql, crashed, past>>
    BY <1>2, Zenon DEF VtabNext
  <2>2. CASE s # Writer
    BY <2>1, <2>2, CursorStep, Zenon
  <2>3. CASE s = Writer
    <3>1. CursorShape(c) /\ \A q \in c.given : Visible(q)
      BY <2>1, <2>3 DEF IInv, GivenInv
    <3>2. \A q \in G : Visible(q)
      BY <3>1
    <3> HIDE DEF G, c
    <3>3. CursorShape(d) /\ d.given = G
      BY <3>1, CursorMoves, Zenon
    <3> HIDE DEF d
    <3> QED BY <2>1, <3>2, <3>3, CursorStep, Zenon DEF c
  <2> QED BY <2>2, <2>3
<1> QED BY <1>1, <1>2, Zenon

LEMMA VtabCloseStep == ASSUME IInv, NEW s \in Stmt, VtabClose(s) PROVE IInv'
<1>1. /\ crashed' = crashed /\ crashed = "no"
      /\ s = Writer <=> sql.writes # "no"
      /\ VtabCommit /\ cursors[s] # None
      /\ cursors' = [cursors EXCEPT ![s] = None]
      /\ sql' = IF s = Writer THEN [sql EXCEPT !.writes = "done"] ELSE sql
      /\ past' = [past EXCEPT !.closed = @ \/ sql.joined]
      /\ UNCHANGED index
  BY DEF VtabClose, MayCall, Running
<1>2. sql \in SqlState /\ past \in Past
  BY DEF IInv, Types
<1>3. /\ sql' \in SqlState
      /\ sql'.writes = IF s = Writer THEN "done" ELSE "no"
      /\ (sql'.joined <=> sql.joined) /\ (sql'.explicit <=> sql.explicit)
  BY <1>1, <1>2 DEF SqlState
<1>4. /\ past' \in Past /\ (past'.closed <=> past.closed \/ sql.joined)
      /\ past'.refused = past.refused /\ past'.spoiled = past.spoiled
  BY <1>1, <1>2 DEF Past, SqlState
<1>5. DOMAIN cursors' = Stmt /\ cursors'[Writer] = None
  BY <1>1, TableAssumption, Zenon DEF IInv, Types, TxnInv, Deletes
<1>6. Types' /\ TxnInv'
  BY <1>1, <1>3, <1>4, <1>5, CommitDoes, Zenon DEF IInv, Types, TxnInv, Deletes
<1>7. NullInv'
  BY <1>1, <1>3, <1>4 DEF IInv, NullInv, NullTransactionExplained
<1> QED BY <1>1, <1>4, <1>5, <1>6, <1>7, QuietStep
------------------------------------------------------------------------------
\* VtabUpdate()'s insertions, deletions and updates.
LEMMA NotedDoes ==
  ASSUME IInv, NEW ix, NEW row \in Row, NEW new, new = Noted(ix, KeyOf(row), row \in Large)
  PROVE  /\ new \in Past /\ new.closed = past.closed
         /\ row \in Large => new.refused = past.refused \cup {KeyOf(row)}
         /\ row \notin Large => new.refused = past.refused
         /\ new.spoiled <=> past.spoiled \/ row \in Large \/ ix.map[KeyOf(row)] # None
<1> DEFINE n == past.updates + 1
           R == IF row \in Large THEN past.refused \cup {KeyOf(row)} ELSE past.refused
           sp == past.spoiled \/ row \in Large \/ ix.map[KeyOf(row)] # None
<1>1. past \in Past /\ n \in Nat /\ R \in SUBSET Key
  BY KeyOfRow DEF IInv, Types, Past
<1>2. sp \in BOOLEAN
  OBVIOUS
<1>3. new = [past EXCEPT !.updates = n, !.refused = R, !.spoiled = sp]
  BY <1>1 DEF Noted, Past
<1> HIDE DEF n, R, sp
<1>4. new \in Past /\ new.closed = past.closed /\ new.refused = R /\ new.spoiled = sp
  BY <1>1, <1>2, <1>3, Zenon DEF Past
<1> QED BY <1>4, Zenon DEF R, sp

LEMMA DisturbedDoes ==
  DOMAIN Disturbed = Stmt /\ Disturbed[Writer] = cursors[Writer]
BY TableAssumption DEF Disturbed

LEMMA VtabInsertStep == ASSUME IInv, NEW row \in Row, VtabInsert(row) PROVE IInv'
<1>1. crashed = "no" /\ sql.writes = "insert"
  BY Zenon DEF VtabInsert, MayUpdate, Running
<1>2. CASE txn = None /\ Crashes("null transaction")
  <2>1. sql.explicit /\ past.closed
    BY <1>1, <1>2, Zenon DEF IInv, NullInv
  <2> QED BY <1>2, <2>1, CrashStep, Zenon
<1>3. CASE ~(txn = None /\ Crashes("null transaction"))
  <2> DEFINE key == KeyOf(row)
             large == row \in Large
  <2>1. /\ txn # None
        /\ \E rid \in IF large THEN {InvalidRid} ELSE FreeRids, moves \in BOOLEAN :
             /\ rows' = IF large THEN rows ELSE [rows EXCEPT ![rid] = row]
             /\ index' = InsertEntry(index, key, rid, moves)
        /\ past' = Noted(index, key, large)
        /\ cursors' = Disturbed
        /\ UNCHANGED <<marked, txn, sql, crashed>>
    BY <1>3, Zenon DEF VtabInsert
  <2>2. PICK rid \in IF large THEN {InvalidRid} ELSE FreeRids, moves \in BOOLEAN :
             /\ rows' = IF large THEN rows ELSE [rows EXCEPT ![rid] = row]
             /\ index' = InsertEntry(index, key, rid, moves)
    BY <2>1
  <2>3. ~large => rid \in Rid /\ rows[rid] = None
    BY <2>2 DEF FreeRids
  <2>4. key \in Key /\ rid \in Rid \cup {InvalidRid}
    BY <2>2, <2>3, KeyOfRow
  <2>5. /\ rows \in [Rid -> Row \cup {None}] /\ IndexShape(index) /\ marked = {}
        /\ cursors[Writer] = None
    BY <1>1 DEF IInv, Types, TxnInv, Deletes
  <2>6. /\ IndexShape(index')
        /\ \A k \in Key : index'.map[k] =
             IF k = key /\ index.map[key] = None THEN rid ELSE index.map[k]
    <3> HIDE DEF key
    <3>1. IndexShape(index') /\ Entered(index, index', key, rid)
      BY <2>2, <2>4, <2>5, InsertEntryDoes, Zenon
    <3> QED BY <3>1, Zenon DEF Entered
  <2>7. /\ past' \in Past /\ past'.closed = past.closed
        /\ large => past'.refused = past.refused \cup {key}
        /\ ~large => past'.refused = past.refused
        /\ past'.spoiled <=> past.spoiled \/ large \/ index.map[key] # None
    BY <2>1, NotedDoes
  <2>8. KeyOf(row) = key
    OBVIOUS
  <2> HIDE DEF key, large
  <2>9. /\ rows' \in [Rid -> Row \cup {None}]
        /\ \A r \in Rid : rows'[r] = IF ~large /\ r = rid THEN row ELSE rows[r]
    BY <2>2, <2>3, <2>5
  <2>10. DOMAIN cursors' = Stmt /\ cursors'[Writer] = None
    BY <2>1, <2>5, DisturbedDoes
  <2>11. Types' /\ TxnInv' /\ GivenInv' /\ MarkedInv'
    BY <2>1, <2>5, <2>6, <2>7, <2>9, <2>10, Zenon
    DEF IInv, Types, TxnInv, Deletes, GivenInv, MarkedInv
  <2>12. NullInv'
    BY <1>1, <2>1, <2>7, Zenon DEF IInv, NullInv, NullTransactionExplained
  <2>13. /\ \A r \in Rid : Visible(r)' <=> (~large /\ r = rid) \/ Visible(r)
         /\ ~large => ~Visible(rid)
    BY <2>1, <2>3, <2>5, <2>9, NoneAssumption, Zenon DEF Visible
  <2>14. EntriesNameRows'
    <3> SUFFICES ASSUME NEW k \in Key \ past'.refused, NEW e, e = index'.map[k], e # None
                 PROVE  Visible(e)' /\ KeyOf(rows'[e]) = k
      BY DEF EntriesNameRows, Visible
    <3>1. CASE k = key /\ index.map[key] = None
      <4>1. ~large /\ e = rid
        BY <2>6, <2>7, <3>1
      <4> QED BY <2>3, <2>8, <2>9, <2>13, <3>1, <4>1
    <3>2. CASE ~(k = key /\ index.map[key] = None)
      <4>1. e = index.map[k] /\ Visible(e) /\ KeyOf(rows[e]) = k
        BY <2>6, <2>7, <3>2 DEF IInv, IndexMatchesHeap, EntriesNameRows
      <4> QED BY <2>9, <2>13, <4>1 DEF Visible
    <3> QED BY <3>1, <3>2
  <2>15. IndexComplete'
    <3> SUFFICES ASSUME ~past'.spoiled, NEW r \in Rid, Visible(r)'
                 PROVE  index'.map[KeyOf(rows'[r])] = r
      BY Zenon DEF IndexComplete, Visible
    <3>1. ~large /\ index.map[key] = None /\ ~past.spoiled
      BY <2>7, Zenon
    <3>2. CASE r = rid
      BY <2>4, <2>6, <2>8, <2>9, <3>1, <3>2, Zenon
    <3>3. CASE r # rid
      <4>1. Visible(r) /\ rows'[r] = rows[r] /\ rows[r] \in Row
        BY <2>5, <2>9, <2>13, <3>3 DEF Visible
      <4>2. index.map[KeyOf(rows[r])] = r /\ KeyOf(rows[r]) \in Key
        BY <3>1, <4>1, KeyOfRow, Zenon DEF IInv, IndexMatchesHeap, IndexComplete
      <4>3. KeyOf(rows[r]) # key
        BY <3>1, <4>2, NoneAssumption
      <4> QED BY <2>6, <4>1, <4>2, <4>3
    <3> QED BY <3>2, <3>3
  <2> QED BY <2>11, <2>12, <2>14, <2>15 DEF IInv, IndexMatchesHeap
<1> QED BY <1>2, <1>3, Zenon

\* A row that a statement has collected, and the transaction it finds.
LEMMA CollectedIsThere ==
  ASSUME IInv, Deletes, NEW r \in Collected
  PROVE  /\ cursors[Writer] # None /\ CursorShape(cursors[Writer])
         /\ \A q \in cursors[Writer].given : Visible(q)
         /\ r \in Rid /\ Visible(r) /\ rows[r] \in Row /\ KeyOf(rows[r]) \in Key
         /\ txn # None
<1>1. cursors[Writer] # None /\ r \in cursors[Writer].given
  BY DEF Collected
<1>2. CursorShape(cursors[Writer]) /\ \A q \in cursors[Writer].given : Visible(q)
  BY <1>1 DEF IInv, GivenInv
<1>3. r \in Rid /\ Visible(r) /\ rows[r] \in Row
  BY <1>1, <1>2 DEF Visible, IInv, Types
<1> QED BY <1>1, <1>2, <1>3, KeyOfRow, Zenon DEF IInv, TxnInv

LEMMA SettledDoes ==
  ASSUME IInv, CursorShape(cursors[Writer]), NEW r
  PROVE  /\ DOMAIN Settled(r) = Stmt
         /\ CursorShape(Settled(r)[Writer])
         /\ Settled(r)[Writer].given = cursors[Writer].given \ {r}
<1> DEFINE D == Disturbed
           c == cursors[Writer]
           d == [c EXCEPT !.given = c.given \ {r}, !.clean = FALSE]
<1>1. DOMAIN D = Stmt /\ D[Writer] = c /\ Writer \in Stmt
  BY DisturbedDoes, TableAssumption
<1> HIDE DEF D
<1>2. CursorShape(d) /\ d.given = c.given \ {r}
  BY CursorMoves, Zenon
<1>3. DOMAIN Settled(r) = Stmt /\ Settled(r)[Writer] = d
  BY <1>1 DEF Settled, D
<1> HIDE DEF d, c
<1> QED BY <1>2, <1>3 DEF c

LEMMA MarkDoes ==
  ASSUME IInv, txn # None, NEW r \in Rid,
         marked' = marked \cup {r}, txn' = [txn EXCEPT !.deletes = @ \cup {r}]
  PROVE  /\ txn' \in [deletes : SUBSET Rid] /\ txn' # None
         /\ txn'.deletes = marked' /\ marked' \subseteq Rid
<1>1. txn \in [deletes : SUBSET Rid] /\ txn.deletes = marked
  BY DEF IInv, Types, TxnInv
<1>2. txn' \in [deletes : SUBSET Rid] /\ txn'.deletes = marked \cup {r}
  BY <1>1
<1> QED BY <1>2, NoneAssumption

LEMMA VtabDeleteStep == ASSUME IInv, NEW r \in Rid, VtabDelete(r) PROVE IInv'
<1> DEFINE key == KeyOf(rows[r])
<1>1. /\ crashed' = crashed /\ crashed = "no" /\ sql.writes = "delete"
      /\ r \in Collected
      /\ marked' = marked \cup {r}
      /\ txn' = [txn EXCEPT !.deletes = @ \cup {r}]
      /\ past' = [past EXCEPT !.updates = @ + 1, !.emptied = @ \/ Indexed(index') = {}]
      /\ cursors' = Settled(r)
      /\ UNCHANGED <<rows, sql>>
  BY DEF VtabDelete, MayUpdate, Running
<1>2. PICK moves \in BOOLEAN : index' = DeleteEntry(index, key, moves)
  BY DEF VtabDelete
<1>3. Deletes
  BY <1>1 DEF Deletes
<1>4. /\ cursors[Writer] # None /\ CursorShape(cursors[Writer])
      /\ \A q \in cursors[Writer].given : Visible(q)
      /\ Visible(r) /\ rows[r] \in Row /\ key \in Key /\ txn # None
  BY <1>1, <1>3, CollectedIsThere
<1>5. /\ DOMAIN cursors' = Stmt /\ CursorShape(cursors'[Writer])
      /\ cursors'[Writer].given = cursors[Writer].given \ {r}
  BY <1>1, <1>4, SettledDoes
<1>6. /\ txn' \in [deletes : SUBSET Rid] /\ txn' # None
      /\ txn'.deletes = marked' /\ marked' \subseteq Rid
  BY <1>1, <1>4, MarkDoes, Zenon
<1>7. /\ IndexShape(index')
      /\ \A k \in Key : index'.map[k] = IF k = key THEN None ELSE index.map[k]
  <2>1. IndexShape(index)
    BY Zenon DEF IInv, Types
  <2> HIDE DEF key
  <2>2. IndexShape(index') /\ Removed(index, index', key)
    BY <1>2, <1>4, <2>1, DeleteEntryDoes, Zenon
  <2> QED BY <2>2, Zenon DEF Removed
<1>8. /\ past' \in Past /\ past'.closed = past.closed
      /\ past'.refused = past.refused /\ past'.spoiled = past.spoiled
  <2> DEFINE n == past.updates + 1
             em == past.emptied \/ Indexed(index') = {}
  <2>1. past \in Past /\ n \in Nat
    BY DEF IInv, Types, Past
  <2>2. em \in BOOLEAN
    OBVIOUS
  <2>3. past' = [past EXCEPT !.updates = n, !.emptied = em]
    BY <1>1, <2>1 DEF Past
  <2> HIDE DEF n, em
  <2> QED BY <2>1, <2>2, <2>3, Zenon DEF Past
<1>9. \A q \in Rid : Visible(q)' <=> Visible(q) /\ q # r
  BY <1>1 DEF Visible
<1>10. Types'
  BY <1>1, <1>5, <1>6, <1>7, <1>8 DEF IInv, Types
<1>11. TxnInv'
  BY <1>1, <1>3, <1>6 DEF TxnInv, Deletes
<1>12. NullInv'
  BY <1>1, <1>6, <1>8 DEF IInv, NullInv, NullTransactionExplained
<1>13. GivenInv'
  BY <1>4, <1>5, <1>9 DEF GivenInv, Visible
<1>14. MarkedInv'
  BY <1>1, <1>4 DEF IInv, MarkedInv, Visible
<1>15. KeyOf(rows[r]) = key
  OBVIOUS
<1> HIDE DEF key
<1>16. EntriesNameRows'
  <2> SUFFICES ASSUME NEW k \in Key \ past'.refused, NEW e, e = index'.map[k], e # None
               PROVE  Visible(e)' /\ KeyOf(rows'[e]) = k
    BY DEF EntriesNameRows, Visible
  <2>1. k # key /\ e = index.map[k] /\ Visible(e) /\ KeyOf(rows[e]) = k
    BY <1>7, <1>8, Zenon DEF IInv, IndexMatchesHeap, EntriesNameRows
  <2> QED BY <1>1, <1>9, <1>15, <2>1, Zenon DEF Visible
<1>17. IndexComplete'
  <2> SUFFICES ASSUME ~past'.spoiled, NEW q \in Rid, Visible(q)'
               PROVE  index'.map[KeyOf(rows'[q])] = q
    BY DEF IndexComplete, Visible
  <2>1. Visible(q) /\ q # r /\ rows[q] \in Row /\ rows'[q] = rows[q]
    BY <1>1, <1>9 DEF Visible, IInv, Types
  <2>2. index.map[KeyOf(rows[q])] = q /\ KeyOf(rows[q]) \in Key /\ index.map[key] = r
    BY <1>4, <1>8, <1>15, <2>1, KeyOfRow, Zenon DEF IInv, IndexMatchesHeap, IndexComplete
  <2> QED BY <1>7, <2>1, <2>2, Zenon
<1> QED BY <1>10, <1>11, <1>12, <1>13, <1>14, <1>16, <1>17 DEF IInv, IndexMatchesHeap

\* The index and the rows after an update of row r, now in rid; ix is the index
\* between the deletion of the old entry and the insertion of the new one.
Replaced(r, row, rid, ix) ==
  /\ \A k \in Key : ix.map[k] = IF k = KeyOf(rows[r]) THEN None ELSE index.map[k]
  /\ \A k \in Key : index'.map[k] =
       IF k = KeyOf(row) /\ ix.map[KeyOf(row)] = None THEN rid ELSE ix.map[k]
  /\ row \in Large => KeyOf(row) \in past'.refused
  /\ past.refused \subseteq past'.refused
  /\ past'.spoiled <=> past.spoiled \/ row \in Large \/ ix.map[KeyOf(row)] # None
  /\ \A q \in Rid :
       /\ Visible(q)' <=> (row \notin Large /\ q = rid) \/ (Visible(q) /\ q # r)
       /\ rows'[q] = IF row \notin Large /\ q = rid THEN row ELSE rows[q]
  /\ row \notin Large => rid = r \/ ~Visible(rid)

\* Heap and index after row r has made way for row, which is at rid unless it is
\* too large for the heap.
LEMMA ReplacedMatch ==
  ASSUME IInv, NEW r \in Rid, NEW row \in Row, NEW rid \in Rid, NEW ix,
         Visible(r), Replaced(r, row, rid, ix)
  PROVE  IndexMatchesHeap'
<1>0. /\ \A k \in Key : ix.map[k] = IF k = KeyOf(rows[r]) THEN None ELSE index.map[k]
      /\ \A k \in Key : index'.map[k] =
           IF k = KeyOf(row) /\ ix.map[KeyOf(row)] = None THEN rid ELSE ix.map[k]
      /\ row \in Large => KeyOf(row) \in past'.refused
      /\ past.refused \subseteq past'.refused
      /\ past'.spoiled <=> past.spoiled \/ row \in Large \/ ix.map[KeyOf(row)] # None
      /\ \A q \in Rid :
           /\ Visible(q)' <=> (row \notin Large /\ q = rid) \/ (Visible(q) /\ q # r)
           /\ rows'[q] = IF row \notin Large /\ q = rid THEN row ELSE rows[q]
      /\ row \notin Large => rid = r \/ ~Visible(rid)
  BY Zenon DEF Replaced
<1> USE <1>0
<1> DEFINE key == KeyOf(row)
           old == KeyOf(rows[r])
<1>1. key \in Key /\ old \in Key /\ \A q \in Rid : Visible(q) => KeyOf(rows[q]) \in Key
  BY KeyOfRow DEF IInv, Types, Visible
<1>2. EntriesNameRows'
  <2> SUFFICES ASSUME NEW k \in Key \ past'.refused, NEW e, e = index'.map[k], e # None
               PROVE  Visible(e)' /\ KeyOf(rows'[e]) = k
    BY DEF EntriesNameRows, Visible
  <2>1. CASE k = key /\ ix.map[key] = None
    <3>1. e = rid /\ row \notin Large
      BY <2>1
    <3> QED BY <2>1, <3>1
  <2>2. CASE ~(k = key /\ ix.map[key] = None)
    <3>1. k # old /\ e = index.map[k]
      BY <2>2, Zenon
    <3>2. Visible(e) /\ KeyOf(rows[e]) = k
      BY <3>1 DEF IInv, IndexMatchesHeap, EntriesNameRows
    <3>3. e \in Rid /\ e # r
      BY <3>1, <3>2, Zenon DEF Visible
    <3>4. row \notin Large => e # rid
      BY <3>2, <3>3
    <3> QED BY <3>2, <3>3, <3>4
  <2> QED BY <2>1, <2>2
<1>3. IndexComplete'
  <2> SUFFICES ASSUME ~past'.spoiled, NEW q \in Rid, Visible(q)'
               PROVE  index'.map[KeyOf(rows'[q])] = q
    BY DEF IndexComplete, Visible
  <2>1. row \notin Large /\ ix.map[key] = None /\ ~past.spoiled
    OBVIOUS
  <2>2. CASE q = rid
    BY <1>1, <2>1, <2>2, Zenon
  <2>3. CASE q # rid
    <3>1. Visible(q) /\ q # r /\ rows'[q] = rows[q]
      BY <2>3
    <3>2. index.map[KeyOf(rows[q])] = q /\ index.map[old] = r
      BY <2>1, <3>1, Zenon DEF IInv, IndexMatchesHeap, IndexComplete
    <3>3. KeyOf(rows[q]) # old /\ KeyOf(rows[q]) \in Key
      BY <1>1, <3>1, <3>2, Zenon
    <3>4. ix.map[KeyOf(rows[q])] = q /\ q # None
      BY <3>2, <3>3, NoneAssumption
    <3> QED BY <2>1, <3>1, <3>3, <3>4
  <2> QED BY <2>2, <2>3
<1> QED BY <1>2, <1>3 DEF IndexMatchesHeap

\* The two ways of an update: the row stays in its place, or it is marked and
\* inserted elsewhere.
LEMMA VtabUpdateStep ==
  ASSUME IInv, NEW r \in Rid, NEW row \in Row, VtabUpdate(r, row)
  PROVE  IInv'
<1> DEFINE key == KeyOf(row)
           old == KeyOf(rows[r])
           large == row \in Large
           InPlace(rid) == rid = r /\ ~large /\ UNCHANGED <<marked, txn>>
           Moves(rid) == /\ marked' = marked \cup {r}
                         /\ txn' = [txn EXCEPT !.deletes = @ \cup {r}]
                         /\ IF large THEN rid = r ELSE rid \in FreeRids
<1>1. /\ crashed' = crashed /\ crashed = "no" /\ sql.writes = "update"
      /\ r \in Collected
      /\ cursors' = Settled(r)
      /\ UNCHANGED sql
  BY DEF VtabUpdate, MayUpdate, Running
<1>2. PICK moves1 \in BOOLEAN, moves2 \in BOOLEAN, rid \in Rid :
        LET ix == DeleteEntry(index, old, moves1) IN
        /\ index' = InsertEntry(ix, key, rid, moves2)
        /\ rows' = IF rid = r /\ large THEN rows ELSE [rows EXCEPT ![rid] = row]
        /\ InPlace(rid) \/ Moves(rid)
        /\ past' = [Noted(ix, key, large) EXCEPT !.emptied = @ \/ Indexed(ix) = {}]
  BY Zenon DEF VtabUpdate, MayFit, FreeRids
<1> DEFINE ix == DeleteEntry(index, old, moves1)
<1>3. Deletes
  BY <1>1 DEF Deletes
<1>4. /\ cursors[Writer] # None /\ CursorShape(cursors[Writer])
      /\ \A q \in cursors[Writer].given : Visible(q)
      /\ Visible(r) /\ rows[r] \in Row /\ old \in Key /\ txn # None
  BY <1>1, <1>3, CollectedIsThere
<1>5. /\ DOMAIN cursors' = Stmt /\ CursorShape(cursors'[Writer])
      /\ cursors'[Writer].given = cursors[Writer].given \ {r}
  BY <1>1, <1>4, SettledDoes, Zenon
<1>6. /\ IndexShape(ix)
      /\ \A k \in Key : ix.map[k] = IF k = old THEN None ELSE index.map[k]
  <2>1. IndexShape(index) /\ ix = DeleteEntry(index, old, moves1)
    BY Zenon DEF IInv, Types
  <2> HIDE DEF old, ix
  <2>2. IndexShape(ix) /\ Removed(index, ix, old)
    BY <1>4, <2>1, DeleteEntryDoes, Zenon
  <2> QED BY <2>2, Zenon DEF Removed
<1>7. /\ IndexShape(index')
      /\ \A k \in Key : index'.map[k] =
           IF k = key /\ ix.map[key] = None THEN rid ELSE ix.map[k]
  <2>1. key \in Key /\ index' = InsertEntry(ix, key, rid, moves2) /\ rid \in Rid \cup {InvalidRid}
    BY <1>2, KeyOfRow, Zenon
  <2> HIDE DEF key, ix
  <2>2. IndexShape(index') /\ Entered(ix, index', key, rid)
    BY <1>6, <2>1, InsertEntryDoes, Zenon
  <2> QED BY <2>2, Zenon DEF Entered
<1>8. /\ past' \in Past /\ past'.closed = past.closed
      /\ large => past'.refused = past.refused \cup {key}
      /\ ~large => past'.refused = past.refused
      /\ past'.spoiled <=> past.spoiled \/ large \/ ix.map[key] # None
  <2> DEFINE new == Noted(ix, key, large)
             em == new.emptied \/ Indexed(ix) = {}
  <2>1. /\ new \in Past /\ new.closed = past.closed
        /\ large => new.refused = past.refused \cup {key}
        /\ ~large => new.refused = past.refused
        /\ new.spoiled <=> past.spoiled \/ large \/ ix.map[key] # None
    BY NotedDoes, Zenon
  <2>2. em \in BOOLEAN
    OBVIOUS
  <2>3. past' = [new EXCEPT !.emptied = em]
    BY <1>2, Zenon
  <2> HIDE DEF new, em
  <2>4. /\ past' \in Past /\ past'.closed = new.closed
        /\ past'.refused = new.refused /\ past'.spoiled = new.spoiled
    BY <2>1, <2>2, <2>3, Zenon DEF Past
  <2> QED BY <2>1, <2>4, Zenon
<1>9. /\ txn' \in {None} \cup [deletes : SUBSET Rid] /\ txn' # None
      /\ txn'.deletes = marked' /\ marked' \subseteq Rid
  <2>1. CASE InPlace(rid)
    BY <1>4, <2>1, Zenon DEF IInv, Types, TxnInv
  <2>2. CASE Moves(rid)
    BY <1>4, <2>2, MarkDoes, Zenon
  <2> QED BY <1>2, <2>1, <2>2, Zenon
<1>10. ~large /\ rid # r => rows[rid] = None
  BY <1>2 DEF FreeRids
<1>11. /\ rows' \in [Rid -> Row \cup {None}]
       /\ \A q \in Rid : rows'[q] = IF ~large /\ q = rid THEN row ELSE rows[q]
  BY <1>2, Zenon DEF IInv, Types
<1>12. /\ marked \subseteq marked' /\ marked' \subseteq marked \cup {r}
       /\ ~large /\ rid = r => marked' = marked
       /\ large \/ rid # r => marked' = marked \cup {r}
  BY <1>2, <1>4 DEF FreeRids, Visible
<1>13. row # None /\ rows[r] # None /\ r \notin marked
  BY <1>4, NoneAssumption DEF Visible
<1>14. \A q \in marked : rows[q] # None
  BY DEF IInv, MarkedInv
<1> HIDE DEF key, old, large, InPlace, Moves, ix
<1>15. \A q \in Rid : Visible(q)' <=> (~large /\ q = rid) \/ (Visible(q) /\ q # r)
  BY <1>10, <1>11, <1>12, <1>13, <1>14 DEF Visible
<1>16. Types'
  BY <1>1, <1>5, <1>7, <1>8, <1>9, <1>11, Zenon DEF IInv, Types
<1>17. TxnInv'
  BY <1>1, <1>3, <1>9 DEF TxnInv, Deletes
<1>18. NullInv'
  BY <1>1, <1>8, <1>9, Zenon DEF IInv, NullInv, NullTransactionExplained
<1>19. GivenInv'
  BY <1>4, <1>5, <1>15, Zenon DEF GivenInv, Visible
<1>20. MarkedInv'
  BY <1>9, <1>11, <1>12, <1>13, <1>14 DEF MarkedInv
<1>21. ~large => rid = r \/ ~Visible(rid)
  BY <1>10 DEF Visible
<1>22. /\ large => key \in past'.refused
       /\ past.refused \subseteq past'.refused
  BY <1>8
<1>23. \A q \in Rid :
         /\ Visible(q)' <=> (~large /\ q = rid) \/ (Visible(q) /\ q # r)
         /\ rows'[q] = IF ~large /\ q = rid THEN row ELSE rows[q]
  BY <1>11, <1>15
<1>24. IndexMatchesHeap'
  <2>1. Replaced(r, row, rid, ix)
    BY <1>6, <1>7, <1>8, <1>21, <1>22, <1>23, Zenon DEF Replaced, key, old, large
  <2> QED BY <1>4, <2>1, ReplacedMatch, Zenon
<1> QED BY <1>16, <1>17, <1>18, <1>19, <1>20, <1>24 DEF IInv
------------------------------------------------------------------------------
LEMMA NextIInv == IInv /\ [Next]_vars => IInv'
<1> SUFFICES ASSUME IInv, [Next]_vars PROVE IInv'
  OBVIOUS
<1>1. CASE UNCHANGED vars
  <2>1. UNCHANGED <<rows, marked, index, txn, cursors, sql, crashed, past>>
    BY <1>1 DEF vars
  <2>2. Types' /\ TxnInv'
    BY <2>1 DEF IInv, Types, TxnInv, Deletes
  <2>3. NullInv'
    BY <2>1, Zenon DEF IInv, NullInv, NullTransactionExplained
  <2> QED BY <2>1, <2>2, <2>3, QuietStep DEF IInv, GivenInv
<1> QED BY Zenon, <1>1, VtabCreateStep, VtabConnectStep, VtabDisconnectStep, SqlBeginStep,
           SqlEndStep, VtabBeginStep, EndWriteStep, VtabOpenStep, VtabFilterStep,
           VtabNextStep, VtabCloseStep, VtabInsertStep, VtabDeleteStep, VtabUpdateStep
        DEF Next

LEMMA Inductive == Spec => []IInv
BY InitIInv, NextIInv, PTL DEF Spec

\* VtabUpdate() keeps heap and index in step: whatever statements insert, update and
\* delete, an entry names the row of its key, and every row has its entry until a
\* row is refused, a key is used twice or a connection loses the index.
THEOREM HeapAndIndexAgree == Spec => []IndexMatchesHeap
<1>1. IInv => IndexMatchesHeap
  BY DEF IInv
<1> QED BY <1>1, Inductive, PTL

\* VtabClose() carries out all deletions before the statement that made them ends.
THEOREM DeletionsCarriedOut == Spec => []MarksEndWithStatement
<1>1. IInv => MarksEndWithStatement
  BY DEF IInv, TxnInv, Deletes, MarksEndWithStatement
<1> QED BY <1>1, Inductive, PTL

\* VtabUpdate() meets no transaction only in an explicit transaction of sqlite's in
\* which VtabClose() was called.
THEOREM NullTransactionsExplained == Spec => []NullTransactionExplained
<1>1. IInv => NullTransactionExplained
  BY DEF IInv, NullInv
<1> QED BY <1>1, Inductive, PTL
==============================================================================
