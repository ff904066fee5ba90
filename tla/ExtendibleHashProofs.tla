------------------------- MODULE ExtendibleHashProofs -------------------------
(* What the directory and the latches of ExtendibleHash keep, for every set   *)
(* of keys and threads and every size of a bucket, and that the table is a    *)
(* map for one thread at a time.                                              *)
EXTENDS ExtendibleHash, NaturalsInduction, WellFoundedInduction, SequenceTheorems, TLAPS

\* A set of natural numbers has a smallest one: induction over a set.
LEMMA SmallestOf ==
  ASSUME NEW T \in SUBSET Nat, T # {}
  PROVE  \E m \in T : \A k \in T : m <= k
<1> DEFINE R == OpToRel(<, Nat)
<1>1. IsWellFoundedOn(R, Nat)
  BY NatLessThanWellFounded
<1>2. \A a, b \in Nat : <<a, b>> \in R <=> a < b
  BY DEF OpToRel
<1> HIDE DEF R
<1>3. PICK m \in T : \A k \in T : ~(<<k, m>> \in R)
  BY <1>1, WFMin, Zenon
<1>4. \A k \in T : ~(k < m)
  BY <1>2, <1>3, Zenon
<1> QED BY <1>4
-------------------------------------------------------------------------------
\* 1 << 0 .. 1 << n as a list.
Shifts(n) == {f \in [0 .. n -> Nat] : f[0] = 1 /\ \A i \in 1 .. n : f[i] = 2 * f[i - 1]}

\* The list exists for every n.
LEMMA ShiftsExist == \A n \in Nat : Shifts(n) # {}
<1> DEFINE T == {n \in Nat : Shifts(n) = {}}
<1> SUFFICES ASSUME T # {} PROVE FALSE
  OBVIOUS
<1>1. PICK m \in T : \A k \in T : m <= k
  BY SmallestOf, Zenon
<1>2. CASE m = 0
  <2>1. [i \in 0 .. 0 |-> 1] \in Shifts(0)
    BY DEF Shifts
  <2> QED BY <1>1, <1>2, <2>1
<1>3. CASE m # 0
  <2>1. m - 1 \in Nat /\ m - 1 \notin T
    BY <1>1, <1>3
  <2>2. PICK f \in Shifts(m - 1) : TRUE
    BY <2>1
  <2> DEFINE g == [i \in 0 .. m |-> IF i = m THEN 2 * f[m - 1] ELSE f[i]]
  <2>3. f \in [0 .. m - 1 -> Nat] /\ f[0] = 1 /\ \A i \in 1 .. m - 1 : f[i] = 2 * f[i - 1]
    BY <2>2 DEF Shifts
  <2>4. f[m - 1] \in Nat
    BY <2>1, <2>3
  <2>5. g \in [0 .. m -> Nat] /\ g[0] = 1
    BY <1>3, <2>1, <2>3, <2>4
  <2>6. \A i \in 1 .. m : g[i] = 2 * g[i - 1]
    BY <1>1, <1>3, <2>1, <2>3, <2>4
  <2>7. g \in Shifts(m)
    BY <2>5, <2>6 DEF Shifts
  <2> QED BY <1>1, <2>7
<1> QED BY <1>2, <1>3

\* Two such lists agree where both are defined.
LEMMA ShiftsAgree ==
  ASSUME NEW n \in Nat, NEW m \in Nat, NEW f \in Shifts(n), NEW h \in Shifts(m)
  PROVE  \A i \in Nat : i <= n /\ i <= m => f[i] = h[i]
<1> DEFINE T == {i \in Nat : i <= n /\ i <= m /\ f[i] # h[i]}
<1> SUFFICES ASSUME T # {} PROVE FALSE
  OBVIOUS
<1>1. PICK j \in T : \A k \in T : j <= k
  BY SmallestOf, Zenon
<1>2. f[0] = 1 /\ h[0] = 1
  BY DEF Shifts
<1>3. j # 0 /\ j - 1 \in Nat /\ j - 1 \notin T
  BY <1>1, <1>2
<1>4. f[j - 1] = h[j - 1]
  BY <1>1, <1>3
<1>5. f[j] = 2 * f[j - 1] /\ h[j] = 2 * h[j - 1]
  BY <1>1, <1>3 DEF Shifts
<1> QED BY <1>1, <1>4, <1>5

\* 1 << d is what its definition says.
LEMMA ShlDef == Shl = [d \in Nat |-> IF d = 0 THEN 1 ELSE 2 * Shl[d - 1]]
<1> DEFINE F(n) == CHOOSE f \in Shifts(n) : TRUE
           g == [n \in Nat |-> F(n)[n]]
<1>1. \A n \in Nat : F(n) \in Shifts(n)
  BY ShiftsExist
<1> HIDE DEF F
<1>2. \A n \in Nat : n # 0 => F(n)[n] = 2 * F(n - 1)[n - 1]
  <2> TAKE n \in Nat
  <2> HAVE n # 0
  <2>1. n - 1 \in Nat /\ F(n) \in Shifts(n) /\ F(n - 1) \in Shifts(n - 1)
    BY <1>1
  <2>2. F(n)[n] = 2 * F(n)[n - 1]
    BY <2>1 DEF Shifts
  <2>3. F(n)[n - 1] = F(n - 1)[n - 1]
    BY <2>1, ShiftsAgree
  <2> QED BY <2>2, <2>3
<1>3. F(0)[0] = 1
  BY <1>1 DEF Shifts
<1>4. \A n \in Nat : g[n] = IF n = 0 THEN 1 ELSE 2 * g[n - 1]
  BY <1>2, <1>3
<1>5. g = [d \in Nat |-> IF d = 0 THEN 1 ELSE 2 * g[d - 1]]
  BY <1>4
<1>6. \E s : s = [d \in Nat |-> IF d = 0 THEN 1 ELSE 2 * s[d - 1]]
  BY <1>5, Zenon
<1> QED BY <1>6 DEF Shl

\* It is positive, and doubles with every bit.
LEMMA Shift ==
  /\ Shl[0] = 1
  /\ \A d \in Nat : Shl[d] \in Nat \ {0} /\ Shl[d + 1] = 2 * Shl[d]
<1>1. Shl[0] = 1 /\ \A d \in Nat : Shl[d + 1] = 2 * Shl[d]
  BY ShlDef
<1> DEFINE T == {d \in Nat : Shl[d] \notin Nat \ {0}}
<1>2. ASSUME T # {} PROVE FALSE
  <2>1. PICK m \in T : \A k \in T : m <= k
    BY <1>2, SmallestOf, Zenon
  <2>2. m # 0 /\ m - 1 \in Nat /\ m - 1 \notin T
    BY <1>1, <2>1
  <2>3. Shl[m - 1] \in Nat \ {0} /\ Shl[m] = 2 * Shl[m - 1]
    BY <1>1, <2>2
  <2> QED BY <2>1, <2>3
<1> QED BY <1>1, <1>2

\* 1 << a divides 1 << b for a <= b.
LEMMA ShiftDivides ==
  ASSUME NEW a \in Nat, NEW b \in Nat, a <= b
  PROVE  \E c \in Nat \ {0} : Shl[b] = c * Shl[a]
<1> DEFINE T == {d \in Nat : a <= d /\ ~\E c \in Nat \ {0} : Shl[d] = c * Shl[a]}
<1> SUFFICES ASSUME T # {} PROVE FALSE
  OBVIOUS
<1>1. PICK m \in T : \A k \in T : m <= k
  BY SmallestOf, Zenon
<1>2. m # a
  BY <1>1, Shift
<1>3. m - 1 \in Nat /\ a <= m - 1 /\ m - 1 \notin T
  BY <1>1, <1>2
<1>4. PICK c \in Nat \ {0} : Shl[m - 1] = c * Shl[a]
  BY <1>3
<1>5. Shl[m] = 2 * Shl[m - 1] /\ Shl[a] \in Nat
  BY <1>3, Shift
<1>6. Shl[m] = (2 * c) * Shl[a]
  BY <1>4, <1>5
<1> QED BY <1>1, <1>6

\* q and r are quotient and remainder of n by p.
Divides(n, p, q, r) == q \in Int /\ r \in 0 .. p - 1 /\ n = p * q + r

\* What \div and % compute.
LEMMA Division ==
  ASSUME NEW n \in Int, NEW p \in Nat \ {0}
  PROVE  Divides(n, p, n \div p, n % p)
<1>1. n \div p \in Int
  OBVIOUS
<1>2. n % p \in 0 .. p - 1
  OBVIOUS
<1>3. n = p * (n \div p) + (n % p)
  OBVIOUS
<1> QED BY <1>1, <1>2, <1>3 DEF Divides

\* Quotient and remainder are the only numbers with their property.
LEMMA DivisionUnique ==
  ASSUME NEW n \in Int, NEW p \in Nat \ {0}, NEW q, NEW r, Divides(n, p, q, r)
  PROVE  n \div p = q /\ n % p = r
<1> DEFINE s == n \div p
           u == n % p
<1>1. q \in Int /\ r \in 0 .. p - 1 /\ n = p * q + r
  BY DEF Divides
<1>2. s \in Int /\ u \in 0 .. p - 1 /\ n = p * s + u
  BY Division DEF Divides
<1> HIDE DEF s, u
<1>3. p * (s - q) = r - u
  BY <1>1, <1>2
<1>4. ASSUME s - q >= 1 PROVE FALSE
  <2>1. p * (s - q) >= p
    BY <1>1, <1>2, <1>4
  <2> QED BY <1>1, <1>2, <1>3, <2>1
<1>5. ASSUME s - q <= -1 PROVE FALSE
  <2>1. p * (s - q) <= -p
    BY <1>1, <1>2, <1>5
  <2> QED BY <1>1, <1>2, <1>3, <2>1
<1>6. s = q
  BY <1>1, <1>2, <1>4, <1>5
<1>7. u = r
  BY <1>1, <1>2, <1>6
<1> QED BY <1>6, <1>7 DEF s, u

\* The remainder is a number below the divisor.
LEMMA Remainder ==
  ASSUME NEW n \in Int, NEW p \in Nat \ {0}
  PROVE  n % p \in 0 .. p - 1 /\ n % p \in Int
BY Division DEF Divides

\* A number below the divisor is its own remainder.
LEMMA SmallRemainder ==
  ASSUME NEW p \in Nat \ {0}, NEW r \in 0 .. p - 1
  PROVE  r % p = r
<1>1. Divides(r, p, 0, r)
  BY DEF Divides
<1> QED BY <1>1, DivisionUnique

\* The low a bits of the low b bits.
LEMMA LowBits ==
  ASSUME NEW n \in Int, NEW a \in Nat, NEW b \in Nat, a <= b
  PROVE  (n % Shl[b]) % Shl[a] = n % Shl[a]
<1> DEFINE p == Shl[a]
           q == n \div Shl[b]
           r == n % Shl[b]
           s == r \div p
           u == r % p
<1>1. PICK c \in Nat \ {0} : Shl[b] = c * p
  BY ShiftDivides
<1>2. p \in Nat \ {0} /\ Shl[b] \in Nat \ {0}
  BY Shift
<1>3. Divides(n, Shl[b], q, r) /\ r \in Int
  BY <1>2, Division, Remainder, Zenon
<1>4. Divides(r, p, s, u)
  BY <1>2, <1>3, Division, Zenon
<1> HIDE DEF p, q, r, s, u
<1>5. Divides(n, p, c * q + s, u)
  <2>1. q \in Int /\ n = (c * p) * q + r
    BY <1>1, <1>3 DEF Divides
  <2>2. s \in Int /\ u \in 0 .. p - 1 /\ r = p * s + u
    BY <1>4 DEF Divides
  <2>3. (c * p) * q = p * (c * q)
    BY <1>2, <2>1
  <2>4. c * q \in Int
    BY <2>1
  <2>5. p * (c * q) + p * s = p * (c * q + s)
    BY <1>2, <2>2, <2>4
  <2> QED BY <1>2, <2>1, <2>2, <2>3, <2>4, <2>5 DEF Divides
<1>6. n % p = u
  BY <1>2, <1>5, DivisionUnique
<1> QED BY <1>6 DEF p, u, r

\* One bit more: n & (1 << d) says which half of the next modulus n falls into.
LEMMA NextBit ==
  ASSUME NEW n \in Int, NEW d \in Nat
  PROVE  n % Shl[d + 1] = IF HasBit(n, d) THEN (n % Shl[d]) + Shl[d] ELSE n % Shl[d]
<1> DEFINE p == Shl[d]
           q == n \div p
           r == n % p
<1>1. p \in Nat \ {0} /\ Shl[d + 1] = 2 * p
  BY Shift
<1>2. Divides(n, p, q, r)
  BY <1>1, Division, Zenon
<1>3. HasBit(n, d) <=> q % 2 = 1
  BY DEF HasBit
<1> HIDE DEF q, r, p
<1>4. q \in Int /\ r \in 0 .. p - 1 /\ n = p * q + r
  BY <1>2 DEF Divides
<1>5. 2 * p \in Nat \ {0}
  BY <1>1
<1>6. CASE q % 2 = 1
  <2>1. PICK h \in Int : q = 2 * h + 1
    BY <1>4, <1>6
  <2>2. n = (2 * p) * h + (r + p)
    BY <1>1, <1>4, <2>1
  <2>3. Divides(n, 2 * p, h, r + p)
    BY <1>1, <1>4, <2>2 DEF Divides
  <2>4. n % (2 * p) = r + p
    BY <1>5, <2>3, DivisionUnique
  <2> QED BY <1>1, <1>3, <1>6, <2>4 DEF p, r
<1>7. CASE q % 2 # 1
  <2>1. PICK h \in Int : q = 2 * h
    BY <1>4, <1>7
  <2>2. n = (2 * p) * h + r
    BY <1>1, <1>4, <2>1
  <2>3. Divides(n, 2 * p, h, r)
    BY <1>1, <1>4, <2>2 DEF Divides
  <2>4. n % (2 * p) = r
    BY <1>5, <2>3, DivisionUnique
  <2> QED BY <1>1, <1>3, <1>7, <2>4 DEF p, r
<1> QED BY <1>6, <1>7

\* A bit of the low bits.
LEMMA LowBitsHaveBit ==
  ASSUME NEW n \in Int, NEW d \in Nat, NEW g \in Nat, d < g
  PROVE  HasBit(n % Shl[g], d) <=> HasBit(n, d)
<1> DEFINE r == n % Shl[g]
<1>1. r \in Int /\ Shl[d] \in Nat \ {0} /\ n % Shl[d] \in Int
  BY Shift, Remainder, Zenon
<1>2. r % Shl[d + 1] = n % Shl[d + 1] /\ r % Shl[d] = n % Shl[d]
  BY LowBits
<1> HIDE DEF r
<1>3. r % Shl[d + 1] = IF HasBit(r, d) THEN (r % Shl[d]) + Shl[d] ELSE r % Shl[d]
  BY <1>1, NextBit
<1>4. n % Shl[d + 1] = IF HasBit(n, d) THEN (n % Shl[d]) + Shl[d] ELSE n % Shl[d]
  BY NextBit
<1>5. HasBit(r, d) <=> HasBit(n, d)
  BY <1>1, <1>2, <1>3, <1>4
<1> QED BY <1>5 DEF r
-------------------------------------------------------------------------------
Entry == Value \cup {Null, NoValue}
BucketRecord == [localDepth : 0 .. MaxDepth + 1, keymap : [Key -> Entry],
                 latch : Thread \cup {NoThread}]
Places == {"idle", "index", "read", "lock", "locked", "found", "split",
           "reindex", "reread", "depth"}
ThreadRecord ==
  [call : Calls \cup {"none"}, at : Places, key : Key \cup {0}, value : Value \cup {NoValue},
   index : 0 .. Shl[globalDepth] - 1, bucket : {0} \cup DOMAIN heap]
Answers == Entry \cup {1} \cup -1 .. MaxDepth

\* Where a thread holds the latch of its bucket.
Inside == {"locked", "found", "split", "reindex", "reread"}

\* The locals r of a call fit the place where it is.
Placed(r) ==
  /\ r.at = "idle" => r = Idle
  /\ r.at = "depth" <=> r.call = "GetLocalDepth"
  /\ r.at = "found" => r.call = "Find"
  /\ r.at \in {"split", "reindex", "reread"} => r.call = "Insert"
  /\ r.call \in {"Insert", "Find", "Remove"} => r.key \in Key
  /\ r.call = "Insert" => r.value \in Value
  /\ r.at \in Inside \cup {"lock", "depth"} => r.bucket # 0
  /\ r.at \in {"index", "read", "lock", "locked"} => r.call \in {"Insert", "Find", "Remove"}

\* Who holds the directory's latch, and who holds that of bucket b.
DirectoryLatch == \A t \in Thread : thread[t].at = "depth" <=> latch = t
Holds(t, b) == thread[t].at \in Inside /\ thread[t].bucket = b
BucketLatches == \A t \in Thread, b \in DOMAIN heap : heap[b].latch = t <=> Holds(t, b)

Splitting(b) == \E t \in Thread : At(t, "Insert", "split") /\ thread[t].bucket = b

\* The bits that the indexes of bucket b share.
Depth(b) == IF Splitting(b) THEN heap[b].localDepth - 1 ELSE heap[b].localDepth

\* The indexes of bucket b are those that agree with i on Depth(b) bits.
NamedLike(b, i) ==
  \A j \in DOMAIN buckets : buckets[j] = b <=> j % Shl[Depth(b)] = i % Shl[Depth(b)]

Partition ==
  \A b \in DOMAIN heap :
    Depth(b) \in 0 .. globalDepth /\ \E i \in DOMAIN buckets : NamedLike(b, i)

\* The inductive invariant.
HashInv ==
  /\ TypeOK
  /\ bucketNum = Len(heap)
  /\ \A t \in Thread : Placed(thread[t])
  /\ DirectoryLatch
  /\ BucketLatches
  /\ Partition

\* The parts of TypeOK by name.
LEMMA Types ==
  TypeOK <=> /\ globalDepth \in 0 .. MaxDepth
             /\ bucketNum \in Nat
             /\ buckets \in [0 .. Shl[globalDepth] - 1 -> DOMAIN heap]
             /\ heap \in Seq(BucketRecord)
             /\ latch \in Thread \cup {NoThread}
             /\ thread \in [Thread -> ThreadRecord]
             /\ answer \in [Thread -> Answers]
BY DEF TypeOK, Entry, BucketRecord, Places, ThreadRecord, Answers

\* The bits of a bucket and of the directory are natural numbers.
LEMMA Depths ==
  ASSUME HashInv
  PROVE  /\ globalDepth \in Nat /\ Shl[globalDepth] \in Nat \ {0}
         /\ DOMAIN buckets = 0 .. Shl[globalDepth] - 1
         /\ DOMAIN heap = 1 .. Len(heap) /\ Len(heap) \in Nat
         /\ \A b \in DOMAIN heap : heap[b] \in BucketRecord /\ heap[b].localDepth \in Nat
         /\ \A b \in DOMAIN heap : Depth(b) \in Nat /\ Depth(b) <= globalDepth
<1>1. TypeOK
  BY DEF HashInv
<1>2. globalDepth \in Nat /\ Shl[globalDepth] \in Nat \ {0}
  <2>1. globalDepth \in 0 .. MaxDepth
    BY <1>1, Types
  <2>2. globalDepth \in Nat
    BY <2>1, HashAssumption
  <2> QED BY <2>2, Shift
<1>3. DOMAIN buckets = 0 .. Shl[globalDepth] - 1 /\ heap \in Seq(BucketRecord)
  BY <1>1, Types
<1>4. DOMAIN heap = 1 .. Len(heap) /\ Len(heap) \in Nat
  BY <1>3
<1>5. \A b \in DOMAIN heap : heap[b] \in BucketRecord
  BY <1>3
<1>6. \A b \in DOMAIN heap : heap[b].localDepth \in Nat
  BY <1>5, HashAssumption DEF BucketRecord
<1>7. \A b \in DOMAIN heap : Depth(b) \in Nat /\ Depth(b) <= globalDepth
  BY <1>2 DEF HashInv, Partition
<1> QED BY <1>2, <1>3, <1>4, <1>5, <1>6, <1>7

\* A step of t that splits nothing keeps the partition.
LEMMA PartitionKept ==
  ASSUME HashInv, NEW t \in Thread, UNCHANGED <<globalDepth, buckets>>,
         DOMAIN heap' = DOMAIN heap,
         \A b \in DOMAIN heap : heap'[b].localDepth = heap[b].localDepth,
         \A u \in Thread \ {t} : thread'[u] = thread[u],
         thread[t].at # "split", thread'[t].at # "split"
  PROVE  Partition'
<1>1. \A b \in DOMAIN heap : Splitting(b)' <=> Splitting(b)
  BY DEF Splitting, At
<1>2. \A b \in DOMAIN heap : Depth(b)' = Depth(b)
  BY <1>1 DEF Depth
<1>3. \A b \in DOMAIN heap, i \in DOMAIN buckets : NamedLike(b, i) => NamedLike(b, i)'
  BY <1>2 DEF NamedLike
<1> QED BY <1>2, <1>3 DEF HashInv, Partition

\* Latches of buckets: t takes none and releases none, ...
LEMMA LatchesKept ==
  ASSUME HashInv, NEW t \in Thread, DOMAIN heap' = DOMAIN heap,
         \A b \in DOMAIN heap : heap'[b].latch = heap[b].latch,
         \A u \in Thread \ {t} : thread'[u] = thread[u],
         \A b \in DOMAIN heap : Holds(t, b)' <=> Holds(t, b)
  PROVE  BucketLatches'
<1>1. \A u \in Thread \ {t}, b \in DOMAIN heap : Holds(u, b)' <=> Holds(u, b)
  BY DEF Holds
<1> QED BY <1>1 DEF HashInv, BucketLatches

\* ... or t takes its bucket's, which nobody has, ...
LEMMA LatchTaken ==
  ASSUME HashInv, NEW t \in Thread, NEW c \in DOMAIN heap, DOMAIN heap' = DOMAIN heap,
         heap[c].latch = NoThread, heap'[c].latch = t,
         \A b \in DOMAIN heap \ {c} : heap'[b].latch = heap[b].latch,
         \A u \in Thread \ {t} : thread'[u] = thread[u],
         thread[t].at \notin Inside, thread'[t].at \in Inside, thread'[t].bucket = c
  PROVE  BucketLatches'
<1>1. \A u \in Thread \ {t}, b \in DOMAIN heap : Holds(u, b)' <=> Holds(u, b)
  BY DEF Holds
<1>2. \A u \in Thread : ~Holds(u, c)
  BY HashAssumption DEF HashInv, BucketLatches
<1>3. \A b \in DOMAIN heap : ~Holds(t, b) /\ (Holds(t, b)' <=> b = c)
  BY DEF Holds
<1>4. \A u \in Thread, b \in DOMAIN heap : heap[b].latch = u <=> Holds(u, b)
  BY DEF HashInv, BucketLatches
<1>5. \A u \in Thread, b \in DOMAIN heap : heap'[b].latch = u <=> Holds(u, b)'
  BY <1>1, <1>2, <1>3, <1>4
<1> QED BY <1>5 DEF BucketLatches

\* ... or releases it.
LEMMA LatchReleased ==
  ASSUME HashInv, NEW t \in Thread, NEW c \in DOMAIN heap, DOMAIN heap' = DOMAIN heap,
         heap'[c].latch = NoThread,
         \A b \in DOMAIN heap \ {c} : heap'[b].latch = heap[b].latch,
         \A u \in Thread \ {t} : thread'[u] = thread[u],
         thread[t].at \in Inside, thread[t].bucket = c, thread'[t].at \notin Inside
  PROVE  BucketLatches'
<1>1. \A u \in Thread \ {t}, b \in DOMAIN heap : Holds(u, b)' <=> Holds(u, b)
  BY DEF Holds
<1>2. \A u \in Thread, b \in DOMAIN heap : heap[b].latch = u <=> Holds(u, b)
  BY DEF HashInv, BucketLatches
<1>3. \A b \in DOMAIN heap : (Holds(t, b) <=> b = c) /\ ~Holds(t, b)'
  BY DEF Holds
<1>4. \A u \in Thread \ {t} : ~Holds(u, c)
  BY <1>2, <1>3
<1>5. \A u \in Thread, b \in DOMAIN heap : heap'[b].latch = u <=> Holds(u, b)'
  BY <1>1, <1>2, <1>3, <1>4, HashAssumption
<1> QED BY <1>5 DEF BucketLatches

\* The invariant from its parts, after a step of t that makes no bucket.
LEMMA PartsKept ==
  ASSUME HashInv, NEW t \in Thread, UNCHANGED <<globalDepth, bucketNum, buckets>>,
         heap' \in Seq(BucketRecord), Len(heap') = Len(heap),
         latch' \in Thread \cup {NoThread}, answer' \in [Thread -> Answers],
         thread' \in [Thread -> ThreadRecord],
         \A u \in Thread \ {t} : thread'[u] = thread[u],
         Placed(thread'[t]), DirectoryLatch', BucketLatches', Partition'
  PROVE  HashInv'
<1>1. DOMAIN heap' = DOMAIN heap
  BY Depths
<1>2. ThreadRecord' = ThreadRecord
  BY <1>1 DEF ThreadRecord
<1>3. TypeOK'
  <2>1. TypeOK
    BY DEF HashInv
  <2>2. /\ globalDepth' \in 0 .. MaxDepth
        /\ bucketNum' \in Nat
        /\ buckets' \in [0 .. Shl[globalDepth'] - 1 -> DOMAIN heap']
    BY <1>1, <2>1, Types
  <2>3. thread' \in [Thread -> ThreadRecord']
    BY <1>2
  <2> QED BY <2>2, <2>3 DEF TypeOK, Entry, BucketRecord, Places, ThreadRecord, Answers
<1>4. \A u \in Thread : Placed(thread'[u])
  BY DEF HashInv
<1> QED BY <1>3, <1>4 DEF HashInv, Placed

\* A step that changes only t's locals.
LEMMA OneMoves ==
  ASSUME HashInv, NEW t \in Thread, NEW r \in ThreadRecord,
         thread' = [thread EXCEPT ![t] = r]
  PROVE  /\ thread' \in [Thread -> ThreadRecord]
         /\ thread'[t] = r
         /\ \A u \in Thread \ {t} : thread'[u] = thread[u]
<1>1. thread \in [Thread -> ThreadRecord]
  BY Types DEF HashInv
<1> QED BY <1>1

\* The locals of t before its step.
LEMMA Locals ==
  ASSUME HashInv, NEW t \in Thread
  PROVE  /\ thread[t] \in ThreadRecord
         /\ Placed(thread[t])
         /\ thread[t].at = "depth" <=> latch = t
         /\ thread[t].at \in Inside \cup {"lock", "depth"} => thread[t].bucket \in DOMAIN heap
         /\ thread[t].at \in Inside => heap[thread[t].bucket].latch = t
<1>1. thread[t] \in ThreadRecord /\ Placed(thread[t])
  BY Types DEF HashInv
<1>2. thread[t].at \in Inside \cup {"lock", "depth"} => thread[t].bucket \in DOMAIN heap
  BY <1>1 DEF Placed, ThreadRecord
<1>3. thread[t].at \in Inside => heap[thread[t].bucket].latch = t
  BY <1>2 DEF HashInv, BucketLatches, Holds
<1>4. thread[t].at = "depth" <=> latch = t
  BY DEF HashInv, DirectoryLatch
<1> QED BY <1>1, <1>2, <1>3, <1>4

\* A step inside or outside a latch that leaves all buckets alone.
LEMMA QuietKeeps ==
  ASSUME HashInv, NEW t \in Thread, NEW r \in ThreadRecord,
         thread' = [thread EXCEPT ![t] = r],
         UNCHANGED <<globalDepth, bucketNum, buckets, heap>>,
         latch' \in Thread \cup {NoThread}, answer' \in [Thread -> Answers],
         Placed(r), DirectoryLatch',
         r.at \in Inside <=> thread[t].at \in Inside,
         r.at \in Inside => r.bucket = thread[t].bucket,
         thread[t].at # "split", r.at # "split"
  PROVE  HashInv'
<1>1. /\ thread' \in [Thread -> ThreadRecord]
      /\ thread'[t] = r
      /\ \A u \in Thread \ {t} : thread'[u] = thread[u]
  BY OneMoves, Zenon
<1>2. Partition'
  BY <1>1, PartitionKept
<1>3. \A b \in DOMAIN heap : Holds(t, b)' <=> Holds(t, b)
  BY <1>1 DEF Holds
<1>4. BucketLatches'
  BY <1>1, <1>3, LatchesKept
<1>5. heap' \in Seq(BucketRecord) /\ Len(heap') = Len(heap)
  BY Types DEF HashInv
<1> QED BY <1>1, <1>2, <1>4, <1>5, PartsKept

\* The index of a key is one of the directory's.
LEMMA IndexInDirectory ==
  ASSUME HashInv, NEW k \in Key
  PROVE  k \in Int /\ Index(k) \in 0 .. Shl[globalDepth] - 1 /\ Index(k) \in DOMAIN buckets
<1>1. k \in Int
  BY HashAssumption
<1>2. k % Shl[globalDepth] \in 0 .. Shl[globalDepth] - 1
  BY <1>1, Depths, Remainder, Zenon
<1> QED BY <1>1, <1>2, Depths DEF Index

\* A directory latch that t neither takes nor releases.
LEMMA DirectoryLatchKept ==
  ASSUME HashInv, NEW t \in Thread, latch' = latch,
         \A u \in Thread \ {t} : thread'[u] = thread[u],
         thread'[t].at = "depth" <=> thread[t].at = "depth"
  PROVE  DirectoryLatch' /\ latch' \in Thread \cup {NoThread}
<1>1. latch \in Thread \cup {NoThread}
  BY Types DEF HashInv
<1> QED BY <1>1 DEF HashInv, DirectoryLatch

\* The locals of a thread between two calls.
LEMMA IdleRecord ==
  ASSUME HashInv
  PROVE  Idle \in ThreadRecord /\ Placed(Idle) /\ Idle.at = "idle"
<1>1. 0 \in 0 .. Shl[globalDepth] - 1
  BY Depths
<1>2. Idle \in ThreadRecord
  BY <1>1 DEF Idle, ThreadRecord, Places
<1> QED BY <1>2 DEF Idle, Placed, Inside

\* Call() of Insert, Find and Remove.
LEMMA CallKeeps ==
  ASSUME HashInv, NEW t \in Thread, NEW call \in {"Insert", "Find", "Remove"},
         NEW k \in Key, NEW v \in Value \cup {NoValue}, call = "Insert" => v \in Value,
         Call(t, call, k, v)
  PROVE  HashInv'
<1> DEFINE r == [Idle EXCEPT !.call = call, !.key = k, !.value = v, !.at = "index"]
<1>1. Idle \in ThreadRecord
  BY IdleRecord
<1>2. r \in ThreadRecord /\ r.at = "index" /\ r.call = call /\ r.key = k /\ r.value = v
  <2>1. call \in Calls
    BY DEF Call
  <2> QED BY <1>1, <2>1, Zenon DEF ThreadRecord, Places
<1>3. thread' = [thread EXCEPT ![t] = r] /\ thread[t] = Idle
  BY DEF Call
<1> HIDE DEF r
<1>4. Placed(r) /\ thread[t].at = "idle"
  BY <1>2, <1>3 DEF Placed, Inside, Idle
<1>5. DirectoryLatch' /\ latch' \in Thread \cup {NoThread}
  BY <1>2, <1>3, <1>4, OneMoves, DirectoryLatchKept DEF Call
<1>6. answer' \in [Thread -> Answers]
  BY Types DEF HashInv, Call
<1> QED BY <1>2, <1>3, <1>4, <1>5, <1>6, QuietKeeps, Zenon DEF Call, Inside

\* getIndex() and the reads of the directory.
LEMMA GetIndexKeeps ==
  ASSUME HashInv, NEW t \in Thread, GetIndex(t) \/ ReIndex(t)
  PROVE  HashInv'
<1> DEFINE next == IF thread[t].at = "index" THEN "read" ELSE "reread"
           r == [thread[t] EXCEPT !.index = Index(thread[t].key), !.at = next]
<1>1. thread[t] \in ThreadRecord /\ Placed(thread[t]) /\ thread[t].at \in {"index", "reindex"}
  BY Locals DEF GetIndex, ReIndex
<1>2. thread[t].key \in Key
  BY <1>1 DEF Placed
<1>3. Index(thread[t].key) \in 0 .. Shl[globalDepth] - 1
  BY <1>2, IndexInDirectory
<1>4. thread' = [thread EXCEPT ![t] = r]
  <2>1. thread \in [Thread -> ThreadRecord]
    BY Types DEF HashInv
  <2> QED BY <2>1 DEF GetIndex, ReIndex, ThreadRecord
<1>5. next \in {"read", "reread"}
  OBVIOUS
<1>6. (next = "read" <=> thread[t].at = "index") /\ (next = "reread" <=> thread[t].at = "reindex")
  BY <1>1
<1> HIDE DEF next
<1>7. /\ r \in ThreadRecord /\ r.at = next /\ r.call = thread[t].call /\ r.key = thread[t].key
      /\ r.value = thread[t].value /\ r.bucket = thread[t].bucket
  BY <1>1, <1>3, <1>5, Zenon DEF ThreadRecord, Places
<1> HIDE DEF r
<1>8. Placed(r)
  BY <1>1, <1>5, <1>6, <1>7 DEF Placed, Inside
<1>9. DirectoryLatch' /\ latch' \in Thread \cup {NoThread}
  <2>1. thread'[t].at # "depth" /\ thread[t].at # "depth"
    BY <1>1, <1>4, <1>5, <1>7, OneMoves
  <2>2. \A u \in Thread \ {t} : thread'[u] = thread[u]
    BY <1>4, <1>7, OneMoves
  <2>3. latch' = latch
    BY DEF GetIndex, ReIndex
  <2> QED BY <2>1, <2>2, <2>3, DirectoryLatchKept
<1>10. answer' \in [Thread -> Answers] /\ UNCHANGED <<globalDepth, bucketNum, buckets, heap>>
  BY Types DEF HashInv, GetIndex, ReIndex
<1>11. (r.at \in Inside <=> thread[t].at \in Inside) /\ thread[t].at # "split" /\ r.at # "split"
  BY <1>1, <1>5, <1>6, <1>7 DEF Inside
<1> QED BY <1>4, <1>7, <1>8, <1>9, <1>10, <1>11, QuietKeeps, Zenon

\* buckets[curIndex] before the bucket's latch.
LEMMA ReadDirectoryKeeps ==
  ASSUME HashInv, NEW t \in Thread, ReadDirectory(t)
  PROVE  HashInv'
<1> DEFINE b == buckets[thread[t].index]
           r == [thread[t] EXCEPT !.bucket = b, !.at = "lock"]
<1>1. thread[t] \in ThreadRecord /\ Placed(thread[t]) /\ thread[t].at = "read"
  BY Locals DEF ReadDirectory
<1>2. b \in DOMAIN heap /\ b # 0
  <2>1. buckets \in [0 .. Shl[globalDepth] - 1 -> DOMAIN heap]
    BY Types DEF HashInv
  <2>2. thread[t].index \in 0 .. Shl[globalDepth] - 1
    BY <1>1 DEF ThreadRecord
  <2> QED BY <2>1, <2>2, Depths
<1>3. thread' = [thread EXCEPT ![t] = r]
  <2>1. thread \in [Thread -> ThreadRecord]
    BY Types DEF HashInv
  <2> QED BY <2>1 DEF ReadDirectory, ThreadRecord
<1> HIDE DEF b
<1>4. /\ r \in ThreadRecord /\ r.at = "lock" /\ r.call = thread[t].call /\ r.key = thread[t].key
      /\ r.value = thread[t].value /\ r.bucket = b
  BY <1>1, <1>2, Zenon DEF ThreadRecord, Places
<1> HIDE DEF r
<1>5. Placed(r)
  BY <1>1, <1>2, <1>4 DEF Placed, Inside
<1>6. DirectoryLatch' /\ latch' \in Thread \cup {NoThread}
  <2>1. thread'[t].at # "depth" /\ thread[t].at # "depth"
    BY <1>1, <1>3, <1>4, OneMoves
  <2>2. \A u \in Thread \ {t} : thread'[u] = thread[u]
    BY <1>3, <1>4, OneMoves
  <2>3. latch' = latch
    BY DEF ReadDirectory
  <2> QED BY <2>1, <2>2, <2>3, DirectoryLatchKept
<1>7. answer' \in [Thread -> Answers] /\ UNCHANGED <<globalDepth, bucketNum, buckets, heap>>
  BY Types DEF HashInv, ReadDirectory
<1>8. r.at \notin Inside /\ thread[t].at \notin Inside /\ thread[t].at # "split" /\ r.at # "split"
  BY <1>1, <1>4 DEF Inside
<1> QED BY <1>3, <1>4, <1>5, <1>6, <1>7, <1>8, QuietKeeps, Zenon

\* What a step does to the buckets h: the latch of one, ...
Relatched(g, h, c, l) ==
  /\ g \in Seq(BucketRecord) /\ Len(g) = Len(h) /\ DOMAIN g = DOMAIN h
  /\ \A b \in DOMAIN h : g[b].localDepth = h[b].localDepth /\ g[b].keymap = h[b].keymap
  /\ g[c].latch = l
  /\ \A b \in DOMAIN h \ {c} : g[b] = h[b]

LEMMA LatchSet ==
  ASSUME NEW h \in Seq(BucketRecord), NEW c \in DOMAIN h, NEW l \in Thread \cup {NoThread}
  PROVE  Relatched([h EXCEPT ![c].latch = l], h, c, l)
<1> DEFINE r == [h[c] EXCEPT !.latch = l]
           g == [h EXCEPT ![c] = r]
<1>1. h[c] \in BucketRecord
  OBVIOUS
<1>2. /\ r \in BucketRecord /\ r.latch = l
      /\ r.localDepth = h[c].localDepth /\ r.keymap = h[c].keymap
  BY <1>1 DEF BucketRecord
<1> HIDE DEF r
<1>3. g \in Seq(BucketRecord) /\ Len(g) = Len(h) /\ DOMAIN g = DOMAIN h
  BY <1>2, ExceptSeq
<1>4. g[c] = r /\ \A b \in DOMAIN h \ {c} : g[b] = h[b]
  OBVIOUS
<1> HIDE DEF g
<1>5. Relatched(g, h, c, l)
  BY <1>2, <1>3, <1>4 DEF Relatched
<1> QED BY <1>5 DEF g, r

\* ... the entry of a key in one, ...
Rewritten(g, h, c, k, v) ==
  /\ g \in Seq(BucketRecord) /\ Len(g) = Len(h) /\ DOMAIN g = DOMAIN h
  /\ \A b \in DOMAIN h : g[b].localDepth = h[b].localDepth /\ g[b].latch = h[b].latch
  /\ g[c].keymap = [h[c].keymap EXCEPT ![k] = v]
  /\ \A b \in DOMAIN h \ {c} : g[b] = h[b]

LEMMA EntrySet ==
  ASSUME NEW h \in Seq(BucketRecord), NEW c \in DOMAIN h, NEW k \in Key, NEW v \in Entry
  PROVE  Rewritten([h EXCEPT ![c].keymap[k] = v], h, c, k, v)
<1> DEFINE m == [h[c].keymap EXCEPT ![k] = v]
           r == [h[c] EXCEPT !.keymap = m]
           g == [h EXCEPT ![c] = r]
<1>1. h[c] \in BucketRecord
  OBVIOUS
<1>2. m \in [Key -> Entry]
  BY <1>1 DEF BucketRecord
<1> HIDE DEF m
<1>3. /\ r \in BucketRecord /\ r.keymap = m
      /\ r.localDepth = h[c].localDepth /\ r.latch = h[c].latch
  BY <1>1, <1>2 DEF BucketRecord
<1> HIDE DEF r
<1>4. g \in Seq(BucketRecord) /\ Len(g) = Len(h) /\ DOMAIN g = DOMAIN h
  BY <1>3, ExceptSeq
<1>5. g[c] = r /\ \A b \in DOMAIN h \ {c} : g[b] = h[b]
  OBVIOUS
<1> HIDE DEF g
<1>6. Rewritten(g, h, c, k, v)
  BY <1>3, <1>4, <1>5 DEF Rewritten, m
<1> QED BY <1>6 DEF g, r, m

\* ... or both: an entry in c, and the latch of b released.
Stored(g, h, c, k, v, b) ==
  /\ g \in Seq(BucketRecord) /\ Len(g) = Len(h) /\ DOMAIN g = DOMAIN h
  /\ \A d \in DOMAIN h : g[d].localDepth = h[d].localDepth
  /\ g[c].keymap = [h[c].keymap EXCEPT ![k] = v]
  /\ \A d \in DOMAIN h \ {c} : g[d].keymap = h[d].keymap
  /\ g[b].latch = NoThread
  /\ \A d \in DOMAIN h \ {b} : g[d].latch = h[d].latch

LEMMA EntryAndLatchSet ==
  ASSUME NEW h \in Seq(BucketRecord), NEW c \in DOMAIN h, NEW k \in Key, NEW v \in Entry,
         NEW b \in DOMAIN h
  PROVE  Stored([h EXCEPT ![c].keymap[k] = v, ![b].latch = NoThread], h, c, k, v, b)
<1> DEFINE f == [h EXCEPT ![c].keymap[k] = v]
           g == [f EXCEPT ![b].latch = NoThread]
<1>1. Rewritten(f, h, c, k, v)
  BY EntrySet
<1> HIDE DEF f
<1>2. f \in Seq(BucketRecord) /\ DOMAIN f = DOMAIN h
  BY <1>1 DEF Rewritten
<1>3. Relatched(g, f, b, NoThread)
  BY <1>2, LatchSet, Zenon
<1> HIDE DEF g
<1>4. g \in Seq(BucketRecord) /\ Len(g) = Len(h) /\ DOMAIN g = DOMAIN h
  BY <1>1, <1>3 DEF Rewritten, Relatched
<1>5. \A d \in DOMAIN h : g[d].localDepth = h[d].localDepth /\ g[d].keymap = f[d].keymap
  BY <1>1, <1>3 DEF Rewritten, Relatched
<1>6. g[b].latch = NoThread /\ \A d \in DOMAIN h \ {b} : g[d].latch = h[d].latch
  BY <1>1, <1>3 DEF Rewritten, Relatched
<1>7. f[c].keymap = [h[c].keymap EXCEPT ![k] = v] /\ \A d \in DOMAIN h \ {c} : f[d] = h[d]
  BY <1>1 DEF Rewritten
<1>8. Stored(g, h, c, k, v, b)
  BY <1>4, <1>5, <1>6, <1>7 DEF Stored
<1> QED BY <1>8 DEF g, f

\* The bucket's latch is taken.
LEMMA LockBucketKeeps ==
  ASSUME HashInv, NEW t \in Thread, LockBucket(t)
  PROVE  HashInv'
<1> DEFINE c == thread[t].bucket
           r == [thread[t] EXCEPT !.at = "locked"]
<1>1. thread[t] \in ThreadRecord /\ Placed(thread[t]) /\ thread[t].at = "lock" /\ c \in DOMAIN heap
  BY Locals DEF LockBucket
<1>2. /\ r \in ThreadRecord /\ r.at = "locked" /\ r.call = thread[t].call
      /\ r.key = thread[t].key /\ r.value = thread[t].value /\ r.bucket = c
  BY <1>1 DEF ThreadRecord, Places
<1>3. thread' = [thread EXCEPT ![t] = r] /\ heap' = [heap EXCEPT ![c].latch = t]
  BY DEF LockBucket, GoTo
<1>4. heap[c].latch = NoThread /\ UNCHANGED <<globalDepth, bucketNum, buckets, latch, answer>>
  BY DEF LockBucket
<1> HIDE DEF r, c
<1>5. /\ heap' \in Seq(BucketRecord) /\ Len(heap') = Len(heap) /\ DOMAIN heap' = DOMAIN heap
      /\ \A b \in DOMAIN heap : heap'[b].localDepth = heap[b].localDepth
      /\ heap'[c].latch = t
      /\ \A b \in DOMAIN heap \ {c} : heap'[b] = heap[b]
  <2>1. heap \in Seq(BucketRecord)
    BY Types DEF HashInv
  <2>2. Relatched(heap', heap, c, t)
    BY <1>1, <1>3, <2>1, LatchSet, Zenon
  <2> QED BY <2>2 DEF Relatched
<1>6. /\ thread' \in [Thread -> ThreadRecord] /\ thread'[t] = r
      /\ \A u \in Thread \ {t} : thread'[u] = thread[u]
  BY <1>2, <1>3, OneMoves, Zenon
<1>7. BucketLatches'
  BY <1>1, <1>2, <1>4, <1>5, <1>6, LatchTaken DEF Inside
<1>8. Partition'
  BY <1>1, <1>2, <1>4, <1>5, <1>6, PartitionKept
<1>9. DirectoryLatch' /\ latch' \in Thread \cup {NoThread}
  BY <1>1, <1>2, <1>4, <1>6, DirectoryLatchKept
<1>10. Placed(thread'[t])
  BY <1>1, <1>2, <1>6 DEF Placed, Inside, c
<1>11. answer' \in [Thread -> Answers]
  BY <1>4, Types DEF HashInv
<1> QED BY <1>4, <1>5, <1>6, <1>7, <1>8, <1>9, <1>10, <1>11, PartsKept

\* The end of a call, or of Insert's loop: the bucket's latch is released.
LEMMA ReleaseKeeps ==
  ASSUME HashInv, NEW t \in Thread, NEW r \in ThreadRecord,
         thread' = [thread EXCEPT ![t] = r], Placed(r), r.at \in {"idle", "lock"},
         thread[t].at \in Inside, thread[t].at # "split",
         heap' \in Seq(BucketRecord), Len(heap') = Len(heap), DOMAIN heap' = DOMAIN heap,
         \A b \in DOMAIN heap : heap'[b].localDepth = heap[b].localDepth,
         heap'[thread[t].bucket].latch = NoThread,
         \A b \in DOMAIN heap \ {thread[t].bucket} : heap'[b].latch = heap[b].latch,
         UNCHANGED <<globalDepth, bucketNum, buckets, latch>>, answer' \in [Thread -> Answers]
  PROVE  HashInv'
<1>1. thread[t].bucket \in DOMAIN heap /\ thread[t].at # "depth"
  BY Locals DEF Inside
<1>2. /\ thread' \in [Thread -> ThreadRecord] /\ thread'[t] = r
      /\ \A u \in Thread \ {t} : thread'[u] = thread[u]
  BY OneMoves, Zenon
<1>3. r.at \notin Inside /\ r.at # "split" /\ r.at # "depth"
  BY DEF Inside
<1>4. BucketLatches'
  BY <1>1, <1>2, <1>3, LatchReleased
<1>5. Partition'
  BY <1>1, <1>2, <1>3, PartitionKept
<1>6. DirectoryLatch' /\ latch' \in Thread \cup {NoThread}
  BY <1>1, <1>2, <1>3, DirectoryLatchKept
<1> QED BY <1>2, <1>4, <1>5, <1>6, PartsKept

\* A value that a call may return.
LEMMA Answered ==
  ASSUME HashInv, NEW t \in Thread, NEW v \in Answers, answer' = [answer EXCEPT ![t] = v]
  PROVE  answer' \in [Thread -> Answers]
<1>1. answer \in [Thread -> Answers]
  BY Types DEF HashInv
<1> QED BY <1>1

\* The entry of a key in a bucket.
LEMMA EntryOf ==
  ASSUME HashInv, NEW b \in DOMAIN heap, NEW k \in Key
  PROVE  heap[b].keymap \in [Key -> Entry] /\ heap[b].keymap[k] \in Entry
<1>1. heap[b] \in BucketRecord
  BY Depths
<1> QED BY <1>1 DEF BucketRecord

\* The bucket that the directory names for a thread's index.
LEMMA NamedBucket ==
  ASSUME HashInv, NEW t \in Thread
  PROVE  buckets[thread[t].index] \in DOMAIN heap
<1>1. thread[t] \in ThreadRecord /\ buckets \in [0 .. Shl[globalDepth] - 1 -> DOMAIN heap]
  BY Types DEF HashInv
<1> QED BY <1>1 DEF ThreadRecord

\* Find() without the key, and with it.
LEMMA FindKeeps ==
  ASSUME HashInv, NEW t \in Thread, Find(t)
  PROVE  HashInv'
<1> DEFINE b == thread[t].bucket
           c == buckets[thread[t].index]
<1>1. /\ thread[t] \in ThreadRecord /\ Placed(thread[t]) /\ b \in DOMAIN heap
      /\ thread[t].at = "locked" /\ thread[t].call = "Find"
  BY Locals, Zenon DEF Find, At, Inside
<1>2. UNCHANGED <<globalDepth, bucketNum, buckets, latch>>
  BY DEF Find
<1>3. CASE heap[c].keymap[thread[t].key] # NoValue
  <2> DEFINE r == [thread[t] EXCEPT !.at = "found"]
  <2>1. thread' = [thread EXCEPT ![t] = r] /\ UNCHANGED <<heap, answer>>
    BY <1>3 DEF Find, GoTo
  <2>2. /\ r \in ThreadRecord /\ r.at = "found" /\ r.call = "Find"
        /\ r.key = thread[t].key /\ r.bucket = b
    BY <1>1 DEF ThreadRecord, Places
  <2> HIDE DEF r
  <2>3. Placed(r)
    BY <1>1, <2>2 DEF Placed, Inside
  <2>4. \A u \in Thread \ {t} : thread'[u] = thread[u]
    BY <2>1, <2>2, OneMoves
  <2>5. thread'[t].at = "found"
    BY <2>1, <2>2, OneMoves, Zenon
  <2>6. DirectoryLatch' /\ latch' \in Thread \cup {NoThread}
    BY <1>1, <1>2, <2>4, <2>5, DirectoryLatchKept
  <2>7. answer' \in [Thread -> Answers]
    BY <2>1, Types DEF HashInv
  <2>8. r.at \in Inside /\ thread[t].at \in Inside /\ r.at # "split" /\ thread[t].at # "split"
    BY <1>1, <2>2 DEF Inside
  <2>9. r.bucket = thread[t].bucket
    BY <2>2
  <2> QED BY <1>2, <2>1, <2>2, <2>3, <2>6, <2>7, <2>8, <2>9, QuietKeeps, Zenon
<1>4. CASE heap[c].keymap[thread[t].key] = NoValue
  <2>1. thread' = [thread EXCEPT ![t] = Idle] /\ answer' = [answer EXCEPT ![t] = NoValue]
    BY <1>4 DEF Find, Return
  <2>2. heap' = [heap EXCEPT ![b].latch = NoThread]
    BY <1>4 DEF Find
  <2>3. NoValue \in Answers
    BY DEF Answers, Entry
  <2>4. answer' \in [Thread -> Answers]
    BY <2>1, <2>3, Answered, Zenon
  <2> HIDE DEF b
  <2>5. Relatched(heap', heap, b, NoThread)
    <3>1. heap \in Seq(BucketRecord)
      BY Types DEF HashInv
    <3> QED BY <1>1, <2>2, <3>1, LatchSet, Zenon
  <2>6. /\ heap' \in Seq(BucketRecord) /\ Len(heap') = Len(heap) /\ DOMAIN heap' = DOMAIN heap
        /\ \A d \in DOMAIN heap : heap'[d].localDepth = heap[d].localDepth
        /\ heap'[b].latch = NoThread
        /\ \A d \in DOMAIN heap \ {b} : heap'[d].latch = heap[d].latch
    BY <2>5 DEF Relatched
  <2> QED BY <1>1, <1>2, <2>1, <2>4, <2>6, IdleRecord, ReleaseKeeps, Zenon DEF Inside, b
<1> QED BY <1>3, <1>4, Zenon

\* A call that stores in bucket c, releases its own bucket and returns.
LEMMA StoreKeeps ==
  ASSUME HashInv, NEW t \in Thread, NEW c \in DOMAIN heap, NEW v \in Entry, NEW a \in Answers,
         thread[t].at \in {"locked", "found"}, thread[t].call \in {"Insert", "Find", "Remove"},
         heap' = [heap EXCEPT ![c].keymap[thread[t].key] = v,
                              ![thread[t].bucket].latch = NoThread],
         thread' = [thread EXCEPT ![t] = Idle], answer' = [answer EXCEPT ![t] = a],
         UNCHANGED <<globalDepth, bucketNum, buckets, latch>>
  PROVE  /\ HashInv'
         /\ Stored(heap', heap, c, thread[t].key, v, thread[t].bucket)
<1> DEFINE b == thread[t].bucket
           k == thread[t].key
<1>1. b \in DOMAIN heap /\ k \in Key
  BY Locals DEF Inside, Placed
<1>2. answer' \in [Thread -> Answers]
  BY Answered, Zenon
<1>3. heap' = [heap EXCEPT ![c].keymap[k] = v, ![b].latch = NoThread]
  OBVIOUS
<1> HIDE DEF b, k
<1>4. Stored(heap', heap, c, k, v, b)
  <2>1. heap \in Seq(BucketRecord)
    BY Types DEF HashInv
  <2>2. Stored([heap EXCEPT ![c].keymap[k] = v, ![b].latch = NoThread], heap, c, k, v, b)
    BY <1>1, <2>1, EntryAndLatchSet, Zenon
  <2> QED BY <1>3, <2>2, Zenon
<1>5. /\ heap' \in Seq(BucketRecord) /\ Len(heap') = Len(heap) /\ DOMAIN heap' = DOMAIN heap
      /\ \A d \in DOMAIN heap : heap'[d].localDepth = heap[d].localDepth
      /\ heap'[b].latch = NoThread
      /\ \A d \in DOMAIN heap \ {b} : heap'[d].latch = heap[d].latch
  BY <1>4, Zenon DEF Stored
<1>6. HashInv'
  BY <1>2, <1>5, IdleRecord, ReleaseKeeps, Zenon DEF Inside, b
<1> QED BY <1>4, <1>6 DEF b, k

\* keymap[key] of Find().
LEMMA FindValueKeeps ==
  ASSUME HashInv, NEW t \in Thread, FindValue(t)
  PROVE  HashInv'
<1> DEFINE b == thread[t].bucket
           c == buckets[thread[t].index]
           k == thread[t].key
           v == IF heap[c].keymap[k] = NoValue THEN Null ELSE heap[c].keymap[k]
<1>1. thread[t].at = "found" /\ thread[t].call = "Find" /\ c \in DOMAIN heap
  BY NamedBucket, Zenon DEF FindValue, At
<1>2. k \in Key
  BY <1>1, Locals DEF Placed
<1>3. v \in Entry /\ v \in Answers
  <2>1. heap[c].keymap[k] \in Entry
    BY <1>1, <1>2, EntryOf
  <2> QED BY <2>1, Zenon DEF Entry, Answers
<1>4. /\ heap' = [heap EXCEPT ![c].keymap[k] = v, ![b].latch = NoThread]
      /\ thread' = [thread EXCEPT ![t] = Idle] /\ answer' = [answer EXCEPT ![t] = v]
      /\ UNCHANGED <<globalDepth, bucketNum, buckets, latch>>
  BY Zenon DEF FindValue, Return
<1> HIDE DEF c, v
<1> QED BY <1>1, <1>3, <1>4, StoreKeeps, Zenon

\* Remove().
LEMMA RemoveKeeps ==
  ASSUME HashInv, NEW t \in Thread, Remove(t)
  PROVE  HashInv'
<1> DEFINE b == thread[t].bucket
           c == buckets[thread[t].index]
           k == thread[t].key
           a == IF heap[c].keymap[k] # NoValue THEN 1 ELSE 0
<1>1. thread[t].at = "locked" /\ thread[t].call = "Remove" /\ c \in DOMAIN heap
  BY NamedBucket, Zenon DEF Remove, At
<1>2. NoValue \in Entry /\ a \in Answers
  <2>1. 0 \in -1 .. MaxDepth
    BY HashAssumption
  <2> QED BY <2>1 DEF Entry, Answers
<1>3. /\ heap' = [heap EXCEPT ![c].keymap[k] = NoValue, ![b].latch = NoThread]
      /\ thread' = [thread EXCEPT ![t] = Idle] /\ answer' = [answer EXCEPT ![t] = a]
      /\ UNCHANGED <<globalDepth, bucketNum, buckets, latch>>
  BY Zenon DEF Remove, Return
<1> HIDE DEF c, a
<1> QED BY <1>1, <1>2, <1>3, StoreKeeps, Zenon

\* A bucket whose latch is free, or held by a thread that does not split it, has no
\* split to come.
LEMMA NotSplitting ==
  ASSUME HashInv, NEW b \in DOMAIN heap,
         \/ heap[b].latch = NoThread
         \/ \E t \in Thread : Holds(t, b) /\ thread[t].at # "split"
  PROVE  ~Splitting(b) /\ Depth(b) = heap[b].localDepth /\ heap[b].localDepth \in 0 .. MaxDepth
<1>1. \A u \in Thread : At(u, "Insert", "split") /\ thread[u].bucket = b => heap[b].latch = u
  BY DEF HashInv, BucketLatches, Holds, Inside, At
<1>2. ~Splitting(b)
  BY <1>1, HashAssumption DEF Splitting, HashInv, BucketLatches, At
<1>3. Depth(b) = heap[b].localDepth
  BY <1>2 DEF Depth
<1>4. globalDepth <= MaxDepth /\ globalDepth \in Nat
  <2>1. globalDepth \in 0 .. MaxDepth
    BY Types DEF HashInv
  <2> QED BY <2>1, Depths, HashAssumption
<1>5. heap[b].localDepth \in Nat /\ heap[b].localDepth <= globalDepth
  BY <1>3, Depths
<1> QED BY <1>2, <1>3, <1>4, <1>5, HashAssumption

\* Insert() stores, or decides to split.
LEMMA InsertKeeps ==
  ASSUME HashInv, NEW t \in Thread, Insert(t)
  PROVE  HashInv'
<1> DEFINE b == thread[t].bucket
           k == thread[t].key
<1>1. /\ thread[t] \in ThreadRecord /\ Placed(thread[t]) /\ b \in DOMAIN heap
      /\ thread[t].at = "locked" /\ thread[t].call = "Insert" /\ heap[b].latch = t
  BY Locals, Zenon DEF Insert, At, Inside
<1>2. UNCHANGED <<globalDepth, bucketNum, buckets, latch>>
  BY DEF Insert
<1>3. CASE heap[b].keymap[k] # NoValue \/ Size(b) < BucketSize
  <2>1. /\ heap' = [heap EXCEPT ![b].keymap[k] = thread[t].value, ![b].latch = NoThread]
        /\ thread' = [thread EXCEPT ![t] = Idle] /\ answer' = [answer EXCEPT ![t] = NoValue]
    BY <1>3, Zenon DEF Insert, Return
  <2>2. thread[t].value \in Entry /\ NoValue \in Answers
    BY <1>1 DEF Placed, Entry, Answers
  <2> QED BY <1>1, <1>2, <2>1, <2>2, StoreKeeps, Zenon
<1>4. CASE ~(heap[b].keymap[k] # NoValue \/ Size(b) < BucketSize)
  <2> DEFINE r == [thread[t] EXCEPT !.at = "split"]
             e == [heap[b] EXCEPT !.localDepth = heap[b].localDepth + 1]
  <2>1. thread' = [thread EXCEPT ![t] = r] /\ heap' = [heap EXCEPT ![b] = e] /\ answer' = answer
    BY <1>4 DEF Insert, GoTo
  <2>2. /\ r \in ThreadRecord /\ r.at = "split" /\ r.call = "Insert"
        /\ r.key = thread[t].key /\ r.value = thread[t].value /\ r.bucket = b
    BY <1>1 DEF ThreadRecord, Places
  <2>3. ~Splitting(b) /\ Depth(b) = heap[b].localDepth /\ heap[b].localDepth \in 0 .. MaxDepth
    BY <1>1, NotSplitting DEF Holds, Inside
  <2>4. heap[b].localDepth + 1 \in 0 .. MaxDepth + 1
    BY <2>3, HashAssumption
  <2>5. /\ e \in BucketRecord /\ e.localDepth = heap[b].localDepth + 1
        /\ e.latch = heap[b].latch /\ e.keymap = heap[b].keymap
    <3>1. heap[b] \in BucketRecord
      BY <1>1, Depths
    <3> QED BY <2>4, <3>1 DEF BucketRecord
  <2> HIDE DEF r, e
  <2>6. /\ heap' \in Seq(BucketRecord) /\ Len(heap') = Len(heap) /\ DOMAIN heap' = DOMAIN heap
        /\ heap'[b] = e /\ \A d \in DOMAIN heap \ {b} : heap'[d] = heap[d]
    <3>1. heap \in Seq(BucketRecord)
      BY Types DEF HashInv
    <3> HIDE DEF b
    <3> QED BY <1>1, <2>1, <2>5, <3>1, ExceptSeq
  <2>7. /\ thread' \in [Thread -> ThreadRecord] /\ thread'[t] = r
        /\ \A u \in Thread \ {t} : thread'[u] = thread[u]
    BY <2>1, <2>2, OneMoves, Zenon
  <2>8. Placed(thread'[t])
    BY <1>1, <2>2, <2>7 DEF Placed, Inside
  <2>9. DirectoryLatch' /\ latch' \in Thread \cup {NoThread}
    BY <1>1, <1>2, <2>2, <2>7, DirectoryLatchKept
  <2>10. BucketLatches'
    <3>1. \A d \in DOMAIN heap : heap'[d].latch = heap[d].latch
      BY <2>5, <2>6, Zenon
    <3>2. \A d \in DOMAIN heap : Holds(t, d)' <=> Holds(t, d)
      BY <1>1, <2>2, <2>7 DEF Holds, Inside
    <3> QED BY <2>6, <2>7, <3>1, <3>2, LatchesKept
  <2>11. Partition'
    <3>1. \A d \in DOMAIN heap : Splitting(d)' <=> (d = b \/ Splitting(d))
      BY <1>1, <2>2, <2>7 DEF Splitting, At
    <3>2. \A d \in DOMAIN heap \ {b} : Depth(d)' = Depth(d)
      BY <2>6, <3>1 DEF Depth
    <3>3. \A d \in {b} : Depth(d)' = Depth(d)
      <4>1. \A d \in {b} : Splitting(d)' /\ ~Splitting(d)
        BY <1>1, <2>3, <3>1
      <4>2. heap'[b].localDepth - 1 = heap[b].localDepth
        BY <2>3, <2>5, <2>6, HashAssumption
      <4> QED BY <4>1, <4>2 DEF Depth
    <3>4. \A d \in DOMAIN heap : Depth(d)' = Depth(d)
      BY <3>2, <3>3
    <3>5. \A d \in DOMAIN heap, i \in DOMAIN buckets : NamedLike(d, i) => NamedLike(d, i)'
      BY <1>2, <3>4 DEF NamedLike
    <3> QED BY <1>2, <2>6, <3>4, <3>5 DEF HashInv, Partition
  <2>12. answer' \in [Thread -> Answers]
    BY <2>1, Types DEF HashInv
  <2> QED BY <1>2, <2>6, <2>7, <2>8, <2>9, <2>10, <2>11, <2>12, PartsKept
<1> QED BY <1>3, <1>4

\* The end of Insert's loop, with the directory read again.
LEMMA ReReadKeeps ==
  ASSUME HashInv, NEW t \in Thread, ReRead(t)
  PROVE  HashInv'
<1> DEFINE b == thread[t].bucket
           c == buckets[thread[t].index]
           r == [thread[t] EXCEPT !.bucket = c, !.at = "lock"]
<1>1. /\ thread[t] \in ThreadRecord /\ Placed(thread[t]) /\ b \in DOMAIN heap
      /\ thread[t].at = "reread" /\ thread[t].call = "Insert"
  BY Locals DEF ReRead, Inside, Placed
<1>2. c \in DOMAIN heap /\ c # 0
  BY NamedBucket, Depths
<1>3. thread' = [thread EXCEPT ![t] = r]
  <2>1. thread \in [Thread -> ThreadRecord]
    BY Types DEF HashInv
  <2> QED BY <2>1 DEF ReRead, ThreadRecord
<1>4. /\ heap' = [heap EXCEPT ![b].latch = NoThread]
      /\ UNCHANGED <<globalDepth, bucketNum, buckets, latch, answer>>
  BY DEF ReRead
<1> HIDE DEF b, c
<1>5. /\ r \in ThreadRecord /\ r.at = "lock" /\ r.call = "Insert" /\ r.key = thread[t].key
      /\ r.value = thread[t].value /\ r.bucket = c
  BY <1>1, <1>2, Zenon DEF ThreadRecord, Places
<1> HIDE DEF r
<1>6. Placed(r)
  BY <1>1, <1>2, <1>5 DEF Placed, Inside
<1>7. Relatched(heap', heap, b, NoThread)
  <2>1. heap \in Seq(BucketRecord)
    BY Types DEF HashInv
  <2> QED BY <1>1, <1>4, <2>1, LatchSet, Zenon
<1>8. /\ heap' \in Seq(BucketRecord) /\ Len(heap') = Len(heap) /\ DOMAIN heap' = DOMAIN heap
      /\ \A d \in DOMAIN heap : heap'[d].localDepth = heap[d].localDepth
      /\ heap'[b].latch = NoThread
      /\ \A d \in DOMAIN heap \ {b} : heap'[d].latch = heap[d].latch
  BY <1>7 DEF Relatched
<1>9. answer' \in [Thread -> Answers]
  BY <1>4, Types DEF HashInv
<1> QED BY <1>1, <1>3, <1>4, <1>5, <1>6, <1>8, <1>9, ReleaseKeeps, Zenon DEF Inside, b

\* GetLocalDepth() up to the wait for the bucket.
LEMMA GetLocalDepthKeeps ==
  ASSUME HashInv, NEW t \in Thread, NEW i \in DOMAIN buckets, GetLocalDepth(t, i)
  PROVE  HashInv'
<1> DEFINE r == [Idle EXCEPT !.call = "GetLocalDepth", !.at = "depth",
                             !.index = i, !.bucket = buckets[i]]
<1>1. Idle \in ThreadRecord /\ "GetLocalDepth" \in Calls /\ thread[t] = Idle
  BY IdleRecord DEF GetLocalDepth
<1>2. i \in 0 .. Shl[globalDepth] - 1 /\ buckets[i] \in DOMAIN heap /\ buckets[i] # 0
  <2>1. buckets \in [0 .. Shl[globalDepth] - 1 -> DOMAIN heap]
    BY Types DEF HashInv
  <2> QED BY <2>1, Depths
<1>3. /\ r \in ThreadRecord /\ r.call = "GetLocalDepth" /\ r.at = "depth"
      /\ r.bucket = buckets[i] /\ thread[t].at = "idle"
  BY <1>1, <1>2, Zenon DEF ThreadRecord, Places, Idle
<1>4. /\ thread' = [thread EXCEPT ![t] = r] /\ latch' = t /\ latch = NoThread
      /\ UNCHANGED <<globalDepth, bucketNum, buckets, heap, answer>>
  BY DEF GetLocalDepth
<1> HIDE DEF r
<1>5. Placed(r)
  BY <1>2, <1>3 DEF Placed, Inside
<1>6. thread'[t].at = "depth" /\ \A u \in Thread \ {t} : thread'[u] = thread[u]
  BY <1>3, <1>4, OneMoves, Zenon
<1>7. DirectoryLatch'
  BY <1>4, <1>6, HashAssumption DEF HashInv, DirectoryLatch
<1>8. answer' \in [Thread -> Answers] /\ latch' \in Thread \cup {NoThread}
  BY <1>4, Types DEF HashInv
<1>9. r.at \notin Inside /\ thread[t].at \notin Inside /\ r.at # "split" /\ thread[t].at # "split"
  BY <1>3 DEF Inside
<1> QED BY <1>3, <1>4, <1>5, <1>7, <1>8, <1>9, QuietKeeps, Zenon

\* The rest of it.
LEMMA LocalDepthKeeps ==
  ASSUME HashInv, NEW t \in Thread, LocalDepth(t)
  PROVE  HashInv'
<1> DEFINE b == thread[t].bucket
           a == IF Size(b) # 0 THEN heap[b].localDepth ELSE -1
<1>1. thread[t].at = "depth" /\ b \in DOMAIN heap /\ heap[b].latch = NoThread /\ latch = t
  BY Locals DEF LocalDepth
<1>2. a \in Answers
  <2>1. heap[b].localDepth \in 0 .. MaxDepth
    BY <1>1, NotSplitting
  <2>2. heap[b].localDepth \in -1 .. MaxDepth /\ -1 \in -1 .. MaxDepth
    BY <2>1, HashAssumption
  <2> QED BY <2>2 DEF Answers
<1>3. /\ thread' = [thread EXCEPT ![t] = Idle] /\ answer' = [answer EXCEPT ![t] = a]
      /\ latch' = NoThread /\ UNCHANGED <<globalDepth, bucketNum, buckets, heap>>
  BY DEF LocalDepth, Return
<1> HIDE DEF a
<1>4. answer' \in [Thread -> Answers]
  BY <1>2, <1>3, Answered, Zenon
<1>5. thread'[t] = Idle /\ \A u \in Thread \ {t} : thread'[u] = thread[u]
  BY <1>3, IdleRecord, OneMoves, Zenon
<1>6. DirectoryLatch'
  BY <1>1, <1>3, <1>5, IdleRecord, HashAssumption DEF HashInv, DirectoryLatch
<1>7. thread[t].at \notin Inside /\ thread[t].at # "split" /\ Idle.at \notin Inside /\ Idle.at # "split"
  BY <1>1, IdleRecord DEF Inside
<1> QED BY <1>3, <1>4, <1>6, <1>7, IdleRecord, QuietKeeps, Zenon
-------------------------------------------------------------------------------
\* What Split(t) does to the directory.
SplitsDirectory(t) ==
  LET b == thread[t].bucket
      d == heap[b].localDepth - 1
  IN
  /\ d \in Nat /\ d = Depth(b) /\ d < globalDepth'
  /\ globalDepth <= globalDepth' /\ globalDepth' \in 0 .. MaxDepth
  /\ DOMAIN buckets' = 0 .. Shl[globalDepth'] - 1
  /\ \A j \in DOMAIN buckets' :
       /\ j % Shl[globalDepth] \in DOMAIN buckets
       /\ buckets'[j] = IF buckets[j % Shl[globalDepth]] = b /\ HasBit(j, d)
                        THEN Len(heap) + 1 ELSE buckets[j % Shl[globalDepth]]

LEMMA SplitDirectory ==
  ASSUME HashInv, NEW t \in Thread, Split(t)
  PROVE  SplitsDirectory(t)
<1> DEFINE b == thread[t].bucket
           depth == heap[b].localDepth
           g == globalDepth
           d == depth - 1
           dir == IF depth > g THEN [i \in 0 .. 2 * Shl[g] - 1 |-> buckets[i % Shl[g]]]
                  ELSE buckets
<1>1. thread[t].at = "split" /\ thread[t].call = "Insert" /\ b \in DOMAIN heap
  BY Locals, Zenon DEF Split, Inside, Placed
<1>2. Depth(b) = d /\ d \in Nat /\ d <= g /\ depth \in Nat
  <2>1. Splitting(b)
    BY <1>1 DEF Splitting, At
  <2> QED BY <1>1, <2>1, Depths DEF Depth
<1>3. /\ depth > g => g < MaxDepth
      /\ globalDepth' = IF depth > g THEN g + 1 ELSE g
      /\ buckets' = [i \in DOMAIN dir |-> IF dir[i] = b /\ HasBit(i, d) THEN Len(heap) + 1 ELSE dir[i]]
  BY Zenon DEF Split, Redirects
<1>4. g \in Nat /\ Shl[g] \in Nat \ {0} /\ DOMAIN buckets = 0 .. Shl[g] - 1 /\ g <= MaxDepth
  <2>1. g \in 0 .. MaxDepth
    BY Types DEF HashInv
  <2> QED BY <2>1, Depths, HashAssumption
<1>5. d < globalDepth' /\ g <= globalDepth' /\ globalDepth' \in 0 .. MaxDepth
  <2>1. (depth > g => g < MaxDepth) /\ globalDepth' = IF depth > g THEN g + 1 ELSE g
    BY <1>3, Zenon
  <2>2. MaxDepth \in Nat
    BY HashAssumption
  <2> HIDE DEF depth
  <2> QED BY <1>2, <1>4, <2>1, <2>2
<1>6. DOMAIN dir = 0 .. Shl[globalDepth'] - 1
  <2>1. Shl[g + 1] = 2 * Shl[g]
    BY <1>4, Shift
  <2> QED BY <1>3, <1>4, <2>1, Zenon
<1>7. \A j \in DOMAIN dir : j % Shl[g] \in DOMAIN buckets /\ dir[j] = buckets[j % Shl[g]]
  <2> TAKE j \in DOMAIN dir
  <2>1. j \in Int
    <3>1. DOMAIN dir \subseteq Int
      BY <1>4
    <3> QED BY <3>1
  <2>2. j % Shl[g] \in 0 .. Shl[g] - 1
    BY <1>4, <2>1, Remainder, Zenon
  <2>3. CASE depth > g
    BY <1>4, <2>2, <2>3
  <2>4. CASE ~(depth > g)
    <3>1. j % Shl[g] = j
      BY <1>4, <2>4, SmallRemainder
    <3> QED BY <1>4, <2>2, <2>4, <3>1, Zenon
  <2> QED BY <2>3, <2>4
<1> HIDE DEF dir
<1>8. DOMAIN buckets' = DOMAIN dir
  BY <1>3
<1>9. \A j \in DOMAIN buckets' :
        /\ j % Shl[g] \in DOMAIN buckets
        /\ buckets'[j] = IF buckets[j % Shl[g]] = b /\ HasBit(j, d)
                         THEN Len(heap) + 1 ELSE buckets[j % Shl[g]]
  BY <1>3, <1>7, <1>8
<1> QED BY <1>2, <1>5, <1>6, <1>8, <1>9, Zenon DEF SplitsDirectory

\* What Split(t) does to the buckets.
SplitsHeap(t) ==
  LET b == thread[t].bucket
      d == heap[b].localDepth - 1
      n == Len(heap) + 1
  IN
  /\ heap' \in Seq(BucketRecord) /\ DOMAIN heap' = DOMAIN heap \cup {n} /\ Len(heap') = n
  /\ \A c \in DOMAIN heap :
       heap'[c].localDepth = heap[c].localDepth /\ heap'[c].latch = heap[c].latch
  /\ \A c \in DOMAIN heap \ {b} : heap'[c].keymap = heap[c].keymap
  /\ heap'[n].localDepth = heap[b].localDepth /\ heap'[n].latch = NoThread
  /\ \A k \in Key : heap'[b].keymap[k] = IF HasBit(k, d) THEN NoValue ELSE heap[b].keymap[k]
  /\ \A k \in Key : heap'[n].keymap[k] = IF HasBit(k, d) THEN heap[b].keymap[k] ELSE NoValue

LEMMA SplitHeap ==
  ASSUME HashInv, NEW t \in Thread, Split(t)
  PROVE  SplitsHeap(t)
<1> DEFINE b == thread[t].bucket
           depth == heap[b].localDepth
           d == depth - 1
           n == Len(heap) + 1
           old == heap[b].keymap
           stay == [k \in Key |-> IF HasBit(k, d) THEN NoValue ELSE old[k]]
           move == [k \in Key |-> IF HasBit(k, d) THEN old[k] ELSE NoValue]
           r == [heap[b] EXCEPT !.keymap = stay]
           e == Bucket(depth, move)
           h == [heap EXCEPT ![b] = r]
<1>1. thread[t].at = "split" /\ b \in DOMAIN heap
  BY Locals, Zenon DEF Split, Inside
<1>2. heap' = Append(h, e)
  BY Zenon DEF Split, Moves
<1>3. heap[b] \in BucketRecord /\ heap \in Seq(BucketRecord)
  BY <1>1, Types, Depths DEF HashInv
<1>4. stay \in [Key -> Entry] /\ move \in [Key -> Entry]
  <2>1. old \in [Key -> Entry] /\ NoValue \in Entry
    BY <1>3, Zenon DEF BucketRecord, Entry
  <2> HIDE DEF old, d
  <2> QED BY <2>1
<1>5. \A k \in Key : /\ stay[k] = IF HasBit(k, d) THEN NoValue ELSE heap[b].keymap[k]
                     /\ move[k] = IF HasBit(k, d) THEN heap[b].keymap[k] ELSE NoValue
  OBVIOUS
<1> HIDE DEF stay, move
<1>6. /\ r \in BucketRecord /\ r.keymap = stay
      /\ r.localDepth = depth /\ r.latch = heap[b].latch
  BY <1>3, <1>4, Zenon DEF BucketRecord
<1>7. e \in BucketRecord /\ e.keymap = move /\ e.localDepth = depth /\ e.latch = NoThread
  BY <1>3, <1>4, Zenon DEF BucketRecord, Bucket
<1> HIDE DEF r, e
<1>8. /\ h \in Seq(BucketRecord) /\ Len(h) = Len(heap) /\ DOMAIN h = DOMAIN heap
      /\ h[b] = r /\ \A c \in DOMAIN heap \ {b} : h[c] = heap[c]
  <2> HIDE DEF b
  <2> QED BY <1>1, <1>3, <1>6, ExceptSeq
<1> HIDE DEF h
<1>9. /\ heap' \in Seq(BucketRecord) /\ Len(heap') = n /\ DOMAIN heap' = 1 .. n
      /\ heap'[n] = e /\ \A c \in DOMAIN heap : heap'[c] = h[c]
  BY <1>2, <1>7, <1>8
<1>10. DOMAIN heap = 1 .. Len(heap) /\ Len(heap) \in Nat
  BY Depths
<1>11. DOMAIN heap' = DOMAIN heap \cup {n}
  BY <1>9, <1>10
<1>12. heap'[b] = r /\ \A c \in DOMAIN heap \ {b} : heap'[c] = heap[c]
  BY <1>1, <1>8, <1>9
<1>13. \A c \in DOMAIN heap :
         heap'[c].localDepth = heap[c].localDepth /\ heap'[c].latch = heap[c].latch
  BY <1>6, <1>12
<1>14. /\ \A k \in Key : heap'[b].keymap[k] = IF HasBit(k, d) THEN NoValue ELSE heap[b].keymap[k]
       /\ \A k \in Key : heap'[n].keymap[k] = IF HasBit(k, d) THEN heap[b].keymap[k] ELSE NoValue
  BY <1>5, <1>6, <1>7, <1>9, <1>12, Zenon
<1> QED BY <1>7, <1>9, <1>11, <1>12, <1>13, <1>14, Zenon DEF SplitsHeap

\* The numbers of the buckets after a split, and who splits.
LEMMA SplitDepths ==
  ASSUME HashInv, NEW t \in Thread, Split(t)
  PROVE  /\ \A c \in DOMAIN heap \ {thread[t].bucket} : Depth(c)' = Depth(c)
         /\ \A c \in {thread[t].bucket, Len(heap) + 1} : Depth(c)' = heap[thread[t].bucket].localDepth
<1> DEFINE b == thread[t].bucket
           n == Len(heap) + 1
           r == [thread[t] EXCEPT !.at = "reindex"]
<1>1. /\ thread[t] \in ThreadRecord /\ thread[t].at = "split" /\ b \in DOMAIN heap
      /\ heap[b].latch = t
  BY Locals, Zenon DEF Split, Inside
<1>2. r \in ThreadRecord /\ r.at = "reindex" /\ thread' = [thread EXCEPT ![t] = r]
  BY <1>1, Zenon DEF Split, GoTo, ThreadRecord, Places
<1>3. thread'[t].at = "reindex" /\ \A u \in Thread \ {t} : thread'[u] = thread[u]
  BY <1>2, OneMoves, Zenon
<1>4. \A u \in Thread : thread[u].at = "split" => thread[u].bucket \in DOMAIN heap
                          /\ heap[thread[u].bucket].latch = u
  BY Locals DEF Inside
<1>5. n \notin DOMAIN heap
  BY Depths
<1>6. \A c \in DOMAIN heap \ {b} : Splitting(c)' <=> Splitting(c)
  BY <1>1, <1>3 DEF Splitting, At
<1>7. \A c \in {b, n} : ~Splitting(c)'
  BY <1>1, <1>3, <1>4, <1>5 DEF Splitting, At
<1>8. /\ \A c \in DOMAIN heap : heap'[c].localDepth = heap[c].localDepth
      /\ heap'[n].localDepth = heap[b].localDepth
  BY SplitHeap DEF SplitsHeap
<1> QED BY <1>1, <1>6, <1>7, <1>8 DEF Depth

\* 1 << a grows with a.
LEMMA ShiftGrows ==
  ASSUME NEW a \in Nat, NEW b \in Nat, a <= b
  PROVE  Shl[a] <= Shl[b]
<1>1. PICK c \in Nat \ {0} : Shl[b] = c * Shl[a]
  BY ShiftDivides
<1>2. Shl[a] \in Nat
  BY Shift
<1>3. c * Shl[a] >= Shl[a]
  BY <1>2
<1> QED BY <1>1, <1>2, <1>3

\* What an index, cut to the bits of the directory, names.
LEMMA NamedByBits ==
  ASSUME HashInv, NEW c \in DOMAIN heap, NEW i \in DOMAIN buckets, NamedLike(c, i),
         NEW j \in Int
  PROVE  /\ j % Shl[globalDepth] \in DOMAIN buckets
         /\ buckets[j % Shl[globalDepth]] = c <=> j % Shl[Depth(c)] = i % Shl[Depth(c)]
<1>1. j % Shl[globalDepth] \in DOMAIN buckets
  BY Depths, Remainder, Zenon
<1>2. (j % Shl[globalDepth]) % Shl[Depth(c)] = j % Shl[Depth(c)]
  BY Depths, LowBits, Zenon
<1> QED BY <1>1, <1>2 DEF NamedLike

\* The partition after a split.
LEMMA SplitPartition ==
  ASSUME HashInv, NEW t \in Thread, Split(t)
  PROVE  Partition'
<1> DEFINE b == thread[t].bucket
           d == heap[b].localDepth - 1
           n == Len(heap) + 1
           g == globalDepth'
<1>1. /\ d \in Nat /\ d = Depth(b) /\ d < g /\ globalDepth <= g /\ g \in Nat
      /\ DOMAIN buckets' = 0 .. Shl[g] - 1
      /\ \A j \in DOMAIN buckets' :
           /\ j % Shl[globalDepth] \in DOMAIN buckets
           /\ buckets'[j] = IF buckets[j % Shl[globalDepth]] = b /\ HasBit(j, d)
                            THEN n ELSE buckets[j % Shl[globalDepth]]
  <2>1. SplitsDirectory(t)
    BY SplitDirectory
  <2>2. MaxDepth \in Nat
    BY HashAssumption
  <2> QED BY <2>1, <2>2 DEF SplitsDirectory
<1>2. DOMAIN heap' = DOMAIN heap \cup {n}
  BY SplitHeap, Zenon DEF SplitsHeap
<1>3. /\ \A c \in DOMAIN heap \ {b} : Depth(c)' = Depth(c)
      /\ \A c \in {b, n} : Depth(c)' = d + 1
  <2>1. heap[b].localDepth \in Nat
    BY Locals, Depths, Zenon DEF Split, Inside
  <2> QED BY <2>1, SplitDepths
<1>4. b \in DOMAIN heap /\ n \notin DOMAIN heap
  <2>1. b \in DOMAIN heap
    BY Locals, Zenon DEF Split, Inside
  <2>2. Len(heap) \in Nat /\ DOMAIN heap = 1 .. Len(heap)
    BY Depths
  <2> QED BY <2>1, <2>2
<1>5. \A j \in DOMAIN buckets' : j \in Int
  <2>1. Shl[g] \in Nat
    BY <1>1, Shift, Zenon
  <2> QED BY <1>1, <2>1
<1>6. \A c \in DOMAIN heap : \E i \in DOMAIN buckets : NamedLike(c, i)
  BY DEF HashInv, Partition
<1>7. /\ Shl[globalDepth] \in Nat \ {0} /\ Shl[g] \in Nat \ {0} /\ Shl[d] \in Nat \ {0}
      /\ Shl[d + 1] = 2 * Shl[d] /\ Shl[d + 1] <= Shl[g] /\ Shl[globalDepth] <= Shl[g]
      /\ globalDepth \in Nat /\ DOMAIN buckets = 0 .. Shl[globalDepth] - 1
  <2>1. d + 1 \in Nat /\ d + 1 <= g /\ globalDepth \in Nat
    BY <1>1, Depths
  <2>2. Shl[d + 1] <= Shl[g] /\ Shl[globalDepth] <= Shl[g]
    BY <1>1, <2>1, ShiftGrows, Zenon
  <2> QED BY <1>1, <2>1, <2>2, Shift, Depths, Zenon
<1> HIDE DEF d, g, n, b
<1>8. ASSUME NEW c \in DOMAIN heap \ {b}
      PROVE  Depth(c)' \in 0 .. g /\ \E i \in DOMAIN buckets' : NamedLike(c, i)'
  <2>1. PICK i \in DOMAIN buckets : NamedLike(c, i)
    BY <1>6
  <2>2. i \in DOMAIN buckets'
    BY <1>1, <1>7
  <2>3. Depth(c)' = Depth(c) /\ Depth(c) \in Nat /\ Depth(c) <= globalDepth
    BY <1>3, Depths
  <2>4. \A j \in DOMAIN buckets' : buckets'[j] = c <=> buckets[j % Shl[globalDepth]] = c
    BY <1>1, <1>4
  <2>5. \A j \in DOMAIN buckets' : buckets'[j] = c <=> j % Shl[Depth(c)] = i % Shl[Depth(c)]
    BY <1>5, <2>1, <2>4, NamedByBits
  <2>6. NamedLike(c, i)'
    BY <2>3, <2>5 DEF NamedLike
  <2>7. Depth(c)' \in 0 .. g
    BY <1>1, <1>7, <2>3
  <2> QED BY <2>2, <2>6, <2>7
<1>9. PICK i \in DOMAIN buckets : NamedLike(b, i)
  BY <1>4, <1>6
<1> DEFINE r == i % Shl[d]
<1>10. r \in 0 .. Shl[d] - 1 /\ r \in Nat
  <2>1. i \in Int
    BY <1>7
  <2>2. r \in 0 .. Shl[d] - 1
    BY <1>7, <2>1, Remainder, Zenon
  <2> QED BY <1>7, <2>2
<1>11. \A j \in DOMAIN buckets' : buckets[j % Shl[globalDepth]] = b <=> j % Shl[d] = r
  BY <1>1, <1>4, <1>5, <1>9, NamedByBits
<1> HIDE DEF r
<1>12. \A j \in DOMAIN buckets' :
         /\ j % Shl[d] \in 0 .. Shl[d] - 1
         /\ j % Shl[d + 1] = IF HasBit(j, d) THEN (j % Shl[d]) + Shl[d] ELSE j % Shl[d]
  BY <1>1, <1>5, <1>7, NextBit, Remainder, Zenon
<1>13. r % Shl[d + 1] = r /\ (r + Shl[d]) % Shl[d + 1] = r + Shl[d]
  <2> DEFINE m == Shl[d]
             M == Shl[d + 1]
  <2>1. m \in Nat \ {0} /\ M = 2 * m /\ r \in 0 .. m - 1
    BY <1>7, <1>10
  <2> HIDE DEF m, M
  <2>2. r \in 0 .. M - 1 /\ r + m \in 0 .. M - 1 /\ M \in Nat \ {0}
    BY <2>1
  <2>3. r % M = r /\ (r + m) % M = r + m
    BY <2>2, SmallRemainder
  <2> QED BY <2>3 DEF m, M
<1>14. \A j \in DOMAIN buckets' :
         /\ (j % Shl[d] = r /\ ~HasBit(j, d)) <=> j % Shl[d + 1] = r
         /\ (j % Shl[d] = r /\ HasBit(j, d)) <=> j % Shl[d + 1] = r + Shl[d]
  <2> TAKE j \in DOMAIN buckets'
  <2> DEFINE q == j % Shl[d]
  <2>1. q \in 0 .. Shl[d] - 1 /\ j % Shl[d + 1] = IF HasBit(j, d) THEN q + Shl[d] ELSE q
    BY <1>12
  <2> HIDE DEF q
  <2>2. /\ (q = r /\ ~HasBit(j, d)) <=> j % Shl[d + 1] = r
        /\ (q = r /\ HasBit(j, d)) <=> j % Shl[d + 1] = r + Shl[d]
    BY <1>7, <1>10, <2>1
  <2> QED BY <2>2 DEF q
<1>15. \A j \in DOMAIN buckets' :
         /\ buckets'[j] = b <=> j % Shl[d + 1] = r % Shl[d + 1]
         /\ buckets'[j] = n <=> j % Shl[d + 1] = (r + Shl[d]) % Shl[d + 1]
  <2> TAKE j \in DOMAIN buckets'
  <2>1. buckets[j % Shl[globalDepth]] \in DOMAIN heap
    BY <1>1, Types DEF HashInv
  <2>2. /\ buckets'[j] = b <=> buckets[j % Shl[globalDepth]] = b /\ ~HasBit(j, d)
        /\ buckets'[j] = n <=> buckets[j % Shl[globalDepth]] = b /\ HasBit(j, d)
    BY <1>1, <1>4, <2>1
  <2> QED BY <1>11, <1>13, <1>14, <2>2
<1>16. r \in 0 .. Shl[g] - 1 /\ r + Shl[d] \in 0 .. Shl[g] - 1
  BY <1>7, <1>10
<1>17. PICK p \in DOMAIN buckets', q \in DOMAIN buckets' : p = r /\ q = r + Shl[d]
  <2>1. DOMAIN buckets' = 0 .. Shl[g] - 1
    BY <1>1
  <2> QED BY <1>16, <2>1
<1>18. d + 1 \in 0 .. g
  BY <1>1
<1>19. \A c \in {b} : Depth(c)' \in 0 .. g /\ NamedLike(c, p)'
  BY <1>3, <1>15, <1>17, <1>18 DEF NamedLike
<1>20. \A c \in {n} : Depth(c)' \in 0 .. g /\ NamedLike(c, q)'
  BY <1>3, <1>15, <1>17, <1>18 DEF NamedLike
<1>21. \A c \in DOMAIN heap' :
         Depth(c)' \in 0 .. g /\ \E m \in DOMAIN buckets' : NamedLike(c, m)'
  BY <1>2, <1>8, <1>17, <1>19, <1>20
<1> QED BY <1>21 DEF Partition, g

\* The block under the directory's latch.
LEMMA SplitKeeps ==
  ASSUME HashInv, NEW t \in Thread, Split(t)
  PROVE  HashInv'
<1> DEFINE b == thread[t].bucket
           n == Len(heap) + 1
           r == [thread[t] EXCEPT !.at = "reindex"]
<1>1. /\ thread[t] \in ThreadRecord /\ Placed(thread[t]) /\ thread[t].at = "split"
      /\ b \in DOMAIN heap
  BY Locals, Zenon DEF Split, Inside
<1>2. /\ r \in ThreadRecord /\ r.at = "reindex" /\ r.call = thread[t].call
      /\ r.key = thread[t].key /\ r.value = thread[t].value /\ r.bucket = b
  BY <1>1 DEF ThreadRecord, Places
<1>3. /\ thread' = [thread EXCEPT ![t] = r] /\ UNCHANGED <<latch, answer>>
      /\ bucketNum' = bucketNum + 1
  BY Zenon DEF Split, GoTo
<1> HIDE DEF r
<1>4. /\ thread' \in [Thread -> ThreadRecord] /\ thread'[t] = r
      /\ \A u \in Thread \ {t} : thread'[u] = thread[u]
  BY <1>2, <1>3, OneMoves, Zenon
<1>5. /\ heap' \in Seq(BucketRecord) /\ DOMAIN heap' = DOMAIN heap \cup {n} /\ Len(heap') = n
      /\ \A c \in DOMAIN heap : heap'[c].latch = heap[c].latch
      /\ heap'[n].latch = NoThread
  BY SplitHeap, Zenon DEF SplitsHeap
<1>6. /\ globalDepth <= globalDepth' /\ globalDepth' \in 0 .. MaxDepth
      /\ buckets' \in [0 .. Shl[globalDepth'] - 1 -> DOMAIN heap']
  <2>1. SplitsDirectory(t)
    BY SplitDirectory
  <2>2. \A j \in DOMAIN buckets : buckets[j] \in DOMAIN heap
    BY Types DEF HashInv
  <2>3. \A j \in DOMAIN buckets' : buckets'[j] \in DOMAIN heap'
    BY <1>5, <2>1, <2>2 DEF SplitsDirectory
  <2>4. buckets' = [j \in DOMAIN buckets' |-> buckets'[j]]
    BY Zenon DEF Split
  <2> QED BY <2>1, <2>3, <2>4 DEF SplitsDirectory
<1>7. thread' \in [Thread -> ThreadRecord']
  <2>1. globalDepth \in Nat /\ globalDepth' \in Nat
    BY <1>6, Depths, HashAssumption
  <2>2. Shl[globalDepth] <= Shl[globalDepth'] /\ Shl[globalDepth] \in Nat /\ Shl[globalDepth'] \in Nat
    BY <1>6, <2>1, ShiftGrows, Shift, Zenon
  <2>3. 0 .. Shl[globalDepth] - 1 \subseteq 0 .. Shl[globalDepth'] - 1
    BY <2>2
  <2>4. \A x \in ThreadRecord : x \in ThreadRecord'
    BY <1>5, <2>3 DEF ThreadRecord
  <2> QED BY <1>4, <2>4
<1>8. bucketNum' = Len(heap') /\ bucketNum' \in Nat
  BY <1>3, <1>5, Depths DEF HashInv
<1>9. latch' \in Thread \cup {NoThread} /\ answer' \in [Thread -> Answers]
  BY <1>3, Types DEF HashInv
<1>10. TypeOK'
  BY <1>5, <1>6, <1>7, <1>8, <1>9 DEF TypeOK, Entry, BucketRecord, Places, ThreadRecord, Answers
<1>11. \A u \in Thread : Placed(thread'[u])
  <2>1. Placed(r)
    BY <1>1, <1>2 DEF Placed, Inside
  <2> QED BY <1>4, <2>1 DEF HashInv
<1>12. DirectoryLatch'
  BY <1>1, <1>2, <1>3, <1>4, DirectoryLatchKept
<1>13. BucketLatches'
  <2>1. \A u \in Thread, c \in DOMAIN heap' : Holds(u, c)' <=> Holds(u, c)
    BY <1>1, <1>2, <1>4 DEF Holds, Inside
  <2>2. \A u \in Thread : ~Holds(u, n)
    BY Locals, Depths DEF Holds
  <2>3. \A u \in Thread, c \in DOMAIN heap : heap[c].latch = u <=> Holds(u, c)
    BY DEF HashInv, BucketLatches
  <2>4. \A u \in Thread, c \in DOMAIN heap' : heap'[c].latch = u <=> Holds(u, c)'
    BY <1>5, <2>1, <2>2, <2>3, HashAssumption
  <2> QED BY <2>4 DEF BucketLatches
<1>14. Partition'
  BY SplitPartition
<1> QED BY <1>8, <1>10, <1>11, <1>12, <1>13, <1>14 DEF HashInv, Placed

\* The empty table.
LEMMA InitHashInv == Init => HashInv
<1> SUFFICES ASSUME Init PROVE HashInv
  OBVIOUS
<1> DEFINE e == Bucket(0, [k \in Key |-> NoValue])
<1>1. Shl[0] = 1 /\ 0 \in 0 .. MaxDepth
  BY Shift, HashAssumption
<1>2. e \in BucketRecord /\ e.localDepth = 0 /\ e.latch = NoThread
  <2>1. 0 \in 0 .. MaxDepth + 1
    BY HashAssumption
  <2> QED BY <2>1 DEF Bucket, BucketRecord, Entry
<1> HIDE DEF e
<1>3. /\ heap = <<e>> /\ DOMAIN heap = {1} /\ Len(heap) = 1 /\ heap[1] = e
      /\ heap \in Seq(BucketRecord)
  <2>1. heap = <<e>>
    BY DEF Init, e
  <2> QED BY <1>2, <2>1
<1>4. /\ globalDepth = 0 /\ bucketNum = 1 /\ buckets = [i \in {0} |-> 1] /\ latch = NoThread
      /\ thread = [t \in Thread |-> Idle] /\ answer = [t \in Thread |-> NoValue]
  BY DEF Init
<1>5. Idle \in ThreadRecord /\ Placed(Idle) /\ Idle.at = "idle"
  <2>1. 0 \in 0 .. Shl[globalDepth] - 1
    BY <1>1, <1>4
  <2> QED BY <1>3, <2>1 DEF Idle, ThreadRecord, Places, Placed, Inside
<1>6. TypeOK
  <2>1. buckets \in [0 .. Shl[globalDepth] - 1 -> DOMAIN heap]
    BY <1>1, <1>3, <1>4
  <2>2. answer \in [Thread -> Answers] /\ thread \in [Thread -> ThreadRecord]
    BY <1>4, <1>5 DEF Answers, Entry
  <2> QED BY <1>1, <1>3, <1>4, <2>1, <2>2, Types
<1>7. \A t \in Thread : thread[t] = Idle
  BY <1>4
<1>8. (\A t \in Thread : Placed(thread[t])) /\ DirectoryLatch /\ BucketLatches
  BY <1>2, <1>3, <1>4, <1>5, <1>7, HashAssumption DEF DirectoryLatch, BucketLatches, Holds, Inside
<1>9. Partition
  <2>1. ~Splitting(1)
    BY <1>5, <1>7 DEF Splitting, At
  <2>2. Depth(1) = 0
    BY <1>2, <1>3, <2>1 DEF Depth
  <2>3. NamedLike(1, 0)
    BY <1>4 DEF NamedLike
  <2> QED BY <1>3, <1>4, <2>2, <2>3 DEF Partition
<1> QED BY <1>3, <1>4, <1>6, <1>8, <1>9 DEF HashInv

\* Every step keeps the invariant.
LEMMA NextHashInv == HashInv /\ [Next]_vars => HashInv'
<1> SUFFICES ASSUME HashInv, [Next]_vars PROVE HashInv'
  OBVIOUS
<1>1. CASE UNCHANGED vars
  <2>1. /\ globalDepth' = globalDepth /\ bucketNum' = bucketNum /\ buckets' = buckets
        /\ heap' = heap /\ latch' = latch /\ thread' = thread /\ answer' = answer
    BY <1>1 DEF vars
  <2>2. TypeOK' /\ bucketNum' = Len(heap') /\ \A t \in Thread : Placed(thread'[t])
    BY <2>1 DEF HashInv, TypeOK
  <2>3. DirectoryLatch' /\ BucketLatches'
    BY <2>1 DEF HashInv, DirectoryLatch, BucketLatches, Holds
  <2>4. \A b : Depth(b)' = Depth(b)
    BY <2>1 DEF Depth, Splitting, At
  <2>5. Partition'
    BY <2>1, <2>4 DEF HashInv, Partition, NamedLike
  <2> QED BY <2>2, <2>3, <2>5 DEF HashInv
<1>2. ASSUME NEW t \in Thread, NEW k \in Key, NEW v \in Value, Call(t, "Insert", k, v)
      PROVE  HashInv'
  BY <1>2, CallKeeps
<1>3. ASSUME NEW t \in Thread, NEW k \in Key, Call(t, "Find", k, NoValue) \/ Call(t, "Remove", k, NoValue)
      PROVE  HashInv'
  BY <1>3, CallKeeps
<1>4. ASSUME NEW t \in Thread, NEW i \in DOMAIN buckets, GetLocalDepth(t, i)
      PROVE  HashInv'
  BY <1>4, GetLocalDepthKeeps
<1>5. ASSUME NEW t \in Thread, Step(t)
      PROVE  HashInv'
  BY <1>5, GetIndexKeeps, ReadDirectoryKeeps, LockBucketKeeps, FindKeeps, FindValueKeeps,
     RemoveKeeps, InsertKeeps, SplitKeeps, ReReadKeeps, LocalDepthKeeps DEF Step
<1> QED BY <1>1, <1>2, <1>3, <1>4, <1>5 DEF Next

\* The inductive invariant holds in every reachable state.
THEOREM HashInductive == Spec => []HashInv
BY InitHashInv, NextHashInv, PTL DEF Spec
-------------------------------------------------------------------------------
\* The directory stays a partition of the indexes, by the bits of each bucket, whatever
\* Insert(), Find(), Remove() and GetLocalDepth() of any number of threads do.
THEOREM DirectoryStaysWellFormed == Spec => []DirectoryWellFormed
<1>1. HashInv => DirectoryWellFormed
  <2> SUFFICES ASSUME HashInv PROVE DirectoryWellFormed
    OBVIOUS
  <2>1. ASSUME NEW b \in DOMAIN heap
        PROVE  /\ Depth(b) <= globalDepth
               /\ \E i \in {j \in DOMAIN buckets : buckets[j] = b} :
                    {j \in DOMAIN buckets : buckets[j] = b}
                      = {j \in DOMAIN buckets : j % Shl[Depth(b)] = i % Shl[Depth(b)]}
    <3>1. PICK i \in DOMAIN buckets : NamedLike(b, i)
      BY DEF HashInv, Partition
    <3>2. buckets[i] = b
      BY <3>1 DEF NamedLike
    <3> QED BY <3>1, <3>2, Depths DEF NamedLike
  <2> QED BY <2>1 DEF DirectoryWellFormed, HashInv, Depth, Splitting
<1> QED BY <1>1, HashInductive, PTL

\* Threads that wait for one another are never all in Insert(), Find() and Remove().
THEOREM GetLocalDepthDeadlocks == Spec => []OnlyGetLocalDepthDeadlocks
<1>1. HashInv => OnlyGetLocalDepthDeadlocks
  <2> SUFFICES ASSUME HashInv, NEW S \in SUBSET Thread, S # {},
                      \A t \in S : \E u \in S : WaitsFor(t, u),
                      \A t \in S : thread[t].call # "GetLocalDepth"
               PROVE  FALSE
    BY DEF OnlyGetLocalDepthDeadlocks
  <2>1. \A t \in S : /\ thread[t].at # "depth" /\ latch # t
                     /\ thread[t].at = "lock" => thread[t].bucket \in DOMAIN heap
    BY Locals DEF Placed
  <2>2. \A t \in S, u \in S :
          WaitsFor(t, u) => thread[t].at = "lock" /\ heap[thread[t].bucket].latch = u
    BY <2>1 DEF WaitsFor
  <2>3. PICK t \in S : TRUE
    OBVIOUS
  <2>4. PICK u \in S : thread[t].at = "lock" /\ heap[thread[t].bucket].latch = u
    BY <2>2
  <2>5. thread[u].at \in Inside
    BY <2>1, <2>4 DEF HashInv, BucketLatches, Holds
  <2>6. thread[u].at = "lock"
    BY <2>2
  <2> QED BY <2>5, <2>6 DEF Inside
<1> QED BY <1>1, HashInductive, PTL
-------------------------------------------------------------------------------
\* Where the lookup of k comes.
Home(k) == buckets[Index(k)]

\* A split moves the home of a key of the full bucket with the key's bit, and no other.
LEMMA SplitHome ==
  ASSUME HashInv, NEW t \in Thread, Split(t), NEW k \in Key
  PROVE  LET b == thread[t].bucket
             d == heap[b].localDepth - 1
         IN  Home(k)' = IF Home(k) = b /\ HasBit(k, d) THEN Len(heap) + 1 ELSE Home(k)
<1> DEFINE b == thread[t].bucket
           d == heap[b].localDepth - 1
           g == globalDepth'
           j == k % Shl[g]
<1>1. /\ d \in Nat /\ d < g /\ globalDepth <= g /\ g \in Nat /\ globalDepth \in Nat
      /\ DOMAIN buckets' = 0 .. Shl[g] - 1
      /\ \A i \in DOMAIN buckets' :
           buckets'[i] = IF buckets[i % Shl[globalDepth]] = b /\ HasBit(i, d)
                         THEN Len(heap) + 1 ELSE buckets[i % Shl[globalDepth]]
  <2>1. SplitsDirectory(t)
    BY SplitDirectory
  <2>2. MaxDepth \in Nat /\ globalDepth \in Nat
    BY HashAssumption, Depths
  <2> QED BY <2>1, <2>2 DEF SplitsDirectory
<1>2. k \in Int /\ Shl[g] \in Nat \ {0}
  BY <1>1, HashAssumption, Shift
<1>3. j \in DOMAIN buckets'
  BY <1>1, <1>2, Remainder, Zenon
<1>4. j % Shl[globalDepth] = k % Shl[globalDepth]
  BY <1>1, <1>2, LowBits
<1>5. HasBit(j, d) <=> HasBit(k, d)
  BY <1>1, <1>2, LowBitsHaveBit
<1>6. Home(k)' = buckets'[j] /\ Home(k) = buckets[k % Shl[globalDepth]]
  BY DEF Home, Index
<1> HIDE DEF j, d, g
<1>7. Home(k)' = IF Home(k) = b /\ HasBit(k, d) THEN Len(heap) + 1 ELSE Home(k)
  BY <1>1, <1>3, <1>4, <1>5, <1>6
<1> QED BY <1>7 DEF d

\* Bucket b holds k where no lookup of k comes, in terms of the home of k.
LEMMA MisplacedHome ==
  ASSUME NEW b, NEW k
  PROVE  /\ Misplaced(b, k) <=> heap[b].keymap[k] # NoValue /\ b # Home(k)
         /\ Misplaced(b, k)' <=> heap'[b].keymap[k] # NoValue /\ b # Home(k)'
BY DEF Misplaced, Home, Index

\* Splits and doublings keep sight of a key that was in its place.
LEMMA SplitMisplacesNothing ==
  ASSUME HashInv, NEW t \in Thread, Split(t), NEW k \in Key,
         \A c \in DOMAIN heap : ~Misplaced(c, k)
  PROVE  /\ \A c \in DOMAIN heap' : ~Misplaced(c, k)'
         /\ Lookup(k)' = Lookup(k)
<1> DEFINE b == thread[t].bucket
           d == heap[b].localDepth - 1
           n == Len(heap) + 1
<1>1. /\ DOMAIN heap' = DOMAIN heap \cup {n}
      /\ \A c \in DOMAIN heap \ {b} : heap'[c].keymap = heap[c].keymap
      /\ heap'[b].keymap[k] = IF HasBit(k, d) THEN NoValue ELSE heap[b].keymap[k]
      /\ heap'[n].keymap[k] = IF HasBit(k, d) THEN heap[b].keymap[k] ELSE NoValue
  BY SplitHeap, Zenon DEF SplitsHeap
<1>2. Home(k)' = IF Home(k) = b /\ HasBit(k, d) THEN n ELSE Home(k)
  BY SplitHome
<1>3. b \in DOMAIN heap /\ n \notin DOMAIN heap /\ Home(k) \in DOMAIN heap
  <2>1. buckets \in [0 .. Shl[globalDepth] - 1 -> DOMAIN heap]
    BY Types DEF HashInv
  <2>2. Home(k) \in DOMAIN heap
    BY <2>1, IndexInDirectory DEF Home
  <2>3. b \in DOMAIN heap
    BY Locals, Zenon DEF Split, Inside
  <2>4. n \notin DOMAIN heap
    BY Depths
  <2> QED BY <2>2, <2>3, <2>4
<1>4. \A c \in DOMAIN heap : heap[c].keymap[k] # NoValue => c = Home(k)
  BY MisplacedHome
<1> HIDE DEF n, d, b
<1>5. \A c \in DOMAIN heap' : heap'[c].keymap[k] # NoValue => c = Home(k)'
  BY <1>1, <1>2, <1>3, <1>4
<1>6. heap'[Home(k)'].keymap[k] = heap[Home(k)].keymap[k]
  BY <1>1, <1>2, <1>3, <1>4
<1> QED BY <1>5, <1>6, MisplacedHome DEF Lookup, Home

\* A step that leaves the directory and all entries as they are.
SameEntries ==
  /\ UNCHANGED <<globalDepth, buckets>> /\ DOMAIN heap' = DOMAIN heap
  /\ \A c \in DOMAIN heap : heap'[c].keymap = heap[c].keymap

\* A step that gives t's key the entry v in bucket c.
Stores(t, c, v) ==
  /\ UNCHANGED <<globalDepth, buckets>> /\ DOMAIN heap' = DOMAIN heap
  /\ thread[t].key \in Key /\ c \in DOMAIN heap
  /\ heap'[c].keymap = [heap[c].keymap EXCEPT ![thread[t].key] = v]
  /\ \A b \in DOMAIN heap \ {c} : heap'[b].keymap = heap[b].keymap

\* Which steps do neither.
LEMMA QuietSteps ==
  ASSUME HashInv, NEW t \in Thread,
         \/ GetIndex(t) \/ ReIndex(t) \/ ReadDirectory(t) \/ LocalDepth(t)
         \/ LockBucket(t) \/ Find(t) \/ ReRead(t)
         \/ \E call \in {"Insert", "Find", "Remove"}, k \in Key, v \in Value \cup {NoValue} :
              Call(t, call, k, v)
         \/ \E i \in DOMAIN buckets : GetLocalDepth(t, i)
  PROVE  SameEntries
<1> DEFINE b == thread[t].bucket
<1>1. CASE UNCHANGED <<globalDepth, buckets, heap>>
  BY <1>1 DEF SameEntries
<1>2. ASSUME b \in DOMAIN heap, UNCHANGED <<globalDepth, buckets>>, NEW l \in Thread \cup {NoThread},
             heap' = [heap EXCEPT ![b].latch = l]
      PROVE  SameEntries
  <2>1. heap \in Seq(BucketRecord)
    BY Types DEF HashInv
  <2> HIDE DEF b
  <2>2. Relatched(heap', heap, b, l)
    BY <1>2, <2>1, LatchSet, Zenon
  <2> QED BY <1>2, <2>2 DEF Relatched, SameEntries
<1>3. CASE LockBucket(t)
  <2>1. b \in DOMAIN heap
    BY <1>3, Locals DEF LockBucket
  <2> QED BY <1>2, <1>3, <2>1, Zenon DEF LockBucket
<1>4. CASE ReRead(t)
  <2>1. b \in DOMAIN heap
    BY <1>4, Locals DEF ReRead, Inside
  <2> QED BY <1>2, <1>4, <2>1, Zenon DEF ReRead
<1>5. CASE Find(t)
  <2>1. b \in DOMAIN heap
    BY <1>5, Locals, Zenon DEF Find, At, Inside
  <2> QED BY <1>1, <1>2, <1>5, <2>1, Zenon DEF Find
<1>6. CASE \/ GetIndex(t) \/ ReIndex(t) \/ ReadDirectory(t) \/ LocalDepth(t)
           \/ \E call \in {"Insert", "Find", "Remove"}, k \in Key, v \in Value \cup {NoValue} :
                Call(t, call, k, v)
           \/ \E i \in DOMAIN buckets : GetLocalDepth(t, i)
  BY <1>1, <1>6, Zenon DEF GetIndex, ReIndex, ReadDirectory, LocalDepth, Call, GetLocalDepth
<1> QED BY <1>3, <1>4, <1>5, <1>6

\* What Insert(), Find() and Remove() store.
LEMMA InsertStores ==
  ASSUME HashInv, NEW t \in Thread, Insert(t)
  PROVE  \/ SameEntries /\ answer' = answer
         \/ /\ Stores(t, thread[t].bucket, thread[t].value)
            /\ answer' = [answer EXCEPT ![t] = NoValue]
<1> DEFINE b == thread[t].bucket
           k == thread[t].key
<1>1. /\ Placed(thread[t]) /\ b \in DOMAIN heap
      /\ thread[t].at = "locked" /\ thread[t].call = "Insert" /\ k \in Key
  BY Locals, Zenon DEF Insert, At, Inside, Placed
<1>2. UNCHANGED <<globalDepth, bucketNum, buckets, latch>>
  BY Zenon DEF Insert
<1>3. CASE heap[b].keymap[k] # NoValue \/ Size(b) < BucketSize
  <2>1. /\ heap' = [heap EXCEPT ![b].keymap[k] = thread[t].value, ![b].latch = NoThread]
        /\ thread' = [thread EXCEPT ![t] = Idle] /\ answer' = [answer EXCEPT ![t] = NoValue]
    BY <1>3, Zenon DEF Insert, Return
  <2>2. thread[t].value \in Entry /\ NoValue \in Answers
    BY <1>1 DEF Placed, Entry, Answers
  <2>3. Stored(heap', heap, b, k, thread[t].value, b)
    BY <1>1, <1>2, <2>1, <2>2, StoreKeeps, Zenon
  <2>4. Stores(t, b, thread[t].value)
    BY <1>1, <1>2, <2>3 DEF Stored, Stores
  <2> QED BY <2>1, <2>4
<1>4. CASE ~(heap[b].keymap[k] # NoValue \/ Size(b) < BucketSize)
  <2> DEFINE e == [heap[b] EXCEPT !.localDepth = heap[b].localDepth + 1]
  <2>1. heap' = [heap EXCEPT ![b] = e] /\ answer' = answer
    BY <1>4 DEF Insert
  <2>2. heap[b] \in BucketRecord
    BY <1>1, Depths
  <2>3. e.keymap = heap[b].keymap
    BY <2>2 DEF BucketRecord
  <2> HIDE DEF e
  <2>4. SameEntries
    BY <1>1, <1>2, <2>1, <2>3 DEF SameEntries
  <2> QED BY <2>1, <2>4
<1> QED BY <1>3, <1>4

LEMMA FindValueStores ==
  ASSUME HashInv, NEW t \in Thread, FindValue(t)
  PROVE  LET c == buckets[thread[t].index]
             k == thread[t].key
             v == IF heap[c].keymap[k] = NoValue THEN Null ELSE heap[c].keymap[k]
         IN  Stores(t, c, v) /\ answer' = [answer EXCEPT ![t] = v]
<1> DEFINE b == thread[t].bucket
           c == buckets[thread[t].index]
           k == thread[t].key
           v == IF heap[c].keymap[k] = NoValue THEN Null ELSE heap[c].keymap[k]
<1>1. thread[t].at = "found" /\ thread[t].call = "Find" /\ c \in DOMAIN heap
  BY NamedBucket, Zenon DEF FindValue, At
<1>2. k \in Key
  BY <1>1, Locals DEF Placed
<1>3. v \in Entry /\ v \in Answers
  <2>1. heap[c].keymap[k] \in Entry
    BY <1>1, <1>2, EntryOf
  <2> QED BY <2>1, Zenon DEF Entry, Answers
<1>4. /\ heap' = [heap EXCEPT ![c].keymap[k] = v, ![b].latch = NoThread]
      /\ thread' = [thread EXCEPT ![t] = Idle] /\ answer' = [answer EXCEPT ![t] = v]
      /\ UNCHANGED <<globalDepth, bucketNum, buckets, latch>>
  BY Zenon DEF FindValue, Return
<1> HIDE DEF c, v
<1>5. Stored(heap', heap, c, k, v, b)
  BY <1>1, <1>3, <1>4, StoreKeeps, Zenon
<1>6. Stores(t, c, v)
  BY <1>1, <1>2, <1>4, <1>5, Zenon DEF Stored, Stores
<1> QED BY <1>4, <1>6, Zenon DEF c, v

LEMMA RemoveStores ==
  ASSUME HashInv, NEW t \in Thread, Remove(t)
  PROVE  LET c == buckets[thread[t].index]
             a == IF heap[c].keymap[thread[t].key] # NoValue THEN 1 ELSE 0
         IN  Stores(t, c, NoValue) /\ answer' = [answer EXCEPT ![t] = a]
<1> DEFINE b == thread[t].bucket
           c == buckets[thread[t].index]
           k == thread[t].key
           a == IF heap[c].keymap[k] # NoValue THEN 1 ELSE 0
<1>1. thread[t].at = "locked" /\ thread[t].call = "Remove" /\ c \in DOMAIN heap
  BY NamedBucket, Zenon DEF Remove, At
<1>2. NoValue \in Entry /\ a \in Answers
  <2>1. 0 \in -1 .. MaxDepth
    BY HashAssumption
  <2> QED BY <2>1 DEF Entry, Answers
<1>3. /\ heap' = [heap EXCEPT ![c].keymap[k] = NoValue, ![b].latch = NoThread]
      /\ thread' = [thread EXCEPT ![t] = Idle] /\ answer' = [answer EXCEPT ![t] = a]
      /\ UNCHANGED <<globalDepth, bucketNum, buckets, latch>>
  BY Zenon DEF Remove, Return
<1>4. k \in Key
  BY <1>1, Locals DEF Placed
<1> HIDE DEF c, a
<1>5. Stored(heap', heap, c, k, NoValue, b)
  BY <1>1, <1>2, <1>3, StoreKeeps, Zenon
<1>6. Stores(t, c, NoValue)
  BY <1>1, <1>3, <1>4, <1>5, Zenon DEF Stored, Stores
<1> QED BY <1>3, <1>6, Zenon DEF c, a

\* The kinds of steps there are.
LEMMA StepKinds ==
  ASSUME HashInv, [Next]_vars
  PROVE  \/ SameEntries
         \/ \E t \in Thread : Split(t)
         \/ \E t \in Thread : Insert(t) /\ Stores(t, thread[t].bucket, thread[t].value)
         \/ \E t \in Thread : Remove(t) /\ Stores(t, buckets[thread[t].index], NoValue)
         \/ \E t \in Thread, v \in Entry :
              FindValue(t) /\ Stores(t, buckets[thread[t].index], v)
<1>1. CASE UNCHANGED vars
  BY <1>1 DEF vars, SameEntries
<1>2. ASSUME NEW t \in Thread, NEW k \in Key, NEW v \in Value, Call(t, "Insert", k, v)
      PROVE  SameEntries
  BY <1>2, QuietSteps
<1>3. ASSUME NEW t \in Thread, NEW k \in Key, Call(t, "Find", k, NoValue) \/ Call(t, "Remove", k, NoValue)
      PROVE  SameEntries
  BY <1>3, QuietSteps
<1>4. ASSUME NEW t \in Thread, NEW i \in DOMAIN buckets, GetLocalDepth(t, i)
      PROVE  SameEntries
  BY <1>4, QuietSteps
<1>5. ASSUME NEW t \in Thread, FindValue(t)
      PROVE  \E v \in Entry : Stores(t, buckets[thread[t].index], v)
  <2> DEFINE c == buckets[thread[t].index]
             e == heap[c].keymap[thread[t].key]
             v == IF e = NoValue THEN Null ELSE e
  <2>1. Stores(t, c, v)
    BY <1>5, FindValueStores, Zenon
  <2>2. e \in Entry
    BY <2>1, EntryOf, Zenon DEF Stores
  <2> QED BY <2>1, <2>2, Zenon DEF Entry
<1>6. ASSUME NEW t \in Thread, Step(t)
      PROVE  \/ SameEntries
             \/ Split(t)
             \/ Insert(t) /\ Stores(t, thread[t].bucket, thread[t].value)
             \/ Remove(t) /\ Stores(t, buckets[thread[t].index], NoValue)
             \/ \E v \in Entry : FindValue(t) /\ Stores(t, buckets[thread[t].index], v)
  BY <1>5, <1>6, QuietSteps, InsertStores, RemoveStores, Zenon DEF Step
<1> QED BY <1>1, <1>2, <1>3, <1>4, <1>6 DEF Next

\* A lookup misses an entry only after Insert() or Find() stored it in a bucket that was
\* split after the call had read its index.
THEOREM StaleStoresMisplace == Spec => OnlyStaleStoresMisplace
<1>1. ASSUME HashInv, [Next]_vars, NEW b \in DOMAIN heap', NEW k \in Key,
             Misplaced(b, k)', \A c \in DOMAIN heap : ~Misplaced(c, k)
      PROVE  \E t \in Thread :
               /\ thread[t].key = k
               /\ \/ Insert(t) /\ thread[t].bucket # buckets[Index(k)]
                  \/ FindValue(t) /\ buckets[thread[t].index] # buckets[Index(k)]
  <2>1. /\ heap'[b].keymap[k] # NoValue /\ b # Home(k)'
        /\ \A c \in DOMAIN heap : heap[c].keymap[k] # NoValue => c = Home(k)
    BY <1>1, MisplacedHome
  <2>2. ASSUME NEW t \in Thread, NEW c, NEW v, Stores(t, c, v)
        PROVE  b = c /\ thread[t].key = k /\ v # NoValue /\ c # Home(k)
    <3>1. Home(k)' = Home(k) /\ b \in DOMAIN heap
      BY <1>1, <2>2 DEF Stores, Home, Index
    <3>2. heap[b].keymap[k] = NoValue
      BY <2>1, <3>1
    <3>3. b = c
      BY <2>1, <2>2, <3>1, <3>2 DEF Stores
    <3>4. heap[c].keymap \in [Key -> Entry]
      BY <1>1, <2>2, EntryOf DEF Stores
    <3>5. thread[t].key = k /\ v # NoValue
      BY <1>1, <2>1, <2>2, <3>2, <3>3, <3>4 DEF Stores
    <3> QED BY <2>1, <3>1, <3>3, <3>5
  <2>3. ~SameEntries
    <3> SUFFICES ASSUME SameEntries PROVE FALSE
      OBVIOUS
    <3>1. Home(k)' = Home(k) /\ b \in DOMAIN heap /\ heap'[b].keymap = heap[b].keymap
      BY <1>1 DEF SameEntries, Home, Index
    <3> QED BY <2>1, <3>1
  <2>4. ~\E t \in Thread : Split(t)
    BY <1>1, SplitMisplacesNothing
  <2>5. CASE \E t \in Thread : Insert(t) /\ Stores(t, thread[t].bucket, thread[t].value)
    BY <2>2, <2>5 DEF Home
  <2>6. ~\E t \in Thread : Remove(t) /\ Stores(t, buckets[thread[t].index], NoValue)
    BY <2>2
  <2>7. CASE \E t \in Thread, v \in Entry :
               FindValue(t) /\ Stores(t, buckets[thread[t].index], v)
    BY <2>2, <2>7 DEF Home
  <2> QED BY <1>1, <2>3, <2>4, <2>5, <2>6, <2>7, StepKinds
<1>2. HashInv /\ [Next]_vars =>
        [\A b \in DOMAIN heap', k \in Key :
           Misplaced(b, k)' /\ (\A c \in DOMAIN heap : ~Misplaced(c, k))
             => \E t \in Thread :
                  /\ thread[t].key = k
                  /\ \/ Insert(t) /\ thread[t].bucket # buckets[Index(k)]
                     \/ FindValue(t) /\ buckets[thread[t].index] # buckets[Index(k)]]_vars
  BY <1>1
<1> QED BY <1>2, HashInductive, PTL DEF Spec, OnlyStaleStoresMisplace
-------------------------------------------------------------------------------
\* Calls that follow one another, as under the buffer pool's latch.
OneAtATime == (\A t, u \in Thread : t = u) /\ "GetLocalDepth" \notin Calls

\* What one call knows of the directory, and that every entry is in its place.
Current(t) ==
  LET r == thread[t] IN
  /\ r.at \in {"read", "lock", "locked", "found", "reread"} => r.index = Index(r.key)
  /\ r.at \in {"lock", "locked", "found", "split"} => r.bucket = Home(r.key)
  /\ r.at = "found" => heap[r.bucket].keymap[r.key] # NoValue
InPlace == \A b \in DOMAIN heap, k \in Key : heap[b].keymap[k] # NoValue => b = Home(k)
OneInv == HashInv /\ (\A t \in Thread : Current(t)) /\ InPlace

\* The table that callers see.
table == [k \in Key |-> Lookup(k)]

\* The home of a key is a bucket.
LEMMA HomeIsBucket ==
  ASSUME HashInv, NEW k \in Key
  PROVE  Home(k) \in DOMAIN heap
<1>1. buckets \in [0 .. Shl[globalDepth] - 1 -> DOMAIN heap]
  BY Types DEF HashInv
<1> QED BY <1>1, IndexInDirectory DEF Home

\* A step that leaves the entries leaves the table.
LEMMA SameTable ==
  ASSUME OneInv, SameEntries
  PROVE  /\ table' = table /\ InPlace'
         /\ \A k : Index(k)' = Index(k) /\ Home(k)' = Home(k)
<1>1. \A k : Index(k)' = Index(k) /\ Home(k)' = Home(k)
  BY DEF SameEntries, Home, Index
<1>2. InPlace'
  BY <1>1 DEF OneInv, InPlace, SameEntries
<1>3. \A k \in Key : Home(k) \in DOMAIN heap
  BY HomeIsBucket DEF OneInv
<1>4. \A k \in Key : Lookup(k)' = Lookup(k)
  BY <1>1, <1>3 DEF Lookup, Home, SameEntries
<1>5. table' = table
  BY <1>4 DEF table
<1> QED BY <1>1, <1>2, <1>5

\* A store in the home of the key changes the table there, and only there.
LEMMA StoreInTable ==
  ASSUME OneInv, NEW t \in Thread, NEW c, NEW v, Stores(t, c, v), c = Home(thread[t].key)
  PROVE  /\ table' = [table EXCEPT ![thread[t].key] = v] /\ InPlace'
<1> DEFINE k == thread[t].key
<1>1. \A m : Home(m)' = Home(m)
  BY Zenon DEF Stores, Home, Index
<1>2. k \in Key /\ c \in DOMAIN heap /\ heap[c].keymap \in [Key -> Entry]
  BY EntryOf DEF OneInv, Stores
<1>3. \A b \in DOMAIN heap, m \in Key :
        heap'[b].keymap[m] = IF b = c /\ m = k THEN v ELSE heap[b].keymap[m]
  BY <1>2 DEF Stores
<1>4. InPlace'
  BY <1>1, <1>3 DEF OneInv, InPlace, Stores
<1>5. \A m \in Key : Home(m) \in DOMAIN heap
  BY HomeIsBucket DEF OneInv
<1>6. \A m \in Key : Lookup(m)' = IF m = k THEN v ELSE Lookup(m)
  BY <1>1, <1>3, <1>5 DEF Lookup, Home
<1>7. table' = [table EXCEPT ![k] = v]
  BY <1>2, <1>6, Zenon DEF table
<1> QED BY <1>4, <1>7

\* A split leaves the table.
LEMMA SplitInTable ==
  ASSUME OneInv, NEW t \in Thread, Split(t)
  PROVE  table' = table /\ InPlace'
<1>1. \A k \in Key : \A c \in DOMAIN heap : ~Misplaced(c, k)
  BY MisplacedHome DEF OneInv, InPlace
<1>2. \A k \in Key : /\ \A c \in DOMAIN heap' : ~Misplaced(c, k)'
                     /\ Lookup(k)' = Lookup(k)
  BY <1>1, SplitMisplacesNothing DEF OneInv
<1>3. InPlace'
  BY <1>2, MisplacedHome DEF InPlace
<1> QED BY <1>2, <1>3 DEF table

\* What a step of the only thread is for the table of HashTable.
MapStep(t) ==
  \/ table' = table /\ answer' = answer
  \/ \E k \in Key, v \in Value :
       table' = [table EXCEPT ![k] = v] /\ answer' = [answer EXCEPT ![t] = NoValue]
  \/ \E k \in Key :
       /\ table' = [table EXCEPT ![k] = NoValue]
       /\ answer' = [answer EXCEPT ![t] = IF table[k] # NoValue THEN 1 ELSE 0]
  \/ \E k \in Key : table' = table /\ answer' = [answer EXCEPT ![t] = table[k]]

\* Insert() is the map's, or the start of a split.
LEMMA InsertMaps ==
  ASSUME OneInv, NEW t \in Thread, Insert(t)
  PROVE  MapStep(t) /\ InPlace'
<1>1. HashInv /\ Placed(thread[t]) /\ Current(t) /\ thread[t].at = "locked" /\ thread[t].call = "Insert"
  BY Locals, Zenon DEF OneInv, Insert, At
<1>2. CASE SameEntries /\ answer' = answer
  BY <1>2, SameTable DEF MapStep
<1>3. CASE /\ Stores(t, thread[t].bucket, thread[t].value)
           /\ answer' = [answer EXCEPT ![t] = NoValue]
  <2>1. thread[t].bucket = Home(thread[t].key)
    BY <1>1 DEF Current
  <2>2. table' = [table EXCEPT ![thread[t].key] = thread[t].value] /\ InPlace'
    BY <1>3, <2>1, StoreInTable
  <2>3. thread[t].key \in Key /\ thread[t].value \in Value
    BY <1>1 DEF Placed
  <2> QED BY <1>3, <2>2, <2>3, Zenon DEF MapStep
<1> QED BY <1>1, <1>2, <1>3, InsertStores

\* Remove() is the map's.
LEMMA RemoveMaps ==
  ASSUME OneInv, NEW t \in Thread, Remove(t)
  PROVE  MapStep(t) /\ InPlace'
<1> DEFINE c == buckets[thread[t].index]
           k == thread[t].key
           a == IF heap[c].keymap[k] # NoValue THEN 1 ELSE 0
<1>1. HashInv /\ Placed(thread[t]) /\ Current(t) /\ thread[t].at = "locked" /\ thread[t].call = "Remove"
  BY Locals, Zenon DEF OneInv, Remove, At
<1>2. k \in Key /\ c = Home(k)
  BY <1>1 DEF Placed, Current, Home
<1>3. Stores(t, c, NoValue) /\ answer' = [answer EXCEPT ![t] = a]
  BY <1>1, RemoveStores, Zenon
<1>4. table[k] = heap[c].keymap[k]
  BY <1>2, Zenon DEF table, Lookup, Home
<1>5. table' = [table EXCEPT ![k] = NoValue] /\ InPlace'
  BY <1>2, <1>3, StoreInTable
<1>6. answer' = [answer EXCEPT ![t] = IF table[k] # NoValue THEN 1 ELSE 0]
  BY <1>3, <1>4, Zenon
<1> HIDE DEF k
<1> QED BY <1>2, <1>5, <1>6, Zenon DEF MapStep

\* Find() is the map's, with the key and without it.
LEMMA FindMaps ==
  ASSUME OneInv, NEW t \in Thread, Find(t) \/ FindValue(t)
  PROVE  MapStep(t) /\ InPlace'
<1> DEFINE c == buckets[thread[t].index]
           k == thread[t].key
<1>1. /\ HashInv /\ Placed(thread[t]) /\ Current(t) /\ thread[t].call = "Find"
      /\ thread[t].at \in {"locked", "found"}
  BY Locals, Zenon DEF OneInv, Find, FindValue, At
<1>2. k \in Key /\ c = Home(k) /\ thread[t].bucket = c
  BY <1>1 DEF Placed, Current, Home
<1>3. table[k] = heap[c].keymap[k]
  BY <1>2, Zenon DEF table, Lookup, Home
<1>4. CASE Find(t)
  <2>1. table' = table /\ InPlace'
    BY <1>1, <1>4, QuietSteps, SameTable
  <2>2. answer' = answer \/ (heap[c].keymap[k] = NoValue /\ answer' = [answer EXCEPT ![t] = NoValue])
    BY <1>4, Zenon DEF Find, Return
  <2>3. answer' = answer \/ answer' = [answer EXCEPT ![t] = table[k]]
    BY <1>3, <2>2, Zenon
  <2> HIDE DEF k
  <2> QED BY <1>2, <2>1, <2>3 DEF MapStep
<1>5. CASE FindValue(t)
  <2> DEFINE v == heap[c].keymap[k]
  <2>1. v # NoValue
    BY <1>1, <1>2, <1>5, Zenon DEF Current, FindValue, At
  <2>2. Stores(t, c, v) /\ answer' = [answer EXCEPT ![t] = v]
    BY <1>1, <1>5, <2>1, FindValueStores, Zenon
  <2>3. table' = [table EXCEPT ![k] = v] /\ InPlace'
    BY <1>2, <2>2, StoreInTable, Zenon
  <2>4. table' = table
    BY <1>3, <2>3, Zenon DEF table
  <2>5. answer' = [answer EXCEPT ![t] = table[k]]
    BY <1>3, <2>2, Zenon
  <2> HIDE DEF k
  <2> QED BY <1>2, <2>3, <2>4, <2>5, Zenon DEF MapStep
<1> QED BY <1>4, <1>5

\* Where nothing is known of the directory.
LEMMA Unaware ==
  ASSUME NEW t \in Thread, thread'[t].at \in {"idle", "index", "reindex", "depth"}
  PROVE  Current(t)'
BY DEF Current

\* The only thread's step keeps what it knows: steps that leave the entries alone, ...
LEMMA QuietCurrent ==
  ASSUME OneInv, NEW t \in Thread,
         \/ GetIndex(t) \/ ReIndex(t) \/ ReadDirectory(t) \/ LockBucket(t) \/ ReRead(t) \/ Find(t)
  PROVE  Current(t)'
<1> DEFINE b == thread[t].bucket
           i == thread[t].index
           k == thread[t].key
<1>1. /\ HashInv /\ Current(t) /\ thread[t] \in ThreadRecord
      /\ thread \in [Thread -> ThreadRecord]
  BY Locals, Types DEF OneInv, HashInv
<1>2. \A m : Index(m)' = Index(m) /\ Home(m)' = Home(m)
  BY <1>1, QuietSteps, SameTable
<1>3. CASE GetIndex(t) \/ ReIndex(t)
  <2>1. thread'[t].index = Index(k) /\ thread'[t].key = k /\ thread'[t].at \in {"read", "reread"}
    BY <1>1, <1>3 DEF GetIndex, ReIndex, ThreadRecord
  <2> QED BY <1>2, <2>1 DEF Current
<1>4. CASE ReadDirectory(t) \/ ReRead(t)
  <2>1. /\ thread'[t].index = i /\ thread'[t].key = k /\ thread'[t].at = "lock"
        /\ thread'[t].bucket = buckets[i]
    BY <1>1, <1>4 DEF ReadDirectory, ReRead, ThreadRecord
  <2>2. i = Index(k)
    BY <1>1, <1>4 DEF ReadDirectory, ReRead, Current
  <2>3. thread'[t].bucket = Home(k)
    BY <2>1, <2>2 DEF Home
  <2> QED BY <1>2, <2>1, <2>2, <2>3 DEF Current
<1>5. CASE LockBucket(t)
  <2>1. thread'[t].index = i /\ thread'[t].key = k /\ thread'[t].at = "locked" /\ thread'[t].bucket = b
    BY <1>1, <1>5 DEF LockBucket, GoTo, ThreadRecord
  <2>2. i = Index(k) /\ b = Home(k)
    BY <1>1, <1>5 DEF LockBucket, Current
  <2> QED BY <1>2, <2>1, <2>2 DEF Current
<1>6. CASE Find(t) /\ heap[buckets[i]].keymap[k] # NoValue
  <2>1. /\ thread'[t].index = i /\ thread'[t].key = k /\ thread'[t].at = "found"
        /\ thread'[t].bucket = b /\ heap' = heap
    BY <1>1, <1>6 DEF Find, GoTo, ThreadRecord
  <2>2. i = Index(k) /\ b = Home(k) /\ b = buckets[i]
    BY <1>1, <1>6, Zenon DEF Find, At, Current, Home
  <2>3. heap'[thread'[t].bucket].keymap[thread'[t].key] # NoValue
    BY <1>6, <2>1, <2>2, Zenon
  <2> QED BY <1>2, <2>1, <2>2, <2>3, Zenon DEF Current
<1>7. CASE Find(t) /\ heap[buckets[i]].keymap[k] = NoValue
  <2>1. thread' = [thread EXCEPT ![t] = Idle]
    BY <1>7 DEF Find, Return
  <2>2. thread'[t].at = "idle"
    BY <1>1, <2>1 DEF Idle
  <2> QED BY <2>2, Unaware
<1> QED BY <1>3, <1>4, <1>5, <1>6, <1>7, Zenon

\* ... and the others.
LEMMA StoreCurrent ==
  ASSUME OneInv, NEW t \in Thread, Insert(t) \/ FindValue(t) \/ Remove(t) \/ Split(t)
  PROVE  Current(t)'
<1> DEFINE b == thread[t].bucket
           k == thread[t].key
<1>1. /\ HashInv /\ Current(t) /\ thread[t] \in ThreadRecord
      /\ thread \in [Thread -> ThreadRecord]
  BY Locals, Types DEF OneInv, HashInv
<1>2. CASE thread' = [thread EXCEPT ![t] = Idle]
  BY <1>1, <1>2, Unaware DEF Idle
<1>3. CASE Split(t)
  <2>1. thread'[t].at = "reindex"
    BY <1>1, <1>3, Zenon DEF Split, GoTo, ThreadRecord
  <2> QED BY <2>1, Unaware
<1>4. CASE Insert(t) /\ GoTo(t, "split")
  <2>1. thread'[t].key = k /\ thread'[t].at = "split" /\ thread'[t].bucket = b
    BY <1>1, <1>4 DEF GoTo, ThreadRecord
  <2>2. b = Home(k)
    BY <1>1, <1>4, Zenon DEF Insert, At, Current
  <2>3. Home(k) = buckets'[k % Shl[globalDepth']]
    BY <1>4, Zenon DEF Insert, Home, Index
  <2> QED BY <2>1, <2>2, <2>3 DEF Current, Home, Index
<1> QED BY <1>2, <1>3, <1>4, Zenon DEF Insert, FindValue, Remove, Return

\* Every step of the only thread is a step of the map, or none, and keeps OneInv.
LEMMA OneStep ==
  ASSUME OneAtATime, OneInv, [Next]_vars
  PROVE  OneInv' /\ ((table' = table /\ answer' = answer) \/ \E t \in Thread : MapStep(t))
<1>1. HashInv /\ HashInv'
  BY NextHashInv DEF OneInv
<1>2. CASE UNCHANGED vars
  <2>1. SameEntries /\ answer' = answer
    BY <1>2 DEF vars, SameEntries
  <2>2. table' = table /\ InPlace' /\ \A k : Index(k)' = Index(k) /\ Home(k)' = Home(k)
    BY <2>1, SameTable
  <2>3. \A t \in Thread : Current(t)'
    BY <1>2, <2>2 DEF OneInv, Current, vars
  <2> QED BY <1>1, <2>1, <2>2, <2>3 DEF OneInv
<1>3. ASSUME NEW t \in Thread, MapStep(t), InPlace', Current(t)'
      PROVE  OneInv' /\ \E u \in Thread : MapStep(u)
  <2>1. \A u \in Thread : u = t
    BY DEF OneAtATime
  <2>2. \A u \in Thread : Current(u)'
    BY <1>3, <2>1
  <2> QED BY <1>1, <1>3, <2>2 DEF OneInv
<1>4. ASSUME NEW t \in Thread, SameEntries, answer' = answer
      PROVE  MapStep(t) /\ InPlace'
  BY <1>4, SameTable DEF MapStep
<1>5. ASSUME NEW t \in Thread, NEW call \in {"Insert", "Find", "Remove"}, NEW k \in Key,
             NEW v \in Value \cup {NoValue}, Call(t, call, k, v)
      PROVE  MapStep(t) /\ InPlace' /\ Current(t)'
  <2>1. SameEntries /\ answer' = answer
    BY <1>1, <1>5, QuietSteps, Zenon DEF Call
  <2>2. thread'[t].at = "index"
    <3>1. thread \in [Thread -> ThreadRecord]
      BY <1>1, Types DEF HashInv
    <3> QED BY <1>5, <3>1 DEF Call, Idle
  <2> QED BY <1>4, <2>1, <2>2, Unaware
<1>6. ASSUME NEW t \in Thread, Step(t)
      PROVE  MapStep(t) /\ InPlace' /\ Current(t)'
  <2>1. ~LocalDepth(t)
    <3>1. thread[t] \in ThreadRecord /\ Placed(thread[t])
      BY <1>1, Locals
    <3> QED BY <3>1 DEF OneAtATime, LocalDepth, Placed, ThreadRecord
  <2>2. CASE GetIndex(t) \/ ReIndex(t) \/ ReadDirectory(t) \/ LockBucket(t) \/ ReRead(t)
    <3>1. SameEntries /\ answer' = answer
      BY <1>1, <2>2, QuietSteps, Zenon DEF GetIndex, ReIndex, ReadDirectory, LockBucket, ReRead
    <3> QED BY <1>4, <2>2, <3>1, QuietCurrent
  <2>3. CASE Find(t) \/ FindValue(t)
    BY <2>3, FindMaps, QuietCurrent, StoreCurrent
  <2>4. CASE Insert(t)
    BY <2>4, InsertMaps, StoreCurrent
  <2>5. CASE Remove(t)
    BY <2>5, RemoveMaps, StoreCurrent
  <2>6. CASE Split(t)
    <3>1. table' = table /\ InPlace' /\ answer' = answer
      BY <2>6, SplitInTable, Zenon DEF Split
    <3> QED BY <2>6, <3>1, StoreCurrent DEF MapStep
  <2> QED BY <1>6, <2>1, <2>2, <2>3, <2>4, <2>5, <2>6 DEF Step
<1>7. ~\E t \in Thread, i \in DOMAIN buckets : GetLocalDepth(t, i)
  BY Zenon DEF OneAtATime, GetLocalDepth
<1> QED BY <1>2, <1>3, <1>5, <1>6, <1>7 DEF Next

\* One thread at a time sees a map: Insert(), Find() and Remove() answer what the map
\* holds, and splits and doublings lose nothing.
THEOREM OneThreadSeesMap == ASSUME OneAtATime PROVE Spec => ImplementsTable
<1>1. Init => OneInv /\ Table!Init
  <2> SUFFICES ASSUME Init PROVE OneInv /\ Table!Init
    OBVIOUS
  <2>1. HashInv
    BY InitHashInv
  <2>2. \A t \in Thread : Current(t)
    BY DEF Init, Current, Idle
  <2>3. \A b \in DOMAIN heap, k \in Key : heap[b].keymap[k] = NoValue
    <3>1. heap = <<Bucket(0, [k \in Key |-> NoValue])>>
      BY DEF Init
    <3> QED BY <3>1 DEF Bucket
  <2>4. \A k \in Key : Lookup(k) = NoValue
    BY <2>1, <2>3, HomeIsBucket DEF Lookup, Home
  <2> QED BY <2>1, <2>2, <2>3, <2>4 DEF OneInv, InPlace, Table!Init, Init
<1>2. OneInv /\ [Next]_vars => OneInv'
  BY OneStep
<1>3. OneInv /\ [Next]_vars => [Table!Next]_<<table, answer>>
  <2> SUFFICES ASSUME OneInv, [Next]_vars
               PROVE  Table!Next \/ (table' = table /\ answer' = answer)
    OBVIOUS
  <2>1. CASE \E t \in Thread : MapStep(t)
    BY <2>1, Zenon DEF MapStep, table, Table!Next, Table!Insert, Table!Remove, Table!Find
  <2> QED BY <2>1, OneStep
<1> QED BY <1>1, <1>2, <1>3, PTL DEF Spec, ImplementsTable, Table!Spec, table
===============================================================================
