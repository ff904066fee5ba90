---------------------------- MODULE ExtendibleHash ----------------------------
(* hash/extendible_hash.cpp, the page table of the buffer pool, at the grain  *)
(* of its latches: one for the directory, one in each bucket.  Threads read   *)
(* the directory without its latch, so a call is several steps, and between   *)
(* two of them another thread may split the bucket the call is heading for.   *)
(* A racing read of a directory entry returns its value before or after the   *)
(* other thread's change.                                                     *)
EXTENDS Integers, Sequences, FiniteSets

CONSTANTS
  Key,            \* page ids: HashKey() is the identity
  Value,
  Null,           \* the value a default-constructed entry holds (V{})
  NoValue,        \* no entry
  Thread, NoThread,
  BucketSize,     \* bucketSize
  MaxDepth,       \* bound on the doublings of the directory
  Calls           \* the methods that threads call

ASSUME HashAssumption ==
  /\ Key \subseteq Int
  /\ Null \notin Value /\ NoValue \notin Value \cup {Null}
  /\ NoThread \notin Thread
  /\ BucketSize \in Nat \ {0} /\ MaxDepth \in Nat
  /\ Calls \subseteq {"Insert", "Find", "Remove", "GetLocalDepth"}

VARIABLES
  globalDepth, bucketNum,
  buckets,        \* the directory: a bucket's number for each index
  heap,           \* the buckets that were made: localDepth, keymap, holder of latch
  latch,          \* the thread that holds the directory's latch
  thread,         \* per thread: the call, where it is, its locals
  answer          \* what each thread's last call returned

vars == <<globalDepth, bucketNum, buckets, heap, latch, thread, answer>>

Idle == [call |-> "none", at |-> "idle", key |-> 0, value |-> NoValue,
         index |-> 0, bucket |-> 0]

Bucket(depth, keymap) == [localDepth |-> depth, keymap |-> keymap, latch |-> NoThread]

Init ==
  /\ globalDepth = 0
  /\ bucketNum = 1
  /\ buckets = [i \in {0} |-> 1]
  /\ heap = <<Bucket(0, [k \in Key |-> NoValue])>>
  /\ latch = NoThread
  /\ thread = [t \in Thread |-> Idle]
  /\ answer = [t \in Thread |-> NoValue]
------------------------------------------------------------------------------
\* 1 << d
Shl[d \in Nat] == IF d = 0 THEN 1 ELSE 2 * Shl[d - 1]

\* HashKey(key) & ((1 << globalDepth) - 1)
Index(k) == k % Shl[globalDepth]

\* n & (1 << d)
HasBit(n, d) == (n \div Shl[d]) % 2 = 1

Size(b) == Cardinality({k \in Key : heap[b].keymap[k] # NoValue})

At(t, call, place) == thread[t].call = call /\ thread[t].at = place

GoTo(t, place) == thread' = [thread EXCEPT ![t].at = place]

\* The call returns r; its locals are gone.
Return(t, r) ==
  /\ thread' = [thread EXCEPT ![t] = Idle]
  /\ answer' = [answer EXCEPT ![t] = r]

Call(t, call, k, v) ==
  /\ thread[t] = Idle
  /\ call \in Calls
  /\ thread' = [thread EXCEPT ![t] = [Idle EXCEPT !.call = call, !.key = k,
                                                  !.value = v, !.at = "index"]]
  /\ UNCHANGED <<globalDepth, bucketNum, buckets, heap, latch, answer>>

\* getIndex() takes and releases the directory's latch.
GetIndex(t) ==
  /\ thread[t].at = "index"
  /\ latch = NoThread
  /\ thread' = [thread EXCEPT ![t].index = Index(thread[t].key), ![t].at = "read"]
  /\ UNCHANGED <<globalDepth, bucketNum, buckets, heap, latch, answer>>

\* buckets[curIndex], without the directory's latch.
ReadDirectory(t) ==
  /\ thread[t].at = "read"
  /\ thread' = [thread EXCEPT ![t].bucket = buckets[thread[t].index], ![t].at = "lock"]
  /\ UNCHANGED <<globalDepth, bucketNum, buckets, heap, latch, answer>>

LockBucket(t) ==
  LET b == thread[t].bucket IN
  /\ thread[t].at = "lock"
  /\ heap[b].latch = NoThread
  /\ heap' = [heap EXCEPT ![b].latch = t]
  /\ GoTo(t, "locked")
  /\ UNCHANGED <<globalDepth, bucketNum, buckets, latch, answer>>

\* Mutant: the bucket stays locked when the key is not there.
FindKeepsLatch(t) ==
  /\ At(t, "Find", "locked")
  /\ IF heap[buckets[thread[t].index]].keymap[thread[t].key] # NoValue
     THEN GoTo(t, "found") /\ UNCHANGED answer
     ELSE Return(t, NoValue)
  /\ UNCHANGED <<globalDepth, bucketNum, buckets, heap, latch>>

\* Find() looks in the bucket that the directory names by now.
Find(t) ==
  LET b == thread[t].bucket
      c == buckets[thread[t].index]
  IN
  /\ At(t, "Find", "locked")
  /\ IF heap[c].keymap[thread[t].key] # NoValue
     THEN GoTo(t, "found") /\ UNCHANGED <<heap, answer>>
     ELSE heap' = [heap EXCEPT ![b].latch = NoThread] /\ Return(t, NoValue)
  /\ UNCHANGED <<globalDepth, bucketNum, buckets, latch>>

\* keymap[key] makes a default entry if the key has gone in the meantime.
FindValue(t) ==
  LET b == thread[t].bucket
      c == buckets[thread[t].index]
      k == thread[t].key
      v == IF heap[c].keymap[k] = NoValue THEN Null ELSE heap[c].keymap[k]
  IN
  /\ At(t, "Find", "found")
  /\ heap' = [heap EXCEPT ![c].keymap[k] = v, ![b].latch = NoThread]
  /\ Return(t, v)
  /\ UNCHANGED <<globalDepth, bucketNum, buckets, latch>>

\* Remove() erases from the bucket that the directory names by now.
Remove(t) ==
  LET b == thread[t].bucket
      c == buckets[thread[t].index]
      k == thread[t].key
  IN
  /\ At(t, "Remove", "locked")
  /\ heap' = [heap EXCEPT ![c].keymap[k] = NoValue, ![b].latch = NoThread]
  /\ Return(t, IF heap[c].keymap[k] # NoValue THEN 1 ELSE 0)
  /\ UNCHANGED <<globalDepth, bucketNum, buckets, latch>>

\* Insert() stores the entry, or decides to split the bucket.
Insert(t) ==
  LET b == thread[t].bucket
      k == thread[t].key
  IN
  /\ At(t, "Insert", "locked")
  /\ IF heap[b].keymap[k] # NoValue \/ Size(b) < BucketSize
     THEN /\ heap' = [heap EXCEPT ![b].keymap[k] = thread[t].value, ![b].latch = NoThread]
          /\ Return(t, NoValue)
     ELSE /\ heap' = [heap EXCEPT ![b].localDepth = @ + 1]
          /\ GoTo(t, "split") /\ UNCHANGED answer
  /\ UNCHANGED <<globalDepth, bucketNum, buckets, latch>>

\* Mutant: no entry leaves the full bucket.
MovesNothing(k, mask) == FALSE

\* Entries of the full bucket that move to the new one.
Moves(k, mask) == HasBit(k, mask)

\* Mutant: the directory does not learn of the new bucket.
RedirectsNothing(i, mask) == FALSE

\* Indexes of the full bucket that the new one takes over.
Redirects(i, mask) == HasBit(i, mask)

\* The block under the directory's latch: the directory doubles if it must, and
\* the entries and indexes with the new bit go to a new bucket.
Split(t) ==
  LET b     == thread[t].bucket
      depth == heap[b].localDepth
      n     == Len(heap) + 1
      grow  == depth > globalDepth
      dir   == IF grow THEN [i \in 0 .. 2 * Shl[globalDepth] - 1 |-> buckets[i % Shl[globalDepth]]]
               ELSE buckets
      mask  == depth - 1
      old   == heap[b].keymap
  IN
  /\ thread[t].at = "split"
  /\ latch = NoThread
  /\ grow => globalDepth < MaxDepth
  /\ globalDepth' = IF grow THEN globalDepth + 1 ELSE globalDepth
  /\ bucketNum' = bucketNum + 1
  /\ heap' = Append([heap EXCEPT ![b].keymap =
                       [k \in Key |-> IF Moves(k, mask) THEN NoValue ELSE old[k]]],
                    Bucket(depth, [k \in Key |-> IF Moves(k, mask) THEN old[k] ELSE NoValue]))
  /\ buckets' = [i \in DOMAIN dir |-> IF dir[i] = b /\ Redirects(i, mask) THEN n ELSE dir[i]]
  /\ GoTo(t, "reindex")
  /\ UNCHANGED <<latch, answer>>

\* getIndex() again, with the old bucket's latch held.
ReIndex(t) ==
  /\ thread[t].at = "reindex"
  /\ latch = NoThread
  /\ thread' = [thread EXCEPT ![t].index = Index(thread[t].key), ![t].at = "reread"]
  /\ UNCHANGED <<globalDepth, bucketNum, buckets, heap, latch, answer>>

\* Mutant: the guard is declared outside the loop.
ReReadKeepsLatch(t) ==
  /\ thread[t].at = "reread"
  /\ thread' = [thread EXCEPT ![t].bucket = buckets[thread[t].index], ![t].at = "lock"]
  /\ UNCHANGED <<globalDepth, bucketNum, buckets, heap, latch, answer>>

\* The end of the loop's body releases the old bucket.
ReRead(t) ==
  /\ thread[t].at = "reread"
  /\ thread' = [thread EXCEPT ![t].bucket = buckets[thread[t].index], ![t].at = "lock"]
  /\ heap' = [heap EXCEPT ![thread[t].bucket].latch = NoThread]
  /\ UNCHANGED <<globalDepth, bucketNum, buckets, latch, answer>>

\* GetLocalDepth() takes the directory's latch first and keeps it.
GetLocalDepth(t, i) ==
  /\ thread[t] = Idle
  /\ "GetLocalDepth" \in Calls
  /\ latch = NoThread
  /\ latch' = t
  /\ thread' = [thread EXCEPT ![t] = [Idle EXCEPT !.call = "GetLocalDepth", !.at = "depth",
                                                  !.index = i, !.bucket = buckets[i]]]
  /\ UNCHANGED <<globalDepth, bucketNum, buckets, heap, answer>>

\* With the bucket's latch: the depth, or -1 for a bucket without entries.
LocalDepth(t) ==
  LET b == thread[t].bucket IN
  /\ thread[t].at = "depth"
  /\ heap[b].latch = NoThread
  /\ latch' = NoThread
  /\ Return(t, IF Size(b) # 0 THEN heap[b].localDepth ELSE -1)
  /\ UNCHANGED <<globalDepth, bucketNum, buckets, heap>>

Step(t) ==
  \/ GetIndex(t) \/ ReadDirectory(t) \/ LockBucket(t)
  \/ Find(t) \/ FindValue(t) \/ Remove(t) \/ Insert(t)
  \/ Split(t) \/ ReIndex(t) \/ ReRead(t) \/ LocalDepth(t)

Next == \E t \in Thread :
  \/ \E k \in Key, v \in Value : Call(t, "Insert", k, v)
  \/ \E k \in Key : Call(t, "Find", k, NoValue) \/ Call(t, "Remove", k, NoValue)
  \/ \E i \in DOMAIN buckets : GetLocalDepth(t, i)
  \/ Step(t)

Spec == Init /\ [][Next]_vars

\* A thread that can take a step of its call takes it.
FairSpec == Spec /\ \A t \in Thread : WF_vars(Step(t))
------------------------------------------------------------------------------
\* Types, and the directory has an entry for each pattern of globalDepth bits.
TypeOK ==
  LET Entry == Value \cup {Null, NoValue}
      Place == {"idle", "index", "read", "lock", "locked", "found", "split",
                "reindex", "reread", "depth"}
  IN
  /\ globalDepth \in 0 .. MaxDepth
  /\ bucketNum \in Nat
  /\ buckets \in [0 .. Shl[globalDepth] - 1 -> DOMAIN heap]
  /\ heap \in Seq([localDepth : 0 .. MaxDepth + 1, keymap : [Key -> Entry],
                   latch : Thread \cup {NoThread}])
  /\ latch \in Thread \cup {NoThread}
  /\ thread \in [Thread -> [call : Calls \cup {"none"}, at : Place, key : Key \cup {0},
                            value : Value \cup {NoValue}, index : 0 .. Shl[globalDepth] - 1,
                            bucket : {0} \cup DOMAIN heap]]
  /\ answer \in [Thread -> Entry \cup {1} \cup -1 .. MaxDepth]

\* Whatever the threads do, the directory stays a partition: each bucket is
\* named by exactly the indexes that agree with one another on the bucket's
\* localDepth low bits (one bit less while its split is still to come), never
\* has more bits than the directory, and bucketNum counts the buckets.
DirectoryWellFormed ==
  /\ TypeOK
  /\ bucketNum = Len(heap)
  /\ \A b \in DOMAIN heap :
       LET splitting == \E t \in Thread : At(t, "Insert", "split") /\ thread[t].bucket = b
           depth == IF splitting THEN heap[b].localDepth - 1 ELSE heap[b].localDepth
           named == {i \in DOMAIN buckets : buckets[i] = b}
       IN
       /\ depth <= globalDepth
       /\ \E i \in named :
            named = {j \in DOMAIN buckets : j % Shl[depth] = i % Shl[depth]}

\* t cannot move before u does.
WaitsFor(t, u) ==
  \/ thread[t].at \in {"lock", "depth"} /\ heap[thread[t].bucket].latch = u
  \/ thread[t].at \in {"index", "split", "reindex"} /\ latch = u

\* Threads that wait for one another are never all in Insert, Find and Remove:
\* those three wait for at most one latch while they hold another, and always
\* for the directory's while they hold a bucket's.  GetLocalDepth takes the two
\* in the opposite order, and is in every cycle there is.
OnlyGetLocalDepthDeadlocks ==
  \A S \in (SUBSET Thread) \ {{}} :
    (\A t \in S : \E u \in S : WaitsFor(t, u))
      => \E t \in S : thread[t].call = "GetLocalDepth"

\* What a lookup of k finds.
Lookup(k) == heap[buckets[Index(k)]].keymap[k]

\* Bucket b holds k where no lookup of k comes.
Misplaced(b, k) == heap[b].keymap[k] # NoValue /\ b # buckets[Index(k)]

\* A lookup misses an entry that is in the table only after one kind of step:
\* a thread stored it in the bucket that its index named before another
\* thread split that bucket.  Splits and doublings, also those of two
\* threads at once, never lose sight of an entry.
OnlyStaleStoresMisplace ==
  [][\A b \in DOMAIN heap', k \in Key :
       Misplaced(b, k)' /\ (\A c \in DOMAIN heap : ~Misplaced(c, k))
         => \E t \in Thread :
              /\ thread[t].key = k
              /\ \/ Insert(t) /\ thread[t].bucket # buckets[Index(k)]
                 \/ FindValue(t) /\ buckets[thread[t].index] # buckets[Index(k)]]_vars

Table == INSTANCE HashTable WITH table <- [k \in Key |-> Lookup(k)]

\* One thread at a time sees a map: splits and doublings move entries and lose
\* none, every call answers what the map holds.
ImplementsTable == Table!Spec

\* Every call returns; for Insert, the splits of one call come to an end.
CallsReturn == \A t \in Thread : thread[t] # Idle ~> thread[t] = Idle
==============================================================================
