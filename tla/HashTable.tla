------------------------------ MODULE HashTable ------------------------------
(* What a hash table promises its callers (include/hash/hash_table.h): a map  *)
(* from keys to values, and calls that take effect at one instant.            *)
CONSTANTS
  Key, Value, Thread,
  NoValue          \* the key is not there; also the answer of Insert

VARIABLES
  table,           \* the value of each key, or NoValue
  answer           \* what each thread's last call returned

Init == table = [k \in Key |-> NoValue] /\ answer = [t \in Thread |-> NoValue]

Insert(t, k, v) ==
  /\ table' = [table EXCEPT ![k] = v]
  /\ answer' = [answer EXCEPT ![t] = NoValue]

Remove(t, k) ==
  /\ table' = [table EXCEPT ![k] = NoValue]
  /\ answer' = [answer EXCEPT ![t] = IF table[k] # NoValue THEN 1 ELSE 0]

Find(t, k) == answer' = [answer EXCEPT ![t] = table[k]] /\ UNCHANGED table

Next == \E t \in Thread, k \in Key :
          (\E v \in Value : Insert(t, k, v)) \/ Remove(t, k) \/ Find(t, k)

Spec == Init /\ [][Next]_<<table, answer>>
==============================================================================
