--------------------------------- MODULE LRU ---------------------------------
(* What a replacer promises (include/buffer/replacer.h): it holds the values  *)
(* that were inserted and neither erased nor chosen as a victim since, and a  *)
(* victim is the value whose last insertion lies furthest back.  LRUReplacer, *)
(* the linked list of lru_replacer.cpp, implements it.                        *)
EXTENDS LRUList

CONSTANT Value          \* what the replacer holds: Page pointers in the pool

VARIABLES
  order,                \* the values, most recently inserted first
  answer                \* the last call and the value it gave out or removed

Answer(call, values) == answer' = <<call, values>>

Init == order = <<>> /\ answer = <<"none", {}>>

Insert(v) == order' = Inserted(order, v) /\ Answer("Insert", {})

Victim ==
  \/ order # <<>> /\ order' = WithoutOldest(order) /\ Answer("Victim", {Oldest(order)})
  \/ order = <<>> /\ Answer("Victim", {}) /\ UNCHANGED order

Erase(v) == order' = Erased(order, v) /\ Answer("Erase", {v} \cap Range(order))

Next == Victim \/ \E v \in Value : Insert(v) \/ Erase(v)

Spec == Init /\ [][Next]_<<order, answer>>
==============================================================================
