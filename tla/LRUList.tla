------------------------------- MODULE LRUList -------------------------------
(* The replacer as a value: a list without duplicates, most recently inserted *)
(* first.  LRU is the state machine over it, and BufferPoolManager keeps one  *)
(* as its replacer_.                                                          *)
EXTENDS Integers, Sequences, Functions

\* The values behind the erased one move up.
Erased(order, v) ==
  IF v \in Range(order)
    THEN LET i == CHOOSE j \in DOMAIN order : order[j] = v
         IN  [j \in 1 .. Len(order) - 1 |-> order[IF j < i THEN j ELSE j + 1]]
    ELSE order

\* Insert moves a value that is already there to the front.
Inserted(order, v) == <<v>> \o Erased(order, v)

\* Victim takes the value that was inserted the longest ago.
Oldest(order) == order[Len(order)]
WithoutOldest(order) == SubSeq(order, 1, Len(order) - 1)
==============================================================================
