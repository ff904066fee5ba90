----------------------------- MODULE LRUReplacer -----------------------------
(* buffer/lru_replacer.cpp: the replacer as a doubly linked list between two  *)
(* sentinels and a map from a value to its node.  A value has at most one     *)
(* node that anything still points to, so a node is named by its value.       *)
(* Every method runs under the replacer's latch: one action per method.       *)
EXTENDS Naturals, Sequences, FiniteSets, Functions

CONSTANTS
  Item,         \* what it holds: Page pointers in the pool
  Head0, Tail0  \* the sentinels head and tail

ASSUME SentinelAssumption ==
  /\ IsFiniteSet(Item)
  /\ Head0 \notin Item /\ Tail0 \notin Item /\ Head0 # Tail0

VARIABLES
  next, prev,   \* the links of every node (Node::next, Node::prev)
  map,          \* the values that have an entry in map
  answer        \* the last call and the value it gave out or removed

replacerVars == <<next, prev, map, answer>>

Answer(call, values) == answer' = <<call, values>>

Node == Item \cup {Head0, Tail0}

\* A node that was never made points to itself: nothing reads its links.
ReplacerInit ==
  /\ next = [n \in Node |-> IF n = Head0 THEN Tail0 ELSE n]
  /\ prev = [n \in Node |-> IF n = Tail0 THEN Head0 ELSE n]
  /\ map = {}
  /\ answer = <<"none", {}>>

\* The links after the neighbours of v are joined to each other.
Unlinked(v) == [n |-> [next EXCEPT ![prev[v]] = next[v]],
                p |-> [prev EXCEPT ![next[v]] = prev[v]]]

\* Mutant: the node is linked in front again without being unlinked.
InsertNoUnlink(v) ==
  /\ next' = [next EXCEPT ![v] = next[Head0], ![Head0] = v]
  /\ prev' = [prev EXCEPT ![next[Head0]] = v, ![v] = Head0]
  /\ map' = map \cup {v}
  /\ Answer("Insert", {})

Insert(v) ==
  LET l   == IF v \in map THEN Unlinked(v) ELSE [n |-> next, p |-> prev]
      sec == l.n[Head0]
  IN  /\ next' = [l.n EXCEPT ![v] = sec, ![Head0] = v]
      /\ prev' = [l.p EXCEPT ![sec] = v, ![v] = Head0]
      /\ map' = map \cup {v}
      /\ Answer("Insert", {})

\* Mutant: the node next to head is taken instead of the one next to tail.
VictimFromHead ==
  LET first == next[Head0] IN
  IF map = {} THEN Answer("Victim", {}) /\ UNCHANGED <<next, prev, map>>
  ELSE /\ next' = [next EXCEPT ![Head0] = next[first]]
       /\ prev' = [prev EXCEPT ![next[first]] = Head0]
       /\ map' = map \ {first}
       /\ Answer("Victim", {first})

Victim ==
  LET last == prev[Tail0] IN
  IF map = {} THEN Answer("Victim", {}) /\ UNCHANGED <<next, prev, map>>
  ELSE /\ prev' = [prev EXCEPT ![Tail0] = prev[last]]
       /\ next' = [next EXCEPT ![prev[last]] = Tail0]
       /\ map' = map \ {last}
       /\ Answer("Victim", {last})

Erase(v) ==
  /\ IF v \in map
     THEN next' = Unlinked(v).n /\ prev' = Unlinked(v).p
     ELSE UNCHANGED <<next, prev>>
  /\ map' = map \ {v}
  /\ Answer("Erase", {v} \cap map)

ReplacerNext == Victim \/ \E v \in Item : Insert(v) \/ Erase(v)

ReplacerSpec == ReplacerInit /\ [][ReplacerNext]_replacerVars
------------------------------------------------------------------------------
\* Every link leads to a node and the map holds values.
ReplacerTypeOK ==
  /\ next \in [Node -> Node]
  /\ prev \in [Node -> Node]
  /\ map \subseteq Item
  /\ answer \in {"none", "Insert", "Victim", "Erase"} \X SUBSET Item

\* The i-th node of a list, with the sentinels at its ends.
NodeAt(s, i) == IF i = 0 THEN Head0 ELSE IF i = Len(s) + 1 THEN Tail0 ELSE s[i]

\* The links n and p lead along s from head to tail, and back.
Linked(n, p, s) ==
  \A i \in 0 .. Len(s) :
    n[NodeAt(s, i)] = NodeAt(s, i + 1) /\ p[NodeAt(s, i + 1)] = NodeAt(s, i)

\* The walk from head to tail meets the map's keys, each once.
Lists == [1 .. Cardinality(map) -> map]
IsWalk(s) == IsInjective(s) /\ Range(s) = map /\ Linked(next, prev, s)
ForwardWalk == CHOOSE s \in Lists : IsWalk(s)

\* The list, the map and the two directions of the links agree after every
\* call: the list holds exactly the map's keys, each once, and prev is the
\* inverse of next along it (Erase and Victim rely on both directions).
ListMatchesMap == ReplacerTypeOK /\ \E s \in Lists : IsWalk(s)

\* lru_replacer.cpp implements what a replacer promises: the list read from
\* head to tail is the abstract order, and every call is an abstract one.
Abstract == INSTANCE LRU WITH Value <- Item, order <- ForwardWalk
ImplementsLRU == Abstract!Spec
==============================================================================
