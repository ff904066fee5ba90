------------------------------ MODULE OrderedMap ------------------------------
(* What an index with unique keys promises (include/index/index.h,            *)
(* include/index/b_plus_tree.h): a map from keys to values, and answers that  *)
(* agree with it.                                                             *)
EXTENDS Integers

CONSTANTS
  Key,
  Row,         \* the pairs <<key, value>> that may be inserted
  NotFound

VARIABLES map, answer

mapVars == <<map, answer>>

MapInit == map = {} /\ answer = NotFound

Keys(m) == {e[1] : e \in m}
ValueOf(m, key) ==
  IF key \in Keys(m) THEN (CHOOSE e \in m : e[1] = key)[2] ELSE NotFound

MapInsert(key, value) ==
  /\ answer' = (key \notin Keys(map))
  /\ map' = IF key \in Keys(map) THEN map ELSE map \cup {<<key, value>>}

MapRemove(key) ==
  /\ map' = {e \in map : e[1] # key}
  /\ answer' = NotFound

MapGetValue(key) ==
  /\ answer' = ValueOf(map, key)
  /\ UNCHANGED map

MapNext ==
  \/ \E e \in Row : MapInsert(e[1], e[2])
  \/ \E key \in Key : MapRemove(key) \/ MapGetValue(key)

MapSpec == MapInit /\ [][MapNext]_mapVars
===============================================================================
