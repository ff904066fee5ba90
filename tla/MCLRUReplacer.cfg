CONSTANTS
  Item = {v1, v2, v3, v4}
  Head0 = head
  Tail0 = tail
SPECIFICATION ReplacerSpec
INVARIANTS ListMatchesMap
PROPERTY ImplementsLRU
