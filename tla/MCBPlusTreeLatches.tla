------------------------- MODULE MCBPlusTreeLatches -------------------------
EXTENDS BPlusTreeLatches

CONSTANTS t1, t2, t3, v1

MCThread == {t1, t2, t3}
MCRow == {<<k, v1>> : k \in 1 .. 9}
MCSizes == {[leaf |-> 3, internal |-> 3], [leaf |-> 5, internal |-> 4]}

Add(t, k) == IF IsEmpty(t) THEN StartNewTree(t, k, v1)
             ELSE InsertIntoLeaf(t, FindLeaf(t, t.root, k), k, v1)

\* A single entry, leaves that a split takes up to a new root, and three levels
\* with single entries that a removal merges down to two.
Tree1 == Add(EmptyTree([leaf |-> 3, internal |-> 3]), 1)
Tree4 == Add(Add(Add(Tree1, 2), 3), 4)
Tree7 == Add(Add(Add(Tree4, 5), 6), 7)
Tree8 == RemoveKey(RemoveKey(RemoveKey(Add(Tree7, 8), 2), 4), 6)

\* Leaves that borrow from each other.
Tree3 == Add(Add(Add(EmptyTree([leaf |-> 5, internal |-> 4]), 1), 2), 3)
Tree5 == RemoveKey(Add(Add(Add(Add(Add(Tree3, 4), 5), 6), 7), 8), 3)
MCTrees == {Tree1, Tree7, Tree8, Tree5}

C(op, keys) == {[op |-> op, key |-> k, value |-> v1] : k \in keys}
MCCalls ==
  [t \in MCThread |-> IF t = t3 THEN C("SCAN", {1}) \cup C("READ", {7}) \cup C("DELETE", {5})
                      ELSE C("INSERT", {2, 6, 8}) \cup C("DELETE", {1, 5, 7})]
=============================================================================
