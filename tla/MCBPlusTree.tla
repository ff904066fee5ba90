----------------------------- MODULE MCBPlusTree -----------------------------
EXTENDS BPlusTreeIndex

CONSTANTS NKeys, NFill, v1, v2

\* One key comes with two values.
MCRow == {<<k, v1>> : k \in 1 .. NFill} \cup {<<2, v2>>}

\* Leaves of three entries always merge, leaves of five also borrow.
MCSizes == {[leaf |-> 3, internal |-> 3], [leaf |-> 5, internal |-> 4]}

\* Internal pages borrow where one has three children and its neighbour two: it
\* takes more keys to get there than can be inserted in every order.
Upwards == [i \in 1 .. NFill |-> <<i, v1>>]
Downwards == [i \in 1 .. NFill |-> <<NFill + 1 - i, v1>>]
MCFills ==
  {[any |-> {e \in MCRow : e[1] <= NKeys}, rest |-> <<>>]}
    \cup {[any |-> {}, rest |-> s] : s \in {Upwards, Downwards}}
==============================================================================
