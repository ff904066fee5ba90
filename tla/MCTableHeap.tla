----------------------------- MODULE MCTableHeap -----------------------------
EXTENDS TableHeap

\* A tuple of one unit, one of two and one that no page can hold.
MCTuple == {<<"a">>, <<"b", "c">>, [i \in 1 .. PageSize |-> "a"]}
MCUnit == {"a", "b", "c", "-"}
==============================================================================
