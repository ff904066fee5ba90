-------------------------- MODULE MCTableHeapThreads --------------------------
EXTENDS TableHeapThreads, TLC

CONSTANTS t1, t2

MCThread == {t1, t2}
MCClient == MCThread \X {1, 2}
MCData == [next : 0 .. 3 \cup {-1}, slots : [1 .. 1 -> {"free", "row", "marked"}]] \cup {Zero}
MCCalls == [t \in MCThread |-> {"insert", "delete", "scan"}]
===============================================================================
