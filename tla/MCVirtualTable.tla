---------------------------- MODULE MCVirtualTable ----------------------------
EXTENDS VirtualTable, TLC

CONSTANTS reads, writes

Eq(column, value) == [column |-> column, eq |-> TRUE, value |-> value]

\* An index on both columns; a row that no page can hold.
MCKeyAttrs == <<1, 2>>
MCLarge == {<<2, 2>>}

\* The writer: too few constraints for an index scan, or one on each indexed column.
\* The reader: no WHERE clause, the indexed columns in the other order, and a
\* constraint that is no equality.
MCStmt == {reads, writes}
MCWheres ==
  writes :> {<<Eq(1, 1)>>, <<Eq(1, 1), Eq(2, 2)>>} @@
  reads  :> {<<>>, <<Eq(2, 1), Eq(1, 2)>>, <<Eq(1, 1), [Eq(2, 1) EXCEPT !.eq = FALSE]>>}
===============================================================================
