-------------------------------- MODULE Table --------------------------------
(* What a table promises the transaction that works on it: rows by RID.  A    *)
(* commit keeps what the calls did, an abort undoes all of it.  TableHeap and *)
(* the transaction manager implement it.                                      *)
CONSTANTS Rid, Tuple, NoTuple

VARIABLES
  open,         \* a transaction is running
  rows,         \* the row at each RID, NoTuple where there is none
  before        \* the rows when the transaction began

vars == <<open, rows, before>>

Init ==
  /\ open = FALSE
  /\ rows = [r \in Rid |-> NoTuple]
  /\ before = rows

Begin == ~open /\ open' = TRUE /\ before' = rows /\ UNCHANGED rows

\* The RID of a row that the transaction deleted is not given to another row.
Insert(r, t) ==
  /\ open /\ rows[r] = NoTuple /\ before[r] = NoTuple
  /\ rows' = [rows EXCEPT ![r] = t]
  /\ UNCHANGED <<open, before>>

Update(r, t) ==
  /\ open /\ rows[r] # NoTuple
  /\ rows' = [rows EXCEPT ![r] = t]
  /\ UNCHANGED <<open, before>>

Delete(r) ==
  /\ open /\ rows[r] # NoTuple
  /\ rows' = [rows EXCEPT ![r] = NoTuple]
  /\ UNCHANGED <<open, before>>

Commit == open /\ open' = FALSE /\ UNCHANGED <<rows, before>>
Abort == open /\ open' = FALSE /\ rows' = before /\ UNCHANGED before

Next ==
  \/ Begin \/ Commit \/ Abort
  \/ \E r \in Rid : /\ rows'[r] # rows[r]
                    /\ \/ Delete(r)
                       \/ \E t \in Tuple : rows'[r] = t /\ (Insert(r, t) \/ Update(r, t))

Spec == Init /\ [][Next]_vars
==============================================================================
