------------------------------ MODULE HeaderPage ------------------------------
(* page/header_page.cpp: page 0 of the file, an array of records that name    *)
(* the root page of every table and index.  The operators take the array as a *)
(* sequence and give back the array after the call.                           *)
EXTENDS Integers, Sequences

\* Index of the first record of that name, or -1.
FindRecord(h, name) ==
  IF \E i \in 1 .. Len(h) : h[i].name = name
  THEN CHOOSE i \in 1 .. Len(h) : h[i].name = name /\ \A j \in 1 .. i - 1 : h[j].name # name
  ELSE -1

\* A record of that name is left as it is, and the call returns false.
InsertRecord(h, name, root) ==
  IF FindRecord(h, name) # -1 THEN h ELSE Append(h, [name |-> name, root |-> root])

UpdateRecord(h, name, root) ==
  IF FindRecord(h, name) = -1 THEN h ELSE [h EXCEPT ![FindRecord(h, name)].root = root]

\* The records behind it move up.
DeleteRecord(h, name) ==
  LET i == FindRecord(h, name)
  IN  IF i = -1 THEN h ELSE SubSeq(h, 1, i - 1) \o SubSeq(h, i + 1, Len(h))

\* GetRootId() leaves the caller's variable as it was if there is no such record.
GetRootId(h, name, before) ==
  IF FindRecord(h, name) = -1 THEN before ELSE h[FindRecord(h, name)].root
===============================================================================
