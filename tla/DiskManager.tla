----------------------------- MODULE DiskManager -----------------------------
(* disk/disk_manager.cpp: the database file, the stream db_io_ over it and    *)
(* the page allocator.  A page is the unit of I/O: offsets are page numbers,  *)
(* sizes are counted in pages.  The methods are operators on a record, since  *)
(* the buffer pool calls several of them in one critical section.             *)
(*   file    what the file holds at each page; a hole reads as zeros          *)
(*   size    the length of the file (GetFileSize)                             *)
(*   next    next_page_id_                                                    *)
(*   failed  the failbit of db_io_: seekp, read and write do nothing once it  *)
(*           is set, and only clear() resets it                               *)
EXTENDS Integers

CONSTANTS
  MaxPages,    \* bound on the page ids that are ever allocated
  Data,        \* what a page can hold
  Zero         \* the content of a page of zeros

ASSUME DiskAssumption == MaxPages \in Nat /\ Zero \in Data

PageId == 0 .. MaxPages - 1
INVALID_PAGE_ID == -1

Disk == [file : [PageId -> Data], size : 0 .. MaxPages,
         next : 0 .. MaxPages, failed : BOOLEAN]

\* A file that does not exist is created empty.
EmptyFile == [p \in PageId |-> Zero]

\* The constructor opens the file that is there and counts pages from 0.
Open(file, size) ==
  [file |-> file, size |-> size, next |-> 0, failed |-> FALSE]

\* Only bad() is tested after the write: a write on a failed stream is lost
\* without a trace.
WritePage(d, p, data) ==
  IF d.failed THEN d
  ELSE [d EXCEPT !.file[p] = data,
                 !.size = IF p >= @ THEN p + 1 ELSE @]

\* Past the end the caller's buffer is left as it was.  At the end, or once
\* the stream has failed, the read is short: the buffer is zeroed, and the
\* stream has failed from then on since nothing calls clear().
ReadPage(d, p, buffer) ==
  IF p > d.size
  THEN [disk |-> d, data |-> buffer]
  ELSE IF p = d.size \/ d.failed
  THEN [disk |-> [d EXCEPT !.failed = TRUE], data |-> Zero]
  ELSE [disk |-> d, data |-> d.file[p]]

AllocatePage(d) == [d EXCEPT !.next = @ + 1]
==============================================================================
