------------------------------ MODULE MCRWMutex ------------------------------
(* Four threads: a writer that drains, a reader that it waits for, and a      *)
(* reader and a writer that wait behind it.                                   *)
EXTENDS RWMutex

Threads == {"a", "b", "c", "d"}
==============================================================================
