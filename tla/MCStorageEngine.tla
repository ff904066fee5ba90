--------------------------- MODULE MCStorageEngine ---------------------------
(* Two sessions, a pool of two frames and three pages: pages are evicted in   *)
(* the first session, and the second starts from the file.                    *)
EXTENDS StorageEngine
==============================================================================
