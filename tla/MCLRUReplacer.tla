---------------------------- MODULE MCLRUReplacer ----------------------------
(* Four values: long enough a list for a node to have neighbours that are     *)
(* not sentinels on both sides, and to be erased from its middle.             *)
EXTENDS LRUReplacer
==============================================================================
