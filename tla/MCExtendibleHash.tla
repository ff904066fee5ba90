--------------------------- MODULE MCExtendibleHash ---------------------------
(* Instances of ExtendibleHash.  Keys share low bits, so that a full bucket   *)
(* splits more than once before its keys part.                                *)
EXTENDS ExtendibleHash, TLC

CONSTANTS t1, t2, v1, v2

OneThread  == {t1}
TwoThreads == {t1, t2}
OneValue   == {v1}
TwoValues  == {v1, v2}

PageIds     == {0, 1, 2, 4, 8}
FewPageIds  == {0, 1, 2}

MapCalls    == {"Insert", "Find", "Remove"}
AllCalls    == MapCalls \cup {"GetLocalDepth"}

ThreadSymmetry == Permutations(Thread)
==============================================================================
