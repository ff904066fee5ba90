---------------------------- MODULE MCBufferPool ----------------------------
EXTENDS BufferPoolManager, TLC

\* Clients differ only in name.
ClientSymmetry == Permutations(Client)
==============================================================================
