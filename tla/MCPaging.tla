------------------------------ MODULE MCPaging ------------------------------
EXTENDS PagingQueue, TLC

Symmetry == Permutations(Frames)
=============================================================================
