----------------------------- MODULE MCHazards ------------------------------
EXTENDS PagingHazards, TLC

Symmetry == Permutations(Frames)
=============================================================================
