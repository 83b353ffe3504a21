------------------------------ MODULE MCRHeap ------------------------------
EXTENDS RHeapValues, TLC

Symm == Permutations(Names) \cup Permutations(Cells)
=============================================================================
