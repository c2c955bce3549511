----------------------------- MODULE MCMinHeap -----------------------------
EXTENDS MinHeapQueue, TLC

\* Elements differ by name only.
AnyElem == Permutations(Elem)
=============================================================================
