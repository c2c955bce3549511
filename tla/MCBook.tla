------------------------------- MODULE MCBook -------------------------------
EXTENDS Book, TLC

\* Contexts differ by name only.
AnyElem == Permutations(Elem)
=============================================================================
