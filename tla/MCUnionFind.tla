---------------------------- MODULE MCUnionFind ----------------------------
(***************************************************************************)
(* UnionFind with prices for TLC.                                          *)
(***************************************************************************)
EXTENDS UnionFindParts

\* Sums of different prices differ.
PowerOfTwo(n) == 2 ^ (n - 1)
=============================================================================
