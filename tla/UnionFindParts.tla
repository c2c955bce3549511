--------------------------- MODULE UnionFindParts ---------------------------
(***************************************************************************)
(* UnionFind implements CostPartition: a part is a root with all the UF    *)
(* objects that lead to it, and the turns of fixup are not seen.           *)
(***************************************************************************)
EXTENDS UnionFind

Parts ==
  LET root == Roots(forest.parent)
      At   == [n \in Made |-> root[ptr[n]]]
  IN  {[ufs |-> {m \in Made : At[m] = r}, total |-> forest.t[r]] :
         r \in {At[n] : n \in Made}}

InData ==
  LET root == Roots(forest.parent)
      held == {root[n] : n \in ToSet(data)}
  IN  {m \in Made : root[ptr[m]] \in held}

cp == INSTANCE CostPartition WITH
        Name    <- Addr,
        Price   <- Price,
        parts   <- Parts,
        members <- InData,
        answer  <- result

\* No cost is lost or counted twice by a merge, whichever address is the lower
\* and however often the two were merged before; path compression changes
\* nothing; a set keeps every cost through both fixups, and its sum has each
\* cost once (UFNode, UF, UFSet).
IsCostPartition == cp!PartitionSpec
=============================================================================
