----------------------------- MODULE UnionFind -----------------------------
(***************************************************************************)
(* UFNode, UF and UFSet of uf.hpp.  A node is its address; the node with   *)
(* the lower address becomes the parent.  A UF object is named by the node *)
(* it was made with; its pointer moves up the tree whenever it is read.    *)
(* One step is one call, except for UFSet::fixup: there it is one turn of  *)
(* the loop.                                                               *)
(***************************************************************************)
EXTENDS Integers, Sequences, SequencesExt

CONSTANTS MaxAddr,     \* bound: addresses are 1..MaxAddr
          MaxData,     \* bound on data.size()
          MaxCounted,  \* bound on what sum is told was counted elsewhere
          Price(_)     \* what a UF object is made with

ASSUME AddrAssumption == MaxAddr \in Nat
ASSUME PriceAssumption == \A n \in 1..MaxAddr : Price(n) \in Nat

VARIABLES
  forest,    \* parent and t of every node
  ptr,       \* UF object -> the node it points to
  data,      \* UFSet::data: the nodes its UF objects point to
  turn,      \* the place (from 1) that fixup works on, or 0
  again,     \* is the fixup at a random place still to come?
  result     \* what the last call has answered, or 0

ufVars == <<forest, ptr, data, turn, again, result>>

Addr == 1..MaxAddr
Null == 0
Made == DOMAIN ptr

(***************************************************************************)
(* UFNode                                                                  *)
(***************************************************************************)

\* get_root, for every node at once.
Roots(parent) ==
  LET root[n \in Addr] == IF parent[n] = Null THEN n ELSE root[parent[n]]
  IN  root

Root(n) == Roots(forest.parent)[n]

\* The nodes below the root that get_root passes, called on n.
Passed(parent) ==
  LET path[n \in Addr] ==
        IF parent[n] = Null THEN {} ELSE {n} \cup path[parent[n]]
  IN  path

\* get_root on every node of S: what it passes gets the root for a parent.
Compressed(f, S) ==
  LET root == Roots(f.parent)
      seen == UNION {Passed(f.parent)[m] : m \in S}
  IN  [f EXCEPT !.parent =
         [n \in Addr |-> IF n \in seen THEN root[n] ELSE f.parent[n]]]

\* Mutant of Linked: the nodes are not swapped.
LinkedAsGiven(f, lhs, rhs) ==
  IF lhs = rhs THEN f
  ELSE [parent |-> [f.parent EXCEPT ![rhs] = lhs],
        t      |-> [f.t EXCEPT ![lhs] = f.t[lhs] + f.t[rhs]]]

\* Mutant of Linked: roots that are one are added up again.
LinkedTwice(f, lhs, rhs) ==
  LET low  == IF lhs > rhs THEN rhs ELSE lhs
      high == IF lhs > rhs THEN lhs ELSE rhs
  IN  [parent |-> [f.parent EXCEPT ![high] = IF low = high THEN Null ELSE low],
       t      |-> [f.t EXCEPT ![low] = f.t[low] + f.t[high]]]

\* merge, on two roots.
Linked(f, lhs, rhs) ==
  LET low  == IF lhs > rhs THEN rhs ELSE lhs
      high == IF lhs > rhs THEN lhs ELSE rhs
  IN  IF lhs = rhs THEN f
      ELSE [parent |-> [f.parent EXCEPT ![high] = low],
            t      |-> [f.t EXCEPT ![low] = f.t[low] + f.t[high]]]

\* UF::merge of what points to m with what points to n.
Merged(f, m, n) ==
  Linked(Compressed(f, {m, n}), Roots(f.parent)[m], Roots(f.parent)[n])

(***************************************************************************)
(* UF                                                                      *)
(***************************************************************************)

NoFixup == turn = 0

Make(n) ==
  /\ NoFixup
  /\ n \notin Made
  /\ forest' = [forest EXCEPT !.t[n] = Price(n)]
  /\ ptr' = [m \in Made \cup {n} |-> IF m = n THEN n ELSE ptr[m]]
  /\ result' = 0
  /\ UNCHANGED <<data, turn, again>>

merge(lhs, rhs) ==
  /\ NoFixup
  /\ lhs # rhs
  /\ forest' = Merged(forest, ptr[lhs], ptr[rhs])
  /\ ptr' = [ptr EXCEPT ![lhs] = Root(ptr[lhs]), ![rhs] = Root(ptr[rhs])]
  /\ result' = 0
  /\ UNCHANGED <<data, turn, again>>

value(n) ==
  /\ NoFixup
  /\ forest' = Compressed(forest, {ptr[n]})
  /\ ptr' = [ptr EXCEPT ![n] = Root(ptr[n])]
  /\ result' = forest.t[Root(ptr[n])]
  /\ UNCHANGED <<data, turn, again>>

(***************************************************************************)
(* UFSet                                                                   *)
(***************************************************************************)

\* push_back, and fixup of the last place.
insert(n) ==
  /\ NoFixup
  /\ Len(data) < MaxData
  /\ data' = Append(data, ptr[n])
  /\ turn' = Len(data')
  /\ again' = TRUE
  /\ result' = 0
  /\ UNCHANGED <<forest, ptr>>

Above(i) == i \div 2

Swapped(s, i, j) == [s EXCEPT ![i] = s[j], ![j] = s[i]]

\* A comparison leaves both UF objects pointing to their roots.
Compared(i, j) == [data EXCEPT ![i] = Root(data[i]), ![j] = Root(data[j])]

InLoop == turn > 1 /\ turn =< Len(data)

\* data[idx] < data[parent_idx].
FixUp ==
  /\ InLoop
  /\ LET up == Above(turn)
     IN  /\ Root(data[turn]) < Root(data[up])
         /\ forest' = Compressed(forest, {data[turn], data[up]})
         /\ data' = Swapped(Compared(turn, up), turn, up)
         /\ turn' = up
  /\ UNCHANGED <<ptr, again, result>>

\* Mutant of FixSame: what was last is dropped, and the double stays.
FixSameLast ==
  /\ InLoop
  /\ LET up == Above(turn)
     IN  /\ Root(data[turn]) = Root(data[up])
         /\ forest' = Compressed(forest, {data[turn], data[up]})
         /\ data' = Front(Compared(turn, up))
  /\ UNCHANGED <<ptr, turn, again, result>>

\* Mutant of FixSame: the double goes to the end, and stays.
FixSameKept ==
  /\ InLoop
  /\ LET up == Above(turn)
     IN  /\ Root(data[turn]) = Root(data[up])
         /\ forest' = Compressed(forest, {data[turn], data[up]})
         /\ data' = Swapped(Compared(turn, up), turn, Len(data))
  /\ UNCHANGED <<ptr, turn, again, result>>

\* data[idx] == data[parent_idx]: what was last takes the place of the double.
FixSame ==
  /\ InLoop
  /\ LET up == Above(turn)
     IN  /\ Root(data[turn]) = Root(data[up])
         /\ forest' = Compressed(forest, {data[turn], data[up]})
         /\ data' = Front(Swapped(Compared(turn, up), turn, Len(data)))
  /\ UNCHANGED <<ptr, turn, again, result>>

\* fixup returns: because nothing is above, the place is gone, or the order is
\* right.  insert calls it once more, anywhere.
FixDone ==
  /\ turn # 0
  /\ IF InLoop
     THEN LET up == Above(turn)
          IN  /\ Root(data[turn]) > Root(data[up])
              /\ forest' = Compressed(forest, {data[turn], data[up]})
              /\ data' = Compared(turn, up)
     ELSE UNCHANGED <<forest, data>>
  /\ again' = FALSE
  /\ IF again THEN \E i \in DOMAIN data : turn' = i ELSE turn' = 0
  /\ UNCHANGED <<ptr, result>>

\* The first UF object of each root not in C, and its root.
FirstOfEach(s, C) ==
  FoldLeft(LAMBDA kept, n : IF Root(n) \in C \cup ToSet(kept)
                            THEN kept ELSE Append(kept, Root(n)),
           <<>>, s)

\* sum, after the UF objects of C have been counted elsewhere.
sum(C) ==
  /\ NoFixup
  /\ forest' = Compressed(forest, ToSet(data) \cup {ptr[n] : n \in C})
  /\ data' = FirstOfEach(data, {Root(ptr[n]) : n \in C})
  /\ result' = FoldLeft(LAMBDA s, n : s + forest.t[n], 0, data')
  /\ UNCHANGED <<ptr, turn, again>>

\* UFSet::merge: with follows its root from one merge to the next.
mergeAll(with) ==
  /\ NoFixup
  /\ LET end == FoldLeft(LAMBDA f, n :
                           [forest |-> Merged(f.forest, n, f.with),
                            with   |-> Roots(f.forest.parent)[f.with]],
                         [forest |-> forest, with |-> ptr[with]], data)
     IN  /\ forest' = end.forest
         /\ ptr' = [ptr EXCEPT ![with] = end.with]
         /\ data' = <<end.with>>
  /\ result' = 0
  /\ UNCHANGED <<turn, again>>

UFInit ==
  /\ forest = [parent |-> [n \in Addr |-> Null], t |-> [n \in Addr |-> 0]]
  /\ ptr = [n \in {} |-> Null]
  /\ data = <<>>
  /\ turn = 0
  /\ again = FALSE
  /\ result = 0

Fixup == FixUp \/ FixSame \/ FixDone

UFNext ==
  \/ Fixup
  \/ \E n \in Addr : Make(n)
  \/ \E n \in Made : value(n) \/ insert(n) \/ mergeAll(n)
  \/ \E m, n \in Made : merge(m, n)
  \/ \E C \in SUBSET Made : Cardinality(C) =< MaxCounted /\ sum(C)

UFSpec == UFInit /\ [][UFNext]_ufVars

\* insert runs its two fixups to their end.
FairUFSpec == UFSpec /\ WF_ufVars(Fixup)

(***************************************************************************)
(* Properties                                                              *)
(***************************************************************************)

\* A parent is a node that was made and has the lower address: the comment at
\* UFNode::parent.  It says more than that get_root ends: linking two roots that
\* differ closes no circle whichever of them becomes the parent, and merge leaves
\* alone two that are the same.
ParentBelow ==
  \A n \in Addr : forest.parent[n] # Null =>
    /\ forest.parent[n] < n
    /\ {n, forest.parent[n]} \subseteq Made

\* Both calls of fixup in insert end: a turn moves up or shortens the vector
\* (UFSet::fixup).
FixupEnds == turn # 0 ~> turn = 0
=============================================================================
