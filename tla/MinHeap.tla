------------------------------ MODULE MinHeap ------------------------------
(***************************************************************************)
(* MinHeap of heap.hpp: a binary heap in a vector which tells every        *)
(* element the slot it is in.  One step here is one call of flow or sink,  *)
(* so that what holds half-way up or down the tree can be stated.  The     *)
(* notifications a chain of calls makes while it returns are one step:     *)
(* nothing moves between them.                                             *)
(***************************************************************************)
EXTENDS Integers, FiniteSets

CONSTANTS Elem,      \* what the heap holds; an element is in one slot at most
          MaxKey     \* bound: keys are 0..MaxKey

ASSUME KeyAssumption == MaxKey \in Nat

VARIABLES
  arr,       \* slot -> [id, key]
  size,      \* arr.size()
  index,     \* element -> the slot it was last told of (NHIC)
  popped,    \* what pop returned last: one entry, or none yet
  mode,      \* the call that runs
  pos,       \* the slot flow or sink is called on
  start,     \* the slot rebalance was called on
  dirty      \* slots to be notified when the calls return

heapVars == <<arr, size, index, popped, mode, pos, start, dirty>>

Key   == 0..MaxKey
Entry == [id : Elem, key : Key]
Slot  == 0..(size - 1)

None == -1

\* heap.hpp counts slots from 0.
HeapParent(i) == (i + 1) \div 2 - 1
LeftChild(i)  == (i + 1) * 2 - 1
RightChild(i) == LeftChild(i) + 1

HasValue(i) == i \in Slot
Less(i, j)  == arr[i].key < arr[j].key

Swapped(i, j) == [arr EXCEPT ![i] = arr[j], ![j] = arr[i]]

\* The elements in the slots of S have been told where they are.
Notified(S) ==
  [e \in Elem |-> IF \E i \in S : arr[i].id = e
                  THEN CHOOSE i \in S : arr[i].id = e
                  ELSE index[e]]

Idle == mode = "idle"

HeapInit ==
  /\ arr = [i \in {} |-> 0]
  /\ size = 0
  /\ index = [e \in Elem |-> None]
  /\ popped = {}
  /\ mode = "idle"
  /\ pos = 0
  /\ start = 0
  /\ dirty = {}

(***************************************************************************)
(* The calls that enter the heap                                           *)
(***************************************************************************)

\* A call of flow or rebalance on slot i, which the caller notifies itself.
Begin(call, i) ==
  /\ mode' = call
  /\ pos' = i
  /\ start' = i
  /\ dirty' = {i}

HeapPush(e, k) ==
  /\ Idle
  /\ \A i \in Slot : arr[i].id # e
  /\ arr' = [i \in 0..size |-> IF i = size THEN [id |-> e, key |-> k] ELSE arr[i]]
  /\ size' = size + 1
  /\ Begin("push", size)
  /\ UNCHANGED <<index, popped>>

\* Mutant of Shrink: the hole is closed by moving the others up.
ShrinkShift(i) ==
  /\ arr' = [j \in 0..(size - 2) |-> IF j >= i THEN arr[j + 1] ELSE arr[j]]
  /\ size' = size - 1

\* remove_no_rebalance: the last entry fills the slot.
Shrink(i) ==
  /\ arr' = [j \in 0..(size - 2) |-> IF j = i THEN arr[size - 1] ELSE arr[j]]
  /\ size' = size - 1

\* Mutant of HeapRemove: the last slot is rebalanced too.
RemoveAlways(i) ==
  /\ Idle
  /\ HasValue(i)
  /\ Shrink(i)
  /\ Begin("flow", i)
  /\ UNCHANGED index

\* remove, which pop calls on the root.
HeapRemove(i) ==
  /\ Idle
  /\ HasValue(i)
  /\ Shrink(i)
  /\ IF i < size - 1
     THEN Begin("flow", i)
     ELSE UNCHANGED <<mode, pos, start, dirty>>
  /\ UNCHANGED index

Pop ==
  /\ HeapRemove(0)
  /\ popped' = {arr[0]}

\* remove by a caller that drops the result.
Withdraw(i) ==
  /\ i # 0
  /\ HeapRemove(i)
  /\ UNCHANGED popped

\* A caller that has set the key of slot i to k calls rebalance.
Rekey(i, k) ==
  /\ Idle
  /\ HasValue(i)
  /\ arr' = [arr EXCEPT ![i].key = k]
  /\ Begin("flow", i)
  /\ UNCHANGED <<size, index, popped>>

(***************************************************************************)
(* flow, sink and the notifications on the way back                        *)
(***************************************************************************)
CanFlow == pos # 0 /\ Less(pos, HeapParent(pos))

\* Mutant of Flow: the slot the element moved to is not notified.
FlowSilent ==
  /\ mode \in {"push", "flow"}
  /\ CanFlow
  /\ arr' = Swapped(pos, HeapParent(pos))
  /\ pos' = HeapParent(pos)
  /\ UNCHANGED <<size, index, popped, mode, start, dirty>>

Flow ==
  /\ mode \in {"push", "flow"}
  /\ CanFlow
  /\ arr' = Swapped(pos, HeapParent(pos))
  /\ pos' = HeapParent(pos)
  /\ dirty' = dirty \cup {HeapParent(pos)}
  /\ UNCHANGED <<size, index, popped, mode, start>>

\* The last flow of a push returns.
FlowDone ==
  /\ mode = "push"
  /\ ~CanFlow
  /\ index' = Notified(dirty)
  /\ mode' = "idle"
  /\ dirty' = {}
  /\ pos' = 0
  /\ start' = 0
  /\ UNCHANGED <<arr, size, popped>>

\* rebalance calls sink on the slot it called flow on.
FlowThenSink ==
  /\ mode = "flow"
  /\ ~CanFlow
  /\ mode' = "sink"
  /\ pos' = start
  /\ UNCHANGED <<arr, size, index, popped, start, dirty>>

\* Mutant of SmallerChild: the left child is taken whatever the right one is.
LeftmostChild == LeftChild(pos)

SmallerChild ==
  IF HasValue(RightChild(pos)) /\ ~Less(LeftChild(pos), RightChild(pos))
  THEN RightChild(pos)
  ELSE LeftChild(pos)

CanSink == HasValue(LeftChild(pos)) /\ Less(SmallerChild, pos)

Sink ==
  /\ mode = "sink"
  /\ CanSink
  /\ arr' = Swapped(pos, SmallerChild)
  /\ pos' = SmallerChild
  /\ dirty' = dirty \cup {SmallerChild}
  /\ UNCHANGED <<size, index, popped, mode, start>>

SinkDone ==
  /\ mode = "sink"
  /\ ~CanSink
  /\ index' = Notified(dirty)
  /\ mode' = "idle"
  /\ dirty' = {}
  /\ pos' = 0
  /\ start' = 0
  /\ UNCHANGED <<arr, size, popped>>

HeapStep == Flow \/ FlowDone \/ FlowThenSink \/ Sink \/ SinkDone

HeapNext ==
  \/ \E e \in Elem, k \in Key : HeapPush(e, k)
  \/ Pop
  \/ \E i \in Slot : Withdraw(i)
  \/ \E i \in Slot, k \in Key : Rekey(i, k)
  \/ HeapStep

HeapSpec == HeapInit /\ [][HeapNext]_heapVars

(***************************************************************************)
(* Properties                                                              *)
(***************************************************************************)

\* Every variable has its type (MinHeap).
HeapTypeOK ==
  /\ size \in Nat
  /\ arr \in [Slot -> Entry]
  /\ index \in [Elem -> Nat \cup {None}]
  /\ popped \in SUBSET Entry
  /\ mode \in {"idle", "push", "flow", "sink"}
  /\ pos \in Nat /\ start \in Nat
  /\ dirty \subseteq Slot
  /\ ~Idle => pos \in Slot /\ start \in Slot

Ordered(i) == i = 0 \/ arr[HeapParent(i)].key =< arr[i].key

\* The heap order, but for the element that moves: it may be too small for
\* the slot above while it flows up, and too big for those below while it
\* sinks; what is above it and what is below it stay ordered meanwhile, also
\* when rebalance flows up first and then sinks from where it began (heap.hpp
\* flow, sink, rebalance).
HeapOrder ==
  /\ \A i \in Slot :
       \/ Ordered(i)
       \/ mode \in {"push", "flow"} /\ i = pos
       \/ mode = "flow" /\ HeapParent(i) = pos /\ pos = start
       \/ mode = "sink" /\ HeapParent(i) = pos
  /\ ~Idle /\ pos # 0 =>
       \A i \in Slot : HeapParent(i) = pos => arr[HeapParent(pos)].key =< arr[i].key

\* An element's index is its slot, and no two elements share one, whenever no
\* call runs; while one runs, only the slots it has still to notify differ: the
\* book touches the entry pool_index names (FullContextNode::accessed).
IndexRight ==
  /\ \A i \in Slot \ dirty : index[arr[i].id] = i
  /\ \A i, j \in Slot : arr[i].id = arr[j].id => i = j
=============================================================================
