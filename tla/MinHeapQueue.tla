---------------------------- MODULE MinHeapQueue ----------------------------
(***************************************************************************)
(* MinHeap implements PriorityQueue: flow and sink are steps its user does *)
(* not see.                                                                *)
(***************************************************************************)
EXTENDS MinHeap

Contents == {arr[i] : i \in Slot}

pq == INSTANCE PriorityQueue WITH queue <- Contents

\* pop returns an entry with the least key, and no entry is lost or doubled by
\* a push, a removal, a flow or a sink (MinHeap, test/heap_test.cc).
IsQueue == pq!QueueSpec
=============================================================================
