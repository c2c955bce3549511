----------------------------- MODULE BookProof -----------------------------
(***************************************************************************)
(* First MinHeap is a priority queue, for every number of elements and     *)
(* every range of keys.  Then the book uses its heap through the heap's    *)
(* operations only, so that what is proved of MinHeap holds of the heap in *)
(* the book; and with it, that murder's assertions hold, no context is     *)
(* lost or filed twice, and a touch reaches the entry it means.            *)
(***************************************************************************)
EXTENDS Book, MinHeapQueue, ProofFacts

(***************************************************************************)
(* The tree                                                                *)
(***************************************************************************)

\* Parents are above, a slot's children are the two that have it as parent.
LEMMA TreeFacts ==
  ASSUME NEW i \in Nat
  PROVE  /\ i # 0 => HeapParent(i) \in 0..(i - 1)
         /\ HeapParent(0) = -1
         /\ LeftChild(i) \in Nat /\ RightChild(i) \in Nat
         /\ LeftChild(i) > i /\ RightChild(i) > i
         /\ LeftChild(i) # RightChild(i) /\ RightChild(i) = LeftChild(i) + 1
         /\ HeapParent(LeftChild(i)) = i /\ HeapParent(RightChild(i)) = i
         /\ \A j \in Nat : HeapParent(j) = i => j = LeftChild(i) \/ j = RightChild(i)
BY DEF HeapParent, LeftChild, RightChild

\* A swap exchanges two slots and keeps the others.
LEMMA SwapFacts ==
  ASSUME HeapTypeOK, NEW i \in Slot, NEW j \in Slot, i # j
  PROVE  /\ Swapped(i, j) \in [Slot -> Entry]
         /\ Swapped(i, j)[i] = arr[j]
         /\ Swapped(i, j)[j] = arr[i]
         /\ \A l \in Slot : l # i /\ l # j => Swapped(i, j)[l] = arr[l]
BY DEF HeapTypeOK, Swapped

\* A new key for one slot keeps the others and every element's place.
LEMMA RekeyFacts ==
  ASSUME HeapTypeOK, NEW i \in Slot, NEW k \in Key, Rekey(i, k)
  PROVE  /\ arr' \in [Slot -> Entry] /\ Slot' = Slot
         /\ arr'[i] = [id |-> arr[i].id, key |-> k]
         /\ \A j \in Slot : arr'[j].id = arr[j].id
         /\ \A j \in Slot : j # i => arr'[j] = arr[j]
<1>1. arr' = [arr EXCEPT ![i].key = k] /\ Slot' = Slot  BY DEF Rekey, Slot
<1>2. arr \in [Slot -> Entry] /\ arr[i] \in Entry  BY DEF HeapTypeOK
<1>3. [arr[i] EXCEPT !.key = k] = [id |-> arr[i].id, key |-> k]
  BY <1>2 DEF Entry
<1>4. [id |-> arr[i].id, key |-> k] \in Entry  BY <1>2 DEF Entry
<1>5. arr' = [arr EXCEPT ![i] = [id |-> arr[i].id, key |-> k]]  BY <1>1, <1>2, <1>3
<1> DEFINE x == [id |-> arr[i].id, key |-> k]
<1>6. x \in Entry /\ x.id = arr[i].id /\ arr' = [arr EXCEPT ![i] = x]
  BY <1>4, <1>5
<1> HIDE DEF x
<1>7. /\ arr' \in [Slot -> Entry] /\ arr'[i] = x
      /\ \A j \in Slot : j # i => arr'[j] = arr[j]
  BY <1>2, <1>6
<1>8. \A j \in Slot : arr'[j].id = arr[j].id  BY <1>6, <1>7
<1> QED  BY <1>1, <1>7, <1>8 DEF x

\* The child sink chooses is a child, and no bigger than its sibling.
LEMMA ChildFacts ==
  ASSUME HeapTypeOK, pos \in Slot, HasValue(LeftChild(pos))
  PROVE  /\ SmallerChild \in Slot
         /\ SmallerChild # pos
         /\ HeapParent(SmallerChild) = pos
         /\ \A j \in Slot : HeapParent(j) = pos =>
              arr[SmallerChild].key =< arr[j].key
<1>1. /\ pos \in Nat
      /\ \A i \in Slot : i \in Nat /\ arr[i] \in Entry
  BY DEF HeapTypeOK, Slot
<1>2. \A i \in Slot : arr[i].key \in Int  BY <1>1 DEF Entry, Key
<1>3. /\ HeapParent(LeftChild(pos)) = pos /\ HeapParent(RightChild(pos)) = pos
      /\ LeftChild(pos) > pos /\ RightChild(pos) > pos
      /\ \A j \in Nat : HeapParent(j) = pos =>
           j = LeftChild(pos) \/ j = RightChild(pos)
  BY <1>1, TreeFacts
<1>4. LeftChild(pos) \in Slot  BY DEF HasValue
<1>5. CASE RightChild(pos) \in Slot /\ ~Less(LeftChild(pos), RightChild(pos))
  <2>1. SmallerChild = RightChild(pos)  BY <1>5 DEF SmallerChild, HasValue
  <2>2. arr[RightChild(pos)].key =< arr[LeftChild(pos)].key
    BY <1>2, <1>4, <1>5 DEF Less
  <2> QED  BY <1>1, <1>2, <1>3, <1>4, <1>5, <2>1, <2>2
<1>6. CASE RightChild(pos) \in Slot /\ Less(LeftChild(pos), RightChild(pos))
  <2>1. SmallerChild = LeftChild(pos)  BY <1>6 DEF SmallerChild, HasValue
  <2>2. arr[LeftChild(pos)].key =< arr[RightChild(pos)].key
    BY <1>2, <1>4, <1>6 DEF Less
  <2> QED  BY <1>1, <1>2, <1>3, <1>4, <1>6, <2>1, <2>2
<1>7. CASE RightChild(pos) \notin Slot
  <2>1. SmallerChild = LeftChild(pos)  BY <1>7 DEF SmallerChild, HasValue
  <2> QED  BY <1>1, <1>2, <1>3, <1>4, <1>7, <2>1
<1> QED  BY <1>5, <1>6, <1>7

(***************************************************************************)
(* The inductive invariant                                                 *)
(***************************************************************************)

\* The element that moves will be told of its slot, and so will the one that
\* ends where rebalance was called.
DirtyOK == /\ ~Idle => pos \in dirty /\ start \in dirty
           /\ Idle => dirty = {}

HeapInv == HeapTypeOK /\ DirtyOK /\ HeapOrder /\ IndexRight

\* An empty heap satisfies the invariant.
LEMMA HeapInitInv == HeapInit => HeapInv
BY KeyAssumption DEF HeapInit, HeapInv, HeapTypeOK, DirtyOK, HeapOrder, IndexRight,
   Idle, Slot, None

\* What the invariant says of every slot, in one place.
LEMMA SlotFacts ==
  ASSUME HeapTypeOK
  PROVE  /\ size \in Nat
         /\ \A i \in Slot : /\ i \in Nat /\ arr[i] \in Entry
                            /\ arr[i].key \in Int /\ arr[i].id \in Elem
                            /\ i # 0 => HeapParent(i) \in Slot /\ HeapParent(i) < i
         /\ \A i \in Nat : i < size <=> i \in Slot
<1>1. size \in Nat /\ \A i \in Slot : i \in Nat /\ arr[i] \in Entry
  BY DEF HeapTypeOK, Slot
<1>2. \A i \in Slot : arr[i].key \in Int /\ arr[i].id \in Elem
  BY <1>1 DEF Entry, Key
<1>3. ASSUME NEW i \in Slot, i # 0
      PROVE  HeapParent(i) \in Slot /\ HeapParent(i) < i
  <2>1. i \in Nat /\ i < size  BY <1>1 DEF Slot
  <2>2. HeapParent(i) \in 0..(i - 1)  BY <1>3, <2>1, TreeFacts
  <2> QED  BY <1>1, <2>1, <2>2 DEF Slot
<1>4. \A i \in Nat : i < size <=> i \in Slot  BY <1>1 DEF Slot
<1> QED  BY <1>1, <1>2, <1>3, <1>4

\* The slots of a vector that grows or shrinks by one.
LEMMA SlotArith ==
  ASSUME size \in Nat
  PROVE  /\ \A i \in 0..size : i # size => i \in Slot
         /\ \A i \in Slot : i \in 0..size /\ i # size
         /\ \A i \in 0..(size - 2) : i \in Slot /\ i # size - 1
         /\ \A i \in Slot : i # size - 1 => i \in 0..(size - 2)
         /\ \A i \in Slot : size - 1 \in Slot /\ i =< size - 1
BY DEF Slot

(***************************************************************************)
(* Every step keeps the types                                              *)
(***************************************************************************)

\* What a notification leaves is a slot or none, for every element.
LEMMA NotifiedType ==
  ASSUME HeapTypeOK
  PROVE  Notified(dirty) \in [Elem -> Nat \cup {None}]
<1>1. \A i \in dirty : i \in Nat  BY SlotFacts DEF HeapTypeOK
<1>2. ASSUME NEW e \in Elem, \E i \in dirty : arr[i].id = e
      PROVE  (CHOOSE i \in dirty : arr[i].id = e) \in Nat
  BY <1>1, <1>2
<1>3. \A e \in Elem : index[e] \in Nat \cup {None}  BY DEF HeapTypeOK
<1> QED  BY <1>2, <1>3 DEF Notified

\* Every step of the heap keeps the types.
LEMMA HeapTypeStep ==
  ASSUME HeapTypeOK, DirtyOK, [HeapNext]_heapVars
  PROVE  HeapTypeOK'
<1>1. /\ size \in Nat /\ arr \in [Slot -> Entry] /\ dirty \subseteq Slot
      /\ index \in [Elem -> Nat \cup {None}] /\ popped \in SUBSET Entry
      /\ mode \in {"idle", "push", "flow", "sink"}
      /\ pos \in Nat /\ start \in Nat
      /\ mode # "idle" => pos \in Slot /\ start \in Slot
  BY DEF HeapTypeOK, Idle
<1>2. ASSUME NEW e \in Elem, NEW k \in Key, HeapPush(e, k)  PROVE HeapTypeOK'
  <2>1. [id |-> e, key |-> k] \in Entry  BY DEF Entry
  <2>2. size' = size + 1 /\ Slot' = 0..size
    BY <1>1, <1>2 DEF HeapPush, Slot
  <2>3. arr' \in [0..size -> Entry]
    <3>1. \A i \in 0..size : i # size => i \in Slot  BY <1>1 DEF Slot
    <3> QED  BY <1>1, <1>2, <2>1, <3>1 DEF HeapPush
  <2>4. size \in Slot'  BY <1>1, <2>2
  <2> QED  BY <1>1, <1>2, <2>2, <2>3, <2>4 DEF HeapPush, Begin, HeapTypeOK, Idle
<1>3. ASSUME NEW i \in Slot, HeapRemove(i), popped' \in SUBSET Entry  PROVE HeapTypeOK'
  <2>1. size' = size - 1 /\ Slot' = 0..(size - 2) /\ i \in Nat /\ i =< size - 1
    BY <1>1, <1>3 DEF HeapRemove, Shrink, Slot
  <2>2. arr' \in [0..(size - 2) -> Entry]
    <3>1. size - 1 \in Slot /\ \A j \in 0..(size - 2) : j \in Slot
      BY <1>1, <2>1 DEF Slot
    <3> QED  BY <1>1, <1>3, <3>1 DEF HeapRemove, Shrink
  <2>3. CASE i < size - 1
    <3>1. i \in Slot'
      <4>1. size \in Nat  BY <1>1
      <4> QED  BY <2>1, <2>3, <4>1
    <3> QED  BY <1>1, <1>3, <2>1, <2>2, <2>3, <3>1
             DEF HeapRemove, Begin, HeapTypeOK, Idle
  <2>4. CASE ~(i < size - 1)
    <3>1. mode' = "idle" /\ dirty' = {} /\ UNCHANGED <<mode, pos, start, dirty>>
      BY <1>3, <2>4 DEF HeapRemove, Idle, DirtyOK
    <3> QED  BY <1>1, <1>3, <2>1, <2>2, <3>1 DEF HeapRemove, HeapTypeOK, Idle
  <2> QED  BY <2>3, <2>4
<1>4. CASE Pop
  <2>1. 0 \in Slot  BY <1>4 DEF Pop, HeapRemove, HasValue
  <2>2. popped' \in SUBSET Entry  BY <1>1, <1>4, <2>1 DEF Pop
  <2> QED  BY <1>3, <1>4, <2>1, <2>2 DEF Pop
<1>5. ASSUME NEW i \in Slot, Withdraw(i)  PROVE HeapTypeOK'
  BY <1>1, <1>3, <1>5 DEF Withdraw
<1>6. CASE Flow
  <2>1. pos \in Slot /\ pos # 0  BY <1>1, <1>6 DEF Flow, CanFlow
  <2>2. HeapParent(pos) \in Slot /\ HeapParent(pos) # pos /\ HeapParent(pos) \in Nat
    BY <2>1, SlotFacts
  <2>3. arr' \in [Slot -> Entry]  BY <1>6, <2>1, <2>2, SwapFacts DEF Flow
  <2>4. Slot' = Slot  BY <1>6 DEF Flow, Slot
  <2> QED  BY <1>1, <1>6, <2>2, <2>3, <2>4 DEF Flow, HeapTypeOK, Idle
<1>7. CASE Sink
  <2>1. pos \in Slot /\ HasValue(LeftChild(pos))
    BY <1>1, <1>7 DEF Sink, CanSink
  <2>2. SmallerChild \in Slot /\ SmallerChild # pos /\ SmallerChild \in Nat
    BY <2>1, ChildFacts, SlotFacts
  <2>3. arr' \in [Slot -> Entry]  BY <1>7, <2>1, <2>2, SwapFacts DEF Sink
  <2>4. Slot' = Slot  BY <1>7 DEF Sink, Slot
  <2> QED  BY <1>1, <1>7, <2>2, <2>3, <2>4 DEF Sink, HeapTypeOK, Idle
<1>8. CASE FlowDone \/ SinkDone
  <2>1. Slot' = Slot  BY <1>8 DEF FlowDone, SinkDone, Slot
  <2> QED  BY <1>1, <1>8, <2>1, NotifiedType DEF FlowDone, SinkDone, HeapTypeOK, Idle
<1>9. CASE FlowThenSink
  <2>1. Slot' = Slot  BY <1>9 DEF FlowThenSink, Slot
  <2> QED  BY <1>1, <1>9, <2>1 DEF FlowThenSink, HeapTypeOK, Idle
<1>10. CASE UNCHANGED heapVars
  BY <1>10 DEF heapVars, HeapTypeOK, Idle, Slot
<1>11. ASSUME NEW i \in Slot, NEW k \in Key, Rekey(i, k)  PROVE HeapTypeOK'
  <2>1. arr' \in [Slot -> Entry] /\ Slot' = Slot  BY <1>11, RekeyFacts
  <2>2. i \in Nat  BY SlotFacts
  <2> QED  BY <1>1, <1>11, <2>1, <2>2 DEF Rekey, Begin, HeapTypeOK, Idle
<1> QED  BY <1>2, <1>4, <1>5, <1>6, <1>7, <1>8, <1>9, <1>10, <1>11
         DEF HeapNext, HeapStep

\* Slots still to be notified lie where the flow or sink has been.
LEMMA DirtyStep ==
  ASSUME HeapTypeOK, DirtyOK, [HeapNext]_heapVars
  PROVE  DirtyOK'
<1>1. CASE \E e \in Elem, k \in Key : HeapPush(e, k)
  BY <1>1 DEF HeapPush, Begin, DirtyOK, Idle
<1>2. ASSUME NEW i, HeapRemove(i)  PROVE DirtyOK'
  BY <1>2 DEF HeapRemove, Begin, DirtyOK, Idle
<1>3. CASE Pop \/ \E i \in Slot : Withdraw(i)
  BY <1>2, <1>3 DEF Pop, Withdraw
<1>4. CASE HeapStep
  BY <1>4 DEF HeapStep, Flow, FlowDone, FlowThenSink, Sink, SinkDone, DirtyOK, Idle
<1>6. CASE \E i \in Slot, k \in Key : Rekey(i, k)
  BY <1>6 DEF Rekey, Begin, DirtyOK, Idle
<1>5. CASE UNCHANGED heapVars
  BY <1>5 DEF heapVars, DirtyOK, Idle
<1> QED  BY <1>1, <1>3, <1>4, <1>5, <1>6 DEF HeapNext

(***************************************************************************)
(* Every step keeps the order                                              *)
(***************************************************************************)

\* Every step of the heap keeps its order, but where the moving element is.
LEMMA OrderStep ==
  ASSUME HeapTypeOK, DirtyOK, HeapOrder, HeapTypeOK', [HeapNext]_heapVars
  PROVE  HeapOrder'
<1>1. /\ size \in Nat /\ arr \in [Slot -> Entry]
      /\ mode \in {"idle", "push", "flow", "sink"}
      /\ mode # "idle" => pos \in Slot /\ start \in Slot
  BY DEF HeapTypeOK, Idle
<1>2. /\ \A i \in Slot : i \in Nat /\ arr[i].key \in Int
      /\ \A i \in Slot : i # 0 => HeapParent(i) \in Slot /\ HeapParent(i) < i
      /\ \A i \in Nat : (i < size) <=> (i \in Slot)
  BY SlotFacts
<1>3. ASSUME NEW e \in Elem, NEW k \in Key, HeapPush(e, k)  PROVE HeapOrder'
  <2>1. /\ size' = size + 1 /\ Slot' = 0..size /\ mode' = "push" /\ pos' = size
        /\ arr' = [i \in 0..size |-> IF i = size THEN [id |-> e, key |-> k] ELSE arr[i]]
    BY <1>1, <1>3 DEF HeapPush, Begin, Slot
  <2>2. ASSUME NEW i \in Slot', i # size  PROVE Ordered(i)'
    <3>1. i \in Slot  BY <1>1, <2>1, <2>2 DEF Slot
    <3>2. Ordered(i)  BY <1>3, <3>1 DEF HeapOrder, HeapPush, Idle
    <3>3. arr'[i] = arr[i]  BY <2>1, <2>2
    <3>4. i # 0 => HeapParent(i) \in 0..size /\ HeapParent(i) # size
      BY <1>1, <1>2, <3>1 DEF Slot
    <3>5. i # 0 => arr'[HeapParent(i)] = arr[HeapParent(i)]  BY <2>1, <3>4
    <3> QED  BY <3>2, <3>3, <3>5 DEF Ordered
  <2>3. ASSUME NEW i \in Slot', HeapParent(i) = size  PROVE FALSE
    <3>1. i \in Nat /\ i =< size  BY <1>1, <2>1, <2>3
    <3>2. i # 0 => HeapParent(i) \in 0..(i - 1)  BY <3>1, TreeFacts
    <3>3. HeapParent(0) = -1  BY TreeFacts
    <3> QED  BY <1>1, <2>3, <3>1, <3>2, <3>3
  <2> QED  BY <2>1, <2>2, <2>3 DEF HeapOrder
<1>4. ASSUME NEW i \in Slot, HeapRemove(i)  PROVE HeapOrder'
  <2>1. /\ \A j \in Slot : Ordered(j)
        /\ size' = size - 1 /\ Slot' = 0..(size - 2) /\ i \in Nat /\ i =< size - 1
        /\ arr' = [j \in 0..(size - 2) |-> IF j = i THEN arr[size - 1] ELSE arr[j]]
    BY <1>1, <1>4 DEF HeapRemove, Shrink, Slot, HeapOrder, Idle
  <2>2. ASSUME NEW j \in Slot', j # i, HeapParent(j) # i  PROVE Ordered(j)'
    <3>1. j \in Slot  BY <1>1, <2>1, <2>2 DEF Slot
    <3>2. Ordered(j)  BY <2>1, <3>1
    <3>3. arr'[j] = arr[j]  BY <2>1, <2>2
    <3>4. j # 0 => HeapParent(j) \in Slot'
      <4>1. j # 0 => HeapParent(j) \in Nat /\ HeapParent(j) < j  BY <1>2, <3>1
      <4> QED  BY <1>1, <2>1, <2>2, <4>1
    <3>5. j # 0 => arr'[HeapParent(j)] = arr[HeapParent(j)]  BY <2>1, <2>2, <3>4
    <3> QED  BY <3>2, <3>3, <3>5 DEF Ordered
  <2>3. CASE i < size - 1
    <3>1. mode' = "flow" /\ pos' = i /\ start' = i  BY <1>4, <2>3 DEF HeapRemove, Begin
    <3>2. ASSUME i # 0, NEW j \in Slot', HeapParent(j) = i
          PROVE  arr'[HeapParent(i)].key =< arr'[j].key
      <4>1. j \in Slot /\ j # 0
        <5>1. j \in Slot  BY <1>1, <2>1, <3>2 DEF Slot
        <5>2. HeapParent(0) = -1  BY TreeFacts
        <5> QED  BY <2>1, <3>2, <5>1, <5>2
      <4>2. i < j  BY <1>2, <3>2, <4>1
      <4>3. HeapParent(i) \in Slot /\ HeapParent(i) < i  BY <1>2, <3>2
      <4>4. HeapParent(i) \in Slot'
        <5>1. size \in Nat /\ HeapParent(i) \in Nat  BY <1>1, <1>2, <4>3
        <5>2. HeapParent(i) =< size - 2  BY <2>1, <2>3, <4>3, <5>1
        <5> QED  BY <2>1, <5>1, <5>2
      <4>5. arr'[j] = arr[j] /\ arr'[HeapParent(i)] = arr[HeapParent(i)]
        BY <1>2, <2>1, <3>2, <4>1, <4>2, <4>3, <4>4
      <4>6. arr[i].key =< arr[j].key  BY <2>1, <3>2, <4>1 DEF Ordered
      <4>7. arr[HeapParent(i)].key =< arr[i].key  BY <2>1, <3>2 DEF Ordered
      <4> QED  BY <1>2, <4>1, <4>3, <4>5, <4>6, <4>7
    <3> QED  BY <2>2, <3>1, <3>2 DEF HeapOrder
  <2>4. CASE ~(i < size - 1)
    <3>1. mode' = "idle"  BY <1>4, <2>4 DEF HeapRemove, Idle
    <3>2. i = size - 1  BY <1>1, <2>1, <2>4
    <3>3. ASSUME NEW j \in Slot'  PROVE j # i /\ HeapParent(j) # i
      <4>1. j \in Nat /\ j < i  BY <1>1, <2>1, <3>2
      <4>2. j # 0 => HeapParent(j) \in 0..(j - 1)  BY <4>1, TreeFacts
      <4>3. HeapParent(0) = -1  BY TreeFacts
      <4> QED  BY <2>1, <4>1, <4>2, <4>3
    <3> QED  BY <2>2, <3>1, <3>3 DEF HeapOrder, Idle
  <2> QED  BY <2>3, <2>4
<1>5. CASE Pop
  <2>1. 0 \in Slot  BY <1>5 DEF Pop, HeapRemove, HasValue
  <2> QED  BY <1>4, <1>5, <2>1 DEF Pop
<1>6. ASSUME NEW i \in Slot, Withdraw(i)  PROVE HeapOrder'
  BY <1>4, <1>6 DEF Withdraw
<1>7. CASE Flow
  <2> DEFINE p == HeapParent(pos)
  <2>1. /\ pos \in Slot /\ pos # 0 /\ pos \in Nat
        /\ p \in Slot /\ p < pos /\ p \in Nat
    BY <1>1, <1>2, <1>7 DEF Flow, CanFlow
  <2>2. /\ arr[pos].key < arr[p].key
        /\ arr' = Swapped(pos, p) /\ pos' = p /\ mode' = mode /\ start' = start
        /\ Slot' = Slot /\ mode \in {"push", "flow"}
    BY <1>7 DEF Flow, CanFlow, Less, Slot
  <2>3. /\ arr'[pos] = arr[p] /\ arr'[p] = arr[pos]
        /\ \A l \in Slot : l # pos /\ l # p => arr'[l] = arr[l]
    <3>1. pos \in Slot /\ p \in Slot /\ pos # p /\ arr' = Swapped(pos, p)
      BY <2>1, <2>2
    <3> HIDE DEF p
    <3> QED  BY <3>1, SwapFacts
  <2>4. \A i \in Slot : i # pos /\ HeapParent(i) # pos => Ordered(i)
    BY <2>2 DEF HeapOrder
  <2>5. \A i \in Slot : HeapParent(i) = pos => arr[p].key =< arr[i].key
    BY <2>1, <2>2 DEF HeapOrder, Idle
  <2> HIDE DEF p
  <2>6. p # 0 => HeapParent(p) \in Slot /\ HeapParent(p) < p  BY <1>2, <2>1
  <2>7. ASSUME NEW i \in Slot, i # p, i # 0
        PROVE  arr'[HeapParent(i)].key =< arr'[i].key
    <3>1. HeapParent(i) \in Slot /\ HeapParent(i) < i /\ i \in Nat  BY <1>2, <2>7
    <3>2. CASE i = pos  BY <1>2, <2>1, <2>2, <2>3, <3>2 DEF p
    <3>3. CASE i # pos /\ HeapParent(i) = pos
      <4>1. arr'[i] = arr[i]  BY <2>3, <2>7, <3>3
      <4> QED  BY <2>3, <2>5, <3>3, <4>1
    <3>4. CASE i # pos /\ HeapParent(i) = p
      <4>1. arr'[i] = arr[i]  BY <2>3, <2>7, <3>4
      <4>2. HeapParent(i) # pos  BY <2>1, <3>4
      <4>3. arr[p].key =< arr[i].key  BY <2>4, <2>7, <3>4, <4>2 DEF Ordered
      <4> QED  BY <1>2, <2>1, <2>2, <2>3, <3>4, <4>1, <4>3
    <3>5. CASE i # pos /\ HeapParent(i) # pos /\ HeapParent(i) # p
      <4>1. arr'[i] = arr[i] /\ arr'[HeapParent(i)] = arr[HeapParent(i)]
        BY <2>3, <2>7, <3>1, <3>5
      <4>2. arr[HeapParent(i)].key =< arr[i].key  BY <2>4, <2>7, <3>5 DEF Ordered
      <4> QED  BY <4>1, <4>2
    <3> QED  BY <3>2, <3>3, <3>4, <3>5
  <2>8. ASSUME p # 0, NEW i \in Slot, HeapParent(i) = p
        PROVE  arr'[HeapParent(p)].key =< arr'[i].key
    <3>1. HeapParent(p) \in Slot /\ HeapParent(p) # p /\ HeapParent(p) # pos
      BY <2>1, <2>6, <2>8, SlotFacts
    <3>2. arr'[HeapParent(p)] = arr[HeapParent(p)]  BY <2>3, <3>1
    <3>3. arr[HeapParent(p)].key =< arr[p].key
      BY <2>1, <2>4, <2>8, <3>1 DEF Ordered
    <3>4. CASE i = pos  BY <2>3, <3>2, <3>3, <3>4
    <3>5. CASE i # pos
      <4>1. i # p
        <5>1. i # 0 => HeapParent(i) < i  BY <1>2
        <5>2. HeapParent(0) = -1  BY TreeFacts
        <5> QED  BY <2>1, <2>8, <5>1, <5>2
      <4>2. arr'[i] = arr[i]  BY <2>3, <3>5, <4>1
      <4>3. HeapParent(i) # pos /\ i # 0
        <5>1. HeapParent(0) = -1  BY TreeFacts
        <5> QED  BY <2>1, <2>8, <5>1
      <4>4. arr[p].key =< arr[i].key  BY <2>4, <2>8, <3>5, <4>3 DEF Ordered
      <4>5. arr[HeapParent(p)].key \in Int /\ arr[p].key \in Int /\ arr[i].key \in Int
        BY <1>2, <2>1, <3>1
      <4>6. arr[HeapParent(p)].key =< arr[i].key  BY <3>3, <4>4, <4>5
      <4> QED  BY <3>2, <4>2, <4>6
    <3> QED  BY <3>4, <3>5
  <2>9. \A i \in Slot' : Ordered(i)' \/ (mode' \in {"push", "flow"} /\ i = pos')
    BY <2>2, <2>7 DEF Ordered
  <2>10. pos' # 0 => \A i \in Slot' : HeapParent(i) = pos' =>
                       arr'[HeapParent(pos')].key =< arr'[i].key
    BY <2>2, <2>8
  <2> QED  BY <2>9, <2>10 DEF HeapOrder
<1>8. CASE FlowDone
  <2>1. \A i \in Slot : Ordered(i)
    <3>1. ASSUME NEW i \in Slot, i # pos  PROVE Ordered(i)
      BY <1>8, <3>1 DEF FlowDone, HeapOrder
    <3>2. pos # 0 => arr[HeapParent(pos)].key =< arr[pos].key
      <4>1. pos \in Slot  BY <1>1, <1>8 DEF FlowDone
      <4> QED  BY <1>2, <1>8, <4>1 DEF FlowDone, CanFlow, Less
    <3>3. Ordered(pos)  BY <3>2 DEF Ordered
    <3> QED  BY <3>1, <3>3
  <2>2. Slot' = Slot /\ arr' = arr /\ mode' = "idle"  BY <1>8 DEF FlowDone, Slot
  <2>3. \A i \in Slot' : Ordered(i)'  BY <2>1, <2>2 DEF Ordered
  <2> QED  BY <2>2, <2>3 DEF HeapOrder, Idle
<1>9. CASE FlowThenSink
  <2>1. /\ mode = "flow" /\ pos \in Slot /\ start \in Slot
        /\ mode' = "sink" /\ pos' = start /\ arr' = arr /\ Slot' = Slot
    BY <1>1, <1>9 DEF FlowThenSink, Slot
  <2>2. Ordered(pos)  BY <1>2, <1>9, <2>1 DEF FlowThenSink, CanFlow, Less, Ordered
  <2>3. \A i \in Slot : Ordered(i) \/ (HeapParent(i) = pos /\ pos = start)
    BY <2>1, <2>2 DEF HeapOrder
  <2>4. \A i \in Slot' : Ordered(i)' \/ (mode' = "sink" /\ HeapParent(i) = pos')
    BY <2>1, <2>3 DEF Ordered
  <2>5. ASSUME start # 0, NEW i \in Slot, HeapParent(i) = start
        PROVE  arr[HeapParent(start)].key =< arr[i].key
    <3>1. CASE pos = start  BY <2>1, <2>5, <3>1 DEF HeapOrder, Idle
    <3>2. CASE pos # start
      <4>1. Ordered(start) /\ Ordered(i)  BY <2>1, <2>3, <3>2
      <4>2. i # 0
        <5>1. HeapParent(0) = -1  BY TreeFacts
        <5> QED  BY <1>2, <2>1, <2>5, <5>1
      <4> QED  BY <1>2, <2>1, <2>5, <4>1, <4>2 DEF Ordered
    <3> QED  BY <3>1, <3>2
  <2> QED  BY <2>1, <2>4, <2>5 DEF HeapOrder
<1>10. CASE Sink
  <2> DEFINE c == SmallerChild
  <2>1. pos \in Slot /\ HasValue(LeftChild(pos))
    BY <1>1, <1>10 DEF Sink, CanSink
  <2>2. /\ c \in Slot /\ c # pos /\ HeapParent(c) = pos
        /\ \A j \in Slot : HeapParent(j) = pos => arr[c].key =< arr[j].key
    BY <2>1, ChildFacts
  <2>3. /\ arr[c].key < arr[pos].key /\ mode = "sink"
        /\ arr' = Swapped(pos, c) /\ pos' = c /\ mode' = "sink" /\ Slot' = Slot
    BY <1>10 DEF Sink, CanSink, Less, Slot
  <2> HIDE DEF c
  <2>4. /\ arr'[pos] = arr[c] /\ arr'[c] = arr[pos]
        /\ \A l \in Slot : l # pos /\ l # c => arr'[l] = arr[l]
    BY <2>1, <2>2, <2>3, SwapFacts
  <2>5. \A i \in Slot : HeapParent(i) # pos => Ordered(i)  BY <2>3 DEF HeapOrder
  <2>6. pos # 0 => arr[HeapParent(pos)].key =< arr[c].key
    BY <2>2, <2>3 DEF HeapOrder, Idle
  <2>7. pos \in Nat /\ c \in Nat /\ c # 0 /\ pos < c
    <3>1. HeapParent(0) = -1  BY TreeFacts
    <3> QED  BY <1>2, <2>1, <2>2, <3>1
  <2>8. ASSUME NEW i \in Slot, i # 0, HeapParent(i) # c
        PROVE  arr'[HeapParent(i)].key =< arr'[i].key
    <3>1. HeapParent(i) \in Slot /\ HeapParent(i) < i /\ i \in Nat  BY <1>2, <2>8
    <3>2. CASE i = c  BY <1>2, <2>1, <2>2, <2>3, <2>4, <3>2
    <3>3. CASE i = pos
      <4>1. HeapParent(pos) # pos /\ HeapParent(pos) # c  BY <2>7, <2>8, <3>1, <3>3
      <4>2. arr'[HeapParent(pos)] = arr[HeapParent(pos)]  BY <2>4, <3>1, <3>3, <4>1
      <4> QED  BY <2>4, <2>6, <2>8, <3>3, <4>2
    <3>4. CASE i # c /\ i # pos /\ HeapParent(i) = pos
      BY <2>2, <2>4, <3>4
    <3>5. CASE i # c /\ i # pos /\ HeapParent(i) # pos
      <4>1. arr'[i] = arr[i] /\ arr'[HeapParent(i)] = arr[HeapParent(i)]
        BY <2>4, <2>8, <3>1, <3>5
      <4>2. arr[HeapParent(i)].key =< arr[i].key  BY <2>5, <2>8, <3>5 DEF Ordered
      <4> QED  BY <4>1, <4>2
    <3> QED  BY <3>2, <3>3, <3>4, <3>5
  <2>9. ASSUME NEW i \in Slot, HeapParent(i) = c
        PROVE  arr'[HeapParent(c)].key =< arr'[i].key
    <3>1. i # 0 /\ i # c /\ i # pos
      <4>1. HeapParent(0) = -1  BY TreeFacts
      <4>2. i # 0  BY <2>7, <2>9, <4>1
      <4>3. HeapParent(i) < i /\ i \in Nat  BY <1>2, <4>2
      <4> QED  BY <2>7, <2>9, <4>2, <4>3
    <3>2. arr'[i] = arr[i]  BY <2>4, <3>1
    <3>3. HeapParent(i) # pos  BY <2>2, <2>9
    <3>4. arr[c].key =< arr[i].key  BY <2>5, <2>9, <3>1, <3>3 DEF Ordered
    <3> QED  BY <2>2, <2>4, <3>2, <3>4
  <2>10. \A i \in Slot' : Ordered(i)' \/ (mode' = "sink" /\ HeapParent(i) = pos')
    BY <2>3, <2>8 DEF Ordered
  <2>11. \A i \in Slot' : HeapParent(i) = pos' =>
           arr'[HeapParent(pos')].key =< arr'[i].key
    BY <2>3, <2>9
  <2> QED  BY <2>10, <2>11 DEF HeapOrder
<1>11. CASE SinkDone
  <2>1. \A i \in Slot : Ordered(i)
    <3>1. pos \in Slot /\ mode = "sink"  BY <1>1, <1>11 DEF SinkDone
    <3>2. ASSUME NEW i \in Slot, HeapParent(i) = pos  PROVE Ordered(i)
      <4>1. i \in Nat /\ pos \in Nat  BY <1>2, <3>1
      <4>2. i = LeftChild(pos) \/ i = RightChild(pos)  BY <3>2, <4>1, TreeFacts
      <4>3. HasValue(LeftChild(pos))
        <5>1. LeftChild(pos) \in Nat /\ RightChild(pos) = LeftChild(pos) + 1
          BY <4>1, TreeFacts
        <5>2. i < size  BY <1>2, <4>1
        <5>3. LeftChild(pos) < size  BY <1>1, <4>2, <5>1, <5>2
        <5> QED  BY <1>2, <5>1, <5>3 DEF HasValue
      <4>4. /\ SmallerChild \in Slot
            /\ arr[SmallerChild].key =< arr[i].key
        BY <3>1, <3>2, <4>3, ChildFacts
      <4>5. ~(arr[SmallerChild].key < arr[pos].key)
        BY <1>11, <4>3 DEF SinkDone, CanSink, Less
      <4>6. arr[pos].key =< arr[i].key  BY <1>2, <3>1, <4>4, <4>5
      <4> QED  BY <3>2, <4>6 DEF Ordered
    <3> QED  BY <3>1, <3>2 DEF HeapOrder
  <2>2. Slot' = Slot /\ arr' = arr /\ mode' = "idle"  BY <1>11 DEF SinkDone, Slot
  <2>3. \A i \in Slot' : Ordered(i)'  BY <2>1, <2>2 DEF Ordered
  <2> QED  BY <2>2, <2>3 DEF HeapOrder, Idle
<1>12. CASE UNCHANGED heapVars
  <2>1. Slot' = Slot /\ arr' = arr /\ mode' = mode /\ pos' = pos /\ start' = start
    BY <1>12 DEF heapVars, Slot
  <2>2. \A i \in Slot : Ordered(i)' <=> Ordered(i)  BY <2>1 DEF Ordered
  <2> QED  BY <2>1, <2>2 DEF HeapOrder, Idle
<1>13. ASSUME NEW i \in Slot, NEW k \in Key, Rekey(i, k)  PROVE HeapOrder'
  <2>1. /\ \A j \in Slot : Ordered(j)
        /\ Slot' = Slot /\ mode' = "flow" /\ pos' = i /\ start' = i
    BY <1>13, RekeyFacts DEF Rekey, Begin, HeapOrder, Idle
  <2>2. \A j \in Slot : j # i => arr'[j] = arr[j]  BY <1>13, RekeyFacts
  <2>3. ASSUME NEW j \in Slot, j # i, HeapParent(j) # i  PROVE Ordered(j)'
    <3>1. Ordered(j)  BY <2>1
    <3>2. j # 0 => HeapParent(j) \in Slot  BY <1>2
    <3> QED  BY <2>2, <2>3, <3>1, <3>2 DEF Ordered
  <2>4. ASSUME i # 0, NEW j \in Slot, HeapParent(j) = i
        PROVE  arr'[HeapParent(i)].key =< arr'[j].key
    <3>1. HeapParent(i) \in Slot /\ HeapParent(i) < i /\ i \in Nat  BY <1>2, <2>4
    <3>2. j # 0 /\ j \in Nat
      <4>1. HeapParent(0) = -1  BY TreeFacts
      <4> QED  BY <1>2, <2>4, <3>1, <4>1
    <3>3. i < j  BY <1>2, <2>4, <3>2
    <3>4. arr'[j] = arr[j] /\ arr'[HeapParent(i)] = arr[HeapParent(i)]
      <4>1. j # i /\ HeapParent(i) # i  BY <3>1, <3>2, <3>3
      <4> QED  BY <2>2, <3>1, <4>1
    <3>5. arr[i].key =< arr[j].key /\ arr[HeapParent(i)].key =< arr[i].key
      BY <2>1, <2>4, <3>2 DEF Ordered
    <3>6. /\ arr[i].key \in Int /\ arr[j].key \in Int
          /\ arr[HeapParent(i)].key \in Int
      BY <1>2, <3>1
    <3> QED  BY <3>4, <3>5, <3>6
  <2> QED  BY <2>1, <2>3, <2>4 DEF HeapOrder
<1> QED  BY <1>3, <1>5, <1>6, <1>7, <1>8, <1>9, <1>10, <1>11, <1>12, <1>13
         DEF HeapNext, HeapStep

(***************************************************************************)
(* Every step keeps the indices                                            *)
(***************************************************************************)

\* After the notifications every slot's element knows its slot.
LEMMA NotifiedFacts ==
  ASSUME HeapTypeOK, IndexRight
  PROVE  \A i \in Slot : Notified(dirty)[arr[i].id] = i
<1> SUFFICES ASSUME NEW i \in Slot  PROVE Notified(dirty)[arr[i].id] = i
  OBVIOUS
<1>1. arr[i].id \in Elem  BY SlotFacts
<1>2. dirty \subseteq Slot  BY DEF HeapTypeOK
<1>3. \A j \in Slot : arr[j].id = arr[i].id => j = i  BY DEF IndexRight
<1>4. CASE i \in dirty
  <2>1. (CHOOSE j \in dirty : arr[j].id = arr[i].id) = i  BY <1>2, <1>3, <1>4
  <2> QED  BY <1>1, <1>4, <2>1 DEF Notified
<1>5. CASE i \notin dirty
  <2>1. ~ \E j \in dirty : arr[j].id = arr[i].id  BY <1>2, <1>3, <1>5
  <2>2. index[arr[i].id] = i  BY <1>5 DEF IndexRight
  <2> QED  BY <1>1, <2>1, <2>2 DEF Notified
<1> QED  BY <1>4, <1>5

\* A swap of two slots which will both be notified keeps the indices.
LEMMA SwapIndex ==
  ASSUME HeapTypeOK, IndexRight, NEW i \in Slot, NEW j \in Slot, i # j,
         arr' = Swapped(i, j), index' = index, Slot' = Slot,
         i \in dirty', j \in dirty', dirty \subseteq dirty'
  PROVE  IndexRight'
<1>1. /\ arr'[i] = arr[j] /\ arr'[j] = arr[i]
      /\ \A l \in Slot : l # i /\ l # j => arr'[l] = arr[l]
  BY SwapFacts
<1>2. \A l \in Slot' \ dirty' : index'[arr'[l].id] = l
  BY <1>1 DEF IndexRight
<1>3. \A l, m \in Slot : arr[l].id = arr[m].id => l = m  BY DEF IndexRight
<1>4. \A l, m \in Slot' : arr'[l].id = arr'[m].id => l = m
  BY <1>1, <1>3
<1> QED  BY <1>2, <1>4 DEF IndexRight

\* Every step of the heap keeps the indices right, but for the slots still to
\* be notified.
LEMMA IndexStep ==
  ASSUME HeapTypeOK, DirtyOK, IndexRight, [HeapNext]_heapVars
  PROVE  IndexRight'
<1>1. /\ size \in Nat /\ dirty \subseteq Slot
      /\ mode # "idle" => pos \in Slot /\ start \in Slot
      /\ mode = "idle" => dirty = {}
  BY DEF HeapTypeOK, DirtyOK, Idle
<1>2. \A i \in Slot \ dirty : index[arr[i].id] = i  BY DEF IndexRight
<1>3. \A i, j \in Slot : arr[i].id = arr[j].id => i = j  BY DEF IndexRight
<1>4. ASSUME NEW e \in Elem, NEW k \in Key, HeapPush(e, k)  PROVE IndexRight'
  <2>1. /\ Slot' = 0..size /\ dirty' = {size} /\ index' = index /\ dirty = {}
        /\ arr' = [i \in 0..size |-> IF i = size THEN [id |-> e, key |-> k] ELSE arr[i]]
        /\ \A i \in Slot : arr[i].id # e
    BY <1>1, <1>4 DEF HeapPush, Begin, Slot, Idle
  <2>2. \A i \in Slot' : i # size => i \in Slot /\ arr'[i] = arr[i]
    <3>1. \A i \in 0..size : i # size => i \in Slot  BY <1>1, SlotArith
    <3> QED  BY <2>1, <3>1
  <2>3. arr'[size].id = e /\ size \in Slot'  BY <1>1, <2>1
  <2>4. \A i \in Slot' \ dirty' : index'[arr'[i].id] = i  BY <1>2, <2>1, <2>2
  <2>5. \A i, j \in Slot' : arr'[i].id = arr'[j].id => i = j
    BY <1>3, <2>1, <2>2, <2>3
  <2> QED  BY <2>4, <2>5 DEF IndexRight
<1>5. ASSUME NEW i \in Slot, HeapRemove(i)  PROVE IndexRight'
  <2>1. /\ Slot' = 0..(size - 2) /\ index' = index /\ dirty = {} /\ i \in Nat
        /\ i =< size - 1
        /\ arr' = [j \in 0..(size - 2) |-> IF j = i THEN arr[size - 1] ELSE arr[j]]
    BY <1>1, <1>5 DEF HeapRemove, Shrink, Slot, Idle
  <2>2. /\ size - 1 \in Slot
        /\ \A j \in 0..(size - 2) : j \in Slot /\ j # size - 1
    BY <1>1, SlotArith
  <2>3. \A j \in Slot' : j \in Slot /\ j # size - 1  BY <2>1, <2>2
  <2>4. \A j \in Slot' : arr'[j] = IF j = i THEN arr[size - 1] ELSE arr[j]
    BY <2>1
  <2>5. \A j, l \in Slot' : arr'[j].id = arr'[l].id => j = l
    BY <1>3, <2>2, <2>3, <2>4
  <2>6. \A j \in Slot' : j # i => index'[arr'[j].id] = j
    BY <1>2, <2>1, <2>3, <2>4
  <2>7. CASE i < size - 1
    <3>1. dirty' = {i}  BY <1>5, <2>7 DEF HeapRemove, Begin
    <3> QED  BY <2>5, <2>6, <3>1 DEF IndexRight
  <2>8. CASE ~(i < size - 1)
    <3>1. i \notin Slot'  BY <1>1, <2>1, <2>8
    <3>2. \A j \in Slot' : j # i  BY <3>1
    <3> QED  BY <2>5, <2>6, <3>2 DEF IndexRight
  <2> QED  BY <2>7, <2>8
<1>6. CASE Pop
  <2>1. 0 \in Slot  BY <1>6 DEF Pop, HeapRemove, HasValue
  <2> QED  BY <1>5, <1>6, <2>1 DEF Pop
<1>7. ASSUME NEW i \in Slot, Withdraw(i)  PROVE IndexRight'
  BY <1>5, <1>7 DEF Withdraw
<1>8. CASE Flow
  <2>1. pos \in Slot /\ pos # 0 /\ pos \in dirty
    BY <1>1, <1>8 DEF Flow, CanFlow, DirtyOK, Idle
  <2>2. HeapParent(pos) \in Slot /\ HeapParent(pos) # pos  BY <2>1, SlotFacts
  <2>3. /\ arr' = Swapped(pos, HeapParent(pos)) /\ index' = index /\ Slot' = Slot
        /\ dirty' = dirty \cup {HeapParent(pos)}
    BY <1>8 DEF Flow, Slot
  <2> QED  BY <2>1, <2>2, <2>3, SwapIndex
<1>9. CASE Sink
  <2>1. pos \in Slot /\ HasValue(LeftChild(pos)) /\ pos \in dirty
    BY <1>1, <1>9 DEF Sink, CanSink, DirtyOK, Idle
  <2>2. SmallerChild \in Slot /\ SmallerChild # pos  BY <2>1, ChildFacts
  <2>3. /\ arr' = Swapped(pos, SmallerChild) /\ index' = index /\ Slot' = Slot
        /\ dirty' = dirty \cup {SmallerChild}
    BY <1>9 DEF Sink, Slot
  <2> HIDE DEF SmallerChild
  <2> QED  BY <2>1, <2>2, <2>3, SwapIndex
<1>10. CASE FlowDone \/ SinkDone
  <2>1. index' = Notified(dirty) /\ arr' = arr /\ Slot' = Slot
    BY <1>10 DEF FlowDone, SinkDone, Slot
  <2>2. \A i \in Slot' : index'[arr'[i].id] = i  BY <2>1, NotifiedFacts
  <2> QED  BY <1>3, <2>1, <2>2 DEF IndexRight
<1>11. CASE FlowThenSink \/ UNCHANGED heapVars
  <2>1. index' = index /\ arr' = arr /\ Slot' = Slot /\ dirty' = dirty
    BY <1>11 DEF FlowThenSink, heapVars, Slot
  <2> QED  BY <1>2, <1>3, <2>1 DEF IndexRight
<1>12. ASSUME NEW i \in Slot, NEW k \in Key, Rekey(i, k)  PROVE IndexRight'
  <2>1. dirty = {} /\ index' = index  BY <1>1, <1>12 DEF Rekey, Idle
  <2>2. Slot' = Slot /\ \A j \in Slot : arr'[j].id = arr[j].id
    BY <1>12, RekeyFacts
  <2> QED  BY <1>2, <1>3, <2>1, <2>2 DEF IndexRight
<1> QED  BY <1>4, <1>6, <1>7, <1>8, <1>9, <1>10, <1>11, <1>12 DEF HeapNext, HeapStep

\* Every step of the heap keeps its invariant.
LEMMA HeapStepInv ==
  ASSUME HeapInv, [HeapNext]_heapVars
  PROVE  HeapInv'
<1>1. HeapTypeOK /\ DirtyOK /\ HeapOrder /\ IndexRight  BY DEF HeapInv
<1>2. HeapTypeOK'  BY <1>1, HeapTypeStep
<1>3. DirtyOK'  BY <1>1, DirtyStep
<1>4. HeapOrder'  BY <1>1, <1>2, OrderStep
<1>5. IndexRight'  BY <1>1, IndexStep
<1> QED  BY <1>2, <1>3, <1>4, <1>5 DEF HeapInv

(***************************************************************************)
(* The root, and what a step does to the contents                          *)
(***************************************************************************)

\* Between calls no key is less than the root's.  The proof takes the first
\* slot whose key would be: its parent's key is less than the root's too.
LEMMA RootLeast ==
  ASSUME HeapTypeOK, HeapOrder, Idle
  PROVE  \A i \in Slot : arr[0].key =< arr[i].key
<1> DEFINE Bad == {i \in Slot : ~(arr[0].key =< arr[i].key)}
<1>1. \A i \in Slot : /\ i \in Nat /\ arr[i].key \in Int
                      /\ i # 0 => HeapParent(i) \in Slot /\ HeapParent(i) < i
  BY SlotFacts
<1>2. \A i \in Slot : Ordered(i)  BY DEF HeapOrder, Idle
<1>3. Bad \subseteq Nat  BY <1>1
<1>4. Bad = {}
  <2> SUFFICES ASSUME Bad # {}  PROVE FALSE
    OBVIOUS
  <2>1. PICK x \in Bad : \A y \in Bad : x =< y
    <3> HIDE DEF Bad
    <3> QED  BY <1>3, LeastElement
  <2>2. x \in Slot /\ x \in Nat /\ ~(arr[0].key =< arr[x].key)  BY <1>1
  <2>3. 0 \in Slot
    <3>1. size \in Nat  BY DEF HeapTypeOK
    <3> QED  BY <2>2, <3>1 DEF Slot
  <2>4. x # 0  BY <1>1, <2>2, <2>3
  <2>5. HeapParent(x) \in Slot /\ HeapParent(x) < x  BY <1>1, <2>2, <2>4
  <2>6. HeapParent(x) \notin Bad
    <3>1. HeapParent(x) \in Nat /\ ~(x =< HeapParent(x))
      <4>1. HeapParent(x) \in Nat /\ x \in Nat  BY <1>1, <2>2, <2>5
      <4> QED  BY <2>5, <4>1
    <3> HIDE DEF Bad
    <3> QED  BY <2>1, <3>1
  <2>7. arr[0].key =< arr[HeapParent(x)].key  BY <2>5, <2>6
  <2>8. arr[HeapParent(x)].key =< arr[x].key  BY <1>2, <2>2, <2>4 DEF Ordered
  <2>9. arr[0].key \in Int /\ arr[x].key \in Int /\ arr[HeapParent(x)].key \in Int
    BY <1>1, <2>2, <2>3, <2>5
  <2> QED  BY <2>2, <2>7, <2>8, <2>9
<1> QED  BY <1>4

\* A removal removes the entry of its slot, and only that.
LEMMA RemoveContents ==
  ASSUME HeapTypeOK, IndexRight, NEW i \in Slot, HeapRemove(i)
  PROVE  Contents' = Contents \ {arr[i]}
<1>1. /\ size \in Nat
      /\ Slot' = 0..(size - 2) /\ i \in Nat /\ i =< size - 1
      /\ arr' = [j \in 0..(size - 2) |-> IF j = i THEN arr[size - 1] ELSE arr[j]]
  BY DEF HeapTypeOK, HeapRemove, Shrink, Slot
<1>2. \A j, l \in Slot : arr[j].id = arr[l].id => j = l  BY DEF IndexRight
<1>3. size - 1 \in Slot /\ \A j \in Slot' : j \in Slot
  <2>1. /\ size - 1 \in Slot
        /\ \A j \in 0..(size - 2) : j \in Slot
    BY <1>1, SlotArith
  <2> QED  BY <1>1, <2>1
<1>4. ASSUME NEW x \in Contents'  PROVE x \in Contents \ {arr[i]}
  <2>1. PICK j \in Slot' : x = arr'[j]  BY DEF Contents
  <2>2. CASE j = i
    <3>1. x = arr[size - 1] /\ size - 1 # i  BY <1>1, <2>1, <2>2
    <3>2. arr[size - 1] # arr[i]  BY <1>2, <1>3, <3>1
    <3> QED  BY <1>3, <3>1, <3>2 DEF Contents
  <2>3. CASE j # i
    <3>1. x = arr[j] /\ j \in Slot  BY <1>1, <1>3, <2>1, <2>3
    <3>2. arr[j] # arr[i]  BY <1>2, <2>3, <3>1
    <3> QED  BY <3>1, <3>2 DEF Contents
  <2> QED  BY <2>2, <2>3
<1>5. ASSUME NEW x \in Contents, x # arr[i]  PROVE x \in Contents'
  <2>1. PICK j \in Slot : x = arr[j]  BY DEF Contents
  <2>2. j # i  BY <1>5, <2>1
  <2>3. CASE j = size - 1
    <3>1. i \in Slot'  BY <1>1, <2>2, <2>3
    <3>2. arr'[i] = arr[size - 1]  BY <1>1, <3>1
    <3> QED  BY <2>1, <2>3, <3>1, <3>2 DEF Contents
  <2>4. CASE j # size - 1
    <3>1. j \in Slot'
      <4>1. j \in 0..(size - 2)  BY <1>1, <2>4, SlotArith
      <4> QED  BY <1>1, <4>1
    <3>2. arr'[j] = arr[j]  BY <1>1, <2>2, <3>1
    <3> QED  BY <2>1, <3>1, <3>2 DEF Contents
  <2> QED  BY <2>3, <2>4
<1> QED  BY <1>4, <1>5

\* A swap keeps the contents.
LEMMA SwapContents ==
  ASSUME HeapTypeOK, NEW i \in Slot, NEW j \in Slot, i # j,
         arr' = Swapped(i, j), Slot' = Slot
  PROVE  Contents' = Contents
<1>1. /\ arr'[i] = arr[j] /\ arr'[j] = arr[i]
      /\ \A l \in Slot : l # i /\ l # j => arr'[l] = arr[l]
  BY SwapFacts
<1>2. ASSUME NEW x \in Contents'  PROVE x \in Contents
  BY <1>1 DEF Contents
<1>3. ASSUME NEW x \in Contents  PROVE x \in Contents'
  BY <1>1 DEF Contents
<1> QED  BY <1>2, <1>3

\* Every step of the heap is a step of the queue, or none.
LEMMA QueueStep ==
  ASSUME HeapInv, [HeapNext]_heapVars
  PROVE  [pq!QueueNext]_(pq!queueVars)
<1>1. HeapTypeOK /\ DirtyOK /\ HeapOrder /\ IndexRight  BY DEF HeapInv
<1>2. size \in Nat /\ (mode # "idle" => pos \in Slot)  BY <1>1 DEF HeapTypeOK, Idle
<1>3. ASSUME NEW e \in Elem, NEW k \in Key, HeapPush(e, k)  PROVE pq!QueueNext
  <2> DEFINE x == [id |-> e, key |-> k]
  <2>1. /\ Slot' = 0..size /\ popped' = popped
        /\ arr' = [i \in 0..size |-> IF i = size THEN x ELSE arr[i]]
        /\ \A i \in Slot : arr[i].id # e
    BY <1>2, <1>3 DEF HeapPush, Slot
  <2>2. \A i \in Slot' : i # size => i \in Slot /\ arr'[i] = arr[i]
    <3>1. \A i \in 0..size : i # size => i \in Slot  BY <1>2, SlotArith
    <3> QED  BY <2>1, <3>1
  <2>3. \A i \in Slot : i \in Slot' /\ i # size
    <3>1. \A i \in Slot : i \in 0..size /\ i # size  BY <1>2, SlotArith
    <3> QED  BY <2>1, <3>1
  <2>4. size \in Slot' /\ arr'[size] = x  BY <1>2, <2>1
  <2>5. Contents' = Contents \cup {x}  BY <2>2, <2>3, <2>4 DEF Contents
  <2>6. \A y \in Contents : y.id # x.id  BY <2>1 DEF Contents
  <2>7. pq!Enter(x)  BY <2>1, <2>5, <2>6 DEF pq!Enter
  <2> QED  BY <2>7 DEF pq!QueueNext
<1>4. CASE Pop
  <2>1. Idle /\ 0 \in Slot /\ HeapRemove(0) /\ popped' = {arr[0]}
    BY <1>4 DEF Pop, HeapRemove, HasValue
  <2>2. Contents' = Contents \ {arr[0]}  BY <1>1, <2>1, RemoveContents
  <2>3. \A y \in Contents : arr[0].key =< y.key  BY <1>1, <2>1, RootLeast DEF Contents
  <2>4. pq!TakeLeast(arr[0])  BY <2>1, <2>2, <2>3 DEF pq!TakeLeast
  <2>5. arr[0] \in Contents  BY <2>1 DEF Contents
  <2> QED  BY <2>4, <2>5 DEF pq!QueueNext
<1>5. ASSUME NEW i \in Slot, Withdraw(i)  PROVE pq!QueueNext
  <2>1. HeapRemove(i) /\ popped' = popped  BY <1>5 DEF Withdraw
  <2>2. Contents' = Contents \ {arr[i]}  BY <1>1, <2>1, RemoveContents
  <2>3. arr[i] \in Contents  BY DEF Contents
  <2>4. pq!Withdraw(arr[i])  BY <2>1, <2>2 DEF pq!Withdraw
  <2> QED  BY <2>3, <2>4 DEF pq!QueueNext
<1>6. CASE Flow
  <2>1. pos \in Slot /\ pos # 0  BY <1>2, <1>6 DEF Flow, CanFlow
  <2>2. HeapParent(pos) \in Slot /\ HeapParent(pos) # pos  BY <1>1, <2>1, SlotFacts
  <2>3. arr' = Swapped(pos, HeapParent(pos)) /\ Slot' = Slot /\ popped' = popped
    BY <1>6 DEF Flow, Slot
  <2>4. Contents' = Contents  BY <1>1, <2>1, <2>2, <2>3, SwapContents
  <2> QED  BY <2>3, <2>4 DEF pq!queueVars
<1>7. CASE Sink
  <2>1. pos \in Slot /\ HasValue(LeftChild(pos))
    BY <1>2, <1>7 DEF Sink, CanSink
  <2>2. SmallerChild \in Slot /\ SmallerChild # pos  BY <1>1, <2>1, ChildFacts
  <2>3. arr' = Swapped(pos, SmallerChild) /\ Slot' = Slot /\ popped' = popped
    BY <1>7 DEF Sink, Slot
  <2>4. Contents' = Contents  BY <1>1, <2>1, <2>2, <2>3, SwapContents
  <2> QED  BY <2>3, <2>4 DEF pq!queueVars
<1>8. CASE FlowDone \/ SinkDone \/ FlowThenSink \/ UNCHANGED heapVars
  <2>1. arr' = arr /\ Slot' = Slot /\ popped' = popped
    BY <1>8 DEF FlowDone, SinkDone, FlowThenSink, heapVars, Slot
  <2>2. Contents' = Contents  BY <2>1 DEF Contents
  <2> QED  BY <2>1, <2>2 DEF pq!queueVars
<1>9. ASSUME NEW i \in Slot, NEW k \in Key, Rekey(i, k)  PROVE pq!QueueNext
  <2> DEFINE x == [id |-> arr[i].id, key |-> k]
  <2>1. /\ Slot' = Slot /\ arr'[i] = x
        /\ \A j \in Slot : j # i => arr'[j] = arr[j]
    BY <1>1, <1>9, RekeyFacts
  <2>2. \A j \in Slot : arr[j] = arr[i] => j = i  BY <1>1 DEF IndexRight
  <2>3. Contents' = (Contents \ {arr[i]}) \cup {x}
    <3> HIDE DEF x
    <3> QED  BY <2>1, <2>2 DEF Contents
  <2>4. popped' = popped /\ arr[i] \in Contents  BY <1>9 DEF Rekey, Contents
  <2>5. pq!Change(arr[i], k)  BY <2>3, <2>4 DEF pq!Change
  <2> QED  BY <2>4, <2>5 DEF pq!QueueNext
<1> QED  BY <1>3, <1>4, <1>5, <1>6, <1>7, <1>8, <1>9 DEF HeapNext, HeapStep

(***************************************************************************)
(* Theorems                                                                *)
(***************************************************************************)

\* The invariant holds in every behaviour.
THEOREM HeapInvAlways == HeapSpec => []HeapInv
<1>1. HeapInit => HeapInv  BY HeapInitInv
<1>2. HeapInv /\ [HeapNext]_heapVars => HeapInv'  BY HeapStepInv
<1> QED  BY <1>1, <1>2, PTL DEF HeapSpec

\* Every variable of the heap keeps its type, and no slot beyond the end is
\* looked at (MinHeap).
THEOREM HeapTypeCorrect == HeapSpec => []HeapTypeOK
<1>1. HeapInv => HeapTypeOK  BY DEF HeapInv
<1> QED  BY <1>1, HeapInvAlways, PTL

\* The heap order holds between calls and, but for the moving element, within
\* them, whatever is pushed and whichever slot is removed (heap.hpp).
THEOREM HeapAlwaysOrdered == HeapSpec => []HeapOrder
<1>1. HeapInv => HeapOrder  BY DEF HeapInv
<1> QED  BY <1>1, HeapInvAlways, PTL

\* The index an element was last told is its slot, so a touch by pool_index
\* reaches the element it means (FullContextNode::accessed).
THEOREM IndexAlwaysRight == HeapSpec => []IndexRight
<1>1. HeapInv => IndexRight  BY DEF HeapInv
<1> QED  BY <1>1, HeapInvAlways, PTL

\* A heap is a priority queue: nothing is lost, nothing doubled, and pop
\* returns an entry with the least key (MinHeap::pop).
THEOREM HeapIsQueue == HeapSpec => IsQueue
<1>1. HeapInit => pq!QueueInit
  BY DEF HeapInit, Contents, Slot, pq!QueueInit
<1>2. HeapInv /\ [HeapNext]_heapVars => [pq!QueueNext]_(pq!queueVars)
  BY QueueStep
<1> QED  BY <1>1, <1>2, HeapInvAlways, PTL DEF HeapSpec, IsQueue, pq!QueueSpec

(***************************************************************************)
(* The book                                                                *)
(***************************************************************************)

\* Types of the book's own variables, and what is in the reaper's hand when.
OwnTypeOK ==
  /\ waiting \in Seq(Entry)
  /\ life \in [Elem -> {"unborn", "live", "gone"}]
  /\ cost \in [Elem -> Key]
  /\ phase \in {"user", "reap", "weigh", "fill", "evict"}
  /\ victim \in SUBSET Entry
  /\ phase \in {"user", "reap", "weigh"} => victim = {}
  /\ phase = "weigh" => \E x \in Entry : popped = {x}
  /\ phase = "evict" => \E x \in Entry : victim = {x}
  /\ phase = "fill" => victim = {} \/ \E x \in Entry : victim = {x}

\* A context that has not been in the heap has no pool_index.
FreshIndex ==
  \A e \in Elem :
    /\ life[e] = "unborn" \/ e \in WaitingIds => index[e] = None
    /\ life[e] = "unborn" => e \notin HeapIds \cup WaitingIds \cup HandIds

BookInv == HeapInv /\ OwnTypeOK /\ NeverEmptyHanded /\ OneEntry /\ FreshIndex

\* Initially the heap and the waiting list are empty.
LEMMA BookInitInv == BookInit => BookInv
<1> SUFFICES ASSUME BookInit  PROVE BookInv
  OBVIOUS
<1>1. HeapInit /\ waiting = <<>> /\ phase = "user" /\ victim = {}
      /\ life = [e \in Elem |-> "unborn"] /\ cost = [e \in Elem |-> 0]
  BY DEF BookInit
<1>2. HeapInv  BY <1>1, HeapInitInv
<1>3. size = 0 /\ Slot = {} /\ index = [e \in Elem |-> None]
  BY <1>1 DEF HeapInit, Slot
<1>4. HeapIds = {} /\ WaitingIds = {} /\ HandIds = {} /\ Live = {}
  BY <1>1, <1>3 DEF HeapIds, WaitingIds, HandIds, Live
<1>5. OwnTypeOK
  <2>1. 0 \in Key  BY KeyAssumption DEF Key
  <2> QED  BY <1>1, <2>1 DEF OwnTypeOK
<1>6. NeverEmptyHanded  BY <1>1, <1>3 DEF NeverEmptyHanded
<1>7. OneEntry  BY <1>1, <1>3, <1>4 DEF OneEntry
<1>8. FreshIndex  BY <1>1, <1>3, <1>4 DEF FreshIndex
<1> QED  BY <1>2, <1>5, <1>6, <1>7, <1>8 DEF BookInv

(***************************************************************************)
(* The heap in the book                                                    *)
(***************************************************************************)

\* A push adds its element to those in the heap.
LEMMA PushIds ==
  ASSUME HeapTypeOK, NEW e \in Elem, NEW k \in Key, HeapPush(e, k)
  PROVE  /\ HeapIds' = HeapIds \cup {e}
         /\ size' = size + 1 /\ popped' = popped /\ index' = index
<1>1. size \in Nat  BY DEF HeapTypeOK
<1>2. /\ Slot' = 0..size
      /\ arr' = [i \in 0..size |-> IF i = size THEN [id |-> e, key |-> k] ELSE arr[i]]
  BY <1>1 DEF HeapPush, Slot
<1>3. /\ \A i \in Slot' : i # size => i \in Slot /\ arr'[i] = arr[i]
      /\ \A i \in Slot : i \in Slot' /\ i # size
  <2>1. /\ \A i \in 0..size : i # size => i \in Slot
        /\ \A i \in Slot : i \in 0..size /\ i # size
    BY <1>1, SlotArith
  <2> QED  BY <1>2, <2>1
<1>4. size \in Slot' /\ arr'[size].id = e  BY <1>1, <1>2
<1>5. HeapIds' = HeapIds \cup {e}  BY <1>3, <1>4 DEF HeapIds
<1> QED  BY <1>5 DEF HeapPush

\* A pop takes the root's element out.
LEMMA PopIds ==
  ASSUME HeapInv, Pop
  PROVE  /\ 0 \in Slot /\ popped' = {arr[0]} /\ arr[0] \in Entry
         /\ HeapIds' = HeapIds \ {arr[0].id} /\ arr[0].id \in HeapIds
         /\ size' = size - 1 /\ index' = index
<1>1. HeapTypeOK /\ IndexRight  BY DEF HeapInv
<1>2. 0 \in Slot /\ HeapRemove(0) /\ popped' = {arr[0]}  BY DEF Pop, HeapRemove, HasValue
<1>3. Contents' = Contents \ {arr[0]}  BY <1>1, <1>2, RemoveContents
<1>4. HeapIds = {x.id : x \in Contents} /\ HeapIds' = {x.id : x \in Contents'}
  BY DEF HeapIds, Contents
<1>5. \A x, y \in Contents : x.id = y.id => x = y
  BY <1>1 DEF IndexRight, Contents
<1>6. arr[0] \in Contents  BY <1>2 DEF Contents
<1>7. HeapIds' = HeapIds \ {arr[0].id}  BY <1>3, <1>4, <1>5, <1>6
<1>8. arr[0] \in Entry  BY <1>1, <1>2, SlotFacts
<1>9. size' = size - 1 /\ index' = index  BY <1>2 DEF HeapRemove, Shrink
<1> QED  BY <1>2, <1>4, <1>6, <1>7, <1>8, <1>9

\* flow and sink move elements about in the heap only.
LEMMA StepIds ==
  ASSUME HeapInv, HeapStep
  PROVE  /\ HeapIds' = HeapIds /\ size' = size /\ popped' = popped
         /\ Contents' = Contents
         /\ \A e \in Elem : e \notin HeapIds => index'[e] = index[e]
<1>1. HeapTypeOK /\ IndexRight  BY DEF HeapInv
<1>2. HeapIds = {x.id : x \in Contents} /\ HeapIds' = {x.id : x \in Contents'}
  BY DEF HeapIds, Contents
<1>3. size' = size /\ popped' = popped /\ Slot' = Slot
  BY DEF HeapStep, Flow, FlowDone, FlowThenSink, Sink, SinkDone, Slot
<1>4. mode # "idle" => pos \in Slot  BY <1>1 DEF HeapTypeOK, Idle
<1>5. Contents' = Contents
  <2>1. CASE Flow
    <3>1. pos \in Slot /\ pos # 0  BY <1>4, <2>1 DEF Flow, CanFlow
    <3>2. HeapParent(pos) \in Slot /\ HeapParent(pos) # pos
      BY <1>1, <3>1, SlotFacts
    <3>3. arr' = Swapped(pos, HeapParent(pos))  BY <2>1 DEF Flow
    <3> QED  BY <1>1, <1>3, <3>1, <3>2, <3>3, SwapContents
  <2>2. CASE Sink
    <3>1. pos \in Slot /\ HasValue(LeftChild(pos))  BY <1>4, <2>2 DEF Sink, CanSink
    <3>2. SmallerChild \in Slot /\ SmallerChild # pos  BY <1>1, <3>1, ChildFacts
    <3>3. arr' = Swapped(pos, SmallerChild)  BY <2>2 DEF Sink
    <3> QED  BY <1>1, <1>3, <3>1, <3>2, <3>3, SwapContents
  <2>3. CASE FlowDone \/ SinkDone \/ FlowThenSink
    <3>1. arr' = arr  BY <2>3 DEF FlowDone, SinkDone, FlowThenSink
    <3> QED  BY <1>3, <3>1 DEF Contents
  <2> QED  BY <2>1, <2>2, <2>3 DEF HeapStep
<1>6. ASSUME NEW e \in Elem, e \notin HeapIds  PROVE index'[e] = index[e]
  <2>1. CASE index' = index  BY <2>1
  <2>2. CASE index' = Notified(dirty)
    <3>1. dirty \subseteq Slot  BY <1>1 DEF HeapTypeOK
    <3>2. ~ \E i \in dirty : arr[i].id = e  BY <1>6, <3>1 DEF HeapIds
    <3> QED  BY <2>2, <3>2 DEF Notified
  <2> QED  BY <2>1, <2>2 DEF HeapStep, Flow, FlowDone, FlowThenSink, Sink, SinkDone
<1> QED  BY <1>2, <1>3, <1>5, <1>6

\* Every step of the book is a step of its heap, or none.
LEMMA BookHeapStep ==
  ASSUME HeapInv, OwnTypeOK, [BookNext]_bookVars
  PROVE  [HeapNext]_heapVars
<1>1. HeapTypeOK  BY DEF HeapInv
<1>2. \A e \in Elem : CostNow(e) \in Key
  BY KeyAssumption DEF OwnTypeOK, CostNow, Key
<1>3. ASSUME NEW e \in Elem, Touch(e)  PROVE HeapNext
  <2>1. Rekey(index[e], arr[index[e]].key) /\ index[e] \in Slot
    BY <1>3 DEF Touch, Rekey, HasValue
  <2>2. arr[index[e]].key \in Key  BY <1>1, <2>1, SlotFacts DEF Entry
  <2> QED  BY <2>1, <2>2 DEF HeapNext
<1>4. ASSUME NEW n \in popped, Refile(n)  PROVE HeapNext
  <2>1. n \in Entry  BY <1>1 DEF HeapTypeOK
  <2>2. n.id \in Elem  BY <2>1 DEF Entry
  <2>3. CostNow(n.id) \in Key  BY <1>2, <2>2
  <2> QED  BY <1>4, <2>2, <2>3 DEF Refile, HeapNext
<1>5. CASE Fill
  <2>1. Head(waiting) \in Entry  BY <1>5 DEF Fill, OwnTypeOK
  <2>2. Head(waiting).id \in Elem /\ Head(waiting).key \in Key  BY <2>1 DEF Entry
  <2> QED  BY <1>5, <2>2 DEF Fill, HeapNext
<1>6. CASE TakeRoot  BY <1>6 DEF TakeRoot, HeapNext
<1>7. CASE HeapStep  BY <1>7 DEF HeapNext
<1>8. ASSUME \/ \E e \in Elem, k \in LiveKey, old \in {{}} \cup {{x} : x \in Live} :
                  Complete(e, k, old)
             \/ \E e \in Elem, k \in LiveKey : Reprice(e, k)
             \/ Murder
             \/ \E n \in popped : Settle(n)
             \/ \E n \in victim : EvictVictim(n)
             \/ UNCHANGED bookVars
      PROVE  UNCHANGED heapVars
  BY <1>8 DEF Complete, Reprice, Murder, Settle, EvictVictim, bookVars
<1> QED  BY <1>3, <1>4, <1>5, <1>6, <1>7, <1>8 DEF BookNext, LibraryStep

(***************************************************************************)
(* The vector of those that wait                                           *)
(***************************************************************************)
LEMMA AppendIds ==
  ASSUME waiting \in Seq(Entry), OneEntry, NEW n \in Entry, n.id \notin WaitingIds,
         waiting' = Append(waiting, n)
  PROVE  /\ waiting' \in Seq(Entry) /\ Len(waiting') = Len(waiting) + 1
         /\ WaitingIds' = WaitingIds \cup {n.id}
         /\ \A i, j \in DOMAIN waiting' : waiting'[i].id = waiting'[j].id => i = j
<1> DEFINE k == Len(waiting)
<1>1. k \in Nat /\ DOMAIN waiting = 1..k  OBVIOUS
<1>2. waiting' \in Seq(Entry) /\ Len(waiting') = k + 1 /\ DOMAIN waiting' = 1..(k + 1)
  OBVIOUS
<1>3. \A j \in 1..k : waiting'[j] = waiting[j]  OBVIOUS
<1>4. waiting'[k + 1] = n  OBVIOUS
<1> HIDE DEF k
<1>5. /\ \A j \in 1..(k + 1) : j # k + 1 => j \in 1..k
      /\ \A j \in 1..k : j \in 1..(k + 1) /\ j # k + 1
      /\ k + 1 \in 1..(k + 1)
  BY <1>1
<1>6. WaitingIds' = WaitingIds \cup {n.id}
  BY <1>1, <1>2, <1>3, <1>4, <1>5 DEF WaitingIds
<1>7. ASSUME NEW i \in 1..(k + 1), NEW j \in 1..(k + 1), waiting'[i].id = waiting'[j].id
      PROVE  i = j
  BY <1>1, <1>3, <1>4, <1>5, <1>7 DEF WaitingIds, OneEntry
<1> QED  BY <1>2, <1>6, <1>7 DEF k

\* Taking the first entry off the waiting list takes off exactly its context.
LEMMA TailIds ==
  ASSUME waiting \in Seq(Entry), OneEntry, waiting # <<>>, waiting' = Tail(waiting)
  PROVE  /\ waiting' \in Seq(Entry) /\ Len(waiting') = Len(waiting) - 1
         /\ Head(waiting) \in Entry /\ Head(waiting).id \in WaitingIds
         /\ WaitingIds' = WaitingIds \ {Head(waiting).id}
         /\ \A i, j \in DOMAIN waiting' : waiting'[i].id = waiting'[j].id => i = j
<1> DEFINE k == Len(waiting)
<1>1. k \in Nat \ {0} /\ DOMAIN waiting = 1..k  OBVIOUS
<1>2. waiting' \in Seq(Entry) /\ Len(waiting') = k - 1 /\ DOMAIN waiting' = 1..(k - 1)
  OBVIOUS
<1>3. \A j \in 1..(k - 1) : waiting'[j] = waiting[j + 1]  OBVIOUS
<1>4. Head(waiting) = waiting[1] /\ Head(waiting) \in Entry  OBVIOUS
<1> HIDE DEF k
<1>5. /\ 1 \in 1..k
      /\ \A j \in 1..(k - 1) : j + 1 \in 1..k /\ j + 1 # 1
      /\ \A j \in 1..k : j # 1 => j - 1 \in 1..(k - 1) /\ (j - 1) + 1 = j
      /\ \A i, j \in 1..(k - 1) : i + 1 = j + 1 => i = j
  BY <1>1
<1>6. \A i, j \in 1..k : waiting[i].id = waiting[j].id => i = j
  BY <1>1 DEF OneEntry
<1>7. WaitingIds' = WaitingIds \ {waiting[1].id}
  <2>1. WaitingIds = {waiting[j].id : j \in 1..k}  BY <1>1 DEF WaitingIds
  <2>2. WaitingIds' = {waiting[j + 1].id : j \in 1..(k - 1)}
    BY <1>2, <1>3 DEF WaitingIds
  <2>3. ASSUME NEW x \in WaitingIds, x # waiting[1].id  PROVE x \in WaitingIds'
    <3>1. PICK j \in 1..k : x = waiting[j].id  BY <2>1
    <3>2. j # 1  BY <2>3, <3>1
    <3> DEFINE h == j - 1
    <3>3. h \in 1..(k - 1) /\ h + 1 = j  BY <1>5, <3>2
    <3> HIDE DEF h
    <3>4. waiting[h + 1].id = x  BY <3>1, <3>3
    <3> QED  BY <2>2, <3>3, <3>4
  <2>4. ASSUME NEW x \in WaitingIds'  PROVE x \in WaitingIds /\ x # waiting[1].id
    <3>1. PICK j \in 1..(k - 1) : x = waiting[j + 1].id  BY <2>2
    <3> QED  BY <1>5, <1>6, <2>1, <3>1
  <2> QED  BY <2>3, <2>4
<1>8. waiting[1].id \in WaitingIds  BY <1>1, <1>5 DEF WaitingIds
<1>9. ASSUME NEW i \in 1..(k - 1), NEW j \in 1..(k - 1),
             waiting'[i].id = waiting'[j].id
      PROVE  i = j
  <2>1. waiting'[i] = waiting[i + 1] /\ waiting'[j] = waiting[j + 1]  BY <1>3
  <2>2. i + 1 \in 1..k /\ j + 1 \in 1..k  BY <1>5
  <2>3. i + 1 = j + 1  BY <1>6, <1>9, <2>1, <2>2
  <2> QED  BY <1>5, <2>3
<1> QED  BY <1>2, <1>4, <1>7, <1>8, <1>9 DEF k

\* A number whose square is not above zero is zero.
LEMMA SquareFact ==
  ASSUME NEW k \in Nat, NEW s \in Nat, k * k =< s, s + k > 0  PROVE s > 0
<1>1. CASE k = 0  BY <1>1
<1>2. CASE k >= 1
  <2>1. k * k >= k  BY <1>2
  <2> QED  BY <1>2, <2>1
<1> QED  BY <1>1, <1>2

(***************************************************************************)
(* The inductive invariant, one lemma for the steps of each kind           *)
(***************************************************************************)
Own == OwnTypeOK /\ NeverEmptyHanded /\ OneEntry /\ FreshIndex

\* The types that every lemma below starts from.
LEMMA BookTypes ==
  ASSUME BookInv
  PROVE  /\ HeapInv /\ HeapTypeOK /\ IndexRight /\ OwnTypeOK
         /\ NeverEmptyHanded /\ OneEntry /\ FreshIndex
         /\ size \in Nat /\ waiting \in Seq(Entry) /\ Len(waiting) \in Nat
         /\ victim \subseteq Entry /\ popped \subseteq Entry
  BY DEF BookInv, HeapInv, HeapTypeOK, OwnTypeOK

\* No two slots hold the same element, also after the step.
LEMMA UniqueSlots ==
  ASSUME HeapInv'
  PROVE  (\A i, j \in Slot : arr[i].id = arr[j].id => i = j)'
  BY DEF HeapInv, IndexRight

\* A completed context gets an entry of its own, in the heap or waiting.
LEMMA CompleteStep ==
  ASSUME BookInv, HeapInv', NEW e \in Elem, NEW k \in LiveKey,
         NEW old \in {{}} \cup {{x} : x \in Live}, Complete(e, k, old)
  PROVE  Own'
<1> USE BookTypes
<1> DEFINE n == [id |-> e, key |-> k]
<1>1. /\ phase = "user" /\ life[e] = "unborn" /\ victim = {} /\ victim' = {}
      /\ waiting' = Append(waiting, n) /\ phase' \in {"user", "fill"}
      /\ arr' = arr /\ size' = size /\ index' = index /\ popped' = popped
  BY DEF Complete, InUser, OwnTypeOK, heapVars
<1>2. k \in Key /\ n \in Entry  BY DEF LiveKey, Entry
<1>3. e \notin HeapIds \cup WaitingIds \cup HandIds /\ index[e] = None
  BY <1>1 DEF FreshIndex
<1>4. /\ waiting' \in Seq(Entry) /\ Len(waiting') = Len(waiting) + 1
      /\ WaitingIds' = WaitingIds \cup {e}
      /\ \A i, j \in DOMAIN waiting' : waiting'[i].id = waiting'[j].id => i = j
  <2>1. n.id = e  OBVIOUS
  <2>2. n.id \notin WaitingIds  BY <1>3
  <2>3. waiting' = Append(waiting, n)  BY <1>1
  <2> HIDE DEF n
  <2> QED  BY <1>2, <2>1, <2>2, <2>3, AppendIds
<1>5. HeapIds' = HeapIds /\ HandIds = {} /\ HandIds' = {} /\ Slot' = Slot
  BY <1>1 DEF HeapIds, HandIds, Slot
<1>6. life' = [x \in Elem |-> IF x = e THEN "live"
                             ELSE IF x \in old THEN "gone" ELSE life[x]]
  BY DEF Complete
<1>7. Live' \subseteq Live \cup {e} /\ \A x \in Elem : life'[x] = "unborn" =>
                                          life[x] = "unborn" /\ x # e
  BY <1>6 DEF Live
<1>8. OwnTypeOK'
  <2>1. life' \in [Elem -> {"unborn", "live", "gone"}]  BY <1>6 DEF OwnTypeOK
  <2>2. cost' \in [Elem -> Key]  BY <1>2 DEF Complete, OwnTypeOK
  <2> QED  BY <1>1, <1>4, <2>1, <2>2 DEF OwnTypeOK
<1>9. NeverEmptyHanded'
  <2>1. phase' = "user" => ~TooMany(Len(waiting) + 1)  BY DEF Complete
  <2> QED  BY <1>1, <1>4, <2>1 DEF NeverEmptyHanded, TooMany
<1>10. OneEntry'
  BY <1>3, <1>4, <1>5, <1>7, UniqueSlots DEF OneEntry
<1>11. FreshIndex'
  BY <1>1, <1>3, <1>4, <1>5, <1>7 DEF FreshIndex
<1> QED  BY <1>8, <1>9, <1>10, <1>11 DEF Own

\* New costs, touches and the call of murder move no entry out of the book.
LEMMA UserStep ==
  ASSUME BookInv, HeapInv',
         \/ \E e \in Elem, k \in LiveKey : Reprice(e, k)
         \/ \E e \in Elem : Touch(e)
         \/ Murder
  PROVE  Own'
<1> USE BookTypes
<1>1. /\ phase = "user" /\ victim = {} /\ victim' = {} /\ waiting' = waiting
      /\ life' = life /\ phase' \in {"user", "reap"}
  BY DEF Reprice, Touch, Murder, InUser, OwnTypeOK, ownVars
<1>2. size' = size /\ index' = index /\ Slot' = Slot /\ HeapIds' = HeapIds
  <2>1. ASSUME NEW e \in Elem, Touch(e)  PROVE size' = size /\ index' = index
                                                /\ Slot' = Slot /\ HeapIds' = HeapIds
    <3>1. Rekey(index[e], arr[index[e]].key) /\ index[e] \in Slot
      BY <2>1 DEF Touch, Rekey, HasValue
    <3>2. /\ size' = size /\ index' = index /\ Slot' = Slot
          /\ arr' = [arr EXCEPT ![index[e]].key = arr[index[e]].key]
      BY <3>1 DEF Rekey, Slot
    <3>3. arr \in [Slot -> Entry]  BY DEF HeapTypeOK
    <3>4. \A i \in Slot : arr'[i].id = arr[i].id  BY <3>1, <3>2, <3>3 DEF Entry
    <3> QED  BY <3>2, <3>4 DEF HeapIds
  <2>2. CASE UNCHANGED heapVars  BY <2>2 DEF heapVars, HeapIds, Slot
  <2> QED  BY <2>1, <2>2 DEF Reprice, Murder
<1>3. WaitingIds' = WaitingIds /\ HandIds = {} /\ HandIds' = {} /\ Live' = Live
  BY <1>1 DEF WaitingIds, HandIds, Live
<1>4. OwnTypeOK'
  <2>1. cost' \in [Elem -> Key]
    BY DEF Reprice, Touch, Murder, ownVars, OwnTypeOK, LiveKey
  <2> QED  BY <1>1, <2>1 DEF OwnTypeOK
<1>5. NeverEmptyHanded'
  <2>1. Len(waiting) * Len(waiting) =< size  BY <1>1 DEF NeverEmptyHanded
  <2>2. phase' = "reap" => size > 0
    <3>1. phase' = "reap" => size + Len(waiting) > 0
      BY <1>1 DEF Reprice, Touch, Murder, ownVars
    <3> QED  BY <2>1, <3>1, SquareFact
  <2> QED  BY <1>1, <1>2, <2>1, <2>2 DEF NeverEmptyHanded
<1>6. OneEntry'  BY <1>1, <1>2, <1>3, UniqueSlots DEF OneEntry
<1>7. FreshIndex'  BY <1>1, <1>2, <1>3 DEF FreshIndex
<1> QED  BY <1>4, <1>5, <1>6, <1>7 DEF Own

\* adjust_pop takes the root entry into the reaper's hand.
LEMMA TakeRootStep ==
  ASSUME BookInv, HeapInv', TakeRoot
  PROVE  Own'
<1> USE BookTypes
<1>1. /\ phase = "reap" /\ phase' = "weigh" /\ victim = {} /\ victim' = {}
      /\ waiting' = waiting /\ life' = life /\ cost' = cost /\ Pop
  BY DEF TakeRoot, OwnTypeOK
<1>2. /\ popped' = {arr[0]} /\ arr[0] \in Entry
      /\ HeapIds' = HeapIds \ {arr[0].id} /\ arr[0].id \in HeapIds
      /\ index' = index
  BY <1>1, PopIds
<1>3. WaitingIds' = WaitingIds /\ Live' = Live /\ HandIds = {}
      /\ HandIds' = {arr[0].id}
  BY <1>1, <1>2 DEF WaitingIds, Live, HandIds
<1>4. OwnTypeOK'  BY <1>1, <1>2 DEF OwnTypeOK
<1>5. NeverEmptyHanded'  BY <1>1 DEF NeverEmptyHanded
<1>6. OneEntry'  BY <1>1, <1>2, <1>3, UniqueSlots DEF OneEntry
<1>7. FreshIndex'  BY <1>1, <1>2, <1>3 DEF FreshIndex
<1> QED  BY <1>4, <1>5, <1>6, <1>7 DEF Own

\* An entry whose cost has changed goes back under the new cost.
LEMMA RefileStep ==
  ASSUME BookInv, HeapInv', NEW n \in popped, Refile(n)
  PROVE  Own'
<1> USE BookTypes
<1>1. /\ phase = "weigh" /\ phase' = "reap" /\ victim = {} /\ victim' = {}
      /\ waiting' = waiting /\ life' = life /\ cost' = cost
      /\ HeapPush(n.id, CostNow(n.id))
  BY DEF Refile, OwnTypeOK
<1>2. popped = {n} /\ n \in Entry /\ n.id \in Elem
  BY <1>1 DEF OwnTypeOK, Entry
<1>3. CostNow(n.id) \in Key
  BY <1>2, KeyAssumption DEF OwnTypeOK, CostNow, Key
<1>4. HeapIds' = HeapIds \cup {n.id} /\ size' = size + 1 /\ index' = index
  BY <1>1, <1>2, <1>3, PushIds
<1>5. WaitingIds' = WaitingIds /\ Live' = Live /\ HandIds = {n.id} /\ HandIds' = {}
  BY <1>1, <1>2 DEF WaitingIds, Live, HandIds
<1>6. OwnTypeOK'  BY <1>1 DEF OwnTypeOK
<1>7. NeverEmptyHanded'
  <2>1. size + 1 > 0  OBVIOUS
  <2> QED  BY <1>1, <1>4, <2>1 DEF NeverEmptyHanded
<1>8. OneEntry'  BY <1>1, <1>4, <1>5, UniqueSlots DEF OneEntry
<1>9. FreshIndex'  BY <1>1, <1>4, <1>5 DEF FreshIndex
<1> QED  BY <1>6, <1>7, <1>8, <1>9 DEF Own

\* An entry whose cost has not changed is the victim.
LEMMA SettleStep ==
  ASSUME BookInv, HeapInv', NEW n \in popped, Settle(n)
  PROVE  Own'
<1> USE BookTypes
<1>1. /\ phase = "weigh" /\ phase' \in {"fill", "evict"} /\ victim' = {n}
      /\ waiting' = waiting /\ life' = life /\ cost' = cost
      /\ arr' = arr /\ size' = size /\ index' = index
      /\ phase' = "evict" => ~TooMany(Len(waiting))
  BY DEF Settle, heapVars
<1>2. popped = {n} /\ n \in Entry  BY <1>1 DEF OwnTypeOK
<1>3. /\ WaitingIds' = WaitingIds /\ Live' = Live /\ HeapIds' = HeapIds
      /\ HandIds = {n.id} /\ HandIds' = {n.id}
  BY <1>1, <1>2 DEF WaitingIds, Live, HandIds, HeapIds, Slot
<1>4. OwnTypeOK'  BY <1>1, <1>2 DEF OwnTypeOK
<1>5. NeverEmptyHanded'  BY <1>1 DEF NeverEmptyHanded, TooMany
<1>6. OneEntry'  BY <1>1, <1>3, UniqueSlots DEF OneEntry
<1>7. FreshIndex'  BY <1>1, <1>3 DEF FreshIndex
<1> QED  BY <1>4, <1>5, <1>6, <1>7 DEF Own

\* A waiting entry takes the victim's place in the heap.
LEMMA FillStep ==
  ASSUME BookInv, HeapInv', Fill
  PROVE  Own'
<1> USE BookTypes
<1> DEFINE h == Head(waiting)
<1>1. /\ phase = "fill" /\ waiting # <<>> /\ waiting' = Tail(waiting)
      /\ life' = life /\ cost' = cost /\ victim' = victim
      /\ HeapPush(h.id, h.key)
  BY DEF Fill
<1>2. /\ waiting' \in Seq(Entry) /\ Len(waiting') = Len(waiting) - 1
      /\ h \in Entry /\ h.id \in WaitingIds
      /\ WaitingIds' = WaitingIds \ {h.id}
      /\ \A i, j \in DOMAIN waiting' : waiting'[i].id = waiting'[j].id => i = j
  BY <1>1, TailIds
<1>3. /\ phase' \in {"fill", "user", "evict"}
      /\ phase' = "user" <=> ~(Len(waiting) > 1) /\ victim = {}
      /\ phase' = "evict" <=> ~(Len(waiting) > 1) /\ victim # {}
  BY DEF Fill
<1> HIDE DEF h
<1>4. h.id \in Elem /\ h.key \in Key  BY <1>2 DEF Entry
<1>5. HeapIds' = HeapIds \cup {h.id} /\ size' = size + 1 /\ index' = index
  BY <1>1, <1>4, PushIds
<1>6. Live' = Live /\ HandIds' = HandIds
  BY <1>1, <1>3 DEF Live, HandIds
<1>7. OwnTypeOK'
  BY <1>1, <1>2, <1>3 DEF OwnTypeOK
<1>8. NeverEmptyHanded'
  <2>1. CASE phase' = "fill"  BY <2>1 DEF NeverEmptyHanded
  <2>2. CASE phase' # "fill"
    <3>1. ~(Len(waiting) > 1)  BY <1>3, <2>2
    <3>2. Len(waiting') \in Nat  BY <1>2
    <3>3. Len(waiting') = 0  BY <1>2, <3>1, <3>2
    <3>4. Len(waiting') * Len(waiting') =< size'  BY <1>5, <3>3
    <3> QED  BY <1>3, <3>4 DEF NeverEmptyHanded
  <2> QED  BY <2>1, <2>2
<1>9. OneEntry'
  BY <1>2, <1>5, <1>6, UniqueSlots DEF OneEntry
<1>10. FreshIndex'  BY <1>1, <1>2, <1>5, <1>6 DEF FreshIndex
<1> QED  BY <1>7, <1>8, <1>9, <1>10 DEF Own

\* The victim is evicted; its entry was the only one.
LEMMA EvictStep ==
  ASSUME BookInv, HeapInv', NEW n \in victim, EvictVictim(n)
  PROVE  Own'
<1> USE BookTypes
<1>1. /\ phase = "evict" /\ phase' = "user" /\ victim' = {}
      /\ waiting' = waiting /\ cost' = cost
      /\ life' = [life EXCEPT ![n.id] = "gone"]
      /\ arr' = arr /\ size' = size /\ index' = index
  BY DEF EvictVictim, heapVars
<1>2. victim = {n} /\ n \in Entry /\ n.id \in Elem
  BY <1>1 DEF OwnTypeOK, Entry
<1>3. /\ WaitingIds' = WaitingIds /\ HeapIds' = HeapIds
      /\ HandIds = {n.id} /\ HandIds' = {}
  BY <1>1, <1>2 DEF WaitingIds, HandIds, HeapIds, Slot
<1>4. /\ Live' = Live \ {n.id}
      /\ \A x \in Elem : life'[x] = "unborn" => life[x] = "unborn"
  BY <1>1, <1>2 DEF Live, OwnTypeOK
<1>5. OwnTypeOK'
  <2>1. life' \in [Elem -> {"unborn", "live", "gone"}]
    BY <1>1, <1>2 DEF OwnTypeOK
  <2> QED  BY <1>1, <2>1 DEF OwnTypeOK
<1>6. NeverEmptyHanded'  BY <1>1 DEF NeverEmptyHanded
<1>7. OneEntry'  BY <1>1, <1>3, <1>4, UniqueSlots DEF OneEntry
<1>8. FreshIndex'  BY <1>1, <1>3, <1>4 DEF FreshIndex
<1> QED  BY <1>5, <1>6, <1>7, <1>8 DEF Own

\* While the heap moves an element, the reaper's hand and the waiting list
\* stand still.
LEMMA HeapOnlyStep ==
  ASSUME BookInv, HeapInv', HeapStep, UNCHANGED ownVars
  PROVE  Own'
<1> USE BookTypes
<1>1. /\ HeapIds' = HeapIds /\ size' = size /\ popped' = popped
      /\ \A e \in Elem : e \notin HeapIds => index'[e] = index[e]
  BY StepIds
<1>2. /\ waiting' = waiting /\ life' = life /\ cost' = cost
      /\ phase' = phase /\ victim' = victim
  BY DEF ownVars
<1>3. WaitingIds' = WaitingIds /\ Live' = Live /\ HandIds' = HandIds
  BY <1>1, <1>2 DEF WaitingIds, Live, HandIds
<1>4. OwnTypeOK'  BY <1>1, <1>2 DEF OwnTypeOK
<1>5. NeverEmptyHanded'  BY <1>1, <1>2 DEF NeverEmptyHanded
<1>6. OneEntry'  BY <1>1, <1>2, <1>3, UniqueSlots DEF OneEntry
<1>7. FreshIndex'
  <2>1. \A e \in WaitingIds : e \notin HeapIds  BY DEF OneEntry
  <2> QED  BY <1>1, <1>2, <1>3, <2>1 DEF FreshIndex
<1> QED  BY <1>4, <1>5, <1>6, <1>7 DEF Own

\* Every step of the book keeps its invariant.
LEMMA BookStepInv ==
  ASSUME BookInv, [BookNext]_bookVars
  PROVE  BookInv'
<1>1. HeapInv'  BY BookTypes, BookHeapStep, HeapStepInv
<1>2. CASE BookNext
  <2> SUFFICES Own'  BY <1>1 DEF Own, BookInv
  <2>1. CASE \E e \in Elem, k \in LiveKey, old \in {{}} \cup {{x} : x \in Live} :
               Complete(e, k, old)
    BY <1>1, <2>1, CompleteStep
  <2>2. CASE \/ \E e \in Elem, k \in LiveKey : Reprice(e, k)
             \/ \E e \in Elem : Touch(e)
             \/ Murder
    BY <1>1, <2>2, UserStep
  <2>3. CASE HeapStep /\ UNCHANGED ownVars  BY <1>1, <2>3, HeapOnlyStep
  <2>4. CASE TakeRoot  BY <1>1, <2>4, TakeRootStep
  <2>5. CASE \E n \in popped : Refile(n) \/ Settle(n)
    BY <1>1, <2>5, RefileStep, SettleStep
  <2>6. CASE Fill  BY <1>1, <2>6, FillStep
  <2>7. CASE \E n \in victim : EvictVictim(n)  BY <1>1, <2>7, EvictStep
  <2> QED
    BY <1>2, <2>1, <2>2, <2>3, <2>4, <2>5, <2>6, <2>7 DEF BookNext, LibraryStep
<1>3. CASE UNCHANGED bookVars
  <2>1. /\ arr' = arr /\ size' = size /\ index' = index /\ popped' = popped
        /\ waiting' = waiting /\ life' = life /\ cost' = cost
        /\ phase' = phase /\ victim' = victim
    BY <1>3 DEF bookVars, heapVars, ownVars
  <2>2. /\ HeapIds' = HeapIds /\ WaitingIds' = WaitingIds /\ HandIds' = HandIds
        /\ Live' = Live
    BY <2>1 DEF HeapIds, WaitingIds, HandIds, Live, Slot
  <2>3. OwnTypeOK'  BY <2>1, BookTypes DEF OwnTypeOK
  <2>4. NeverEmptyHanded'  BY <2>1, BookTypes DEF NeverEmptyHanded
  <2>5. OneEntry'  BY <1>1, <2>1, <2>2, BookTypes, UniqueSlots DEF OneEntry
  <2>6. FreshIndex'  BY <2>1, <2>2, BookTypes DEF FreshIndex
  <2> QED  BY <1>1, <2>3, <2>4, <2>5, <2>6 DEF BookInv
<1> QED  BY <1>2, <1>3

\* A live context's index is its own slot, or none while it waits.
LEMMA InvTouchHits == BookInv => TouchHits
<1> SUFFICES ASSUME BookInv, InUser, NEW e \in Live
             PROVE  IF index[e] = None
                    THEN e \in WaitingIds
                    ELSE index[e] \in Slot /\ arr[index[e]].id = e
  BY DEF TouchHits
<1> USE BookTypes
<1>1. dirty = {}  BY DEF BookInv, HeapInv, DirtyOK, InUser
<1>2. \A i \in Slot : index[arr[i].id] = i  BY <1>1 DEF IndexRight
<1>3. HandIds = {}  BY DEF HandIds, InUser, OwnTypeOK
<1>4. e \in Elem  BY DEF Live
<1>5. e \in HeapIds \cup WaitingIds  BY <1>3 DEF OneEntry
<1>6. CASE e \in WaitingIds
  <2>1. index[e] = None  BY <1>4, <1>6 DEF FreshIndex
  <2> QED  BY <1>6, <2>1
<1>7. CASE e \in HeapIds
  <2>1. PICK i \in Slot : arr[i].id = e  BY <1>7 DEF HeapIds
  <2>2. index[e] = i  BY <1>2, <2>1
  <2>3. i # None  BY DEF Slot, None
  <2> QED  BY <2>1, <2>2, <2>3
<1> QED  BY <1>5, <1>6, <1>7

\* The book's invariant holds in every behaviour.
LEMMA BookInvAlways == BookSpec => []BookInv
<1>1. BookInit => BookInv  BY BookInitInv
<1>2. BookInv /\ [BookNext]_bookVars => BookInv'  BY BookStepInv
<1> QED  BY <1>1, <1>2, PTL DEF BookSpec

\* Whatever GDHeap and Reaper do to the heap are calls of MinHeap's operations,
\* so that all that is proved of HeapSpec holds of the heap in the book.
THEOREM BookUsesHeap == BookSpec => HeapSpec
<1>1. BookInit => HeapInit  BY DEF BookInit
<1>2. BookInv /\ [BookNext]_bookVars => [HeapNext]_heapVars
  BY BookHeapStep DEF BookInv
<1> QED  BY <1>1, <1>2, BookInvAlways, PTL DEF BookSpec, HeapSpec

\* Every variable of the book keeps its type (GDHeap, Reaper).
THEOREM BookTypeCorrect == BookSpec => []BookTypeOK
<1>1. BookInv => BookTypeOK  BY DEF BookInv, HeapInv, OwnTypeOK, BookTypeOK
<1> QED  BY <1>1, BookInvAlways, PTL

\* Reaper::murder's assertion on the book implies adjust_pop's on the heap, at
\* every turn of its loop.
THEOREM NeverEmptyAlways == BookSpec => []NeverEmptyHanded
<1>1. BookInv => NeverEmptyHanded  BY DEF BookInv
<1> QED  BY <1>1, BookInvAlways, PTL

\* Every live context has its one entry, in one place: readjust and adjust_pop
\* lose none and file none twice.
THEOREM OneEntryAlways == BookSpec => []OneEntry
<1>1. BookInv => OneEntry  BY DEF BookInv
<1> QED  BY <1>1, BookInvAlways, PTL

\* FullContextNode::accessed touches its own entry, whatever has been popped,
\* filed again or moved since pool_index was set.
THEOREM TouchAlwaysHits == BookSpec => []TouchHits
<1> QED  BY InvTouchHits, BookInvAlways, PTL

(***************************************************************************)
(* What is taken is cheapest                                               *)
(***************************************************************************)

\* The entry in adjust_pop's hand costs no more than any left in the heap.
HandLeast ==
  phase = "weigh" => \A n \in popped : \A i \in Slot : n.key =< arr[i].key

\* What the reaper holds stays least while it weighs it.
LEMMA HandLeastStep ==
  ASSUME BookInv, BookInv', HandLeast, [BookNext]_bookVars
  PROVE  HandLeast'
<1> USE BookTypes
<1> SUFFICES ASSUME phase' = "weigh", NEW n \in popped', NEW x \in Contents'
             PROVE  n.key =< x.key
  BY DEF HandLeast, Contents
<1>1. CASE TakeRoot
  <2>1. Pop /\ Idle  BY <1>1 DEF TakeRoot, Pop, HeapRemove
  <2>2. n = arr[0] /\ HeapRemove(0) /\ 0 \in Slot
    BY <2>1 DEF Pop, HeapRemove, HasValue
  <2>3. x \in Contents  BY <2>2, RemoveContents
  <2>4. PICK i \in Slot : x = arr[i]  BY <2>3 DEF Contents
  <2>5. HeapOrder  BY DEF BookInv, HeapInv
  <2> QED  BY <2>1, <2>2, <2>4, <2>5, RootLeast
<1>2. CASE phase = "weigh" /\ popped' = popped /\ Contents' = Contents
  BY <1>2 DEF HandLeast, Contents
<1>3. CASE HeapStep /\ UNCHANGED ownVars
  BY <1>2, <1>3, StepIds DEF ownVars
<1>4. CASE UNCHANGED bookVars
  BY <1>2, <1>4 DEF bookVars, heapVars, ownVars, Contents, Slot
<1>5. ASSUME \/ \E e \in Elem, k \in LiveKey, old \in {{}} \cup {{y} : y \in Live} :
                  Complete(e, k, old)
             \/ \E e \in Elem, k \in LiveKey : Reprice(e, k)
             \/ \E e \in Elem : Touch(e)
             \/ Murder
             \/ \E y \in popped : Refile(y) \/ Settle(y)
             \/ Fill
             \/ \E y \in victim : EvictVictim(y)
      PROVE  FALSE
  BY <1>5 DEF Complete, Reprice, Touch, Murder, Refile, Settle, Fill, EvictVictim,
              InUser, ownVars
<1> QED  BY <1>1, <1>3, <1>4, <1>5 DEF BookNext, LibraryStep

\* What adjust_pop decides to return costs what it is filed under, and nothing
\* in the heap is filed under less.
THEOREM CheapestAlwaysTaken == BookSpec => CheapestTaken
<1>1. BookInit => HandLeast  BY DEF BookInit, HandLeast
<1>2. BookInv /\ BookInv' /\ HandLeast /\ [BookNext]_bookVars => HandLeast'
  BY HandLeastStep
<1>3. BookInv /\ HandLeast /\ [BookNext]_bookVars =>
        [victim = {} /\ victim' # {} =>
           \A n \in victim' : /\ n.key = CostNow(n.id)
                              /\ \A i \in Slot : n.key =< arr[i].key]_bookVars
  <2> SUFFICES ASSUME BookInv, HandLeast, BookNext, victim = {}, victim' # {},
                      NEW n \in victim'
               PROVE  n.key = CostNow(n.id) /\ \A i \in Slot : n.key =< arr[i].key
    OBVIOUS
  <2>1. \E y \in popped : Settle(y)
    BY DEF BookNext, Complete, Reprice, Touch, Murder, LibraryStep, TakeRoot,
           Refile, Fill, EvictVictim, ownVars
  <2>2. Settle(n) /\ n \in popped  BY <2>1 DEF Settle
  <2> QED  BY <2>2 DEF Settle, HandLeast
<1> QED  BY <1>1, <1>2, <1>3, BookInvAlways, PTL DEF BookSpec, CheapestTaken
=============================================================================
