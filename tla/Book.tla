-------------------------------- MODULE Book --------------------------------
(***************************************************************************)
(* Trailokya's book and its reaper: the GDHeap of gd_heap.hpp, which keeps *)
(* a cost for every context, and Reaper::murder, which takes the cheapest  *)
(* out.  New contexts wait in a vector until enough of them wait; the cost *)
(* an entry was filed under may be out of date, and is looked up again     *)
(* when the entry is popped.                                               *)
(*                                                                         *)
(* An element of the heap is the RecomputeLater of one context, a weak     *)
(* pointer; index[e] is that context's pool_index.                         *)
(***************************************************************************)
EXTENDS MinHeap, Sequences

VARIABLES
  waiting,   \* GDHeap::waiting
  life,      \* context -> "unborn", "live" or "gone"
  cost,      \* context -> what FullContextNode::cost() would return
  phase,     \* what runs: user code, or a part of push or murder
  victim     \* what adjust_pop returned, until it has been evicted

ownVars  == <<waiting, life, cost, phase, victim>>
bookVars == <<heapVars, ownVars>>

Live == {e \in Elem : life[e] = "live"}

\* A live context costs something: the time of its own step.
LiveKey == Key \ {0}

BookInit ==
  /\ HeapInit
  /\ waiting = <<>>
  /\ life = [e \in Elem |-> "unborn"]
  /\ cost = [e \in Elem |-> 0]
  /\ phase = "user"
  /\ victim = {}

\* readjust: many wait, relative to the heap.
TooMany(n) == n * n > size

\* RecomputeLater::cost: an expired weak pointer costs nothing.
CostNow(e) == IF life[e] = "live" THEN cost[e] ELSE 0

InUser == phase = "user" /\ Idle

(***************************************************************************)
(* The engine and the user                                                 *)
(***************************************************************************)

\* HeadRecordNode::completed: a context enters the book.  It may take the place
\* of the one that began at the same tock, whose entry stays behind.
Complete(e, k, old) ==
  /\ InUser
  /\ life[e] = "unborn"
  /\ life' = [x \in Elem |-> IF x = e THEN "live"
                             ELSE IF x \in old THEN "gone" ELSE life[x]]
  /\ cost' = [cost EXCEPT ![e] = k]
  /\ waiting' = Append(waiting, [id |-> e, key |-> k])
  /\ phase' = IF TooMany(Len(waiting) + 1) THEN "fill" ELSE "user"
  /\ UNCHANGED <<heapVars, victim>>

\* Other contexts are evicted or made again: a context's neighbourhood costs
\* more, or less.
Reprice(e, k) ==
  /\ InUser
  /\ life[e] = "live"
  /\ cost' = [cost EXCEPT ![e] = k]
  /\ UNCHANGED <<heapVars, waiting, life, phase, victim>>

\* FullContextNode::accessed, GDHeap::touch.  L is 0, so the key stays.
Touch(e) ==
  /\ InUser
  /\ life[e] = "live"
  /\ index[e] # None
  /\ Rekey(index[e], arr[index[e]].key)
  /\ UNCHANGED ownVars

(***************************************************************************)
(* Reaper::murder and GDHeap::adjust_pop                                   *)
(***************************************************************************)

\* Reaper::have_soul returns book.empty(), which is heap.empty().
have_soul == size = 0

\* murder: assert(book.size() > 0).
Murder ==
  /\ InUser
  /\ size + Len(waiting) > 0
  /\ phase' = "reap"
  /\ UNCHANGED <<heapVars, waiting, life, cost, victim>>

\* The top of adjust_pop's loop: assert(!heap.empty()).
TakeRoot ==
  /\ phase = "reap"
  /\ Pop
  /\ phase' = "weigh"
  /\ UNCHANGED <<waiting, life, cost, victim>>

\* Mutant of Refile: the entry goes back under its old cost.
RefileOld(n) ==
  /\ phase = "weigh"
  /\ n.key # CostNow(n.id)
  /\ HeapPush(n.id, n.key)
  /\ phase' = "reap"
  /\ UNCHANGED <<waiting, life, cost, victim>>

\* The cost has changed: the entry goes back under the new one.
Refile(n) ==
  /\ phase = "weigh"
  /\ n.key # CostNow(n.id)
  /\ HeapPush(n.id, CostNow(n.id))
  /\ phase' = "reap"
  /\ UNCHANGED <<waiting, life, cost, victim>>

\* Mutant of Settle: an entry is taken whatever it costs now.
SettleStale(n) ==
  /\ phase = "weigh"
  /\ Idle
  /\ victim' = {n}
  /\ phase' = IF TooMany(Len(waiting)) THEN "fill" ELSE "evict"
  /\ UNCHANGED <<heapVars, waiting, life, cost>>

\* Mutant of Settle: readjust is not called.
SettleOnly(n) ==
  /\ phase = "weigh"
  /\ Idle
  /\ n.key = CostNow(n.id)
  /\ victim' = {n}
  /\ phase' = "evict"
  /\ UNCHANGED <<heapVars, waiting, life, cost>>

\* The cost is still right: adjust_pop readjusts and returns the entry.
Settle(n) ==
  /\ phase = "weigh"
  /\ Idle
  /\ n.key = CostNow(n.id)
  /\ victim' = {n}
  /\ phase' = IF TooMany(Len(waiting)) THEN "fill" ELSE "evict"
  /\ UNCHANGED <<heapVars, waiting, life, cost>>

\* Mutant of Fill: waiting is not cleared of what has moved.
FillKeep ==
  /\ phase = "fill"
  /\ waiting # <<>>
  /\ HeapPush(Head(waiting).id, Head(waiting).key)
  /\ phase' = IF Len(waiting) = 1 /\ victim = {} THEN "user"
              ELSE IF Len(waiting) = 1 THEN "evict" ELSE "fill"
  /\ waiting' = IF Len(waiting) = 1 THEN waiting ELSE Tail(waiting)
  /\ UNCHANGED <<life, cost, victim>>

\* readjust's loop: what waits moves to the heap, and readjust returns to push
\* or to adjust_pop.
Fill ==
  /\ phase = "fill"
  /\ waiting # <<>>
  /\ HeapPush(Head(waiting).id, Head(waiting).key)
  /\ phase' = IF Len(waiting) > 1 THEN "fill"
              ELSE IF victim = {} THEN "user" ELSE "evict"
  /\ waiting' = Tail(waiting)
  /\ UNCHANGED <<life, cost, victim>>

\* RecomputeLater::evict: the context leaves akasha, if it is still there.
EvictVictim(n) ==
  /\ phase = "evict"
  /\ Idle
  /\ life' = [life EXCEPT ![n.id] = "gone"]
  /\ victim' = {}
  /\ phase' = "user"
  /\ UNCHANGED <<heapVars, waiting, cost>>

LibraryStep ==
  \/ HeapStep /\ UNCHANGED ownVars
  \/ TakeRoot
  \/ \E n \in popped : Refile(n) \/ Settle(n)
  \/ Fill
  \/ \E n \in victim : EvictVictim(n)

BookNext ==
  \/ \E e \in Elem, k \in LiveKey, old \in {{}} \cup {{x} : x \in Live} :
       Complete(e, k, old)
  \/ \E e \in Elem, k \in LiveKey : Reprice(e, k)
  \/ \E e \in Elem : Touch(e)
  \/ Murder
  \/ LibraryStep

BookSpec == BookInit /\ [][BookNext]_bookVars

\* push and murder run to their end before user code goes on.
FairBookSpec == BookSpec /\ WF_bookVars(LibraryStep)

(***************************************************************************)
(* Properties                                                              *)
(***************************************************************************)

\* Every variable has its type (GDHeap, Reaper).
BookTypeOK ==
  /\ HeapTypeOK
  /\ waiting \in Seq(Entry)
  /\ life \in [Elem -> {"unborn", "live", "gone"}]
  /\ cost \in [Elem -> Key]
  /\ phase \in {"user", "reap", "weigh", "fill", "evict"}
  /\ victim \in SUBSET Entry

\* Contexts wait only while the heap is much bigger than their number: when
\* user code runs, an empty heap is an empty book, so murder's assertion on the
\* book is enough for adjust_pop's on the heap, at every turn of its loop
\* (GDHeap::readjust, adjust_pop, Reaper::murder).
NeverEmptyHanded ==
  /\ phase \in {"user", "evict"} => Len(waiting) * Len(waiting) =< size
  /\ phase = "reap" => size > 0

\* Whose entries are where.
HeapIds    == {arr[i].id : i \in Slot}
WaitingIds == {waiting[j].id : j \in DOMAIN waiting}
HandIds    == {n.id : n \in (IF phase = "weigh" THEN popped ELSE victim)}

\* Every live context has one entry, in the heap, among those that wait or in
\* the reaper's hand: none is out of the reaper's reach for ever, and none is
\* evicted twice (GDHeap::push, readjust, adjust_pop).
OneEntry ==
  /\ Live \subseteq HeapIds \cup WaitingIds \cup HandIds
  /\ HeapIds \cap WaitingIds = {}
  /\ HeapIds \cap HandIds = {}
  /\ WaitingIds \cap HandIds = {}
  /\ \A i, j \in Slot : arr[i].id = arr[j].id => i = j
  /\ \A i, j \in DOMAIN waiting : waiting[i].id = waiting[j].id => i = j

\* While user code runs, a live context's pool_index is -1 exactly while it
\* waits, and its slot otherwise: touch never reaches another context's entry
\* or beyond the heap, though pool_index is not reset when an entry is popped
\* (FullContextNode::accessed, GDHeap::touch).
TouchHits ==
  InUser =>
    \A e \in Live : IF index[e] = None
                    THEN e \in WaitingIds
                    ELSE index[e] \in Slot /\ arr[index[e]].id = e

\* What adjust_pop decides to return is filed under what it costs now, and
\* nothing in the heap is filed under less.
CheapestTaken ==
  [][victim = {} /\ victim' # {} =>
       \A n \in victim' : /\ n.key = CostNow(n.id)
                          /\ \A i \in Slot : n.key =< arr[i].key]_bookVars

\* murder returns: every entry is filed anew at most once before one is taken
\* (GDHeap::adjust_pop's while (true)).
MurderReturns == phase = "reap" ~> phase = "user"
=============================================================================
