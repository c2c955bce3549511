--------------------------- MODULE PriorityQueue ---------------------------
(***************************************************************************)
(* What a MinHeap promises: a set of entries, of which pop returns one     *)
(* with the least key.  There is no array here, and no order of entries    *)
(* but that of their keys.                                                 *)
(***************************************************************************)
EXTENDS Integers

CONSTANTS Elem, Key

VARIABLES queue,    \* the entries: elements with their keys
          popped    \* the entries pop returned last: one, or none yet

queueVars == <<queue, popped>>

QueueInit == queue = {} /\ popped = {}

Enter(x) ==
  /\ \A y \in queue : y.id # x.id
  /\ queue' = queue \cup {x}
  /\ UNCHANGED popped

Withdraw(x) ==
  /\ queue' = queue \ {x}
  /\ UNCHANGED popped

\* An entry's key is changed.
Change(x, k) ==
  /\ queue' = (queue \ {x}) \cup {[id |-> x.id, key |-> k]}
  /\ UNCHANGED popped

TakeLeast(x) ==
  /\ \A y \in queue : x.key =< y.key
  /\ queue' = queue \ {x}
  /\ popped' = {x}

QueueNext ==
  \/ \E e \in Elem, k \in Key : Enter([id |-> e, key |-> k])
  \/ \E x \in queue : \/ Withdraw(x)
                      \/ TakeLeast(x)
                      \/ \E k \in Key : Change(x, k)

QueueSpec == QueueInit /\ [][QueueNext]_queueVars
=============================================================================
