----------------------------- MODULE SplayList ------------------------------
(***************************************************************************)
(* SplayList of splay_list.hpp, which keeps the contexts: a splay tree     *)
(* whose nodes are also linked in the order of their keys.  Every find     *)
(* turns the tree.  One step is one turn of a loop (of the search, of      *)
(* splay, of max_node and min_node) or one rotation.                       *)
(*                                                                         *)
(* A node is named by its key; a pointer is a key or nullptr.              *)
(***************************************************************************)
EXTENDS Integers, FiniteSets

CONSTANTS MaxKey,    \* bound: keys are 0..MaxKey
          Value

ASSUME MaxKeyAssumption == MaxKey \in Nat

VARIABLES
  v,                \* the nodes there are, with their values
  parent,           \* the node before, in the list
  children,         \* the node after
  splay_parent,     \* the links of the tree
  splay_children,
  root_node,
  size,
  call,             \* the call that runs
  stage,            \* which of its loops
  ptr, last,        \* its local variables
  victim,           \* the node remove has cut out, while two trees are joined
  answer            \* what the last call returned

listVars  == <<parent, children>>
treeVars  == <<splay_parent, splay_children, root_node>>
localVars == <<call, stage, ptr, last, victim>>
splayVars == <<v, listVars, treeVars, size, localVars, answer>>

nullptr == -1
Key     == 0..MaxKey
Pointer == Key \cup {nullptr}
Nodes   == DOMAIN v

Ops   == {"insert", "le", "precise", "remove_le", "remove_precise"}
NoArg == CHOOSE x \in Value : TRUE
Calls == [op : Ops \ {"insert"}, k : Key, x : {NoArg}]
           \cup [op : {"insert"}, k : Key, x : Value]

NoCall == [op |-> "none", k |-> 0, x |-> NoArg]
Idle   == call.op = "none"

Left(n)  == splay_children[n][0]
Right(n) == splay_children[n][1]
Leaf     == [i \in 0..1 |-> nullptr]

SplayInit ==
  /\ v = [k \in {} |-> NoArg]
  /\ parent = [k \in Key |-> nullptr]
  /\ children = [k \in Key |-> nullptr]
  /\ splay_parent = [k \in Key |-> nullptr]
  /\ splay_children = [k \in Key |-> Leaf]
  /\ root_node = nullptr
  /\ size = 0
  /\ call = NoCall
  /\ stage = "idle"
  /\ ptr = nullptr /\ last = nullptr /\ victim = nullptr
  /\ answer = nullptr

Return ==
  /\ call' = NoCall
  /\ stage' = "idle"
  /\ ptr' = nullptr /\ last' = nullptr /\ victim' = nullptr

Begin(c) ==
  /\ Idle
  /\ call' = c
  /\ stage' = "search"
  /\ ptr' = root_node
  /\ last' = nullptr
  /\ answer' = nullptr
  /\ UNCHANGED <<v, listVars, treeVars, size, victim>>

(***************************************************************************)
(* find_node_without_splay                                                 *)
(***************************************************************************)
Descend ==
  /\ stage = "search"
  /\ ptr # nullptr /\ ptr # call.k
  /\ last' = ptr
  /\ ptr' = splay_children[ptr][IF call.k < ptr THEN 0 ELSE 1]
  /\ UNCHANGED <<v, listVars, treeVars, size, call, stage, victim, answer>>

Landed == stage = "search" /\ (ptr = nullptr \/ ptr = call.k)

\* What the search returns: the node of key k, or the last on the way.
Found == IF ptr # nullptr THEN ptr ELSE last

\* What is found is splayed.
SplayFound ==
  /\ ptr' = Found
  /\ last' = nullptr
  /\ stage' = "splay"

(***************************************************************************)
(* insert                                                                  *)
(***************************************************************************)

\* The call has taken effect; only its splay is left.
Settling == call' = [call EXCEPT !.op = "settle"]

\* Mutant of NodeAt: the list is not told where a new least node goes.
NodeAtOneSided(k, before, after) ==
  /\ parent' = [parent EXCEPT ![k] = before]
  /\ children' = [n \in Key |-> IF n = k THEN after
                                ELSE IF n = before THEN k ELSE children[n]]

\* The constructor of Node links the new node between two of the list.
NodeAt(k, before, after) ==
  /\ parent' = [n \in Key |-> IF n = k THEN before
                              ELSE IF n = after THEN k ELSE parent[n]]
  /\ children' = [n \in Key |-> IF n = k THEN after
                                ELSE IF n = before THEN k ELSE children[n]]

\* The value of node k, there or not yet there, is x.
SetValue(k, x) == v' = [n \in Nodes \cup {k} |-> IF n = k THEN x ELSE v[n]]

InsertFirst ==
  /\ Landed /\ call.op = "insert"
  /\ Found = nullptr
  /\ SetValue(call.k, call.x)
  /\ NodeAt(call.k, nullptr, nullptr)
  /\ root_node' = call.k
  /\ size' = size + 1
  /\ Return
  /\ UNCHANGED <<splay_parent, splay_children, answer>>

\* A new leaf; what is splayed is the node it hangs from.
InsertLeaf ==
  /\ Landed /\ call.op = "insert"
  /\ Found \notin {nullptr, call.k}
  /\ SetValue(call.k, call.x)
  /\ IF Found < call.k THEN NodeAt(call.k, Found, children[Found])
                       ELSE NodeAt(call.k, parent[Found], Found)
  /\ splay_parent' = [splay_parent EXCEPT ![call.k] = Found]
  /\ splay_children' =
       [splay_children EXCEPT ![Found][IF Found < call.k THEN 1 ELSE 0] = call.k]
  /\ size' = size + 1
  /\ SplayFound
  /\ Settling
  /\ UNCHANGED <<root_node, victim, answer>>

InsertOver ==
  /\ Landed /\ call.op = "insert"
  /\ Found = call.k
  /\ SetValue(call.k, call.x)
  /\ SplayFound
  /\ Settling
  /\ UNCHANGED <<listVars, treeVars, size, victim, answer>>

(***************************************************************************)
(* splay                                                                   *)
(***************************************************************************)
idx_at_parent(n) == IF Left(splay_parent[n]) = n THEN 0 ELSE 1

\* The subtree between n and its parent, which changes sides when n is rotated.
Inner(n) == splay_children[n][1 - idx_at_parent(n)]

\* Mutant of ParentsTurned: the subtree that changes sides is not told.
ParentsUntold(n) ==
  [splay_parent EXCEPT ![n] = splay_parent[splay_parent[n]], ![splay_parent[n]] = n]

\* Mutant of ParentsTurned: the new root keeps its parent.
ParentsKept(n) ==
  [m \in Key |-> IF m = n /\ splay_parent[splay_parent[n]] # nullptr
                 THEN splay_parent[splay_parent[n]]
                 ELSE IF m = splay_parent[n] THEN n
                 ELSE IF m = Inner(n) THEN splay_parent[n]
                 ELSE splay_parent[m]]

ParentsTurned(n) ==
  [m \in Key |-> IF m = n THEN splay_parent[splay_parent[n]]
                 ELSE IF m = splay_parent[n] THEN n
                 ELSE IF m = Inner(n) THEN splay_parent[n]
                 ELSE splay_parent[m]]

\* rotate: n changes places with its parent p.  The pointer to the root of the
\* tree is root_node, or the right child of the node that is being removed.
Rotate(n) ==
  LET p == splay_parent[n]
      g == splay_parent[p]
      i == idx_at_parent(n)
      turned == [splay_children EXCEPT ![p][i] = Inner(n), ![n][1 - i] = p]
  IN  /\ splay_parent' = ParentsTurned(n)
      /\ splay_children' =
           IF g # nullptr THEN [turned EXCEPT ![g][idx_at_parent(p)] = n]
           ELSE IF victim # nullptr THEN [turned EXCEPT ![victim][1] = n]
           ELSE turned
      /\ root_node' = IF g = nullptr /\ victim = nullptr THEN n ELSE root_node

AtTop == splay_parent[ptr] = nullptr

\* The first rotation of one turn of the loop, or its only one.
SplayTurn ==
  /\ stage = "splay" /\ ~AtTop
  /\ LET p == splay_parent[ptr]
     IN  IF splay_parent[p] = nullptr
         THEN Rotate(ptr) /\ UNCHANGED stage
         ELSE /\ Rotate(IF idx_at_parent(ptr) = idx_at_parent(p) THEN p ELSE ptr)
              /\ stage' = "splay second"
  /\ UNCHANGED <<v, listVars, size, call, ptr, last, victim, answer>>

SplaySecond ==
  /\ stage = "splay second"
  /\ Rotate(ptr)
  /\ stage' = "splay"
  /\ UNCHANGED <<v, listVars, size, call, ptr, last, victim, answer>>

\* The loop is over: assert(this == root_node).
Splayed == stage = "splay" /\ AtTop /\ victim = nullptr

InsertDone ==
  /\ Splayed /\ call.op = "settle"
  /\ Return
  /\ UNCHANGED <<v, listVars, treeVars, size, answer>>

(***************************************************************************)
(* find_node, find_le_node, find_precise_node                              *)
(***************************************************************************)
Seeks   == call.op \in {"le", "precise", "remove_le", "remove_precise"}
Removes == call.op \in {"remove_le", "remove_precise", "remove max"}

FindSplay ==
  /\ Landed /\ Seeks
  /\ Found # nullptr
  /\ SplayFound
  /\ UNCHANGED <<v, listVars, treeVars, size, call, victim, answer>>

\* The call ends without a node.
Missed ==
  /\ IF Removes THEN UNCHANGED answer ELSE answer' = nullptr
  /\ Return
  /\ UNCHANGED <<v, listVars, treeVars, size>>

FindEmpty == Landed /\ Seeks /\ Found = nullptr /\ Missed

\* find_le_node has splayed a node greater than the key, and nothing is less.
NothingLess ==
  /\ Splayed /\ call.op \in {"le", "remove_le"}
  /\ ptr > call.k
  /\ Left(ptr) = nullptr
  /\ Missed

OtherKey ==
  /\ Splayed /\ call.op \in {"precise", "remove_precise"}
  /\ ptr # call.k
  /\ Missed

\* It has splayed a node greater than the key: the one before is wanted.
SeekMax ==
  /\ Splayed /\ call.op \in {"le", "remove_le"}
  /\ ptr > call.k
  /\ Left(ptr) # nullptr
  /\ ptr' = Left(ptr)
  /\ stage' = "max"
  /\ call' = [call EXCEPT !.op = IF call.op = "le" THEN "max" ELSE "remove max"]
  /\ UNCHANGED <<v, listVars, treeVars, size, last, victim, answer>>

\* Mutant of MaxTurn: the left child is taken for the greatest below.
MaxTurnNot ==
  /\ stage = "max"
  /\ stage' = "splay" /\ UNCHANGED ptr
  /\ UNCHANGED <<v, listVars, treeVars, size, call, last, victim, answer>>

\* max_node
MaxTurn ==
  /\ stage = "max"
  /\ IF Right(ptr) # nullptr
     THEN ptr' = Right(ptr) /\ UNCHANGED stage
     ELSE stage' = "splay" /\ UNCHANGED ptr
  /\ UNCHANGED <<v, listVars, treeVars, size, call, last, victim, answer>>

\* ptr is the node that was sought.
Hit ==
  /\ Splayed
  /\ \/ call.op \in {"le", "remove_le"} /\ ptr =< call.k
     \/ call.op \in {"precise", "remove_precise"} /\ ptr = call.k
     \/ call.op \in {"max", "remove max"}

FindHit ==
  /\ Hit /\ ~Removes
  /\ answer' = ptr
  /\ Return
  /\ UNCHANGED <<v, listVars, treeVars, size>>

(***************************************************************************)
(* remove_le, remove_precise, Node::remove                                 *)
(***************************************************************************)

\* Mutant of Delete: size is not told.
DeleteUncounted(n) == v' = [m \in Nodes \ {n} |-> v[m]] /\ UNCHANGED size

\* Node n is deleted.
Delete(n) ==
  /\ v' = [m \in Nodes \ {n} |-> v[m]]
  /\ size' = size - 1

\* The node before n and the one after become neighbours.
Unlink(n) ==
  /\ parent' = [m \in Key |-> IF m = n THEN nullptr
                              ELSE IF m = children[n] THEN parent[n] ELSE parent[m]]
  /\ children' = [m \in Key |-> IF m = n THEN nullptr
                                ELSE IF m = parent[n] THEN children[n] ELSE children[m]]

\* One subtree is empty: the other one is the tree.
RemoveOneSided ==
  /\ Hit /\ Removes
  /\ Left(ptr) = nullptr \/ Right(ptr) = nullptr
  /\ Unlink(ptr)
  /\ LET rest == IF Left(ptr) = nullptr THEN Right(ptr) ELSE Left(ptr)
     IN  /\ root_node' = rest
         /\ splay_parent' = [m \in Key |-> IF m = rest THEN nullptr ELSE splay_parent[m]]
  /\ splay_children' = [splay_children EXCEPT ![ptr] = Leaf]
  /\ Delete(ptr)
  /\ Return
  /\ UNCHANGED answer

\* Mutant of RemoveTwoSided: the right subtree's root is taken for its least.
RemoveNoMin ==
  /\ Hit /\ Removes
  /\ Left(ptr) # nullptr /\ Right(ptr) # nullptr
  /\ Unlink(ptr)
  /\ victim' = ptr
  /\ ptr' = Right(ptr)
  /\ stage' = "splay"
  /\ splay_parent' = [splay_parent EXCEPT ![Right(ptr)] = nullptr]
  /\ UNCHANGED <<v, splay_children, root_node, size, call, last, answer>>

\* The right subtree is cut off, and its least node sought.
RemoveTwoSided ==
  /\ Hit /\ Removes
  /\ Left(ptr) # nullptr /\ Right(ptr) # nullptr
  /\ Unlink(ptr)
  /\ victim' = ptr
  /\ ptr' = Right(ptr)
  /\ stage' = "min"
  /\ splay_parent' = [splay_parent EXCEPT ![Right(ptr)] = nullptr]
  /\ UNCHANGED <<v, splay_children, root_node, size, call, last, answer>>

\* min_node
MinTurn ==
  /\ stage = "min"
  /\ IF Left(ptr) # nullptr
     THEN ptr' = Left(ptr) /\ UNCHANGED stage
     ELSE stage' = "splay" /\ UNCHANGED ptr
  /\ UNCHANGED <<v, listVars, treeVars, size, call, last, victim, answer>>

\* The least node is the root of the right subtree and takes the left one.
Join ==
  /\ stage = "splay" /\ AtTop
  /\ victim # nullptr
  /\ LET top == Right(victim)
     IN  /\ root_node' = top
         /\ splay_parent' = [splay_parent EXCEPT ![Left(victim)] = top]
         /\ splay_children' = [splay_children EXCEPT ![top][0] = Left(victim),
                                                     ![victim] = Leaf]
  /\ Delete(victim)
  /\ Return
  /\ UNCHANGED <<listVars, answer>>

(***************************************************************************)
(* Specification                                                           *)
(***************************************************************************)
CallStep ==
  \/ Descend \/ InsertFirst \/ InsertLeaf \/ InsertOver
  \/ SplayTurn \/ SplaySecond \/ InsertDone
  \/ FindSplay \/ FindEmpty \/ NothingLess \/ OtherKey
  \/ SeekMax \/ MaxTurn \/ FindHit
  \/ RemoveOneSided \/ RemoveTwoSided \/ MinTurn \/ Join

SplayNext == CallStep \/ \E c \in Calls : Begin(c)

SplaySpec == SplayInit /\ [][SplayNext]_splayVars

\* A call runs to its end.
FairSplaySpec == SplaySpec /\ WF_splayVars(CallStep)

(***************************************************************************)
(* Properties                                                              *)
(***************************************************************************)

\* Every variable has its type, and size counts the nodes (SplayList).
SplayTypeOK ==
  /\ Nodes \subseteq Key /\ v \in [Nodes -> Value]
  /\ parent \in [Key -> Pointer] /\ children \in [Key -> Pointer]
  /\ splay_parent \in [Key -> Pointer]
  /\ splay_children \in [Key -> [0..1 -> Pointer]]
  /\ root_node \in Pointer
  /\ size = Cardinality(Nodes)
  /\ ptr \in Pointer /\ last \in Pointer
  /\ victim \in Nodes \cup {nullptr}
  /\ answer \in Pointer

\* The list's nodes: all, but the one that is being removed.
Listed == Nodes \ {victim}

\* Each node's parent is the node with the next smaller key and its children
\* the one with the next greater: the engine takes the parent of a node for the
\* context before it (EZombie::shared_ptr, FullContextNode::evict).
ListInOrder ==
  \A n \in Listed :
    /\ IF parent[n] = nullptr THEN \A m \in Listed : m >= n
       ELSE /\ parent[n] \in Listed /\ parent[n] < n
            /\ \A m \in Listed : m < n => m =< parent[n]
    /\ IF children[n] = nullptr THEN \A m \in Listed : m =< n
       ELSE /\ children[n] \in Listed /\ children[n] > n
            /\ \A m \in Listed : m > n => m >= children[n]

\* A node's children in the tree point back at it, and only they; the root
\* points nowhere, nor does the root of a subtree that has been cut off.
LinksAgree ==
  /\ \A n \in Nodes, i \in 0..1 :
       LET c == splay_children[n][i]
       IN  c # nullptr =>
             /\ c \in Nodes
             /\ splay_parent[c] = (IF n = victim /\ i = 1 THEN nullptr ELSE n)
  /\ \A n \in Nodes :
       LET p == splay_parent[n]
       IN  IF p # nullptr THEN n \in {Left(p), Right(p)}
           ELSE n = root_node \/ (victim # nullptr /\ n = Right(victim))

\* Where the search for k is after n steps.
Path(k) ==
  LET at[n \in Nat] ==
        IF n = 0 THEN root_node
        ELSE IF at[n - 1] \in {nullptr, k} THEN at[n - 1]
        ELSE splay_children[at[n - 1]][IF k < at[n - 1] THEN 0 ELSE 1]
  IN  at

\* The search for any node's key reaches it, after every rotation: the tree is
\* in order, and in one piece (find_node_without_splay).
SearchFinds == \A k \in Nodes : Path(k)[Cardinality(Nodes)] = k

\* Every call returns: splay brings its node up at every turn.
CallsReturn == []<>Idle
=============================================================================
