----------------------------- MODULE SplayProof -----------------------------
(***************************************************************************)
(* Proofs about the SplayList, for every set of keys and values and every  *)
(* sequence of calls: the types, the list's order, the links of the tree,  *)
(* that every search finds its node, and that the whole is an ordered map. *)
(***************************************************************************)
EXTENDS SplayListMap, FiniteSetTheorems, ProofFacts

(***************************************************************************)
(* The invariant                                                           *)
(***************************************************************************)

\* The tree is in order and in one piece.  Node n roots a subtree for the keys
\* between lo[n] and hi[n], which its children divide; every node there is
\* lies in the subtrees of the nodes above it, and the bounds of a subtree are
\* nodes above it.  No variable of the code holds
\* these bounds; the rotations show how they change.
InOrder(N, sc, root, lo, hi) ==
  /\ \A n \in N : lo[n] \in Int /\ hi[n] \in Int /\ lo[n] < n /\ n < hi[n]
  /\ \A n \in N : lo[n] \in N \cup {-1} /\ hi[n] \in N \cup {MaxKey + 1}
  /\ \A n \in N : sc[n][0] # nullptr =>
       sc[n][0] \in N /\ lo[sc[n][0]] = lo[n] /\ hi[sc[n][0]] = n
  /\ \A n \in N : sc[n][1] # nullptr =>
       sc[n][1] \in N /\ lo[sc[n][1]] = n /\ hi[sc[n][1]] = hi[n]
  /\ \A n, m \in N : lo[n] < m /\ m < n =>
       sc[n][0] # nullptr /\ lo[n] =< lo[m] /\ hi[m] =< n
  /\ \A n, m \in N : n < m /\ m < hi[n] =>
       sc[n][1] # nullptr /\ n =< lo[m] /\ hi[m] =< hi[n]
  /\ \A n, m \in N : /\ hi[n] = m => lo[m] =< lo[n]
                     /\ lo[n] = m => hi[n] =< hi[m]
  /\ IF root = nullptr THEN N = {}
     ELSE root \in N /\ lo[root] = -1 /\ hi[root] = MaxKey + 1

\* The tree as it stands.
TreeFits(lo, hi) == InOrder(Nodes, splay_children, root_node, lo, hi)

\* A key that is no node's has no links.
Fresh == \A k \in Key \ Nodes : splay_parent[k] = nullptr /\ splay_children[k] = Leaf

\* The node below which the node p hangs, and on which side; none if it is
\* the root.
Over(p) == IF splay_parent[p] # nullptr THEN splay_parent[p] ELSE victim
Side(p) == IF splay_parent[p] # nullptr THEN idx_at_parent(p) ELSE 1

\* No node lies between n and k, and k is none unless it is n.
Closest(n, k) == \A m \in Nodes : ~(n < m /\ m =< k) /\ ~(k =< m /\ m < n)

\* The search goes where a node of its key would be.
SearchAt(lo, hi) ==
  stage = "search" =>
    /\ ptr # nullptr => ptr \in Nodes /\ lo[ptr] < call.k /\ call.k < hi[ptr]
    /\ IF last = nullptr THEN ptr = root_node
       ELSE /\ last \in Nodes /\ last # call.k
            /\ lo[last] < call.k /\ call.k < hi[last]
            /\ ptr = splay_children[last][IF call.k < last THEN 0 ELSE 1]

\* max_node and min_node go along the edge of a subtree.
EdgeAt(lo, hi) ==
  /\ stage = "max" => hi[ptr] = root_node
  /\ stage = "min" => lo[ptr] = victim

\* There are bounds that fit the tree, the search and the edge gone along.
TreeOK ==
  \E lo, hi : TreeFits(lo, hi) /\ SearchAt(lo, hi) /\ EdgeAt(lo, hi)

\* Which loop runs for which call, and for which node.
CallOK ==
  /\ call \in [op : Ops \cup {"none", "settle", "max", "remove max"},
               k : Key, x : Value \cup {NoArg}]
  /\ call.op = "insert" => call.x \in Value
  /\ stage \in {"idle", "search", "splay", "splay second", "max", "min"}
  /\ stage = "idle" <=> Idle
  /\ stage = "search" => call.op \in Ops
  /\ call.op = "insert" => stage = "search"
  /\ stage = "max" => call.op \in {"max", "remove max"}
  /\ stage \notin {"idle", "search"} => ptr \in Nodes
  /\ stage = "splay second" => splay_parent[ptr] # nullptr
  /\ stage = "min" => victim # nullptr

\* The node that remove has cut out is the root, with subtrees on both sides,
\* and the node sought on its right is the least there.
VictimOK ==
  victim # nullptr =>
    /\ stage \in {"min", "splay", "splay second"} /\ Removes
    /\ victim = root_node /\ splay_parent[victim] = nullptr
    /\ Left(victim) # nullptr /\ Right(victim) # nullptr
    /\ victim < ptr
    /\ stage # "min" => \A m \in Nodes : victim < m => ptr =< m

\* The node a call works on is the one it was asked for.
Wanted(n) ==
  /\ call.op \in {"max", "remove max"} => n =< call.k
  /\ call.op \in {"le", "precise", "remove_le", "remove_precise",
                  "max", "remove max"} => Closest(n, call.k)

\* It is right throughout the splay, and of the node cut out.
SoughtOK ==
  /\ stage \in {"splay", "splay second"} /\ victim = nullptr => Wanted(ptr)
  /\ stage = "max" => Closest(root_node, call.k) /\ call.k < root_node
  /\ victim # nullptr =>
       /\ call.op \in {"remove_le", "remove max"} =>
            victim =< call.k /\ Closest(victim, call.k)
       /\ call.op = "remove_precise" => victim = call.k

\* The inductive invariant.
TreeInv == SplayTypeOK /\ CallOK /\ Fresh /\ LinksAgree /\ VictimOK /\ TreeOK
SplayInv == TreeInv /\ ListInOrder /\ SoughtOK

(***************************************************************************)
(* A rotation keeps the order                                              *)
(***************************************************************************)

\* n, the child of p on side i, is turned up: it hangs from u in p's place, p
\* hangs from it, and the subtree between them changes sides.
Turned(N, sc, tc, root, top, n, p, u, s, i) ==
  /\ n \in N /\ p \in N /\ u \in Pointer /\ s \in {0, 1}
  /\ sc[p][i] = n
  /\ IF u = nullptr THEN root = p /\ top = n
     ELSE u \in N /\ u # p /\ u # n /\ sc[u][s] = p /\ top = root /\ root # p
  /\ \A m \in N : \A t \in {0, 1} :
       /\ sc[m][t] = n => m = p /\ t = i
       /\ sc[m][t] = p => m = u /\ t = s
       /\ tc[m][t] = IF m = p /\ t = i THEN sc[n][1 - i]
                     ELSE IF m = n /\ t = 1 - i THEN p
                     ELSE IF m = u /\ t = s THEN n
                     ELSE sc[m][t]

\* A left child turned up.
LEMMA TurnRight ==
  ASSUME NEW N \in SUBSET Key, NEW sc, NEW tc, NEW root, NEW top, NEW lo, NEW hi,
         NEW n, NEW p, NEW u, NEW s,
         InOrder(N, sc, root, lo, hi), Turned(N, sc, tc, root, top, n, p, u, s, 0)
  PROVE  \E a, b : InOrder(N, tc, top, a, b)
<1> /\ n \in N /\ p \in N /\ u \in Pointer /\ s \in {0, 1} /\ sc[p][0] = n
    /\ IF u = nullptr THEN root = p /\ top = n
       ELSE u \in N /\ u # p /\ u # n /\ sc[u][s] = p /\ top = root /\ root # p
    /\ \A m \in N : \A t \in {0, 1} :
         /\ sc[m][t] = n => m = p /\ t = 0
         /\ sc[m][t] = p => m = u /\ t = s
         /\ tc[m][t] = IF m = p /\ t = 0 THEN sc[n][1]
                       ELSE IF m = n /\ t = 1 THEN p
                       ELSE IF m = u /\ t = s THEN n
                       ELSE sc[m][t]
  BY DEF Turned
<1> DEFINE a == [m \in N |-> IF m = p THEN n ELSE lo[m]]
           b == [m \in N |-> IF m = n THEN hi[p] ELSE hi[m]]
<1>1. /\ N \subseteq Nat /\ nullptr = -1 /\ nullptr \notin N
      /\ n < p /\ n # p /\ lo[n] = lo[p] /\ hi[n] = p
  <2>1. N \subseteq Nat /\ nullptr = -1 /\ nullptr \notin N
    BY MaxKeyAssumption DEF Key, nullptr
  <2>2. lo[n] = lo[p] /\ hi[n] = p  BY <2>1 DEF InOrder
  <2>3. lo[n] \in Int /\ hi[n] \in Int /\ lo[n] < n /\ n < hi[n]  BY DEF InOrder
  <2> QED  BY <2>1, <2>2, <2>3
<1>2. \A m \in N : /\ a[m] = IF m = p THEN n ELSE lo[m]
                   /\ b[m] = IF m = n THEN hi[p] ELSE hi[m]
  OBVIOUS
<1>3. \A m \in N : lo[m] \in Int /\ hi[m] \in Int /\ lo[m] < m /\ m < hi[m]
  BY DEF InOrder
<1> HIDE DEF a, b
<1>4. /\ tc[p][0] = sc[n][1] /\ tc[p][1] = sc[p][1]
      /\ tc[n][0] = sc[n][0] /\ tc[n][1] = p
  BY <1>1
<1>5. \A m \in N : a[m] \in Int /\ b[m] \in Int /\ a[m] < m /\ m < b[m]
  BY <1>1, <1>2, <1>3
<1>6. ASSUME NEW m \in N, tc[m][0] # nullptr
      PROVE  tc[m][0] \in N /\ a[tc[m][0]] = a[m] /\ b[tc[m][0]] = m
  <2>1. CASE m = p
    <3>1. sc[n][1] \in N /\ lo[sc[n][1]] = n /\ hi[sc[n][1]] = hi[n]
      BY <1>4, <1>6, <2>1 DEF InOrder
    <3>2. sc[n][1] # n /\ sc[n][1] # p  BY <1>1, <1>3, <3>1
    <3>3. /\ a[sc[n][1]] = n /\ b[sc[n][1]] = p /\ a[p] = n
      BY <1>1, <1>2, <3>1, <3>2
    <3> QED  BY <1>4, <2>1, <3>1, <3>3
  <2>2. CASE m = u /\ s = 0
    BY <1>1, <1>2, <1>3, <1>6, <2>2 DEF InOrder
  <2>3. CASE m # p /\ ~(m = u /\ s = 0)
    <3>1. tc[m][0] = sc[m][0] /\ sc[m][0] # p /\ sc[m][0] # n  BY <2>3
    <3>2. sc[m][0] \in N /\ lo[sc[m][0]] = lo[m] /\ hi[sc[m][0]] = m
      BY <1>6, <3>1 DEF InOrder
    <3> QED  BY <1>2, <2>3, <3>1, <3>2
  <2> QED  BY <2>1, <2>2, <2>3
<1>7. ASSUME NEW m \in N, tc[m][1] # nullptr
      PROVE  tc[m][1] \in N /\ a[tc[m][1]] = m /\ b[tc[m][1]] = b[m]
  <2>1. CASE m = n
    BY <1>1, <1>2, <1>4, <2>1
  <2>2. CASE m = u /\ s = 1
    BY <1>1, <1>2, <1>3, <1>7, <2>2 DEF InOrder
  <2>3. CASE m # n /\ ~(m = u /\ s = 1)
    <3>1. tc[m][1] = sc[m][1] /\ sc[m][1] # p /\ sc[m][1] # n  BY <2>3
    <3>2. sc[m][1] \in N /\ lo[sc[m][1]] = m /\ hi[sc[m][1]] = hi[m]
      BY <1>7, <3>1 DEF InOrder
    <3> QED  BY <1>2, <2>3, <3>1, <3>2
  <2> QED  BY <2>1, <2>2, <2>3
<1>8. /\ \A x, m \in N : lo[x] < m /\ m < x =>
           sc[x][0] # nullptr /\ lo[x] =< lo[m] /\ hi[m] =< x
      /\ \A x, m \in N : x < m /\ m < hi[x] =>
           sc[x][1] # nullptr /\ x =< lo[m] /\ hi[m] =< hi[x]
  BY DEF InOrder
<1>9. \A m \in N : /\ tc[m][0] = nullptr => sc[m][0] = nullptr \/ m = p
                   /\ tc[m][1] = nullptr => sc[m][1] = nullptr
  BY <1>1
<1>10. ASSUME NEW x \in N, NEW m \in N, a[x] < m, m < x
       PROVE  tc[x][0] # nullptr /\ a[x] =< a[m] /\ b[m] =< x
  <2>1. /\ lo[p] < m /\ m < p => lo[p] =< lo[m] /\ hi[m] =< p
        /\ n < m /\ m < hi[n] => sc[n][1] # nullptr /\ n =< lo[m] /\ hi[m] =< hi[n]
        /\ lo[x] < m /\ m < x => sc[x][0] # nullptr /\ lo[x] =< lo[m] /\ hi[m] =< x
        /\ lo[x] < p /\ p < x => sc[x][0] # nullptr /\ lo[x] =< lo[p] /\ hi[p] =< x
        /\ lo[x] < n /\ n < x => sc[x][0] # nullptr /\ lo[x] =< lo[n] /\ hi[n] =< x
    BY <1>8
  <2>2. CASE x = p
    BY <1>1, <1>2, <1>3, <1>4, <1>10, <2>1, <2>2
  <2>3. CASE x # p
    <3>1. a[x] = lo[x] /\ (tc[x][0] = nullptr => sc[x][0] = nullptr)
      BY <1>2, <1>9, <2>3
    <3>2. sc[x][0] # nullptr /\ lo[x] =< lo[m] /\ hi[m] =< x
      BY <1>10, <2>1, <3>1
    <3>3. CASE m = p
      BY <1>1, <1>2, <1>3, <1>10, <3>1, <3>2, <3>3
    <3>4. CASE m = n
      BY <1>1, <1>2, <1>3, <1>10, <2>1, <2>3, <3>1, <3>2, <3>4
    <3>5. CASE m # p /\ m # n  BY <1>2, <3>1, <3>2, <3>5
    <3> QED  BY <3>3, <3>4, <3>5
  <2> QED  BY <2>2, <2>3
<1>11. ASSUME NEW x \in N, NEW m \in N, x < m, m < b[x]
       PROVE  tc[x][1] # nullptr /\ x =< a[m] /\ b[m] =< b[x]
  <2>1. /\ p < m /\ m < hi[p] => p =< lo[m] /\ hi[m] =< hi[p]
        /\ n < m /\ m < hi[n] => n =< lo[m] /\ hi[m] =< hi[n]
        /\ x < m /\ m < hi[x] => sc[x][1] # nullptr /\ x =< lo[m] /\ hi[m] =< hi[x]
        /\ x < p /\ p < hi[x] => sc[x][1] # nullptr /\ x =< lo[p] /\ hi[p] =< hi[x]
        /\ x < n /\ n < hi[x] => sc[x][1] # nullptr /\ x =< lo[n] /\ hi[n] =< hi[x]
    BY <1>8
  <2>2. CASE x = n
    BY <1>1, <1>2, <1>3, <1>4, <1>11, <2>1, <2>2
  <2>3. CASE x # n
    <3>1. b[x] = hi[x] /\ (tc[x][1] = nullptr => sc[x][1] = nullptr)
      BY <1>2, <1>9, <2>3
    <3>2. sc[x][1] # nullptr /\ x =< lo[m] /\ hi[m] =< hi[x]
      BY <1>11, <2>1, <3>1
    <3>3. CASE m = p
      BY <1>1, <1>2, <1>3, <1>11, <2>1, <3>1, <3>2, <3>3
    <3>4. CASE m = n
      <4>1. x =< lo[p] /\ p =< hi[x]  BY <1>1, <3>2, <3>4
      <4>2. p # hi[x]
        BY <1>1, <1>3, <3>4, <1>11, <4>1 DEF InOrder
      <4>3. hi[p] =< hi[x]  BY <1>1, <1>3, <2>1, <4>1, <4>2
      <4> QED  BY <1>1, <1>2, <3>1, <3>2, <3>4, <4>3
    <3>5. CASE m # p /\ m # n  BY <1>2, <3>1, <3>2, <3>5
    <3> QED  BY <3>3, <3>4, <3>5
  <2> QED  BY <2>2, <2>3
<1>12. IF top = nullptr THEN N = {}
       ELSE top \in N /\ a[top] = -1 /\ b[top] = MaxKey + 1
  <2>1. root \in N /\ lo[root] = -1 /\ hi[root] = MaxKey + 1 /\ nullptr \notin N
    BY <1>1 DEF InOrder
  <2>2. p # MaxKey + 1  BY MaxKeyAssumption DEF Key
  <2>3. u # nullptr => root # p /\ root # n /\ top = root
    BY <1>1, <2>1, <2>2
  <2> QED  BY <1>1, <1>2, <2>1, <2>3
<1>13. ASSUME NEW x \in N, NEW m \in N
       PROVE  /\ b[x] = m => a[m] =< a[x]
              /\ a[x] = m => b[x] =< b[m]
  <2>1. /\ hi[x] = m => lo[m] =< lo[x]
        /\ lo[x] = m => hi[x] =< hi[m]
        /\ hi[p] = m => lo[m] =< lo[p]
        /\ lo[p] = m => hi[p] =< hi[m]
    BY DEF InOrder
  <2>2. /\ lo[p] < x /\ x < p => lo[p] =< lo[x] /\ hi[x] =< p
        /\ n < x /\ x < hi[n] => n =< lo[x] /\ hi[x] =< hi[n]
        /\ lo[n] < x /\ x < n => lo[n] =< lo[x] /\ hi[x] =< n
    BY <1>8
  <2>3. ASSUME b[x] = m  PROVE a[m] =< a[x]
    <3>1. CASE x = n  BY <1>1, <1>2, <1>3, <2>1, <2>3, <3>1
    <3>2. CASE x # n /\ m = p  BY <1>1, <1>2, <1>3, <2>1, <2>2, <2>3, <3>2
    <3>3. CASE x # n /\ m # p  BY <1>1, <1>2, <1>3, <2>1, <2>3, <3>3
    <3> QED  BY <3>1, <3>2, <3>3
  <2>4. ASSUME a[x] = m  PROVE b[x] =< b[m]
    <3>1. CASE x = n  BY <1>1, <1>2, <1>3, <2>1, <2>4, <3>1
    <3>2. CASE x # n /\ m = n  BY <1>1, <1>2, <1>3, <2>1, <2>4, <3>2
    <3>3. CASE x # n /\ m # n  BY <1>1, <1>2, <1>3, <2>1, <2>4, <3>3
    <3> QED  BY <3>1, <3>2, <3>3
  <2> QED  BY <2>3, <2>4
<1>14. \A m \in N : a[m] \in N \cup {-1} /\ b[m] \in N \cup {MaxKey + 1}
  <2>1. \A m \in N : lo[m] \in N \cup {-1} /\ hi[m] \in N \cup {MaxKey + 1}
    BY DEF InOrder
  <2> QED  BY <1>2, <2>1
<1>15. InOrder(N, tc, top, a, b)
  BY <1>5, <1>6, <1>7, <1>10, <1>11, <1>12, <1>13, <1>14 DEF InOrder
<1> QED  BY <1>15

\* A right child turned up: the mirror image.
LEMMA TurnLeft ==
  ASSUME NEW N \in SUBSET Key, NEW sc, NEW tc, NEW root, NEW top, NEW lo, NEW hi,
         NEW n, NEW p, NEW u, NEW s,
         InOrder(N, sc, root, lo, hi), Turned(N, sc, tc, root, top, n, p, u, s, 1)
  PROVE  \E a, b : InOrder(N, tc, top, a, b)
<1> /\ n \in N /\ p \in N /\ u \in Pointer /\ s \in {0, 1} /\ sc[p][1] = n
    /\ IF u = nullptr THEN root = p /\ top = n
       ELSE u \in N /\ u # p /\ u # n /\ sc[u][s] = p /\ top = root /\ root # p
    /\ \A m \in N : \A t \in {0, 1} :
         /\ sc[m][t] = n => m = p /\ t = 1
         /\ sc[m][t] = p => m = u /\ t = s
         /\ tc[m][t] = IF m = p /\ t = 1 THEN sc[n][0]
                       ELSE IF m = n /\ t = 0 THEN p
                       ELSE IF m = u /\ t = s THEN n
                       ELSE sc[m][t]
  BY DEF Turned
<1> DEFINE a == [m \in N |-> IF m = n THEN lo[p] ELSE lo[m]]
           b == [m \in N |-> IF m = p THEN n ELSE hi[m]]
<1>1. /\ N \subseteq Nat /\ nullptr = -1 /\ nullptr \notin N
      /\ p < n /\ n # p /\ hi[n] = hi[p] /\ lo[n] = p
  <2>1. N \subseteq Nat /\ nullptr = -1 /\ nullptr \notin N
    BY MaxKeyAssumption DEF Key, nullptr
  <2>2. hi[n] = hi[p] /\ lo[n] = p  BY <2>1 DEF InOrder
  <2>3. lo[n] \in Int /\ hi[n] \in Int /\ lo[n] < n /\ n < hi[n]  BY DEF InOrder
  <2> QED  BY <2>1, <2>2, <2>3
<1>2. \A m \in N : /\ b[m] = IF m = p THEN n ELSE hi[m]
                   /\ a[m] = IF m = n THEN lo[p] ELSE lo[m]
  OBVIOUS
<1>3. \A m \in N : lo[m] \in Int /\ hi[m] \in Int /\ lo[m] < m /\ m < hi[m]
  BY DEF InOrder
<1> HIDE DEF a, b
<1>4. /\ tc[p][1] = sc[n][0] /\ tc[p][0] = sc[p][0]
      /\ tc[n][1] = sc[n][1] /\ tc[n][0] = p
  BY <1>1
<1>5. \A m \in N : a[m] \in Int /\ b[m] \in Int /\ a[m] < m /\ m < b[m]
  BY <1>1, <1>2, <1>3
<1>6. ASSUME NEW m \in N, tc[m][1] # nullptr
      PROVE  tc[m][1] \in N /\ a[tc[m][1]] = m /\ b[tc[m][1]] = b[m]
  <2>1. CASE m = p
    <3>1. sc[n][0] \in N /\ lo[sc[n][0]] = lo[n] /\ hi[sc[n][0]] = n
      BY <1>4, <1>6, <2>1 DEF InOrder
    <3>2. sc[n][0] # n /\ sc[n][0] # p  BY <1>1, <1>3, <3>1
    <3>3. /\ a[sc[n][0]] = p /\ b[sc[n][0]] = n /\ b[p] = n
      BY <1>1, <1>2, <3>1, <3>2
    <3> QED  BY <1>4, <2>1, <3>1, <3>3
  <2>2. CASE m = u /\ s = 1
    BY <1>1, <1>2, <1>3, <1>6, <2>2 DEF InOrder
  <2>3. CASE m # p /\ ~(m = u /\ s = 1)
    <3>1. tc[m][1] = sc[m][1] /\ sc[m][1] # p /\ sc[m][1] # n  BY <2>3
    <3>2. sc[m][1] \in N /\ lo[sc[m][1]] = m /\ hi[sc[m][1]] = hi[m]
      BY <1>6, <3>1 DEF InOrder
    <3> QED  BY <1>2, <2>3, <3>1, <3>2
  <2> QED  BY <2>1, <2>2, <2>3
<1>7. ASSUME NEW m \in N, tc[m][0] # nullptr
      PROVE  tc[m][0] \in N /\ a[tc[m][0]] = a[m] /\ b[tc[m][0]] = m
  <2>1. CASE m = n
    BY <1>1, <1>2, <1>4, <2>1
  <2>2. CASE m = u /\ s = 0
    BY <1>1, <1>2, <1>3, <1>7, <2>2 DEF InOrder
  <2>3. CASE m # n /\ ~(m = u /\ s = 0)
    <3>1. tc[m][0] = sc[m][0] /\ sc[m][0] # p /\ sc[m][0] # n  BY <2>3
    <3>2. sc[m][0] \in N /\ lo[sc[m][0]] = lo[m] /\ hi[sc[m][0]] = m
      BY <1>7, <3>1 DEF InOrder
    <3> QED  BY <1>2, <2>3, <3>1, <3>2
  <2> QED  BY <2>1, <2>2, <2>3
<1>8. /\ \A x, m \in N : lo[x] < m /\ m < x =>
           sc[x][0] # nullptr /\ lo[x] =< lo[m] /\ hi[m] =< x
      /\ \A x, m \in N : x < m /\ m < hi[x] =>
           sc[x][1] # nullptr /\ x =< lo[m] /\ hi[m] =< hi[x]
  BY DEF InOrder
<1>9. \A m \in N : /\ tc[m][1] = nullptr => sc[m][1] = nullptr \/ m = p
                   /\ tc[m][0] = nullptr => sc[m][0] = nullptr
  BY <1>1
<1>10. ASSUME NEW x \in N, NEW m \in N, x < m, m < b[x]
       PROVE  tc[x][1] # nullptr /\ x =< a[m] /\ b[m] =< b[x]
  <2>1. /\ p < m /\ m < hi[p] => p =< lo[m] /\ hi[m] =< hi[p]
        /\ lo[n] < m /\ m < n => sc[n][0] # nullptr /\ lo[n] =< lo[m] /\ hi[m] =< n
        /\ x < m /\ m < hi[x] => sc[x][1] # nullptr /\ x =< lo[m] /\ hi[m] =< hi[x]
        /\ x < p /\ p < hi[x] => sc[x][1] # nullptr /\ x =< lo[p] /\ hi[p] =< hi[x]
        /\ x < n /\ n < hi[x] => sc[x][1] # nullptr /\ x =< lo[n] /\ hi[n] =< hi[x]
    BY <1>8
  <2>2. CASE x = p
    BY <1>1, <1>2, <1>3, <1>4, <1>10, <2>1, <2>2
  <2>3. CASE x # p
    <3>1. b[x] = hi[x] /\ (tc[x][1] = nullptr => sc[x][1] = nullptr)
      BY <1>2, <1>9, <2>3
    <3>2. sc[x][1] # nullptr /\ x =< lo[m] /\ hi[m] =< hi[x]
      BY <1>10, <2>1, <3>1
    <3>3. CASE m = p
      BY <1>1, <1>2, <1>3, <1>10, <3>1, <3>2, <3>3
    <3>4. CASE m = n
      BY <1>1, <1>2, <1>3, <1>10, <2>1, <2>3, <3>1, <3>2, <3>4
    <3>5. CASE m # p /\ m # n  BY <1>2, <3>1, <3>2, <3>5
    <3> QED  BY <3>3, <3>4, <3>5
  <2> QED  BY <2>2, <2>3
<1>11. ASSUME NEW x \in N, NEW m \in N, a[x] < m, m < x
       PROVE  tc[x][0] # nullptr /\ a[x] =< a[m] /\ b[m] =< x
  <2>1. /\ lo[p] < m /\ m < p => lo[p] =< lo[m] /\ hi[m] =< p
        /\ lo[n] < m /\ m < n => lo[n] =< lo[m] /\ hi[m] =< n
        /\ lo[x] < m /\ m < x => sc[x][0] # nullptr /\ lo[x] =< lo[m] /\ hi[m] =< x
        /\ lo[x] < p /\ p < x => sc[x][0] # nullptr /\ lo[x] =< lo[p] /\ hi[p] =< x
        /\ lo[x] < n /\ n < x => sc[x][0] # nullptr /\ lo[x] =< lo[n] /\ hi[n] =< x
    BY <1>8
  <2>2. CASE x = n
    BY <1>1, <1>2, <1>3, <1>4, <1>11, <2>1, <2>2
  <2>3. CASE x # n
    <3>1. a[x] = lo[x] /\ (tc[x][0] = nullptr => sc[x][0] = nullptr)
      BY <1>2, <1>9, <2>3
    <3>2. sc[x][0] # nullptr /\ lo[x] =< lo[m] /\ hi[m] =< x
      BY <1>11, <2>1, <3>1
    <3>3. CASE m = p
      BY <1>1, <1>2, <1>3, <1>11, <2>1, <3>1, <3>2, <3>3
    <3>4. CASE m = n
      <4>1. lo[x] =< p /\ hi[p] =< x  BY <1>1, <3>2, <3>4
      <4>2. p # lo[x]
        <5>1. lo[x] = p => hi[x] =< hi[p]  BY DEF InOrder
        <5> QED  BY <1>1, <1>3, <4>1, <5>1
      <4>3. lo[x] =< lo[p]  BY <1>1, <1>3, <2>1, <4>1, <4>2
      <4> QED  BY <1>1, <1>2, <3>1, <3>2, <3>4, <4>3
    <3>5. CASE m # p /\ m # n  BY <1>2, <3>1, <3>2, <3>5
    <3> QED  BY <3>3, <3>4, <3>5
  <2> QED  BY <2>2, <2>3
<1>12. IF top = nullptr THEN N = {}
       ELSE top \in N /\ a[top] = -1 /\ b[top] = MaxKey + 1
  <2>1. root \in N /\ lo[root] = -1 /\ hi[root] = MaxKey + 1 /\ nullptr \notin N
    BY <1>1 DEF InOrder
  <2>2. p # -1  BY <1>1
  <2>3. u # nullptr => root # p /\ root # n /\ top = root
    BY <1>1, <2>1, <2>2
  <2> QED  BY <1>1, <1>2, <2>1, <2>3
<1>13. ASSUME NEW x \in N, NEW m \in N
       PROVE  /\ b[x] = m => a[m] =< a[x]
              /\ a[x] = m => b[x] =< b[m]
  <2>1. /\ hi[x] = m => lo[m] =< lo[x]
        /\ lo[x] = m => hi[x] =< hi[m]
        /\ hi[p] = m => lo[m] =< lo[p]
        /\ lo[p] = m => hi[p] =< hi[m]
    BY DEF InOrder
  <2>2. /\ p < x /\ x < hi[p] => p =< lo[x] /\ hi[x] =< hi[p]
        /\ lo[n] < x /\ x < n => lo[n] =< lo[x] /\ hi[x] =< n
        /\ n < x /\ x < hi[n] => n =< lo[x] /\ hi[x] =< hi[n]
    BY <1>8
  <2>3. ASSUME a[x] = m  PROVE b[x] =< b[m]
    <3>1. CASE x = n  BY <1>1, <1>2, <1>3, <2>1, <2>3, <3>1
    <3>2. CASE x # n /\ m = p
      <4>1. lo[x] = p /\ x # p /\ b[x] = hi[x] /\ b[m] = n
        BY <1>2, <1>3, <2>3, <3>2
      <4>2. p < x /\ x < hi[p]  BY <1>1, <1>3, <2>1, <3>2, <4>1
      <4>3. x < n  BY <1>1, <1>3, <2>2, <3>2, <4>1, <4>2
      <4> QED  BY <1>1, <1>3, <2>2, <4>1, <4>2, <4>3
    <3>3. CASE x # n /\ m # p
      <4>1. lo[x] = m /\ b[m] = hi[m] /\ hi[x] =< hi[m]
        BY <1>2, <2>1, <2>3, <3>3
      <4>2. b[x] =< hi[x]  BY <1>1, <1>2, <1>3
      <4> QED  BY <1>3, <1>5, <4>1, <4>2
    <3> QED  BY <3>1, <3>2, <3>3
  <2>4. ASSUME b[x] = m  PROVE a[m] =< a[x]
    <3>1. CASE x = n  BY <1>1, <1>2, <1>3, <2>1, <2>4, <3>1
    <3>2. CASE x # n /\ m = n  BY <1>1, <1>2, <1>3, <2>1, <2>4, <3>2
    <3>3. CASE x # n /\ m # n  BY <1>1, <1>2, <1>3, <2>1, <2>4, <3>3
    <3> QED  BY <3>1, <3>2, <3>3
  <2> QED  BY <2>3, <2>4
<1>14. \A m \in N : a[m] \in N \cup {-1} /\ b[m] \in N \cup {MaxKey + 1}
  <2>1. \A m \in N : lo[m] \in N \cup {-1} /\ hi[m] \in N \cup {MaxKey + 1}
    BY DEF InOrder
  <2> QED  BY <1>2, <2>1
<1>15. InOrder(N, tc, top, a, b)
  BY <1>5, <1>6, <1>7, <1>10, <1>11, <1>12, <1>13, <1>14 DEF InOrder
<1> QED  BY <1>15

(***************************************************************************)
(* Where a node hangs                                                      *)
(***************************************************************************)

\* Keys and pointers are integers, and nullptr is no key.
LEMMA KeyFacts ==
  /\ Key \subseteq Nat /\ nullptr = -1 /\ nullptr \notin Key /\ -1 \notin Key
  /\ \A k \in Key : k =< MaxKey
  /\ Pointer = Key \cup {-1} /\ MaxKey \in Nat /\ 0..1 = {0, 1}
BY MaxKeyAssumption DEF Key, nullptr, Pointer

\* The types of what a node points at.
LEMMA NodeTypes ==
  ASSUME SplayTypeOK, NEW n \in Nodes
  PROVE  /\ n \in Key /\ n \in Nat /\ n # nullptr
         /\ splay_parent[n] \in Pointer
         /\ Left(n) \in Pointer /\ Right(n) \in Pointer
         /\ splay_children[n] \in [0..1 -> Pointer]
BY KeyFacts DEF SplayTypeOK, Left, Right

\* A child points back, unless it is the root of a tree that has been cut off.
LEMMA LinkFacts ==
  ASSUME LinksAgree, NEW m \in Nodes, NEW t \in {0, 1}, splay_children[m][t] # nullptr
  PROVE  /\ splay_children[m][t] \in Nodes
         /\ splay_parent[splay_children[m][t]] =
              (IF m = victim /\ t = 1 THEN nullptr ELSE m)
BY KeyFacts DEF LinksAgree

\* A node has one link to it from above, and the root none.
LEMMA Hangs ==
  ASSUME SplayTypeOK, Fresh, LinksAgree, NEW lo, NEW hi, TreeFits(lo, hi),
         victim # nullptr => victim = root_node,
         NEW p \in Nodes, p # victim
  PROVE  /\ Side(p) \in {0, 1}
         /\ IF Over(p) = nullptr THEN root_node = p
            ELSE /\ Over(p) \in Nodes /\ Over(p) # p /\ root_node # p
                 /\ splay_children[Over(p)][Side(p)] = p
         /\ \A m \in Nodes : \A t \in {0, 1} :
              splay_children[m][t] = p => m = Over(p) /\ t = Side(p)
<1>1. p \in Key /\ p \in Nat /\ p # nullptr /\ splay_parent[p] \in Pointer
  BY NodeTypes
<1>2. \A m \in Nodes : \A t \in {0, 1} : splay_children[m][t] = p =>
        splay_parent[p] = IF m = victim /\ t = 1 THEN nullptr ELSE m
  BY <1>1, KeyFacts DEF LinksAgree
<1>3. \A m \in Nodes : m # nullptr  BY NodeTypes
<1>4. \A m \in Nodes : /\ m \in Int /\ lo[m] \in Int /\ hi[m] \in Int
                       /\ lo[m] < m /\ m < hi[m]
  BY NodeTypes DEF TreeFits, InOrder
<1>5. CASE splay_parent[p] # nullptr
  <2> DEFINE g == splay_parent[p]
  <2>1. Over(p) = g /\ Side(p) = idx_at_parent(p)  BY <1>5 DEF Over, Side
  <2>2. p \in {Left(g), Right(g)}  BY <1>5 DEF LinksAgree
  <2>3. g \in Nodes
    <3> SUFFICES ASSUME g \notin Nodes  PROVE FALSE
      OBVIOUS
    <3>1. g \in Key \ Nodes  BY <1>1, <1>5, KeyFacts
    <3>2. Left(g) = nullptr /\ Right(g) = nullptr
      <4>1. splay_children[g] = Leaf  BY <3>1 DEF Fresh
      <4>2. Leaf[0] = nullptr /\ Leaf[1] = nullptr  BY DEF Leaf
      <4> QED  BY <4>1, <4>2 DEF Left, Right
    <3> QED  BY <1>1, <2>2, <3>2
  <2>4. Left(g) # nullptr => hi[Left(g)] = g /\ Left(g) \in Nodes
    BY <2>3 DEF TreeFits, InOrder, Left
  <2>5. Right(g) # nullptr => lo[Right(g)] = g /\ Right(g) \in Nodes
    BY <2>3 DEF TreeFits, InOrder, Right
  <2>6. Left(g) = p => Right(g) # p
    BY <1>1, <1>4, <2>4, <2>5
  <2>7. Side(p) \in {0, 1} /\ splay_children[g][Side(p)] = p
        /\ \A t \in {0, 1} : splay_children[g][t] = p => t = Side(p)
    BY <2>1, <2>2, <2>6 DEF idx_at_parent, Left, Right
  <2>8. g # p  BY <1>1, <1>4, <2>2, <2>3, <2>4, <2>5
  <2>9. \A m \in Nodes : \A t \in {0, 1} : splay_children[m][t] = p => m = g
    BY <1>2, <1>5
  <2>10. root_node # p
    <3>1. root_node = p => lo[p] = -1 /\ hi[p] = MaxKey + 1
      BY <1>1 DEF TreeFits, InOrder
    <3>2. g # -1 /\ g # MaxKey + 1
      BY <2>3, NodeTypes, KeyFacts
    <3> QED  BY <1>1, <2>2, <2>4, <2>5, <3>1, <3>2
  <2> QED  BY <1>5, <2>1, <2>3, <2>7, <2>8, <2>9, <2>10
<1>6. CASE splay_parent[p] = nullptr
  <2>1. Over(p) = victim /\ Side(p) = 1  BY <1>6 DEF Over, Side
  <2>2. p = root_node \/ (victim # nullptr /\ p = Right(victim))
    BY <1>6 DEF LinksAgree
  <2>3. victim \in Nodes \cup {nullptr}  BY DEF SplayTypeOK
  <2>4. \A m \in Nodes : \A t \in {0, 1} : splay_children[m][t] = p =>
          m = victim /\ t = 1
    BY <1>2, <1>3, <1>6
  <2>5. CASE victim = nullptr
    BY <2>1, <2>2, <2>4, <2>5
  <2>6. CASE victim # nullptr
    BY <2>1, <2>2, <2>3, <2>4, <2>6 DEF Right
  <2> QED  BY <2>5, <2>6
<1> QED  BY <1>5, <1>6

(***************************************************************************)
(* rotate                                                                  *)
(***************************************************************************)

\* When n may be rotated: it is no root, and not in the left subtree of a node
\* that is being removed.
MayTurn(n) ==
  /\ n \in Nodes /\ splay_parent[n] # nullptr
  /\ victim # nullptr =>
       victim = root_node /\ splay_parent[victim] = nullptr /\ victim < n

\* The node that is rotated, its parent and the node above that differ, and
\* none but the last is the one that is being removed.
LEMMA TurnFacts ==
  ASSUME SplayTypeOK, Fresh, LinksAgree, NEW lo, NEW hi, TreeFits(lo, hi),
         NEW n, MayTurn(n), NEW p, p = splay_parent[n]
  PROVE  /\ p \in Nodes /\ p # n /\ p # victim /\ n # victim
         /\ Side(n) = idx_at_parent(n) /\ Side(n) \in {0, 1}
         /\ splay_children[p][Side(n)] = n
         /\ Over(p) # n
         /\ \A m \in Nodes : \A t \in {0, 1} :
              splay_children[m][t] = n => m = p /\ t = Side(n)
         /\ splay_children[n][1 - Side(n)] = Inner(n)
         /\ Inner(n) # p /\ Inner(n) # n
         /\ Inner(n) # nullptr =>
              /\ Inner(n) \in Nodes /\ Inner(n) # victim
              /\ Over(Inner(n)) = n /\ Side(Inner(n)) = 1 - Side(n)
<1>1. n \in Nodes /\ n # victim
  <2>1. n # nullptr  BY NodeTypes DEF MayTurn
  <2> QED  BY <2>1 DEF MayTurn
<1>2. Over(n) = p /\ Side(n) = idx_at_parent(n) /\ p # nullptr
  BY DEF MayTurn, Over, Side
<1>3. p \in Nodes /\ p # n /\ Side(n) \in {0, 1}
      /\ splay_children[p][Side(n)] = n
      /\ \A m \in Nodes : \A t \in {0, 1} :
              splay_children[m][t] = n => m = p /\ t = Side(n)
  BY <1>1, <1>2, Hangs DEF MayTurn
<1>4. \A m \in Nodes : /\ m \in Nat /\ lo[m] \in Int /\ hi[m] \in Int
                       /\ lo[m] < m /\ m < hi[m] /\ m # nullptr
  BY NodeTypes DEF TreeFits, InOrder
<1>5. \A m \in Nodes :
        /\ splay_children[m][0] # nullptr =>
             /\ splay_children[m][0] \in Nodes
             /\ lo[splay_children[m][0]] = lo[m] /\ hi[splay_children[m][0]] = m
        /\ splay_children[m][1] # nullptr =>
             /\ splay_children[m][1] \in Nodes
             /\ lo[splay_children[m][1]] = m /\ hi[splay_children[m][1]] = hi[m]
  BY DEF TreeFits, InOrder
<1>6. p # victim
  <2> SUFFICES ASSUME p = victim  PROVE FALSE
    OBVIOUS
  <2>1. CASE Side(n) = 0
    BY <1>1, <1>3, <1>4, <1>5, <2>1 DEF MayTurn
  <2>2. CASE Side(n) = 1
    <3>1. splay_children[victim][1] = n /\ n # nullptr /\ victim \in Nodes
      BY <1>1, <1>3, <1>4, <2>2
    <3>2. splay_parent[n] = nullptr  BY <3>1, LinkFacts
    <3> QED  BY <3>2 DEF MayTurn
  <2> QED  BY <1>3, <2>1, <2>2
<1>7. splay_children[n][1 - Side(n)] = Inner(n)  BY <1>2 DEF Inner
<1>8. 1 - Side(n) \in {0, 1} /\ 1 - Side(n) # Side(n)  BY <1>3
<1>9. Inner(n) # p /\ Inner(n) # n /\ Over(p) # n
  <2>1. \A t \in {0, 1} : splay_children[n][t] # p /\ splay_children[n][t] # n
    <3>1. n # nullptr /\ splay_children[p][Side(n)] # nullptr  BY <1>1, <1>3, <1>4
    <3>2. CASE Side(n) = 0  BY <1>1, <1>3, <1>4, <1>5, <3>1, <3>2
    <3>3. CASE Side(n) = 1  BY <1>1, <1>3, <1>4, <1>5, <3>1, <3>3
    <3> QED  BY <1>3, <3>2, <3>3
  <2>2. Side(p) \in {0, 1} /\ (Over(p) # nullptr => splay_children[Over(p)][Side(p)] = p)
    BY <1>3, <1>6, Hangs DEF MayTurn
  <2> QED  BY <1>1, <1>4, <1>7, <1>8, <2>1, <2>2
<1>10. ASSUME Inner(n) # nullptr
       PROVE  /\ Inner(n) \in Nodes /\ Inner(n) # victim
              /\ Over(Inner(n)) = n /\ Side(Inner(n)) = 1 - Side(n)
  <2>1. Inner(n) \in Nodes  BY <1>1, <1>5, <1>7, <1>8, <1>10
  <2>2. Inner(n) # victim
    <3>1. splay_parent[Inner(n)] = n
      BY <1>1, <1>7, <1>8, <1>10, LinkFacts
    <3> QED  BY <1>1, <1>4, <1>10, <3>1 DEF MayTurn
  <2> QED  BY <1>1, <1>7, <1>8, <2>1, <2>2, Hangs DEF MayTurn
<1> QED  BY <1>1, <1>2, <1>3, <1>6, <1>7, <1>9, <1>10

\* What rotate writes, link by link: p is the parent of n.
Written(n, p) ==
  /\ splay_parent' \in [Key -> Pointer]
  /\ splay_children' \in [Key -> [0..1 -> Pointer]]
  /\ root_node' = IF Over(p) = nullptr THEN n ELSE root_node
  /\ \A m \in Key : splay_parent'[m] =
       IF m = n THEN splay_parent[p]
       ELSE IF m = p THEN n
       ELSE IF m = Inner(n) THEN p
       ELSE splay_parent[m]
  /\ \A m \in Key : \A t \in {0, 1} : splay_children'[m][t] =
       IF m = p /\ t = Side(n) THEN Inner(n)
       ELSE IF m = n /\ t = 1 - Side(n) THEN p
       ELSE IF m = Over(p) /\ t = Side(p) THEN n
       ELSE splay_children[m][t]
\* Rotate, under the names of the nodes that it concerns.
LEMMA RotateWrites ==
  ASSUME SplayTypeOK, Fresh, LinksAgree, NEW lo, NEW hi, TreeFits(lo, hi),
         NEW n, MayTurn(n), Rotate(n)
  PROVE  Written(n, splay_parent[n])
<1> DEFINE p == splay_parent[n]
           g == splay_parent[p]
           i == idx_at_parent(n)
           turned == [splay_children EXCEPT ![p][i] = Inner(n), ![n][1 - i] = p]
<1>1. /\ p \in Nodes /\ p # n /\ p # victim /\ n # victim /\ n \in Nodes
      /\ Side(n) = i /\ i \in {0, 1} /\ Over(p) # n /\ 1 - i \in {0, 1}
      /\ splay_children[n][1 - i] = Inner(n)
  BY TurnFacts DEF MayTurn
<1>2. /\ n \in Key /\ p \in Key /\ p \in Pointer /\ g \in Pointer /\ n \in Pointer
      /\ Inner(n) \in Pointer /\ Nodes \subseteq Key /\ 0..1 = {0, 1}
  <2>1. \A m \in Nodes : m \in Key /\ splay_parent[m] \in Pointer
                       /\ splay_children[m] \in [0..1 -> Pointer]
    BY NodeTypes
  <2>2. Inner(n) \in Pointer
    <3>1. splay_children[n] \in [0..1 -> Pointer]  BY <1>1, <2>1
    <3>2. 1 - i \in 0..1  BY <1>1, KeyFacts
    <3> HIDE DEF i
    <3> QED  BY <1>1, <3>1, <3>2
  <2> QED  BY <1>1, <2>1, <2>2, KeyFacts
<1>3. Side(p) \in {0, 1} /\ (Over(p) # nullptr => Over(p) \in Nodes /\ Over(p) # p)
  BY <1>1, Hangs DEF MayTurn
<1>4. splay_children \in [Key -> [0..1 -> Pointer]]
      /\ splay_parent \in [Key -> Pointer]
  BY DEF SplayTypeOK
<1>5. /\ turned \in [Key -> [0..1 -> Pointer]]
      /\ \A m \in Key : \A t \in {0, 1} : turned[m][t] =
           IF m = p /\ t = i THEN Inner(n)
           ELSE IF m = n /\ t = 1 - i THEN p
           ELSE splay_children[m][t]
  <2> HIDE DEF i
  <2> QED  BY <1>1, <1>2, <1>4
<1>6. /\ splay_parent' = ParentsTurned(n)
      /\ splay_children' =
           IF g # nullptr THEN [turned EXCEPT ![g][idx_at_parent(p)] = n]
           ELSE IF victim # nullptr THEN [turned EXCEPT ![victim][1] = n]
           ELSE turned
      /\ root_node' = IF g = nullptr /\ victim = nullptr THEN n ELSE root_node
  BY DEF Rotate
<1>7. root_node' = IF Over(p) = nullptr THEN n ELSE root_node
  BY <1>6 DEF Over
<1>8. splay_children' = IF Over(p) = nullptr THEN turned
                        ELSE [turned EXCEPT ![Over(p)][Side(p)] = n]
  BY <1>6 DEF Over, Side
<1> HIDE DEF turned, i
<1>9. /\ splay_children' \in [Key -> [0..1 -> Pointer]]
      /\ \A m \in Key : \A t \in {0, 1} : splay_children'[m][t] =
           IF m = Over(p) /\ t = Side(p) THEN n ELSE turned[m][t]
  <2>1. CASE Over(p) = nullptr
    BY <1>2, <1>5, <1>8, <2>1, KeyFacts
  <2>2. CASE Over(p) # nullptr
    BY <1>2, <1>3, <1>5, <1>8, <2>2
  <2> QED  BY <2>1, <2>2
<1>10. \A m \in Key : \A t \in {0, 1} : splay_children'[m][t] =
              IF m = p /\ t = Side(n) THEN Inner(n)
              ELSE IF m = n /\ t = 1 - Side(n) THEN p
              ELSE IF m = Over(p) /\ t = Side(p) THEN n
              ELSE splay_children[m][t]
  <2>1. Over(p) # p
    BY <1>1, <1>3, NodeTypes
  <2> QED  BY <1>1, <1>5, <1>9, <2>1
<1>11. /\ splay_parent' \in [Key -> Pointer]
       /\ \A m \in Key : splay_parent'[m] =
              IF m = n THEN splay_parent[p]
              ELSE IF m = p THEN n
              ELSE IF m = Inner(n) THEN p
              ELSE splay_parent[m]
  BY <1>2, <1>4, <1>6 DEF ParentsTurned
<1> QED  BY <1>7, <1>9, <1>10, <1>11 DEF Written

\* A rotation keeps the order of the tree.
LEMMA RotateOrder ==
  ASSUME SplayTypeOK, Fresh, LinksAgree, NEW lo, NEW hi, TreeFits(lo, hi),
         NEW n, MayTurn(n), Rotate(n), v' = v
  PROVE  \E a, b : TreeFits(a, b)'
<1> DEFINE p == splay_parent[n]
           tc == splay_children'
           top == root_node'
<1>1. /\ p \in Nodes /\ p # n /\ p # victim /\ n # victim /\ n \in Nodes
      /\ Side(n) \in {0, 1} /\ splay_children[p][Side(n)] = n /\ Over(p) # n
      /\ \A m \in Nodes : \A t \in {0, 1} :
           splay_children[m][t] = n => m = p /\ t = Side(n)
      /\ splay_children[n][1 - Side(n)] = Inner(n)
  BY TurnFacts DEF MayTurn
<1>2. /\ Nodes \in SUBSET Key /\ Side(p) \in {0, 1} /\ Over(p) \in Pointer
      /\ IF Over(p) = nullptr THEN root_node = p
         ELSE /\ Over(p) \in Nodes /\ Over(p) # p /\ root_node # p
              /\ splay_children[Over(p)][Side(p)] = p
      /\ \A m \in Nodes : \A t \in {0, 1} :
           splay_children[m][t] = p => m = Over(p) /\ t = Side(p)
  BY <1>1, Hangs, KeyFacts DEF MayTurn, SplayTypeOK
<1>3. /\ top = IF Over(p) = nullptr THEN n ELSE root_node
      /\ \A m \in Nodes : \A t \in {0, 1} : tc[m][t] =
              IF m = p /\ t = Side(n) THEN Inner(n)
              ELSE IF m = n /\ t = 1 - Side(n) THEN p
              ELSE IF m = Over(p) /\ t = Side(p) THEN n
              ELSE splay_children[m][t]
  <2>1. Written(n, p)  BY RotateWrites
  <2> QED  BY <1>2, <2>1 DEF Written
<1>4. InOrder(Nodes, splay_children, root_node, lo, hi)  BY DEF TreeFits
<1> HIDE DEF p, tc, top
<1>5. Turned(Nodes, splay_children, tc, root_node, top, n, p, Over(p), Side(p), Side(n))
  BY <1>1, <1>2, <1>3 DEF Turned
<1>6. \E a, b : InOrder(Nodes, tc, top, a, b)
  <2>1. CASE Side(n) = 0  BY <1>2, <1>4, <1>5, <2>1, TurnRight
  <2>2. CASE Side(n) = 1  BY <1>2, <1>4, <1>5, <2>2, TurnLeft
  <2> QED  BY <1>1, <2>1, <2>2
<1>7. Nodes' = Nodes  BY DEF Nodes
<1> QED  BY <1>6, <1>7 DEF TreeFits, tc, top

\* A rotation keeps the links of the tree in agreement.
LEMMA RotateAgrees ==
  ASSUME SplayTypeOK, Fresh, LinksAgree, NEW lo, NEW hi, TreeFits(lo, hi),
         NEW n, MayTurn(n), Rotate(n), v' = v, victim' = victim
  PROVE  LinksAgree' /\ Fresh'
<1> DEFINE p == splay_parent[n]
<1>1. /\ p \in Nodes /\ p # n /\ p # victim /\ n # victim /\ n \in Nodes
      /\ Side(n) \in {0, 1} /\ splay_children[p][Side(n)] = n /\ Over(p) # n
      /\ \A m \in Nodes : \A t \in {0, 1} :
           splay_children[m][t] = n => m = p /\ t = Side(n)
      /\ splay_children[n][1 - Side(n)] = Inner(n)
      /\ Inner(n) # p /\ Inner(n) # n
      /\ Inner(n) # nullptr =>
              /\ Inner(n) \in Nodes /\ Inner(n) # victim
              /\ Over(Inner(n)) = n /\ Side(Inner(n)) = 1 - Side(n)
  BY TurnFacts DEF MayTurn
<1>2. /\ Nodes \in SUBSET Key /\ Side(p) \in {0, 1} /\ nullptr \notin Nodes
      /\ IF Over(p) = nullptr THEN root_node = p
         ELSE /\ Over(p) \in Nodes /\ Over(p) # p /\ root_node # p
              /\ splay_children[Over(p)][Side(p)] = p
      /\ \A m \in Nodes : \A t \in {0, 1} :
           splay_children[m][t] = p => m = Over(p) /\ t = Side(p)
  BY <1>1, Hangs, KeyFacts DEF MayTurn, SplayTypeOK
<1>3. /\ root_node' = IF Over(p) = nullptr THEN n ELSE root_node
      /\ \A m \in Key : splay_parent'[m] =
              IF m = n THEN splay_parent[p]
              ELSE IF m = p THEN n
              ELSE IF m = Inner(n) THEN p
              ELSE splay_parent[m]
      /\ \A m \in Key : \A t \in {0, 1} : splay_children'[m][t] =
              IF m = p /\ t = Side(n) THEN Inner(n)
              ELSE IF m = n /\ t = 1 - Side(n) THEN p
              ELSE IF m = Over(p) /\ t = Side(p) THEN n
              ELSE splay_children[m][t]
      /\ splay_children' \in [Key -> [0..1 -> Pointer]]
  <2>1. Written(n, p)  BY RotateWrites
  <2> QED  BY <2>1 DEF Written
<1>4. Nodes' = Nodes /\ 0..1 = {0, 1}  BY KeyFacts DEF Nodes
<1>5. ASSUME NEW m \in Nodes, NEW t \in {0, 1}, splay_children'[m][t] # nullptr
      PROVE  /\ splay_children'[m][t] \in Nodes
             /\ splay_parent'[splay_children'[m][t]] =
                  IF m = victim /\ t = 1 THEN nullptr ELSE m
  <2>1. m \in Key /\ n \in Key /\ p \in Key  BY <1>1, <1>2
  <2>2. CASE m = p /\ t = Side(n)
    <3>1. splay_children'[m][t] = Inner(n)  BY <1>3, <2>1, <2>2
    <3>2. Inner(n) \in Nodes /\ Inner(n) \in Key /\ Inner(n) # n /\ Inner(n) # p
      BY <1>1, <1>2, <1>5, <3>1
    <3> QED  BY <1>1, <1>3, <2>2, <3>1, <3>2
  <2>3. CASE m = n /\ t = 1 - Side(n)
    <3>1. splay_children'[m][t] = p  BY <1>1, <1>3, <2>1, <2>3
    <3> QED  BY <1>1, <1>3, <2>1, <2>3, <3>1
  <2>4. CASE m = Over(p) /\ t = Side(p)
    <3>1. splay_children'[m][t] = n
      BY <1>1, <1>2, <1>3, <2>1, <2>4
    <3>2. splay_parent'[n] = splay_parent[p]  BY <1>3, <2>1
    <3>3. splay_children[m][t] = p /\ p # nullptr  BY <1>1, <1>2, <2>4
    <3>4. splay_parent[p] = IF m = victim /\ t = 1 THEN nullptr ELSE m
      BY <3>3, LinkFacts
    <3> QED  BY <1>1, <3>1, <3>2, <3>4
  <2>5. CASE /\ ~(m = p /\ t = Side(n)) /\ ~(m = n /\ t = 1 - Side(n))
             /\ ~(m = Over(p) /\ t = Side(p))
    <3> DEFINE c == splay_children[m][t]
    <3>1. splay_children'[m][t] = c /\ c # nullptr  BY <1>3, <1>5, <2>1, <2>5
    <3>2. c \in Nodes /\ splay_parent[c] = IF m = victim /\ t = 1 THEN nullptr ELSE m
      BY <3>1, LinkFacts
    <3>3. c # n /\ c # p  BY <1>1, <1>2, <2>5
    <3>4. c # Inner(n)
      <4>1. SUFFICES ASSUME c = Inner(n)  PROVE FALSE
        OBVIOUS
      <4>2. Inner(n) \in Nodes /\ Inner(n) # victim  BY <1>1, <3>1, <4>1
      <4>3. m = Over(Inner(n)) /\ t = Side(Inner(n))
        BY <4>1, <4>2, Hangs DEF MayTurn
      <4> QED  BY <1>1, <2>5, <3>1, <4>1, <4>3
    <3>5. splay_parent'[c] = splay_parent[c]  BY <1>2, <1>3, <3>2, <3>3, <3>4
    <3> QED  BY <3>1, <3>2, <3>5
  <2> QED  BY <2>2, <2>3, <2>4, <2>5
<1>6. ASSUME NEW m \in Nodes
      PROVE  IF splay_parent'[m] # nullptr
             THEN m \in {splay_children'[splay_parent'[m]][0],
                         splay_children'[splay_parent'[m]][1]}
             ELSE m = root_node' \/ (victim # nullptr /\ m = splay_children'[victim][1])
  <2>1. m \in Key /\ n \in Key /\ p \in Key  BY <1>1, <1>2
  <2>2. CASE m = n
    <3>1. splay_parent'[m] = splay_parent[p]  BY <1>3, <2>1, <2>2
    <3>2. CASE splay_parent[p] # nullptr
      <4>1. Over(p) = splay_parent[p] /\ Over(p) \in Nodes /\ Over(p) # p
        BY <1>2, <3>2 DEF Over
      <4>2. splay_children'[Over(p)][Side(p)] = n
        BY <1>1, <1>2, <1>3, <4>1
      <4> QED  BY <1>2, <2>2, <3>1, <3>2, <4>1, <4>2
    <3>3. CASE splay_parent[p] = nullptr
      <4>1. Over(p) = victim /\ Side(p) = 1  BY <3>3 DEF Over, Side
      <4>2. CASE victim = nullptr  BY <1>3, <2>2, <3>1, <3>3, <4>1, <4>2
      <4>3. CASE victim # nullptr
        <5>1. victim \in Nodes /\ victim # p /\ victim # n  BY <1>1, <1>2, <4>1, <4>3
        <5>2. splay_children'[victim][1] = n
          BY <1>2, <1>3, <4>1, <5>1
        <5> QED  BY <2>2, <3>1, <3>3, <4>3, <5>2
      <4> QED  BY <4>2, <4>3
    <3> QED  BY <3>2, <3>3
  <2>3. CASE m = p
    <3>1. splay_parent'[m] = n  BY <1>1, <1>3, <2>1, <2>3
    <3>2. splay_children'[n][1 - Side(n)] = p /\ 1 - Side(n) \in {0, 1}
      BY <1>1, <1>3, <2>1
    <3>3. n # nullptr  BY <1>1, <1>2
    <3> QED  BY <2>3, <3>1, <3>2, <3>3
  <2>4. CASE m = Inner(n) /\ m # n /\ m # p
    <3>1. splay_parent'[m] = p  BY <1>3, <2>1, <2>4
    <3>2. splay_children'[p][Side(n)] = Inner(n)  BY <1>1, <1>3, <2>1
    <3>3. p # nullptr  BY <1>1, <1>2
    <3> QED  BY <1>1, <2>4, <3>1, <3>2, <3>3
  <2>5. CASE m # Inner(n) /\ m # n /\ m # p
    <3>1. splay_parent'[m] = splay_parent[m]  BY <1>3, <2>1, <2>5
    <3>2. \A q \in Key : \A t \in {0, 1} : splay_children[q][t] = m =>
            splay_children'[q][t] = m
      <4>1. SUFFICES ASSUME NEW q \in Key, NEW t \in {0, 1}, splay_children[q][t] = m
                     PROVE  splay_children'[q][t] = m
        OBVIOUS
      <4>2. ~(q = p /\ t = Side(n)) /\ ~(q = n /\ t = 1 - Side(n))
        BY <1>1, <2>5, <4>1
      <4>3. ~(q = Over(p) /\ t = Side(p))
        BY <1>2, <2>5, <4>1, KeyFacts
      <4> QED  BY <1>3, <4>1, <4>2, <4>3
    <3>3. CASE splay_parent[m] # nullptr
      <4>1. m \in {Left(splay_parent[m]), Right(splay_parent[m])}
        BY <3>3 DEF LinksAgree
      <4>2. splay_parent[m] \in Key  BY <3>3, NodeTypes, KeyFacts
      <4> QED  BY <3>1, <3>2, <3>3, <4>1, <4>2 DEF Left, Right
    <3>4. CASE splay_parent[m] = nullptr
      <4>1. m = root_node \/ (victim # nullptr /\ m = Right(victim))
        BY <3>4 DEF LinksAgree
      <4>2. m = root_node => root_node' = m
        BY <1>2, <1>3, <2>5
      <4>3. victim # nullptr => victim \in Key
        BY DEF SplayTypeOK
      <4> QED  BY <3>1, <3>2, <3>4, <4>1, <4>2, <4>3 DEF Right
    <3> QED  BY <3>3, <3>4
  <2> QED  BY <2>2, <2>3, <2>4, <2>5
<1>7. LinksAgree'
  BY <1>4, <1>5, <1>6 DEF LinksAgree, Left, Right
<1>8. Fresh'
  <2> SUFFICES ASSUME NEW k \in Key \ Nodes
               PROVE  splay_parent'[k] = nullptr /\ splay_children'[k] = Leaf
    BY <1>4 DEF Fresh
  <2>1. splay_parent[k] = nullptr /\ splay_children[k] = Leaf  BY DEF Fresh
  <2>2. k # n /\ k # p /\ k # Inner(n) /\ k # Over(p)
    BY <1>1, <1>2, KeyFacts
  <2>3. splay_parent'[k] = nullptr  BY <1>3, <2>1, <2>2
  <2>4. \A t \in {0, 1} : splay_children'[k][t] = nullptr
    BY <1>3, <2>1, <2>2, KeyFacts DEF Leaf
  <2>5. splay_children'[k] \in [0..1 -> Pointer]  BY <1>3
  <2> QED  BY <2>3, <2>4, <2>5, KeyFacts DEF Leaf
<1> QED  BY <1>7, <1>8

\* One rotation on the way of splay.
LEMMA TurnKeeps ==
  ASSUME SplayInv, NEW n, MayTurn(n), Rotate(n),
         stage \in {"splay", "splay second"}, stage' \in {"splay", "splay second"},
         stage' = "splay second" => splay_parent'[ptr] # nullptr,
         UNCHANGED <<v, listVars, size, call, ptr, last, victim, answer>>
  PROVE  SplayInv'
<1>1. /\ SplayTypeOK /\ CallOK /\ Fresh /\ LinksAgree /\ VictimOK
      /\ ListInOrder /\ SoughtOK
  BY DEF SplayInv, TreeInv
<1>2. PICK lo, hi : TreeFits(lo, hi)  BY DEF SplayInv, TreeInv, TreeOK
<1>3. PICK a, b : TreeFits(a, b)'  BY <1>1, <1>2, RotateOrder
<1>4. LinksAgree' /\ Fresh'  BY <1>1, <1>2, RotateAgrees
<1>5. /\ v' = v /\ parent' = parent /\ children' = children /\ size' = size
      /\ call' = call /\ ptr' = ptr /\ last' = last /\ victim' = victim
      /\ answer' = answer /\ Nodes' = Nodes
  BY DEF listVars, Nodes
<1> DEFINE p == splay_parent[n]
<1>6. /\ splay_parent' \in [Key -> Pointer]
      /\ splay_children' \in [Key -> [0..1 -> Pointer]]
      /\ root_node' = IF Over(p) = nullptr THEN n ELSE root_node
      /\ \A m \in Key : splay_parent'[m] =
              IF m = n THEN splay_parent[p]
              ELSE IF m = p THEN n
              ELSE IF m = Inner(n) THEN p
              ELSE splay_parent[m]
      /\ \A m \in Key : \A t \in {0, 1} : splay_children'[m][t] =
              IF m = p /\ t = Side(n) THEN Inner(n)
              ELSE IF m = n /\ t = 1 - Side(n) THEN p
              ELSE IF m = Over(p) /\ t = Side(p) THEN n
              ELSE splay_children[m][t]
  <2>1. Written(n, p)  BY <1>1, <1>2, RotateWrites
  <2> QED  BY <2>1 DEF Written
<1>7. n \in Nodes /\ n # nullptr /\ p # victim /\ n # victim /\ Nodes \subseteq Key
      /\ (Inner(n) # nullptr => Inner(n) # victim) /\ n \in Pointer
  BY <1>1, <1>2, TurnFacts, NodeTypes, KeyFacts DEF MayTurn, SplayTypeOK
<1>8. SplayTypeOK'
  BY <1>1, <1>5, <1>6, <1>7 DEF SplayTypeOK
<1>9. CallOK'
  BY <1>1, <1>5 DEF CallOK, Idle
<1>10. VictimOK'
  <2> SUFFICES ASSUME victim # nullptr
               PROVE  /\ stage' \in {"min", "splay", "splay second"} /\ Removes
                      /\ victim = root_node' /\ splay_parent'[victim] = nullptr
                      /\ splay_children'[victim][0] # nullptr
                      /\ splay_children'[victim][1] # nullptr
                      /\ victim < ptr
                      /\ \A m \in Nodes : victim < m => ptr =< m
    BY <1>5 DEF VictimOK, Removes, Left, Right
  <2>1. /\ Removes /\ victim = root_node /\ splay_parent[victim] = nullptr
        /\ splay_children[victim][0] # nullptr /\ splay_children[victim][1] # nullptr
        /\ victim < ptr /\ \A m \in Nodes : victim < m => ptr =< m
    BY <1>1 DEF VictimOK, Left, Right
  <2>2. victim \in Key  BY <1>1, <1>7 DEF SplayTypeOK
  <2>3. Over(p) # nullptr  BY DEF Over
  <2> QED  BY <1>6, <1>7, <2>1, <2>2, <2>3
<1>11. TreeOK'
  BY <1>3 DEF TreeOK, SearchAt, EdgeAt
<1>12. ListInOrder'
  BY <1>1, <1>5 DEF ListInOrder, Listed
<1>13. SoughtOK'
  BY <1>1, <1>5 DEF SoughtOK, Wanted, Closest
<1> QED  BY <1>4, <1>8, <1>9, <1>10, <1>11, <1>12, <1>13 DEF SplayInv, TreeInv

\* The first rotation of a turn of splay: of the node, or of its parent.
LEMMA SplayTurnStep ==
  ASSUME SplayInv, SplayTurn  PROVE SplayInv'
<1>1. /\ SplayTypeOK /\ CallOK /\ Fresh /\ LinksAgree /\ VictimOK
  BY DEF SplayInv, TreeInv
<1>2. PICK lo, hi : TreeFits(lo, hi)  BY DEF SplayInv, TreeInv, TreeOK
<1> DEFINE p == splay_parent[ptr]
<1>3. /\ stage = "splay" /\ p # nullptr /\ ptr \in Nodes
      /\ UNCHANGED <<v, listVars, size, call, ptr, last, victim, answer>>
  BY <1>1 DEF SplayTurn, AtTop, CallOK
<1>4. MayTurn(ptr)
  BY <1>1, <1>3 DEF MayTurn, VictimOK
<1>5. CASE splay_parent[p] = nullptr
  BY <1>3, <1>4, <1>5, TurnKeeps DEF SplayTurn
<1>6. CASE splay_parent[p] # nullptr /\ idx_at_parent(ptr) # idx_at_parent(p)
  <2>1. Rotate(ptr) /\ stage' = "splay second"  BY <1>6 DEF SplayTurn
  <2>2. Written(ptr, p)  BY <1>1, <1>2, <1>4, <2>1, RotateWrites
  <2>3. splay_parent'[ptr] = splay_parent[p]
    BY <1>1, <1>3, <2>2, NodeTypes DEF Written
  <2> QED  BY <1>3, <1>4, <1>6, <2>1, <2>3, TurnKeeps
<1>7. CASE splay_parent[p] # nullptr /\ idx_at_parent(ptr) = idx_at_parent(p)
  <2>1. Rotate(p) /\ stage' = "splay second"  BY <1>7 DEF SplayTurn
  <2>2. /\ p \in Nodes /\ p # victim /\ p # ptr /\ Side(ptr) \in {0, 1}
        /\ splay_children[p][Side(ptr)] = ptr /\ Over(p) # ptr
    BY <1>1, <1>2, <1>4, TurnFacts
  <2>3. victim # nullptr => victim < p
    <3> SUFFICES ASSUME victim # nullptr  PROVE victim < p
      OBVIOUS
    <3>1. /\ victim = root_node /\ victim < ptr /\ victim \in Nodes
      BY <1>1 DEF VictimOK, SplayTypeOK
    <3>2. \A m \in Nodes : /\ m \in Nat /\ lo[m] \in Int /\ hi[m] \in Int
                           /\ lo[m] < m /\ m < hi[m] /\ m # nullptr
      BY <1>1, <1>2, NodeTypes DEF TreeFits, InOrder
    <3>3. lo[victim] = -1  BY <1>2, <3>1 DEF TreeFits, InOrder
    <3>4. p < victim => hi[p] =< victim
      BY <1>2, <2>2, <3>1, <3>2, <3>3 DEF TreeFits, InOrder
    <3>5. hi[ptr] = p \/ hi[ptr] = hi[p]
      BY <1>2, <1>3, <2>2, <3>2 DEF TreeFits, InOrder
    <3> QED  BY <1>3, <2>2, <3>1, <3>2, <3>4, <3>5
  <2>4. MayTurn(p)
    BY <1>1, <1>7, <2>2, <2>3 DEF MayTurn, VictimOK
  <2>5. splay_parent'[ptr] # nullptr
    <3>1. \A m \in Key : splay_parent'[m] =
              IF m = p THEN splay_parent[splay_parent[p]]
              ELSE IF m = splay_parent[p] THEN p
              ELSE IF m = Inner(p) THEN splay_parent[p]
              ELSE splay_parent[m]
      <4>1. Written(p, splay_parent[p])  BY <1>1, <1>2, <2>1, <2>4, RotateWrites
      <4> QED  BY <4>1 DEF Written
    <3> QED  BY <1>1, <1>3, <1>7, <2>2, <3>1, NodeTypes
  <2> QED  BY <1>3, <2>1, <2>4, <2>5, TurnKeeps
<1> QED  BY <1>5, <1>6, <1>7

\* The second one.
LEMMA SplaySecondStep ==
  ASSUME SplayInv, SplaySecond  PROVE SplayInv'
<1>1. /\ stage = "splay second" /\ stage' = "splay" /\ Rotate(ptr)
      /\ UNCHANGED <<v, listVars, size, call, ptr, last, victim, answer>>
  BY DEF SplaySecond
<1>2. MayTurn(ptr)
  BY <1>1 DEF SplayInv, TreeInv, CallOK, VictimOK, MayTurn
<1> QED  BY <1>1, <1>2, TurnKeeps

(***************************************************************************)
(* Steps that leave the tree alone                                         *)
(***************************************************************************)

\* Such a step has only to put the local variables where they belong.
LEMMA Still ==
  ASSUME SplayInv, UNCHANGED <<v, listVars, treeVars, size, victim>>,
         ptr' \in Pointer, last' \in Pointer, answer' \in Pointer,
         CallOK', VictimOK', SoughtOK',
         NEW lo, NEW hi, TreeFits(lo, hi), SearchAt(lo, hi)', EdgeAt(lo, hi)'
  PROVE  SplayInv'
<1>1. /\ SplayTypeOK /\ Fresh /\ LinksAgree /\ ListInOrder
  BY DEF SplayInv, TreeInv
<1>2. /\ v' = v /\ Nodes' = Nodes /\ size' = size /\ victim' = victim
      /\ parent' = parent /\ children' = children
      /\ splay_parent' = splay_parent /\ splay_children' = splay_children
      /\ root_node' = root_node
  BY DEF listVars, treeVars, Nodes
<1>3. SplayTypeOK'  BY <1>1, <1>2 DEF SplayTypeOK
<1>4. Fresh'  BY <1>1, <1>2 DEF Fresh
<1>5. LinksAgree'  BY <1>1, <1>2 DEF LinksAgree, Left, Right
<1>6. ListInOrder'  BY <1>1, <1>2 DEF ListInOrder, Listed
<1>7. TreeFits(lo, hi)'  BY <1>2 DEF TreeFits
<1>8. TreeOK'  BY <1>7 DEF TreeOK
<1> QED  BY <1>3, <1>4, <1>5, <1>6, <1>8 DEF SplayInv, TreeInv

\* What a call that returns leaves behind.
LEMMA ReturnFacts ==
  ASSUME Return
  PROVE  /\ CallOK' /\ VictimOK' /\ SoughtOK'
         /\ ptr' = nullptr /\ last' = nullptr /\ victim' = nullptr
         /\ ptr' \in Pointer /\ last' \in Pointer
         /\ \A lo, hi : SearchAt(lo, hi)' /\ EdgeAt(lo, hi)'
<1>1. /\ call' = NoCall /\ stage' = "idle"
      /\ ptr' = nullptr /\ last' = nullptr /\ victim' = nullptr
  BY DEF Return
<1>2. NoCall \in [op : Ops \cup {"none", "settle", "max", "remove max"},
                  k : Key, x : Value \cup {NoArg}]
      /\ NoCall.op = "none"
  BY KeyFacts DEF NoCall, Key
<1>3. CallOK'
  BY <1>1, <1>2 DEF CallOK, Idle
<1>4. VictimOK' /\ SoughtOK'
  BY <1>1 DEF VictimOK, SoughtOK
<1>5. \A lo, hi : SearchAt(lo, hi)' /\ EdgeAt(lo, hi)'
  BY <1>1 DEF SearchAt, EdgeAt
<1> QED  BY <1>1, <1>3, <1>4, <1>5, KeyFacts

\* A call that returns without having moved anything.
LEMMA Returned ==
  ASSUME SplayInv, Return, victim = nullptr, answer' \in Pointer,
         UNCHANGED <<v, listVars, treeVars, size>>
  PROVE  SplayInv'
<1>1. PICK lo, hi : TreeFits(lo, hi)  BY DEF SplayInv, TreeInv, TreeOK
<1>2. UNCHANGED <<v, listVars, treeVars, size, victim>>  BY ReturnFacts
<1> QED  BY <1>1, <1>2, ReturnFacts, Still

\* The steps with which a call ends that has not removed a node.
LEMMA EndStep ==
  ASSUME SplayInv, InsertDone \/ FindEmpty \/ NothingLess \/ OtherKey \/ FindHit
  PROVE  SplayInv'
<1>1. SplayTypeOK /\ VictimOK  BY DEF SplayInv, TreeInv
<1>2. answer \in Pointer /\ ptr \in Pointer /\ nullptr \in Pointer
  BY <1>1, KeyFacts DEF SplayTypeOK
<1>3. CASE InsertDone
  BY <1>2, <1>3, Returned DEF InsertDone, Splayed
<1>4. CASE FindEmpty
  <2>1. victim = nullptr  BY <1>1, <1>4 DEF FindEmpty, Landed, VictimOK
  <2>2. Return /\ answer' \in Pointer /\ UNCHANGED <<v, listVars, treeVars, size>>
    BY <1>2, <1>4 DEF FindEmpty, Missed
  <2> QED  BY <2>1, <2>2, Returned
<1>5. CASE NothingLess \/ OtherKey
  <2>1. victim = nullptr  BY <1>5 DEF NothingLess, OtherKey, Splayed
  <2>2. Return /\ answer' \in Pointer /\ UNCHANGED <<v, listVars, treeVars, size>>
    BY <1>2, <1>5 DEF NothingLess, OtherKey, Missed
  <2> QED  BY <2>1, <2>2, Returned
<1>6. CASE FindHit
  BY <1>2, <1>6, Returned DEF FindHit, Hit, Splayed
<1> QED  BY <1>3, <1>4, <1>5, <1>6

\* A call begins its search at the root.
LEMMA BeginStep ==
  ASSUME SplayInv, NEW c \in Calls, Begin(c)  PROVE SplayInv'
<1>1. SplayTypeOK /\ VictimOK /\ CallOK  BY DEF SplayInv, TreeInv
<1>2. PICK lo, hi : TreeFits(lo, hi)  BY DEF SplayInv, TreeInv, TreeOK
<1>3. /\ Idle /\ call' = c /\ stage' = "search" /\ ptr' = root_node
      /\ last' = nullptr /\ answer' = nullptr
      /\ UNCHANGED <<v, listVars, treeVars, size, victim>>
  BY DEF Begin
<1>4. victim = nullptr /\ victim' = nullptr
  BY <1>1, <1>3 DEF VictimOK, CallOK
<1>5. /\ c \in [op : Ops \cup {"none", "settle", "max", "remove max"},
                k : Key, x : Value \cup {NoArg}]
      /\ c.op \in Ops /\ (c.op = "insert" => c.x \in Value) /\ c.op # "none"
  BY DEF Calls, Ops
<1>6. CallOK'
  BY <1>3, <1>4, <1>5 DEF CallOK, Idle
<1>7. VictimOK' /\ SoughtOK' /\ EdgeAt(lo, hi)'
  BY <1>3, <1>4 DEF VictimOK, SoughtOK, EdgeAt
<1>8. SearchAt(lo, hi)'
  <2>1. root_node' = root_node /\ Nodes' = Nodes
    BY <1>3 DEF treeVars, Nodes
  <2>2. root_node # nullptr =>
          root_node \in Nodes /\ lo[root_node] = -1 /\ hi[root_node] = MaxKey + 1
    BY <1>2 DEF TreeFits, InOrder
  <2>3. c.k \in Nat /\ c.k =< MaxKey /\ MaxKey \in Nat  BY <1>5, KeyFacts
  <2>4. root_node # nullptr =>
          root_node \in Nodes /\ lo[root_node] < c.k /\ c.k < hi[root_node]
    BY <2>2, <2>3
  <2> QED  BY <1>3, <2>1, <2>4 DEF SearchAt
<1>9. root_node \in Pointer /\ nullptr \in Pointer
  BY <1>1, KeyFacts DEF SplayTypeOK
<1> QED  BY <1>2, <1>3, <1>6, <1>7, <1>8, <1>9, Still

\* The search goes down one node.
LEMMA DescendStep ==
  ASSUME SplayInv, Descend  PROVE SplayInv'
<1>1. SplayTypeOK /\ VictimOK /\ CallOK  BY DEF SplayInv, TreeInv
<1>2. PICK lo, hi : TreeFits(lo, hi) /\ SearchAt(lo, hi)
  BY DEF SplayInv, TreeInv, TreeOK
<1> DEFINE t == IF call.k < ptr THEN 0 ELSE 1
           c == splay_children[ptr][t]
<1>3. /\ stage = "search" /\ ptr # nullptr /\ ptr # call.k
      /\ last' = ptr /\ ptr' = c
      /\ UNCHANGED <<v, listVars, treeVars, size, call, stage, victim, answer>>
  BY DEF Descend
<1>4. ptr \in Nodes /\ lo[ptr] < call.k /\ call.k < hi[ptr]
  BY <1>2, <1>3 DEF SearchAt
<1>5. /\ ptr \in Nat /\ ptr \in Key /\ Left(ptr) \in Pointer /\ Right(ptr) \in Pointer
      /\ call.k \in Nat
  BY <1>1, <1>4, NodeTypes, KeyFacts DEF CallOK
<1>6. c # nullptr => c \in Nodes /\ lo[c] < call.k /\ call.k < hi[c]
  <2>1. CASE call.k < ptr
    BY <1>2, <1>4, <1>5, <2>1 DEF TreeFits, InOrder
  <2>2. CASE ~(call.k < ptr)
    BY <1>2, <1>3, <1>4, <1>5, <2>2 DEF TreeFits, InOrder
  <2> QED  BY <2>1, <2>2
<1>7. victim = nullptr  BY <1>1, <1>3 DEF VictimOK
<1>8. CallOK'
  BY <1>1, <1>3, <1>7 DEF CallOK, Idle
<1>9. VictimOK' /\ SoughtOK' /\ EdgeAt(lo, hi)'
  BY <1>3, <1>7 DEF VictimOK, SoughtOK, EdgeAt
<1>10. SearchAt(lo, hi)'
  <2>1. root_node' = root_node /\ Nodes' = Nodes /\ splay_children' = splay_children
        /\ call' = call
    BY <1>3 DEF treeVars, Nodes
  <2> HIDE DEF c
  <2>2. c = splay_children[ptr][IF call.k < ptr THEN 0 ELSE 1]  BY DEF c
  <2> QED  BY <1>3, <1>4, <1>6, <2>1, <2>2 DEF SearchAt
<1>11. c \in Pointer /\ ptr \in Pointer /\ answer \in Pointer
  BY <1>1, <1>5, KeyFacts DEF SplayTypeOK, Left, Right
<1> QED  BY <1>2, <1>3, <1>8, <1>9, <1>10, <1>11, Still

(***************************************************************************)
(* Where the searches end                                                  *)
(***************************************************************************)

\* A search that has landed has found the node of its key, or the node below
\* which that would hang, and no other is nearer.
LEMMA FoundFacts ==
  ASSUME SplayInv, Landed, NEW lo, NEW hi, TreeFits(lo, hi), SearchAt(lo, hi)
  PROVE  /\ victim = nullptr /\ Found \in Nodes \cup {nullptr}
         /\ Found = nullptr => Nodes = {} /\ root_node = nullptr
         /\ Found # nullptr => Closest(Found, call.k)
         /\ Found \notin {nullptr, call.k} =>
              /\ call.k \notin Nodes /\ last = Found
              /\ lo[Found] < call.k /\ call.k < hi[Found]
              /\ splay_children[Found][IF call.k < Found THEN 0 ELSE 1] = nullptr
<1>1. SplayTypeOK /\ VictimOK /\ CallOK  BY DEF SplayInv, TreeInv
<1>2. stage = "search" /\ (ptr = nullptr \/ ptr = call.k)  BY DEF Landed
<1>3. victim = nullptr  BY <1>1, <1>2 DEF VictimOK
<1>4. /\ ptr # nullptr => ptr \in Nodes
      /\ IF last = nullptr THEN ptr = root_node
         ELSE /\ last \in Nodes /\ last # call.k
              /\ lo[last] < call.k /\ call.k < hi[last]
              /\ ptr = splay_children[last][IF call.k < last THEN 0 ELSE 1]
  BY <1>2 DEF SearchAt
<1>5. /\ call.k \in Nat /\ call.k # nullptr
      /\ \A m \in Nodes : m \in Nat /\ m # nullptr
  BY <1>1, NodeTypes, KeyFacts DEF CallOK
<1>6. root_node = nullptr => Nodes = {}  BY DEF TreeFits, InOrder
<1>7. CASE ptr # nullptr
  <2>1. Found = call.k /\ Found \in Nodes  BY <1>2, <1>4, <1>7 DEF Found
  <2>2. Closest(Found, call.k)  BY <1>5, <2>1 DEF Closest
  <2> QED  BY <1>3, <1>5, <2>1, <2>2
<1>8. CASE ptr = nullptr /\ last = nullptr
  BY <1>3, <1>4, <1>6, <1>8 DEF Found
<1>9. CASE ptr = nullptr /\ last # nullptr
  <2>1. Found = last  BY <1>9 DEF Found
  <2>2. /\ last \in Nodes /\ last # call.k /\ last \in Nat
        /\ lo[last] < call.k /\ call.k < hi[last]
        /\ splay_children[last][IF call.k < last THEN 0 ELSE 1] = nullptr
        /\ lo[last] \in Int /\ hi[last] \in Int
    BY <1>4, <1>5, <1>9 DEF TreeFits, InOrder
  <2>3. CASE call.k < last
    <3>1. \A m \in Nodes : ~(lo[last] < m /\ m < last)
      BY <2>2, <2>3 DEF TreeFits, InOrder
    <3>2. Closest(last, call.k) /\ call.k \notin Nodes
      BY <1>5, <2>2, <2>3, <3>1 DEF Closest
    <3> QED  BY <1>3, <1>9, <2>1, <2>2, <3>2
  <2>4. CASE last < call.k
    <3>1. \A m \in Nodes : ~(last < m /\ m < hi[last])
      BY <1>5, <2>2, <2>4 DEF TreeFits, InOrder
    <3>2. Closest(last, call.k) /\ call.k \notin Nodes
      BY <1>5, <2>2, <2>4, <3>1 DEF Closest
    <3> QED  BY <1>3, <1>9, <2>1, <2>2, <3>2
  <2> QED  BY <1>5, <2>2, <2>3, <2>4
<1> QED  BY <1>7, <1>8, <1>9

\* What the search has found is splayed.
LEMMA FindSplayStep ==
  ASSUME SplayInv, FindSplay  PROVE SplayInv'
<1>1. SplayTypeOK /\ VictimOK /\ CallOK  BY DEF SplayInv, TreeInv
<1>2. PICK lo, hi : TreeFits(lo, hi) /\ SearchAt(lo, hi)
  BY DEF SplayInv, TreeInv, TreeOK
<1>3. /\ Landed /\ Seeks /\ Found # nullptr
      /\ ptr' = Found /\ last' = nullptr /\ stage' = "splay"
      /\ UNCHANGED <<v, listVars, treeVars, size, call, victim, answer>>
  BY DEF FindSplay, SplayFound
<1>4. victim = nullptr /\ Found \in Nodes /\ Closest(Found, call.k)
  BY <1>2, <1>3, FoundFacts
<1>5. stage = "search" /\ Nodes' = Nodes /\ call' = call /\ victim' = victim
  BY <1>3 DEF Landed, Nodes
<1>6. CallOK'
  BY <1>1, <1>3, <1>4, <1>5 DEF CallOK, Idle, Seeks
<1>7. VictimOK' /\ EdgeAt(lo, hi)' /\ SearchAt(lo, hi)'
  BY <1>3, <1>4, <1>5 DEF VictimOK, EdgeAt, SearchAt
<1>8. SoughtOK'
  BY <1>3, <1>4, <1>5 DEF SoughtOK, Wanted, Closest, Seeks
<1>9. Found \in Pointer /\ nullptr \in Pointer /\ answer \in Pointer
  BY <1>1, <1>4, KeyFacts DEF SplayTypeOK
<1> QED  BY <1>2, <1>3, <1>6, <1>7, <1>8, <1>9, Still

\* What has been splayed to the top is the root.
LEMMA TopIsRoot ==
  ASSUME SplayInv, Splayed
  PROVE  ptr = root_node /\ ptr \in Nodes /\ victim = nullptr /\ Wanted(ptr)
<1>1. /\ stage = "splay" /\ splay_parent[ptr] = nullptr /\ victim = nullptr
  BY DEF Splayed, AtTop
<1>2. ptr \in Nodes  BY <1>1 DEF SplayInv, TreeInv, CallOK
<1>3. ptr = root_node  BY <1>1, <1>2 DEF SplayInv, TreeInv, LinksAgree
<1> QED  BY <1>1, <1>2, <1>3 DEF SplayInv, SoughtOK

\* The node splayed is above the key: the greatest on its left is wanted.
LEMMA SeekMaxStep ==
  ASSUME SplayInv, SeekMax  PROVE SplayInv'
<1>1. SplayTypeOK /\ VictimOK /\ CallOK  BY DEF SplayInv, TreeInv
<1>2. PICK lo, hi : TreeFits(lo, hi)  BY DEF SplayInv, TreeInv, TreeOK
<1>3. /\ Splayed /\ call.op \in {"le", "remove_le"} /\ ptr > call.k
      /\ Left(ptr) # nullptr /\ ptr' = Left(ptr) /\ stage' = "max"
      /\ call' = [call EXCEPT !.op = IF call.op = "le" THEN "max" ELSE "remove max"]
      /\ UNCHANGED <<v, listVars, treeVars, size, last, victim, answer>>
  BY DEF SeekMax
<1>4. ptr = root_node /\ ptr \in Nodes /\ victim = nullptr /\ Wanted(ptr)
  BY <1>3, TopIsRoot
<1>5. Left(ptr) \in Nodes /\ hi[Left(ptr)] = ptr
  BY <1>2, <1>3, <1>4 DEF TreeFits, InOrder, Left
<1>6. /\ call \in [op : Ops \cup {"none", "settle", "max", "remove max"},
                   k : Key, x : Value \cup {NoArg}]
      /\ call'.k = call.k /\ call'.op \in {"max", "remove max"}
      /\ call' \in [op : Ops \cup {"none", "settle", "max", "remove max"},
                    k : Key, x : Value \cup {NoArg}]
  BY <1>1, <1>3 DEF CallOK
<1>7. Nodes' = Nodes /\ root_node' = root_node /\ victim' = victim
  BY <1>3 DEF Nodes, treeVars
<1>8. CallOK'
  BY <1>3, <1>4, <1>5, <1>6, <1>7 DEF CallOK, Idle, Ops
<1>9. VictimOK' /\ EdgeAt(lo, hi)' /\ SearchAt(lo, hi)'
  BY <1>3, <1>4, <1>5, <1>7 DEF VictimOK, EdgeAt, SearchAt
<1>10. SoughtOK'
  <2>1. Closest(ptr, call.k) /\ ptr \in Nat /\ call.k \in Nat
    BY <1>1, <1>3, <1>4, NodeTypes, KeyFacts DEF Wanted, CallOK
  <2>2. Closest(root_node, call.k)'
    BY <1>4, <1>6, <1>7, <2>1 DEF Closest
  <2>3. call'.k < root_node'  BY <1>3, <1>4, <1>6, <1>7, <2>1
  <2> QED  BY <1>3, <1>4, <1>7, <2>2, <2>3 DEF SoughtOK
<1>11. Left(ptr) \in Pointer /\ last \in Pointer /\ answer \in Pointer
  BY <1>1, <1>4, NodeTypes DEF SplayTypeOK
<1> QED  BY <1>2, <1>3, <1>8, <1>9, <1>10, <1>11, Still

\* max_node goes right, or has found the greatest node below the root.
LEMMA MaxTurnStep ==
  ASSUME SplayInv, MaxTurn  PROVE SplayInv'
<1>1. SplayTypeOK /\ VictimOK /\ CallOK /\ SoughtOK  BY DEF SplayInv, TreeInv
<1>2. PICK lo, hi : TreeFits(lo, hi) /\ EdgeAt(lo, hi)
  BY DEF SplayInv, TreeInv, TreeOK
<1>3. /\ stage = "max"
      /\ UNCHANGED <<v, listVars, treeVars, size, call, last, victim, answer>>
      /\ IF Right(ptr) # nullptr
         THEN ptr' = Right(ptr) /\ stage' = "max"
         ELSE stage' = "splay" /\ ptr' = ptr
  BY DEF MaxTurn
<1>4. /\ ptr \in Nodes /\ victim = nullptr /\ hi[ptr] = root_node
      /\ call.op \in {"max", "remove max"}
      /\ Closest(root_node, call.k) /\ call.k < root_node
  BY <1>1, <1>2, <1>3 DEF CallOK, VictimOK, EdgeAt, SoughtOK
<1>5. Right(ptr) # nullptr => Right(ptr) \in Nodes /\ hi[Right(ptr)] = root_node
  BY <1>2, <1>4 DEF TreeFits, InOrder, Right
<1>6. Nodes' = Nodes /\ root_node' = root_node /\ victim' = victim /\ call' = call
  BY <1>3 DEF Nodes, treeVars
<1>7. ptr' \in Nodes /\ stage' \in {"max", "splay"}  BY <1>3, <1>4, <1>5
<1>8. CallOK'
  BY <1>1, <1>3, <1>4, <1>6, <1>7 DEF CallOK, Idle
<1>9. VictimOK' /\ EdgeAt(lo, hi)' /\ SearchAt(lo, hi)'
  BY <1>3, <1>4, <1>5, <1>6 DEF VictimOK, EdgeAt, SearchAt
<1>10. SoughtOK'
  <2>1. CASE Right(ptr) # nullptr
    <3>1. Closest(root_node, call.k)'  BY <1>4, <1>6 DEF Closest
    <3> QED  BY <1>3, <1>4, <1>6, <2>1, <3>1 DEF SoughtOK
  <2>2. CASE Right(ptr) = nullptr
    <3>1. \A m \in Nodes : ~(ptr < m /\ m < root_node)
      BY <1>2, <1>4, <2>2 DEF TreeFits, InOrder, Right
    <3>2. /\ \A m \in Nodes : m \in Nat
          /\ ptr \in Nat /\ call.k \in Nat /\ ptr < root_node /\ root_node \in Int
      BY <1>1, <1>2, <1>4, NodeTypes, KeyFacts DEF CallOK, TreeFits, InOrder
    <3>3. ptr < call.k
      <4>1. ~(call.k =< ptr /\ ptr < root_node)  BY <1>4 DEF Closest
      <4> QED  BY <3>2, <4>1
    <3>4. \A m \in Nodes : ~(ptr < m /\ m =< call.k) /\ ~(call.k =< m /\ m < ptr)
      <4> SUFFICES ASSUME NEW m \in Nodes
                   PROVE  ~(ptr < m /\ m =< call.k) /\ ~(call.k =< m /\ m < ptr)
        OBVIOUS
      <4>1. ~(ptr < m /\ m < root_node) /\ m \in Nat  BY <3>1, <3>2
      <4>2. call.k < root_node  BY <1>4
      <4> QED  BY <3>2, <3>3, <4>1, <4>2
    <3>5. Closest(ptr, call.k)' /\ ptr' = ptr
      BY <1>3, <1>6, <2>2, <3>4 DEF Closest
    <3>6. ptr' =< call'.k  BY <1>6, <3>2, <3>3, <3>5
    <3>7. Wanted(ptr)'  BY <3>5, <3>6 DEF Wanted
    <3> QED  BY <1>3, <1>4, <1>6, <2>2, <3>7 DEF SoughtOK
  <2> QED  BY <2>1, <2>2
<1>11. ptr' \in Pointer /\ last \in Pointer /\ answer \in Pointer
  BY <1>1, <1>7, KeyFacts DEF SplayTypeOK
<1> QED  BY <1>2, <1>3, <1>8, <1>9, <1>10, <1>11, Still

\* min_node goes left, or has found the least node of the right subtree.
LEMMA MinTurnStep ==
  ASSUME SplayInv, MinTurn  PROVE SplayInv'
<1>1. SplayTypeOK /\ VictimOK /\ CallOK /\ SoughtOK  BY DEF SplayInv, TreeInv
<1>2. PICK lo, hi : TreeFits(lo, hi) /\ EdgeAt(lo, hi)
  BY DEF SplayInv, TreeInv, TreeOK
<1>3. /\ stage = "min"
      /\ UNCHANGED <<v, listVars, treeVars, size, call, last, victim, answer>>
      /\ IF Left(ptr) # nullptr
         THEN ptr' = Left(ptr) /\ stage' = "min"
         ELSE stage' = "splay" /\ ptr' = ptr
  BY DEF MinTurn
<1>4. ptr \in Nodes /\ victim # nullptr /\ lo[ptr] = victim /\ victim \in Nodes
  BY <1>1, <1>2, <1>3 DEF CallOK, EdgeAt, SplayTypeOK
<1>5. Left(ptr) # nullptr => Left(ptr) \in Nodes /\ lo[Left(ptr)] = victim
  BY <1>2, <1>4 DEF TreeFits, InOrder, Left
<1>6. /\ Nodes' = Nodes /\ root_node' = root_node /\ victim' = victim /\ call' = call
      /\ splay_parent' = splay_parent /\ splay_children' = splay_children
  BY <1>3 DEF Nodes, treeVars
<1>7. ptr' \in Nodes /\ stage' \in {"min", "splay"} /\ lo[ptr'] = victim
  BY <1>3, <1>4, <1>5
<1>8. CallOK'
  BY <1>1, <1>3, <1>4, <1>6, <1>7 DEF CallOK, Idle
<1>9. EdgeAt(lo, hi)' /\ SearchAt(lo, hi)'
  BY <1>3, <1>4, <1>5, <1>6 DEF EdgeAt, SearchAt
<1>10. VictimOK'
  <2>1. victim < ptr'  BY <1>2, <1>7 DEF TreeFits, InOrder
  <2>2. stage' # "min" => \A m \in Nodes : victim < m => ptr' =< m
    <3>1. SUFFICES ASSUME Left(ptr) = nullptr, NEW m \in Nodes, victim < m
                   PROVE  ptr =< m
      BY <1>3
    <3>2. ~(lo[ptr] < m /\ m < ptr)
      BY <1>2, <1>4, <3>1 DEF TreeFits, InOrder, Left
    <3> QED  BY <1>1, <1>4, <3>1, <3>2, NodeTypes
  <2>3. /\ Removes /\ victim = root_node /\ splay_parent[victim] = nullptr
        /\ Left(victim) # nullptr /\ Right(victim) # nullptr
    BY <1>1, <1>4 DEF VictimOK
  <2>4. Removes' /\ Left(victim)' = Left(victim) /\ Right(victim)' = Right(victim)
    BY <1>6, <2>3 DEF Removes, Left, Right
  <2> QED  BY <1>6, <1>7, <2>1, <2>2, <2>3, <2>4 DEF VictimOK
<1>11. SoughtOK'
  BY <1>1, <1>4, <1>6, <1>7 DEF SoughtOK, Closest
<1>12. ptr' \in Pointer /\ last \in Pointer /\ answer \in Pointer
  BY <1>1, <1>7, KeyFacts DEF SplayTypeOK
<1> QED  BY <1>2, <1>3, <1>8, <1>9, <1>10, <1>11, <1>12, Still

(***************************************************************************)
(* insert                                                                  *)
(***************************************************************************)

\* A call whose splay alone is left.
LEMMA SettleFacts ==
  ASSUME SplayInv, call.op = "insert", Settling, stage' = "splay", ptr' \in Nodes',
         victim = nullptr, victim' = nullptr
  PROVE  /\ CallOK' /\ VictimOK' /\ SoughtOK'
         /\ \A lo, hi : SearchAt(lo, hi)' /\ EdgeAt(lo, hi)'
<1>1. call \in [op : Ops \cup {"none", "settle", "max", "remove max"},
                k : Key, x : Value \cup {NoArg}]
  BY DEF SplayInv, TreeInv, CallOK
<1>2. /\ call'.op = "settle"
      /\ call' \in [op : Ops \cup {"none", "settle", "max", "remove max"},
                    k : Key, x : Value \cup {NoArg}]
  BY <1>1 DEF Settling
<1>3. CallOK'
  BY <1>2 DEF CallOK, Idle
<1>4. VictimOK' /\ SoughtOK'
  BY <1>2 DEF VictimOK, SoughtOK, Wanted
<1>5. \A lo, hi : SearchAt(lo, hi)' /\ EdgeAt(lo, hi)'
  BY DEF SearchAt, EdgeAt
<1> QED  BY <1>3, <1>4, <1>5

\* The node that is there gets a new value.
LEMMA InsertOverStep ==
  ASSUME SplayInv, InsertOver  PROVE SplayInv'
<1>1. /\ SplayTypeOK /\ CallOK /\ Fresh /\ LinksAgree /\ ListInOrder
  BY DEF SplayInv, TreeInv
<1>2. PICK lo, hi : TreeFits(lo, hi) /\ SearchAt(lo, hi)
  BY DEF SplayInv, TreeInv, TreeOK
<1>3. /\ Landed /\ call.op = "insert" /\ Found = call.k
      /\ v' = [n \in Nodes \cup {call.k} |-> IF n = call.k THEN call.x ELSE v[n]]
      /\ ptr' = Found /\ last' = nullptr /\ stage' = "splay" /\ Settling
      /\ UNCHANGED <<listVars, treeVars, size, victim, answer>>
  BY DEF InsertOver, SetValue, SplayFound
<1>4. call.k \in Key /\ call.x \in Value /\ call.k # nullptr
  BY <1>1, <1>3, KeyFacts DEF CallOK
<1>5. victim = nullptr /\ call.k \in Nodes  BY <1>2, <1>3, <1>4, FoundFacts
<1>6. Nodes' = Nodes /\ v' \in [Nodes -> Value]
  BY <1>1, <1>3, <1>4, <1>5 DEF Nodes, SplayTypeOK
<1>7. /\ size' = size /\ victim' = victim /\ answer' = answer
      /\ parent' = parent /\ children' = children
      /\ splay_parent' = splay_parent /\ splay_children' = splay_children
      /\ root_node' = root_node
  BY <1>3 DEF listVars, treeVars
<1>8. SplayTypeOK'
  BY <1>1, <1>3, <1>4, <1>5, <1>6, <1>7, KeyFacts DEF SplayTypeOK
<1>9. Fresh'  BY <1>1, <1>6, <1>7 DEF Fresh
<1>10. LinksAgree'  BY <1>1, <1>6, <1>7 DEF LinksAgree, Left, Right
<1>11. ListInOrder'  BY <1>1, <1>6, <1>7 DEF ListInOrder, Listed
<1>12. CallOK' /\ VictimOK' /\ SoughtOK' /\ SearchAt(lo, hi)' /\ EdgeAt(lo, hi)'
  BY <1>3, <1>5, <1>6, <1>7, SettleFacts
<1>13. TreeFits(lo, hi)'  BY <1>2, <1>6, <1>7 DEF TreeFits
<1>14. TreeOK'  BY <1>12, <1>13 DEF TreeOK
<1> QED  BY <1>8, <1>9, <1>10, <1>11, <1>12, <1>14 DEF SplayInv, TreeInv

\* The first node is the tree.
LEMMA InsertFirstStep ==
  ASSUME SplayInv, InsertFirst  PROVE SplayInv'
<1>1. /\ SplayTypeOK /\ CallOK /\ Fresh /\ LinksAgree /\ ListInOrder
  BY DEF SplayInv, TreeInv
<1>2. PICK lo, hi : TreeFits(lo, hi) /\ SearchAt(lo, hi)
  BY DEF SplayInv, TreeInv, TreeOK
<1>0. PICK k : k = call.k  OBVIOUS
<1>3. /\ Landed /\ call.op = "insert" /\ Found = nullptr
      /\ v' = [n \in Nodes \cup {k} |-> IF n = k THEN call.x ELSE v[n]]
      /\ NodeAt(k, nullptr, nullptr)
      /\ root_node' = k /\ size' = size + 1 /\ Return
      /\ UNCHANGED <<splay_parent, splay_children, answer>>
  BY <1>0 DEF InsertFirst, SetValue
<1>4. /\ k \in Key /\ k \in Nat /\ k =< MaxKey /\ MaxKey \in Nat
      /\ call.x \in Value /\ k # nullptr
  BY <1>0, <1>1, <1>3, KeyFacts DEF CallOK
<1>5. victim = nullptr /\ Nodes = {}  BY <1>2, <1>3, FoundFacts
<1>6. Nodes' = {k} /\ v' \in [{k} -> Value]
  BY <1>3, <1>4, <1>5 DEF Nodes
<1>7. parent' = [n \in Key |-> IF n = k THEN nullptr ELSE parent[n]]
      /\ children' = [n \in Key |-> IF n = k THEN nullptr ELSE children[n]]
  <2>1. \A n \in Key : n # nullptr  BY KeyFacts
  <2> QED  BY <1>3, <2>1 DEF NodeAt
<1>8. size' = Cardinality(Nodes')
  <2>1. size = 0  BY <1>1, <1>5, FS_EmptySet DEF SplayTypeOK
  <2>2. Cardinality({k}) = 1  BY FS_Singleton
  <2> QED  BY <1>3, <1>6, <2>1, <2>2
<1>9. /\ ptr' = nullptr /\ last' = nullptr /\ victim' = nullptr
      /\ CallOK' /\ VictimOK' /\ SoughtOK'
      /\ \A a, b : SearchAt(a, b)' /\ EdgeAt(a, b)'
  BY <1>3, ReturnFacts
<1>10. SplayTypeOK'
  <2>1. parent' \in [Key -> Pointer] /\ children' \in [Key -> Pointer]
    BY <1>1, <1>7, KeyFacts DEF SplayTypeOK
  <2> QED  BY <1>1, <1>3, <1>4, <1>6, <1>8, <1>9, <2>1, KeyFacts DEF SplayTypeOK
<1>11. splay_parent[k] = nullptr /\ splay_children[k][0] = nullptr
       /\ splay_children[k][1] = nullptr /\ Fresh'
  <2>1. splay_parent[k] = nullptr /\ splay_children[k] = Leaf
    BY <1>1, <1>4, <1>5 DEF Fresh
  <2>2. Fresh'  BY <1>1, <1>3, <1>5, <1>6 DEF Fresh
  <2> QED  BY <2>1, <2>2 DEF Leaf
<1>12. LinksAgree'
  <2>1. \A t \in 0..1 : splay_children[k][t] = nullptr  BY <1>11, KeyFacts
  <2> QED  BY <1>3, <1>6, <1>11, <2>1 DEF LinksAgree
<1>13. ListInOrder'
  BY <1>4, <1>6, <1>7, <1>9 DEF ListInOrder, Listed
<1>14. TreeOK'
  <2> DEFINE a == [n \in {k} |-> -1]
             b == [n \in {k} |-> MaxKey + 1]
  <2>1. a[k] = -1 /\ b[k] = MaxKey + 1  OBVIOUS
  <2> HIDE DEF a, b
  <2>2. InOrder({k}, splay_children, k, a, b)
    BY <1>4, <1>11, <2>1 DEF InOrder
  <2>3. TreeFits(a, b)'  BY <1>3, <1>6, <2>2 DEF TreeFits
  <2> QED  BY <1>9, <2>3 DEF TreeOK
<1> QED  BY <1>9, <1>10, <1>11, <1>12, <1>13, <1>14 DEF SplayInv, TreeInv

\* The node k hangs as a leaf from f, where there was none.
NewLeaf(N, sc, tc, f, k) ==
  /\ sc[f][IF k < f THEN 0 ELSE 1] = nullptr
  /\ \A m \in N : \A t \in {0, 1} : tc[m][t] =
       IF m = f /\ t = (IF k < f THEN 0 ELSE 1) THEN k ELSE sc[m][t]
  /\ tc[k][0] = nullptr /\ tc[k][1] = nullptr

\* A new leaf k hangs from f, where its search ended: between its bounds there
\* was no node.
LEMMA LeafOrder ==
  ASSUME NEW N \in SUBSET Key, NEW sc, NEW tc, NEW root, NEW lo, NEW hi,
         InOrder(N, sc, root, lo, hi),
         NEW f \in N, NEW k \in Key \ N, lo[f] < k, k < hi[f],
         NewLeaf(N, sc, tc, f, k)
  PROVE  \E a, b : InOrder(N \cup {k}, tc, root, a, b)
<1> /\ sc[f][IF k < f THEN 0 ELSE 1] = nullptr
    /\ \A m \in N : \A t \in {0, 1} : tc[m][t] =
         IF m = f /\ t = (IF k < f THEN 0 ELSE 1) THEN k ELSE sc[m][t]
    /\ tc[k][0] = nullptr /\ tc[k][1] = nullptr
  BY DEF NewLeaf
<1> DEFINE A == IF k < f THEN lo[f] ELSE f
           B == IF k < f THEN f ELSE hi[f]
           a == [m \in N \cup {k} |-> IF m = k THEN A ELSE lo[m]]
           b == [m \in N \cup {k} |-> IF m = k THEN B ELSE hi[m]]
<1>1. /\ N \subseteq Nat /\ nullptr = -1 /\ nullptr \notin N /\ k \in Nat /\ k \notin N
      /\ k =< MaxKey /\ MaxKey \in Nat /\ f # k /\ k # nullptr /\ f \in Nat
  BY KeyFacts
<1>2. /\ \A m \in N : /\ lo[m] \in Int /\ hi[m] \in Int /\ lo[m] < m /\ m < hi[m]
      /\ \A m \in N : lo[m] \in N \cup {-1} /\ hi[m] \in N \cup {MaxKey + 1}
  BY DEF InOrder
<1>3. \A m \in N : /\ sc[m][0] # nullptr =>
                        sc[m][0] \in N /\ lo[sc[m][0]] = lo[m] /\ hi[sc[m][0]] = m
                   /\ sc[m][1] # nullptr =>
                        sc[m][1] \in N /\ lo[sc[m][1]] = m /\ hi[sc[m][1]] = hi[m]
  BY DEF InOrder
<1>4. \A n, m \in N :
        /\ lo[n] < m /\ m < n => sc[n][0] # nullptr /\ lo[n] =< lo[m] /\ hi[m] =< n
        /\ n < m /\ m < hi[n] => sc[n][1] # nullptr /\ n =< lo[m] /\ hi[m] =< hi[n]
  BY DEF InOrder
<1>5. \A n, m \in N : /\ hi[n] = m => lo[m] =< lo[n]
                      /\ lo[n] = m => hi[n] =< hi[m]
  BY DEF InOrder
<1>6. /\ A \in Int /\ B \in Int /\ A < k /\ k < B
      /\ A \in N \cup {-1} /\ B \in N \cup {MaxKey + 1}
      /\ \A m \in N : m =< A \/ B =< m
  <2>1. CASE k < f
    <3>1. \A m \in N : ~(lo[f] < m /\ m < f)  BY <1>4, <2>1
    <3> QED  BY <1>1, <1>2, <2>1, <3>1
  <2>2. CASE ~(k < f)
    <3>1. \A m \in N : ~(f < m /\ m < hi[f])  BY <1>4, <2>2
    <3> QED  BY <1>1, <1>2, <2>2, <3>1
  <2> QED  BY <2>1, <2>2
<1>7. /\ (k < f /\ A = lo[f] /\ B = f) \/ (f < k /\ A = f /\ B = hi[f])
      /\ lo[f] =< A /\ B =< hi[f]
  BY <1>1, <1>2
<1>8. \A m \in N \cup {k} : /\ a[m] = IF m = k THEN A ELSE lo[m]
                            /\ b[m] = IF m = k THEN B ELSE hi[m]
  OBVIOUS
<1> HIDE DEF A, B, a, b
<1>9. \A m \in N \cup {k} :
        /\ a[m] \in Int /\ b[m] \in Int /\ a[m] < m /\ m < b[m]
        /\ a[m] \in (N \cup {k}) \cup {-1} /\ b[m] \in (N \cup {k}) \cup {MaxKey + 1}
  BY <1>2, <1>6, <1>8
<1>10. ASSUME NEW n \in N \cup {k}, tc[n][0] # nullptr
       PROVE  tc[n][0] \in N \cup {k} /\ a[tc[n][0]] = a[n] /\ b[tc[n][0]] = n
  <2>1. n \in N  BY <1>10
  <2>2. CASE n = f /\ k < f
    <3>1. tc[n][0] = k  BY <2>2
    <3> QED  BY <1>1, <1>7, <1>8, <2>2, <3>1
  <2>3. CASE ~(n = f /\ k < f)
    <3>1. tc[n][0] = sc[n][0]  BY <2>1, <2>3
    <3>2. sc[n][0] \in N /\ lo[sc[n][0]] = lo[n] /\ hi[sc[n][0]] = n
      BY <1>3, <1>10, <2>1, <3>1
    <3>3. sc[n][0] # k /\ n # k  BY <1>1, <2>1, <3>2
    <3> QED  BY <1>8, <2>1, <3>1, <3>2, <3>3
  <2> QED  BY <2>2, <2>3
<1>11. ASSUME NEW n \in N \cup {k}, tc[n][1] # nullptr
       PROVE  tc[n][1] \in N \cup {k} /\ a[tc[n][1]] = n /\ b[tc[n][1]] = b[n]
  <2>1. n \in N  BY <1>11
  <2>2. CASE n = f /\ ~(k < f)
    <3>1. tc[n][1] = k  BY <2>2
    <3> QED  BY <1>1, <1>7, <1>8, <2>2, <3>1
  <2>3. CASE ~(n = f /\ ~(k < f))
    <3>1. tc[n][1] = sc[n][1]  BY <2>1, <2>3
    <3>2. sc[n][1] \in N /\ lo[sc[n][1]] = n /\ hi[sc[n][1]] = hi[n]
      BY <1>3, <1>11, <2>1, <3>1
    <3>3. sc[n][1] # k /\ n # k  BY <1>1, <2>1, <3>2
    <3> QED  BY <1>8, <2>1, <3>1, <3>2, <3>3
  <2> QED  BY <2>2, <2>3
<1>12. \A m \in N : /\ lo[m] =< A \/ B =< lo[m]
                    /\ hi[m] =< A \/ B =< hi[m]
  <2> SUFFICES ASSUME NEW m \in N  PROVE (lo[m] =< A \/ B =< lo[m]) /\ (hi[m] =< A \/ B =< hi[m])
    OBVIOUS
  <2>1. -1 =< A  BY <1>1, <1>6
  <2>2. B =< MaxKey + 1  BY <1>1, <1>6, KeyFacts
  <2> QED  BY <1>1, <1>2, <1>6, <2>1, <2>2
<1>13. ASSUME NEW n \in N \cup {k}, NEW m \in N \cup {k}, a[n] < m, m < n
       PROVE  tc[n][0] # nullptr /\ a[n] =< a[m] /\ b[m] =< n
  <2>1. CASE n = k
    <3>1. m \in N /\ A < m /\ m < k  BY <1>1, <1>8, <1>13, <2>1
    <3> QED  BY <1>1, <1>6, <3>1
  <2>2. CASE n # k /\ m # k
    <3>1. sc[n][0] # nullptr /\ lo[n] =< lo[m] /\ hi[m] =< n
      BY <1>4, <1>8, <1>13, <2>2
    <3>2. tc[n][0] # nullptr  BY <1>1, <2>2, <3>1
    <3> QED  BY <1>8, <2>2, <3>1, <3>2
  <2>3. CASE n # k /\ m = k
    <3>1. n \in N /\ lo[n] < k /\ k < n /\ n \in Nat  BY <1>1, <1>8, <1>13, <2>3
    <3>2. lo[n] =< A /\ B =< n  BY <1>1, <1>2, <1>6, <1>12, <3>1
    <3>3. tc[n][0] # nullptr
      <4>1. CASE n = f  BY <1>1, <3>1, <4>1
      <4>2. CASE n # f /\ lo[n] < f
        <5>1. f < n  BY <1>1, <1>2, <1>6, <1>7, <3>1, <3>2, <4>2
        <5>2. sc[n][0] # nullptr  BY <1>4, <3>1, <4>2, <5>1
        <5> QED  BY <1>1, <3>1, <5>2
      <4>3. CASE ~(lo[n] < f)
        <5>1. f = A /\ lo[n] = f /\ B = hi[f]
          BY <1>1, <1>2, <1>6, <1>7, <3>1, <3>2, <4>3
        <5>2. hi[n] =< hi[f]  BY <1>5, <3>1, <5>1
        <5> QED  BY <1>1, <1>2, <1>6, <3>1, <3>2, <5>1, <5>2
      <4> QED  BY <4>1, <4>2, <4>3
    <3> QED  BY <1>8, <2>3, <3>1, <3>2, <3>3
  <2> QED  BY <2>1, <2>2, <2>3
<1>14. ASSUME NEW n \in N \cup {k}, NEW m \in N \cup {k}, n < m, m < b[n]
       PROVE  tc[n][1] # nullptr /\ n =< a[m] /\ b[m] =< b[n]
  <2>1. CASE n = k
    <3>1. m \in N /\ k < m /\ m < B  BY <1>1, <1>8, <1>14, <2>1
    <3> QED  BY <1>1, <1>6, <3>1
  <2>2. CASE n # k /\ m # k
    <3>1. sc[n][1] # nullptr /\ n =< lo[m] /\ hi[m] =< hi[n]
      BY <1>4, <1>8, <1>14, <2>2
    <3>2. tc[n][1] # nullptr  BY <1>1, <2>2, <3>1
    <3> QED  BY <1>8, <2>2, <3>1, <3>2
  <2>3. CASE n # k /\ m = k
    <3>1. n \in N /\ n < k /\ k < hi[n] /\ n \in Nat  BY <1>1, <1>8, <1>14, <2>3
    <3>2. n =< A /\ B =< hi[n]  BY <1>1, <1>2, <1>6, <1>12, <3>1
    <3>3. tc[n][1] # nullptr
      <4>1. CASE n = f  BY <1>1, <3>1, <4>1
      <4>2. CASE n # f /\ f < hi[n]
        <5>1. n < f  BY <1>1, <1>2, <1>6, <1>7, <3>1, <3>2, <4>2
        <5>2. sc[n][1] # nullptr  BY <1>4, <3>1, <4>2, <5>1
        <5> QED  BY <1>1, <3>1, <5>2
      <4>3. CASE ~(f < hi[n])
        <5>1. f = B /\ hi[n] = f /\ A = lo[f]
          BY <1>1, <1>2, <1>6, <1>7, <3>1, <3>2, <4>3
        <5>2. lo[f] =< lo[n]  BY <1>5, <3>1, <5>1
        <5> QED  BY <1>1, <1>2, <1>6, <3>1, <3>2, <5>1, <5>2
      <4> QED  BY <4>1, <4>2, <4>3
    <3> QED  BY <1>8, <2>3, <3>1, <3>2, <3>3
  <2> QED  BY <2>1, <2>2, <2>3
<1>15. ASSUME NEW n \in N \cup {k}, NEW m \in N \cup {k}
       PROVE  /\ b[n] = m => a[m] =< a[n]
              /\ a[n] = m => b[n] =< b[m]
  <2>1. CASE n = k
    <3>1. m = B => m \in N /\ lo[m] =< A  BY <1>1, <1>2, <1>5, <1>6, <1>7
    <3>2. m = A => m \in N /\ B =< hi[m]  BY <1>1, <1>2, <1>5, <1>6, <1>7
    <3> QED  BY <1>1, <1>8, <2>1, <3>1, <3>2
  <2>2. CASE n # k
    <3>1. n \in N /\ a[n] = lo[n] /\ b[n] = hi[n]  BY <1>8, <2>2
    <3>2. hi[n] # k /\ lo[n] # k  BY <1>1, <1>2, <3>1
    <3>3. /\ b[n] = m => m \in N /\ lo[m] =< lo[n]
          /\ a[n] = m => m \in N /\ hi[n] =< hi[m]
      BY <1>5, <3>1, <3>2
    <3> QED  BY <1>8, <3>1, <3>2, <3>3
  <2> QED  BY <2>1, <2>2
<1>16. root # nullptr /\ root \in N \cup {k} /\ a[root] = -1 /\ b[root] = MaxKey + 1
  <2>1. root # nullptr /\ root \in N /\ lo[root] = -1 /\ hi[root] = MaxKey + 1
    BY DEF InOrder
  <2> QED  BY <1>1, <1>8, <2>1
<1>17. InOrder(N \cup {k}, tc, root, a, b)
  BY <1>9, <1>10, <1>11, <1>13, <1>14, <1>15, <1>16 DEF InOrder
<1> QED  BY <1>17

\* The list's links for a set N of nodes: ListInOrder is this for Listed.
InList(N, pa, ch) ==
  \A n \in N :
    /\ IF pa[n] = nullptr THEN \A m \in N : m >= n
       ELSE /\ pa[n] \in N /\ pa[n] < n
            /\ \A m \in N : m < n => m =< pa[n]
    /\ IF ch[n] = nullptr THEN \A m \in N : m =< n
       ELSE /\ ch[n] \in N /\ ch[n] > n
            /\ \A m \in N : m > n => m >= ch[n]

\* A node k linked between the nodes next to its key.
LEMMA LinkBetween ==
  ASSUME NEW N \in SUBSET Key, NEW k \in Key \ N, NEW pa, NEW ch, NEW qa, NEW qc,
         NEW x, NEW y, InList(N, pa, ch),
         x # nullptr => x \in N /\ x < k,
         y # nullptr => y \in N /\ k < y,
         \A m \in N : m < k => x # nullptr /\ m =< x,
         \A m \in N : k < m => y # nullptr /\ y =< m,
         \A m \in N \cup {k} : /\ qa[m] = IF m = k THEN x ELSE IF m = y THEN k ELSE pa[m]
                               /\ qc[m] = IF m = k THEN y ELSE IF m = x THEN k ELSE ch[m]
  PROVE  InList(N \cup {k}, qa, qc)
<1>1. /\ k \in Nat /\ k \notin N /\ k # nullptr
      /\ \A m \in N : m \in Nat /\ m # nullptr
  BY KeyFacts
<1>2. ASSUME NEW n \in N \cup {k}
      PROVE  IF qa[n] = nullptr THEN \A m \in N \cup {k} : m >= n
             ELSE /\ qa[n] \in N \cup {k} /\ qa[n] < n
                  /\ \A m \in N \cup {k} : m < n => m =< qa[n]
  <2>1. CASE n = k  BY <1>1, <2>1
  <2>2. CASE n # k /\ n = y
    <3>1. qa[n] = k /\ k < n /\ n \in N  BY <1>1, <2>2
    <3>2. \A m \in N : m < n => m =< k  BY <1>1, <2>2, <3>1
    <3> QED  BY <1>1, <3>1, <3>2
  <2>3. CASE n # k /\ n # y
    <3>1. qa[n] = pa[n] /\ n \in N /\ n \in Nat  BY <1>1, <2>3
    <3>2. IF pa[n] = nullptr THEN \A m \in N : m >= n
          ELSE /\ pa[n] \in N /\ pa[n] < n
               /\ \A m \in N : m < n => m =< pa[n]
      BY <3>1 DEF InList
    <3>3. k < n => y \in N /\ y \in Nat /\ k < y /\ y < n
      <4>1. SUFFICES ASSUME k < n  PROVE y \in N /\ y \in Nat /\ k < y /\ y < n
        OBVIOUS
      <4>2. y # nullptr /\ y =< n  BY <3>1, <4>1
      <4>3. y \in N /\ k < y  BY <4>2
      <4>4. y \in Nat /\ n \in Nat /\ y # n  BY <1>1, <2>3, <3>1, <4>3
      <4> QED  BY ONLY <4>2, <4>3, <4>4
    <3>4. CASE pa[n] = nullptr
      BY <1>1, <3>1, <3>2, <3>3, <3>4
    <3>5. CASE pa[n] # nullptr
      <4>1. pa[n] \in N /\ pa[n] \in Nat /\ pa[n] < n  BY <1>1, <3>2, <3>5
      <4>2. k < n => k =< pa[n]  BY <1>1, <3>2, <3>3, <3>5, <4>1
      <4> QED  BY <1>1, <3>1, <3>2, <3>5, <4>1, <4>2
    <3> QED  BY <3>4, <3>5
  <2> QED  BY <2>1, <2>2, <2>3
<1>3. ASSUME NEW n \in N \cup {k}
      PROVE  IF qc[n] = nullptr THEN \A m \in N \cup {k} : m =< n
             ELSE /\ qc[n] \in N \cup {k} /\ qc[n] > n
                  /\ \A m \in N \cup {k} : m > n => m >= qc[n]
  <2>1. CASE n = k  BY <1>1, <2>1
  <2>2. CASE n # k /\ n = x
    <3>1. qc[n] = k /\ n < k /\ n \in N  BY <1>1, <2>2
    <3>2. \A m \in N : n < m => k =< m  BY <1>1, <2>2, <3>1
    <3> QED  BY <1>1, <3>1, <3>2
  <2>3. CASE n # k /\ n # x
    <3>1. qc[n] = ch[n] /\ n \in N /\ n \in Nat  BY <1>1, <2>3
    <3>2. IF ch[n] = nullptr THEN \A m \in N : m =< n
          ELSE /\ ch[n] \in N /\ ch[n] > n
               /\ \A m \in N : m > n => m >= ch[n]
      BY <3>1 DEF InList
    <3>3. n < k => x \in N /\ x \in Nat /\ x < k /\ n < x
      <4>1. SUFFICES ASSUME n < k  PROVE x \in N /\ x \in Nat /\ x < k /\ n < x
        OBVIOUS
      <4>2. x # nullptr /\ n =< x  BY <3>1, <4>1
      <4>3. x \in N /\ x < k  BY <4>2
      <4>4. x \in Nat /\ n \in Nat /\ x # n  BY <1>1, <2>3, <3>1, <4>3
      <4> QED  BY ONLY <4>2, <4>3, <4>4
    <3>4. CASE ch[n] = nullptr
      BY <1>1, <3>1, <3>2, <3>3, <3>4
    <3>5. CASE ch[n] # nullptr
      <4>1. ch[n] \in N /\ ch[n] \in Nat /\ ch[n] > n  BY <1>1, <3>2, <3>5
      <4>2. n < k => ch[n] =< k  BY <1>1, <3>2, <3>3, <3>5, <4>1
      <4> QED  BY <1>1, <3>1, <3>2, <3>5, <4>1, <4>2
    <3> QED  BY <3>4, <3>5
  <2> QED  BY <2>1, <2>2, <2>3
<1> QED  BY <1>2, <1>3 DEF InList

\* A new node hangs from the node where the search for it ended, and stands
\* next to that in the list.
LEMMA InsertLeafStep ==
  ASSUME SplayInv, InsertLeaf  PROVE SplayInv'
<1>1. /\ SplayTypeOK /\ CallOK /\ Fresh /\ LinksAgree /\ ListInOrder
  BY DEF SplayInv, TreeInv
<1>2. PICK lo, hi : TreeFits(lo, hi) /\ SearchAt(lo, hi)
  BY DEF SplayInv, TreeInv, TreeOK
<1>0. PICK k, f, T : k = call.k /\ f = Found /\ T = IF f < k THEN 1 ELSE 0
  OBVIOUS
<1>3. /\ Landed /\ call.op = "insert" /\ f \notin {nullptr, k}
      /\ v' = [n \in Nodes \cup {k} |-> IF n = k THEN call.x ELSE v[n]]
      /\ IF f < k THEN NodeAt(k, f, children[f]) ELSE NodeAt(k, parent[f], f)
      /\ splay_parent' = [splay_parent EXCEPT ![k] = f]
      /\ splay_children' = [splay_children EXCEPT ![f][T] = k]
      /\ size' = size + 1
      /\ ptr' = f /\ last' = nullptr /\ stage' = "splay" /\ Settling
      /\ root_node' = root_node /\ victim' = victim /\ answer' = answer
  BY <1>0 DEF InsertLeaf, SetValue, SplayFound
<1>4. /\ k \in Key /\ k \in Nat /\ call.x \in Value /\ k # nullptr
  BY <1>0, <1>1, <1>3, KeyFacts DEF CallOK
<1>5. /\ victim = nullptr /\ f \in Nodes /\ k \notin Nodes /\ Closest(f, k)
      /\ lo[f] < k /\ k < hi[f]
      /\ splay_children[f][IF k < f THEN 0 ELSE 1] = nullptr
  BY <1>0, <1>2, <1>3, FoundFacts
<1>6. /\ f \in Key /\ f \in Nat /\ f # k /\ f # nullptr /\ T \in {0, 1} /\ Nodes \in SUBSET Key
      /\ T = (IF k < f THEN 0 ELSE 1) /\ (f < k \/ k < f)
      /\ \A m \in Nodes : m \in Nat /\ m # nullptr
      /\ splay_children[f][T] = nullptr
  <2>1. /\ f \in Key /\ f \in Nat /\ f # k /\ f # nullptr
        /\ \A m \in Nodes : m \in Nat /\ m # nullptr
    BY <1>1, <1>3, <1>5, NodeTypes
  <2>2. (f < k \/ k < f) /\ T = (IF k < f THEN 0 ELSE 1) /\ T \in {0, 1}
    BY <1>0, <1>4, <2>1
  <2>3. Nodes \in SUBSET Key  BY <1>1 DEF SplayTypeOK
  <2> QED  BY <1>5, <2>1, <2>2, <2>3
<1>7. Nodes' = Nodes \cup {k} /\ v' \in [Nodes \cup {k} -> Value]
  BY <1>1, <1>3, <1>4, <1>5 DEF Nodes, SplayTypeOK
<1>8. /\ splay_parent' \in [Key -> Pointer]
      /\ \A m \in Key : splay_parent'[m] = IF m = k THEN f ELSE splay_parent[m]
  <2>1. splay_parent \in [Key -> Pointer] /\ f \in Pointer
    BY <1>1, <1>6, KeyFacts DEF SplayTypeOK
  <2> QED  BY <1>3, <1>4, <2>1
<1>9. /\ splay_children' \in [Key -> [0..1 -> Pointer]]
      /\ \A m \in Key : \A t \in {0, 1} : splay_children'[m][t] =
           IF m = f /\ t = T THEN k ELSE splay_children[m][t]
      /\ \A m \in Key : m # f => splay_children'[m] = splay_children[m]
  <2>1. splay_children \in [Key -> [0..1 -> Pointer]] /\ k \in Pointer /\ 0..1 = {0, 1}
    BY <1>1, <1>4, KeyFacts DEF SplayTypeOK
  <2> QED  BY <1>3, <1>6, <2>1
<1>10. splay_parent[k] = nullptr /\ splay_children[k][0] = nullptr
       /\ splay_children[k][1] = nullptr
  BY <1>1, <1>4, <1>5 DEF Fresh, Leaf
<1>11. PICK x, y :
         /\ parent' = [n \in Key |-> IF n = k THEN x ELSE IF n = y THEN k ELSE parent[n]]
         /\ children' = [n \in Key |-> IF n = k THEN y ELSE IF n = x THEN k ELSE children[n]]
         /\ x # nullptr => x \in Nodes /\ x < k
         /\ y # nullptr => y \in Nodes /\ k < y
         /\ \A m \in Nodes : m < k => x # nullptr /\ m =< x
         /\ \A m \in Nodes : k < m => y # nullptr /\ y =< m
  <2>1. /\ IF parent[f] = nullptr THEN \A m \in Nodes : m >= f
           ELSE /\ parent[f] \in Nodes /\ parent[f] < f
                /\ \A m \in Nodes : m < f => m =< parent[f]
        /\ IF children[f] = nullptr THEN \A m \in Nodes : m =< f
           ELSE /\ children[f] \in Nodes /\ children[f] > f
                /\ \A m \in Nodes : m > f => m >= children[f]
    <3>1. Listed = Nodes /\ f \in Listed  BY <1>5, <1>6 DEF Listed
    <3> QED  BY <1>1, <3>1 DEF ListInOrder
  <2>2. \A m \in Nodes : ~(f < m /\ m =< k) /\ ~(k =< m /\ m < f)
    BY <1>5 DEF Closest
  <2>3. CASE f < k
    <3>1. NodeAt(k, f, children[f])  BY <1>3, <2>3
    <3>2. \A m \in Nodes : m < k => m =< f  BY <1>4, <1>6, <2>2
    <3>3. /\ children[f] # nullptr => children[f] \in Nodes /\ k < children[f]
          /\ \A m \in Nodes : k < m => children[f] # nullptr /\ children[f] =< m
      BY <1>4, <1>6, <2>1, <2>2, <2>3
    <3> QED  BY <1>5, <1>6, <2>3, <3>1, <3>2, <3>3 DEF NodeAt
  <2>4. CASE k < f
    <3>1. NodeAt(k, parent[f], f)  BY <1>3, <1>4, <1>6, <2>4
    <3>2. \A m \in Nodes : k < m => f =< m  BY <1>4, <1>6, <2>2
    <3>3. /\ parent[f] # nullptr => parent[f] \in Nodes /\ parent[f] < k
          /\ \A m \in Nodes : m < k => parent[f] # nullptr /\ m =< parent[f]
      BY <1>4, <1>6, <2>1, <2>2, <2>4
    <3> QED  BY <1>5, <1>6, <2>4, <3>1, <3>2, <3>3 DEF NodeAt
  <2> QED  BY <1>6, <2>3, <2>4
<1>12. SplayTypeOK'
  <2>1. parent' \in [Key -> Pointer] /\ children' \in [Key -> Pointer]
    <3>1. parent \in [Key -> Pointer] /\ children \in [Key -> Pointer]
          /\ x \in Pointer /\ y \in Pointer /\ k \in Pointer
      BY <1>1, <1>4, <1>6, <1>11, KeyFacts DEF SplayTypeOK
    <3> QED  BY <1>11, <3>1
  <2>2. size' = Cardinality(Nodes')
    <3>1. IsFiniteSet(Nodes)
      <4>1. IsFiniteSet(Key)  BY FS_Interval, MaxKeyAssumption DEF Key
      <4> QED  BY <1>6, <4>1, FS_Subset
    <3>2. Cardinality(Nodes \cup {k}) = Cardinality(Nodes) + 1
      BY <1>5, <3>1, FS_AddElement
    <3> QED  BY <1>1, <1>3, <1>7, <3>2 DEF SplayTypeOK
  <2>3. ptr' \in Pointer /\ last' \in Pointer /\ answer' \in Pointer
        /\ root_node' \in Pointer /\ victim' \in Nodes' \cup {nullptr}
    BY <1>1, <1>3, <1>5, <1>6, KeyFacts DEF SplayTypeOK
  <2>4. Nodes' \subseteq Key /\ v' \in [Nodes' -> Value]  BY <1>4, <1>6, <1>7
  <2> QED  BY <1>8, <1>9, <2>1, <2>2, <2>3, <2>4 DEF SplayTypeOK
<1>13. Fresh'
  <2> SUFFICES ASSUME NEW m \in Key \ Nodes'
               PROVE  splay_parent'[m] = nullptr /\ splay_children'[m] = Leaf
    BY DEF Fresh
  <2>1. m \in Key \ Nodes /\ m # k /\ m # f  BY <1>5, <1>7
  <2> QED  BY <1>1, <1>8, <1>9, <2>1 DEF Fresh
<1>14. LinksAgree'
  <2>1. ASSUME NEW n \in Nodes \cup {k}, NEW i \in {0, 1}, splay_children'[n][i] # nullptr
        PROVE  splay_children'[n][i] \in Nodes \cup {k}
               /\ splay_parent'[splay_children'[n][i]] = n
    <3>1. CASE n = f /\ i = T  BY <1>4, <1>6, <1>8, <1>9, <3>1
    <3>2. CASE ~(n = f /\ i = T)
      <4>1. splay_children'[n][i] = splay_children[n][i]  BY <1>4, <1>6, <1>9, <3>2
      <4>2. n \in Nodes  BY <1>10, <2>1, <4>1
      <4>3. splay_children[n][i] \in Nodes /\ splay_parent[splay_children[n][i]] = n
        <5>1. n # victim  BY <1>5, <1>6, <4>2
        <5> QED  BY <1>1, <2>1, <4>1, <4>2, <5>1, LinkFacts
      <4> QED  BY <1>5, <1>6, <1>8, <4>1, <4>3
    <3> QED  BY <3>1, <3>2
  <2>2. ASSUME NEW n \in Nodes \cup {k}
        PROVE  IF splay_parent'[n] # nullptr
               THEN n \in {splay_children'[splay_parent'[n]][0],
                           splay_children'[splay_parent'[n]][1]}
               ELSE n = root_node
    <3>1. CASE n = k
      BY <1>4, <1>6, <1>8, <1>9, <3>1
    <3>2. CASE n # k
      <4>1. splay_parent'[n] = splay_parent[n] /\ n \in Nodes /\ n # nullptr
            /\ splay_parent[n] \in Pointer
        BY <1>1, <1>6, <1>8, <3>2, NodeTypes
      <4>2. CASE splay_parent[n] = nullptr
        <5>1. n = root_node  BY <1>1, <1>5, <4>1, <4>2 DEF LinksAgree
        <5> QED  BY <4>1, <4>2, <5>1
      <4>3. CASE splay_parent[n] # nullptr
        <5>1. n \in {splay_children[splay_parent[n]][0], splay_children[splay_parent[n]][1]}
          BY <1>1, <4>1, <4>3 DEF LinksAgree, Left, Right
        <5>2. splay_parent[n] \in Key  BY <4>1, <4>3, KeyFacts
        <5>3. \A t \in {0, 1} : splay_children[splay_parent[n]][t] = n =>
                splay_children'[splay_parent[n]][t] = n
          BY <1>6, <1>9, <4>1, <5>2
        <5> QED  BY <4>1, <4>3, <5>1, <5>3
      <4> QED  BY <4>2, <4>3
    <3> QED  BY <3>1, <3>2
  <2>3. victim' = nullptr /\ \A n \in Nodes \cup {k} : n # nullptr
    BY <1>3, <1>4, <1>5, <1>6
  <2>4. \A n \in Nodes', i \in 0..1 :
          splay_children'[n][i] # nullptr =>
             /\ splay_children'[n][i] \in Nodes'
             /\ splay_parent'[splay_children'[n][i]] =
                  (IF n = victim' /\ i = 1 THEN nullptr ELSE n)
    BY <1>7, <2>1, <2>3, KeyFacts
  <2>5. \A n \in Nodes' :
          IF splay_parent'[n] # nullptr
          THEN n \in {splay_children'[splay_parent'[n]][0],
                      splay_children'[splay_parent'[n]][1]}
          ELSE n = root_node' \/ (victim' # nullptr /\ n = splay_children'[victim'][1])
    BY <1>3, <1>7, <2>2
  <2> QED  BY <2>4, <2>5 DEF LinksAgree, Left, Right
<1>15. ListInOrder'
  <2>1. InList(Nodes, parent, children)
    <3>1. Listed = Nodes  BY <1>5, <1>6 DEF Listed
    <3> QED  BY <1>1, <3>1 DEF ListInOrder, InList
  <2>2. \A m \in Nodes \cup {k} :
          /\ parent'[m] = IF m = k THEN x ELSE IF m = y THEN k ELSE parent[m]
          /\ children'[m] = IF m = k THEN y ELSE IF m = x THEN k ELSE children[m]
    BY <1>4, <1>6, <1>11
  <2>3. InList(Nodes \cup {k}, parent', children')
    BY <1>4, <1>5, <1>6, <1>11, <2>1, <2>2, LinkBetween
  <2>4. Listed' = Nodes \cup {k}
    BY <1>3, <1>4, <1>5, <1>6, <1>7 DEF Listed
  <2> QED  BY <2>3, <2>4 DEF ListInOrder, InList
<1>16. CallOK' /\ VictimOK' /\ SoughtOK' /\ \A a, b : SearchAt(a, b)' /\ EdgeAt(a, b)'
  BY <1>3, <1>5, <1>7, SettleFacts DEF SplayInv
<1>17. TreeOK'
  <2>1. InOrder(Nodes, splay_children, root_node, lo, hi)  BY <1>2 DEF TreeFits
  <2>2. \A m \in Nodes : \A t \in {0, 1} : splay_children'[m][t] =
          IF m = f /\ t = (IF k < f THEN 0 ELSE 1) THEN k ELSE splay_children[m][t]
    BY <1>6, <1>9
  <2>3. splay_children'[k][0] = nullptr /\ splay_children'[k][1] = nullptr
    BY <1>4, <1>6, <1>9, <1>10
  <2>4. PICK a, b : InOrder(Nodes \cup {k}, splay_children', root_node, a, b)
    <3>1. k \in Key \ Nodes /\ Nodes \in SUBSET Key  BY <1>4, <1>5, <1>6
    <3>2. NewLeaf(Nodes, splay_children, splay_children', f, k)
      BY <1>5, <2>2, <2>3 DEF NewLeaf
    <3> QED  BY <1>5, <2>1, <3>1, <3>2, LeafOrder
  <2>5. TreeFits(a, b)'  BY <1>3, <1>7, <2>4 DEF TreeFits
  <2> QED  BY <1>16, <2>5 DEF TreeOK
<1> QED  BY <1>12, <1>13, <1>14, <1>15, <1>16, <1>17 DEF SplayInv, TreeInv

(***************************************************************************)
(* remove                                                                  *)
(***************************************************************************)

\* The nodes next to a node that is unlinked become neighbours.
LEMMA Unlinked ==
  ASSUME NEW N \in SUBSET Key, NEW n \in N, NEW pa, NEW ch, NEW qa, NEW qc,
         InList(N, pa, ch),
         \A m \in N \ {n} : /\ qa[m] = IF m = ch[n] THEN pa[n] ELSE pa[m]
                            /\ qc[m] = IF m = pa[n] THEN ch[n] ELSE ch[m]
  PROVE  InList(N \ {n}, qa, qc)
<1>1. \A m \in N : m \in Nat /\ m # nullptr  BY KeyFacts
<1>2. /\ IF pa[n] = nullptr THEN \A m \in N : m >= n
         ELSE /\ pa[n] \in N /\ pa[n] < n
              /\ \A m \in N : m < n => m =< pa[n]
      /\ IF ch[n] = nullptr THEN \A m \in N : m =< n
         ELSE /\ ch[n] \in N /\ ch[n] > n
              /\ \A m \in N : m > n => m >= ch[n]
  BY DEF InList
<1>3. ASSUME NEW x \in N \ {n}
      PROVE  IF qa[x] = nullptr THEN \A m \in N \ {n} : m >= x
             ELSE /\ qa[x] \in N \ {n} /\ qa[x] < x
                  /\ \A m \in N \ {n} : m < x => m =< qa[x]
  <2>1. x \in Nat /\ n \in Nat /\ x # n  BY <1>1
  <2>2. CASE x = ch[n]
    <3>1. qa[x] = pa[n]  BY <2>2
    <3>2. n < x /\ \A m \in N : m > n => m >= x  BY <1>1, <1>2, <2>2
    <3>3. CASE pa[n] = nullptr
      BY <1>1, <1>2, <2>1, <3>1, <3>2, <3>3
    <3>4. CASE pa[n] # nullptr
      <4>1. pa[n] \in N /\ pa[n] \in Nat /\ pa[n] < n  BY <1>1, <1>2, <3>4
      <4>2. \A m \in N \ {n} : m < x => m =< pa[n]
        BY <1>1, <1>2, <2>1, <3>2, <3>4
      <4> QED  BY <2>1, <3>1, <3>2, <3>4, <4>1, <4>2
    <3> QED  BY <3>3, <3>4
  <2>3. CASE x # ch[n]
    <3>1. qa[x] = pa[x]  BY <2>3
    <3>2. IF pa[x] = nullptr THEN \A m \in N : m >= x
          ELSE /\ pa[x] \in N /\ pa[x] < x
               /\ \A m \in N : m < x => m =< pa[x]
      BY DEF InList
    <3>3. pa[x] # n
      <4>1. SUFFICES ASSUME pa[x] = n  PROVE FALSE  OBVIOUS
      <4>2. n < x /\ \A m \in N : m < x => m =< n  BY <1>1, <3>2, <4>1
      <4>3. ch[n] # nullptr  BY <1>2, <2>1, <4>2
      <4>4. ch[n] \in N /\ ch[n] > n /\ x >= ch[n]  BY <1>2, <4>2, <4>3
      <4>5. ch[n] \in Nat /\ ch[n] # x  BY <1>1, <2>3, <4>4
      <4> QED  BY <2>1, <4>2, <4>4, <4>5
    <3> QED  BY <3>1, <3>2, <3>3
  <2> QED  BY <2>2, <2>3
<1>4. ASSUME NEW x \in N \ {n}
      PROVE  IF qc[x] = nullptr THEN \A m \in N \ {n} : m =< x
             ELSE /\ qc[x] \in N \ {n} /\ qc[x] > x
                  /\ \A m \in N \ {n} : m > x => m >= qc[x]
  <2>1. x \in Nat /\ n \in Nat /\ x # n  BY <1>1
  <2>2. CASE x = pa[n]
    <3>1. qc[x] = ch[n]  BY <2>2
    <3>2. x < n /\ \A m \in N : m < n => m =< x  BY <1>1, <1>2, <2>2
    <3>3. CASE ch[n] = nullptr
      BY <1>1, <1>2, <2>1, <3>1, <3>2, <3>3
    <3>4. CASE ch[n] # nullptr
      <4>1. ch[n] \in N /\ ch[n] \in Nat /\ ch[n] > n  BY <1>1, <1>2, <3>4
      <4>2. \A m \in N \ {n} : m > x => m >= ch[n]
        BY <1>1, <1>2, <2>1, <3>2, <3>4
      <4> QED  BY <2>1, <3>1, <3>2, <3>4, <4>1, <4>2
    <3> QED  BY <3>3, <3>4
  <2>3. CASE x # pa[n]
    <3>1. qc[x] = ch[x]  BY <2>3
    <3>2. IF ch[x] = nullptr THEN \A m \in N : m =< x
          ELSE /\ ch[x] \in N /\ ch[x] > x
               /\ \A m \in N : m > x => m >= ch[x]
      BY DEF InList
    <3>3. ch[x] # n
      <4>1. SUFFICES ASSUME ch[x] = n  PROVE FALSE  OBVIOUS
      <4>2. x < n /\ \A m \in N : m > x => m >= n  BY <1>1, <3>2, <4>1
      <4>3. pa[n] # nullptr  BY <1>2, <2>1, <4>2
      <4>4. pa[n] \in N /\ pa[n] < n /\ x =< pa[n]  BY <1>2, <4>2, <4>3
      <4>5. pa[n] \in Nat /\ pa[n] # x  BY <1>1, <2>3, <4>4
      <4> QED  BY <2>1, <4>2, <4>4, <4>5
    <3> QED  BY <3>1, <3>2, <3>3
  <2> QED  BY <2>2, <2>3
<1> QED  BY <1>3, <1>4 DEF InList

\* With one subtree empty, the other one is the tree when the root is gone.
LEMMA RootDropped ==
  ASSUME NEW N \in SUBSET Key, NEW sc, NEW tc, NEW r \in N, NEW lo, NEW hi,
         InOrder(N, sc, r, lo, hi),
         sc[r][0] = nullptr \/ sc[r][1] = nullptr,
         \A m \in N \ {r} : tc[m] = sc[m]
  PROVE  \E a, b : InOrder(N \ {r}, tc,
                           IF sc[r][0] = nullptr THEN sc[r][1] ELSE sc[r][0], a, b)
<1> DEFINE M == N \ {r}
           rest == IF sc[r][0] = nullptr THEN sc[r][1] ELSE sc[r][0]
           a == [m \in M |-> IF lo[m] = r THEN -1 ELSE lo[m]]
           b == [m \in M |-> IF hi[m] = r THEN MaxKey + 1 ELSE hi[m]]
<1>1. /\ nullptr = -1 /\ nullptr \notin N /\ MaxKey \in Nat
      /\ \A m \in N : m \in Nat /\ m =< MaxKey
      /\ r # nullptr /\ lo[r] = -1 /\ hi[r] = MaxKey + 1
  <2>1. r # nullptr  BY KeyFacts
  <2>2. lo[r] = -1 /\ hi[r] = MaxKey + 1  BY <2>1 DEF InOrder
  <2> QED  BY <2>1, <2>2, KeyFacts
<1>2. /\ \A m \in N : lo[m] \in Int /\ hi[m] \in Int /\ lo[m] < m /\ m < hi[m]
      /\ \A m \in N : lo[m] \in N \cup {-1} /\ hi[m] \in N \cup {MaxKey + 1}
  BY DEF InOrder
<1>3. \A m \in N : /\ sc[m][0] # nullptr =>
                        sc[m][0] \in N /\ lo[sc[m][0]] = lo[m] /\ hi[sc[m][0]] = m
                   /\ sc[m][1] # nullptr =>
                        sc[m][1] \in N /\ lo[sc[m][1]] = m /\ hi[sc[m][1]] = hi[m]
  BY DEF InOrder
<1>4. \A n, m \in N :
        /\ lo[n] < m /\ m < n => sc[n][0] # nullptr /\ lo[n] =< lo[m] /\ hi[m] =< n
        /\ n < m /\ m < hi[n] => sc[n][1] # nullptr /\ n =< lo[m] /\ hi[m] =< hi[n]
  BY DEF InOrder
<1>5. \A n, m \in N : /\ hi[n] = m => lo[m] =< lo[n]
                      /\ lo[n] = m => hi[n] =< hi[m]
  BY DEF InOrder
<1>6. /\ \A m \in N : -1 =< lo[m] /\ hi[m] =< MaxKey + 1
      /\ \A m \in M : /\ m \in N /\ m \in Nat /\ m # r /\ m =< MaxKey
                      /\ a[m] = IF lo[m] = r THEN -1 ELSE lo[m]
                      /\ b[m] = IF hi[m] = r THEN MaxKey + 1 ELSE hi[m]
      /\ \A m \in N : m \in M \/ m = r
  BY <1>1, <1>2
<1>7. \/ \A m \in M : sc[r][1] # nullptr /\ r < m /\ r =< lo[m] /\ r < hi[m]
      \/ \A m \in M : sc[r][0] # nullptr /\ m < r /\ hi[m] =< r /\ lo[m] < r
  <2>1. CASE sc[r][0] = nullptr
    <3>1. \A m \in M : r < m  BY <1>1, <1>4, <1>6, <2>1
    <3>2. \A m \in M : sc[r][1] # nullptr /\ r =< lo[m]  BY <1>1, <1>4, <1>6, <3>1
    <3> QED  BY <1>1, <1>2, <1>6, <3>1, <3>2
  <2>2. CASE sc[r][1] = nullptr
    <3>1. \A m \in M : m < r  BY <1>1, <1>4, <1>6, <2>2
    <3>2. \A m \in M : sc[r][0] # nullptr /\ hi[m] =< r  BY <1>1, <1>4, <1>6, <3>1
    <3> QED  BY <1>1, <1>2, <1>6, <3>1, <3>2
  <2> QED  BY <2>1, <2>2
<1>8. \A m \in M : tc[m] = sc[m]  OBVIOUS
<1>9. /\ rest # nullptr => rest \in N /\ (rest = sc[r][0] \/ rest = sc[r][1])
      /\ rest = nullptr => sc[r][0] = nullptr /\ sc[r][1] = nullptr
  BY <1>3
<1> HIDE DEF M, rest, a, b
<1>10. \A m \in M : /\ a[m] \in Int /\ b[m] \in Int /\ a[m] < m /\ m < b[m]
                    /\ a[m] \in M \cup {-1} /\ b[m] \in M \cup {MaxKey + 1}
  BY <1>1, <1>2, <1>6
<1>11. \A m, n \in M : /\ lo[m] =< lo[n] => a[m] =< a[n]
                       /\ hi[m] =< hi[n] => b[m] =< b[n]
  <2> SUFFICES ASSUME NEW m \in M, NEW n \in M
               PROVE  /\ lo[m] =< lo[n] => a[m] =< a[n]
                      /\ hi[m] =< hi[n] => b[m] =< b[n]
    OBVIOUS
  <2>1. m \in N /\ n \in N  BY <1>6
  <2> QED  BY <1>1, <1>2, <1>6, <1>7, <2>1
<1>12. ASSUME NEW n \in M, tc[n][0] # nullptr
       PROVE  tc[n][0] \in M /\ a[tc[n][0]] = a[n] /\ b[tc[n][0]] = n
  <2>1. n \in N /\ tc[n][0] = sc[n][0]  BY <1>6, <1>8
  <2>2. tc[n][0] \in N /\ lo[tc[n][0]] = lo[n] /\ hi[tc[n][0]] = n
    BY <1>3, <1>12, <2>1
  <2>3. tc[n][0] # r /\ n # r  BY <1>1, <1>6, <2>2
  <2> QED  BY <1>6, <2>2, <2>3
<1>13. ASSUME NEW n \in M, tc[n][1] # nullptr
       PROVE  tc[n][1] \in M /\ a[tc[n][1]] = n /\ b[tc[n][1]] = b[n]
  <2>1. n \in N /\ tc[n][1] = sc[n][1]  BY <1>6, <1>8
  <2>2. tc[n][1] \in N /\ lo[tc[n][1]] = n /\ hi[tc[n][1]] = hi[n]
    BY <1>3, <1>13, <2>1
  <2>3. tc[n][1] # r /\ n # r  BY <1>1, <1>6, <2>2
  <2> QED  BY <1>6, <2>2, <2>3
<1>14. ASSUME NEW n \in M, NEW m \in M, a[n] < m, m < n
       PROVE  tc[n][0] # nullptr /\ a[n] =< a[m] /\ b[m] =< n
  <2>1. n \in N /\ m \in N  BY <1>6
  <2>2. lo[n] < m  BY <1>1, <1>2, <1>6, <1>7, <1>14, <2>1
  <2>3. sc[n][0] # nullptr /\ lo[n] =< lo[m] /\ hi[m] =< n
    BY <1>4, <1>14, <2>1, <2>2
  <2>4. hi[m] # r  BY <1>1, <1>2, <1>6, <1>7, <2>1, <2>3
  <2> QED  BY <1>6, <1>8, <1>11, <2>3, <2>4
<1>15. ASSUME NEW n \in M, NEW m \in M, n < m, m < b[n]
       PROVE  tc[n][1] # nullptr /\ n =< a[m] /\ b[m] =< b[n]
  <2>1. n \in N /\ m \in N  BY <1>6
  <2>2. m < hi[n]  BY <1>1, <1>2, <1>6, <1>7, <1>15, <2>1
  <2>3. sc[n][1] # nullptr /\ n =< lo[m] /\ hi[m] =< hi[n]
    BY <1>4, <1>15, <2>1, <2>2
  <2>4. lo[m] # r  BY <1>1, <1>2, <1>6, <1>7, <2>1, <2>3
  <2> QED  BY <1>6, <1>8, <1>11, <2>3, <2>4
<1>16. ASSUME NEW n \in M, NEW m \in M
       PROVE  /\ b[n] = m => a[m] =< a[n]
              /\ a[n] = m => b[n] =< b[m]
  <2>1. n \in N /\ m \in N  BY <1>6
  <2>2. b[n] = m => hi[n] = m  BY <1>1, <1>6
  <2>3. a[n] = m => lo[n] = m  BY <1>1, <1>6
  <2> QED  BY <1>5, <1>11, <2>1, <2>2, <2>3
<1>17. IF rest = nullptr THEN M = {}
       ELSE rest \in M /\ a[rest] = -1 /\ b[rest] = MaxKey + 1
  <2>1. CASE rest = nullptr  BY <1>7, <1>9, <2>1
  <2>2. CASE rest # nullptr
    <3>1. /\ rest \in N
          /\ \/ lo[rest] = -1 /\ hi[rest] = r
             \/ lo[rest] = r /\ hi[rest] = MaxKey + 1
      BY <1>1, <1>3, <1>9, <2>2
    <3>2. rest # r  BY <1>1, <1>2, <3>1
    <3> QED  BY <1>1, <1>6, <2>2, <3>1, <3>2
  <2> QED  BY <2>1, <2>2
<1>18. InOrder(M, tc, rest, a, b)
  BY <1>10, <1>12, <1>13, <1>14, <1>15, <1>16, <1>17 DEF InOrder
<1> QED  BY <1>18 DEF M, rest

\* The root w is gone and the least node on its right takes its place.
LEMMA RootJoined ==
  ASSUME NEW N \in SUBSET Key, NEW sc, NEW tc, NEW w \in N, NEW lo, NEW hi,
         InOrder(N, sc, w, lo, hi),
         sc[w][0] # nullptr, sc[w][1] # nullptr,
         \A m \in N : w < m => sc[w][1] =< m,
         \A m \in N \ {w} : \A t \in {0, 1} : tc[m][t] =
           IF m = sc[w][1] /\ t = 0 THEN sc[w][0] ELSE sc[m][t]
  PROVE  sc[sc[w][1]][0] = nullptr /\ \E a, b : InOrder(N \ {w}, tc, sc[w][1], a, b)
<1> DEFINE M == N \ {w}
           l == sc[w][0]
           top == sc[w][1]
           a == [m \in M |-> IF m = top THEN -1 ELSE lo[m]]
           b == [m \in M |-> IF hi[m] = w THEN top ELSE hi[m]]
<1>1. /\ nullptr = -1 /\ nullptr \notin N /\ MaxKey \in Nat
      /\ \A m \in N : m \in Nat /\ m =< MaxKey
      /\ w # nullptr /\ lo[w] = -1 /\ hi[w] = MaxKey + 1
  <2>1. w # nullptr  BY KeyFacts
  <2>2. lo[w] = -1 /\ hi[w] = MaxKey + 1  BY <2>1 DEF InOrder
  <2> QED  BY <2>1, <2>2, KeyFacts
<1>2. /\ \A m \in N : lo[m] \in Int /\ hi[m] \in Int /\ lo[m] < m /\ m < hi[m]
      /\ \A m \in N : lo[m] \in N \cup {-1} /\ hi[m] \in N \cup {MaxKey + 1}
  BY DEF InOrder
<1>3. \A m \in N : /\ sc[m][0] # nullptr =>
                        sc[m][0] \in N /\ lo[sc[m][0]] = lo[m] /\ hi[sc[m][0]] = m
                   /\ sc[m][1] # nullptr =>
                        sc[m][1] \in N /\ lo[sc[m][1]] = m /\ hi[sc[m][1]] = hi[m]
  BY DEF InOrder
<1>4. \A n, m \in N :
        /\ lo[n] < m /\ m < n => sc[n][0] # nullptr /\ lo[n] =< lo[m] /\ hi[m] =< n
        /\ n < m /\ m < hi[n] => sc[n][1] # nullptr /\ n =< lo[m] /\ hi[m] =< hi[n]
  BY DEF InOrder
<1>5. \A n, m \in N : /\ hi[n] = m => lo[m] =< lo[n]
                      /\ lo[n] = m => hi[n] =< hi[m]
  BY DEF InOrder
<1>6. /\ \A m \in N : -1 =< lo[m] /\ hi[m] =< MaxKey + 1
      /\ \A m \in M : /\ m \in N /\ m \in Nat /\ m # w /\ m =< MaxKey
                      /\ a[m] = IF m = top THEN -1 ELSE lo[m]
                      /\ b[m] = IF hi[m] = w THEN top ELSE hi[m]
      /\ \A m \in N : m \in M \/ m = w
  BY <1>1, <1>2
<1>7. /\ l \in N /\ lo[l] = -1 /\ hi[l] = w
      /\ top \in N /\ lo[top] = w /\ hi[top] = MaxKey + 1
      /\ l # nullptr /\ top # nullptr
      /\ \A m \in N : w < m => top =< m
      /\ \A m \in M : \A t \in {0, 1} :
           tc[m][t] = IF m = top /\ t = 0 THEN l ELSE sc[m][t]
  BY <1>1, <1>3
<1> HIDE DEF M, l, top, a, b
<1>8. /\ l < w /\ w < top /\ l \in M /\ top \in M /\ l # top
      /\ l \in Nat /\ top \in Nat /\ w \in Nat
  <2>1. l < w /\ w < top  BY <1>2, <1>7
  <2>2. l \in Nat /\ top \in Nat /\ w \in Nat  BY <1>1, <1>7
  <2> QED  BY <1>6, <1>7, <2>1, <2>2
<1>9. sc[top][0] = nullptr
  <2>1. SUFFICES ASSUME sc[top][0] # nullptr  PROVE FALSE  OBVIOUS
  <2>2. sc[top][0] \in N /\ lo[sc[top][0]] = w /\ hi[sc[top][0]] = top
    BY <1>3, <1>7, <2>1
  <2>3. w < sc[top][0] /\ sc[top][0] < top  BY <1>2, <2>2
  <2>4. sc[top][0] \in Nat /\ top =< sc[top][0]  BY <1>1, <1>7, <2>2, <2>3
  <2> QED  BY <1>8, <2>3, <2>4
<1>10. \A m \in M :
         /\ m < w => lo[m] < w /\ hi[m] =< w
         /\ w < m => w =< lo[m] /\ w < hi[m]
         /\ m < w \/ w < m
         /\ m # top /\ w < m => top < m /\ top =< lo[m]
  <2> SUFFICES ASSUME NEW m \in M
               PROVE  /\ m < w => lo[m] < w /\ hi[m] =< w
                      /\ w < m => w =< lo[m] /\ w < hi[m]
                      /\ m < w \/ w < m
                      /\ m # top /\ w < m => top < m /\ top =< lo[m]
    OBVIOUS
  <2>1. /\ m \in N /\ m \in Nat /\ m # w /\ m =< MaxKey
        /\ lo[m] \in Int /\ hi[m] \in Int /\ lo[m] < m /\ m < hi[m]
    BY <1>2, <1>6
  <2>2. m < w => lo[m] < w /\ hi[m] =< w  BY <1>1, <1>4, <1>8, <2>1
  <2>3. w < m => w =< lo[m] /\ w < hi[m]  BY <1>1, <1>4, <1>8, <2>1
  <2>4. m # top /\ w < m => top < m  BY <1>7, <1>8, <2>1
  <2>5. m # top /\ w < m => top =< lo[m]  BY <1>1, <1>4, <1>7, <2>1, <2>4
  <2> QED  BY <1>8, <2>1, <2>2, <2>3, <2>4, <2>5
<1>11. \A m \in M : /\ a[m] \in Int /\ b[m] \in Int /\ a[m] < m /\ m < b[m]
                    /\ a[m] \in M \cup {-1} /\ b[m] \in M \cup {MaxKey + 1}
  <2> SUFFICES ASSUME NEW m \in M
               PROVE  /\ a[m] \in Int /\ b[m] \in Int /\ a[m] < m /\ m < b[m]
                      /\ a[m] \in M \cup {-1} /\ b[m] \in M \cup {MaxKey + 1}
    OBVIOUS
  <2>1. m \in N /\ m \in Nat  BY <1>6
  <2>2. /\ lo[m] \in Int /\ hi[m] \in Int /\ lo[m] < m /\ m < hi[m]
        /\ lo[m] \in N \cup {-1} /\ hi[m] \in N \cup {MaxKey + 1}
    BY <1>2, <2>1
  <2>3. m # top => lo[m] # w  BY <1>8, <1>10, <2>2
  <2>4. hi[m] = w => m < top  BY <1>8, <2>1, <2>2
  <2> QED  BY <1>1, <1>6, <1>8, <2>1, <2>2, <2>3, <2>4
<1>12. ASSUME NEW m \in M, NEW n \in M, hi[m] =< hi[n]
       PROVE  b[m] =< b[n]
  <2>1. m \in N /\ n \in N  BY <1>6
  <2>2. hi[n] \in N /\ w < hi[n] => top =< hi[n]  BY <1>7
  <2>3. MaxKey + 1 >= top  BY <1>1, <1>7, <1>8
  <2>4. /\ hi[m] \in Int /\ hi[n] \in Int
        /\ hi[m] \in N \cup {MaxKey + 1} /\ hi[n] \in N \cup {MaxKey + 1}
    BY <1>2, <2>1
  <2>5. w < hi[n] => top =< hi[n]  BY <2>2, <2>3, <2>4
  <2>6. hi[m] = w /\ hi[n] # w => w < hi[n]  BY <1>8, <1>12, <2>4
  <2>7. hi[m] # w /\ hi[n] = w => hi[m] < top  BY <1>8, <1>12, <2>4
  <2> QED  BY <1>6, <1>8, <1>12, <2>4, <2>5, <2>6, <2>7
<1>13. ASSUME NEW n \in M, tc[n][0] # nullptr
       PROVE  tc[n][0] \in M /\ a[tc[n][0]] = a[n] /\ b[tc[n][0]] = n
  <2>1. CASE n = top
    <3>1. tc[n][0] = l  BY <1>7, <2>1
    <3> QED  BY <1>6, <1>7, <1>8, <2>1, <3>1
  <2>2. CASE n # top
    <3>1. tc[n][0] = sc[n][0] /\ n \in N  BY <1>6, <1>7, <2>2
    <3>2. tc[n][0] \in N /\ lo[tc[n][0]] = lo[n] /\ hi[tc[n][0]] = n
      BY <1>3, <1>13, <3>1
    <3>3. tc[n][0] # w /\ tc[n][0] # top /\ n # w
      <4>1. n # MaxKey + 1  BY <1>1, <3>1
      <4> QED  BY <1>1, <1>6, <1>7, <3>2, <4>1
    <3> QED  BY <1>6, <2>2, <3>2, <3>3
  <2> QED  BY <2>1, <2>2
<1>14. ASSUME NEW n \in M, tc[n][1] # nullptr
       PROVE  tc[n][1] \in M /\ a[tc[n][1]] = n /\ b[tc[n][1]] = b[n]
  <2>1. tc[n][1] = sc[n][1] /\ n \in N /\ n # w /\ n # -1  BY <1>1, <1>6, <1>7
  <2>2. tc[n][1] \in N /\ lo[tc[n][1]] = n /\ hi[tc[n][1]] = hi[n]
    BY <1>3, <1>14, <2>1
  <2>3. tc[n][1] # w /\ tc[n][1] # top  BY <1>1, <1>7, <2>1, <2>2
  <2> QED  BY <1>6, <2>2, <2>3
<1>15. ASSUME NEW n \in M, NEW m \in M, a[n] < m, m < n
       PROVE  tc[n][0] # nullptr /\ a[n] =< a[m] /\ b[m] =< n
  <2>1. n \in N /\ m \in N /\ n \in Nat /\ m \in Nat /\ n # w /\ m # w  BY <1>6
  <2>2. lo[m] \in Int /\ hi[m] \in Int /\ -1 =< lo[m]  BY <1>2, <1>6, <2>1
  <2>3. CASE n = top
    <3>1. m < w /\ m # top
      <4>1. ~(w < m)  BY <1>7, <1>8, <1>15, <2>1, <2>3
      <4> QED  BY <1>8, <2>1, <4>1
    <3>2. hi[m] =< w /\ a[n] = -1 /\ a[m] = lo[m]  BY <1>6, <1>10, <2>3, <3>1
    <3>3. b[m] =< n  BY <1>6, <1>8, <2>2, <2>3, <3>2
    <3>4. tc[n][0] # nullptr  BY <1>7, <2>3
    <3> QED  BY <2>2, <3>2, <3>3, <3>4
  <2>4. CASE n # top
    <3>1. lo[n] < m  BY <1>6, <1>15, <2>4
    <3>2. sc[n][0] # nullptr /\ lo[n] =< lo[m] /\ hi[m] =< n
      BY <1>4, <1>15, <2>1, <3>1
    <3>3. tc[n][0] # nullptr  BY <1>7, <2>4, <3>2
    <3>4. m # top
      <4>1. n =< MaxKey  BY <1>6
      <4> QED  BY <1>1, <1>7, <2>1, <3>2, <4>1
    <3>5. b[m] =< n
      <4>1. hi[m] = w => w < n  BY <1>8, <2>1, <3>2
      <4> QED  BY <1>6, <1>7, <2>1, <3>2, <4>1
    <3> QED  BY <1>6, <2>4, <3>2, <3>3, <3>4, <3>5
  <2> QED  BY <2>3, <2>4
<1>16. ASSUME NEW n \in M, NEW m \in M, n < m, m < b[n]
       PROVE  tc[n][1] # nullptr /\ n =< a[m] /\ b[m] =< b[n]
  <2>1. /\ n \in N /\ m \in N /\ n \in Nat /\ m \in Nat /\ n # w /\ m # w
        /\ m =< MaxKey /\ n =< MaxKey
    BY <1>6
  <2>2. /\ lo[m] \in Int /\ hi[m] \in Int /\ -1 =< lo[m]
        /\ lo[n] \in Int /\ hi[n] \in Int /\ n < hi[n]
    BY <1>2, <1>6, <2>1
  <2>3. m < hi[n]
    <3>1. CASE hi[n] = w
      <4>1. m < top  BY <1>6, <1>16, <3>1
      <4>2. ~(w < m)  BY <1>7, <1>8, <2>1, <4>1
      <4> QED  BY <1>8, <2>1, <3>1, <4>2
    <3>2. CASE hi[n] # w  BY <1>6, <1>16, <3>2
    <3> QED  BY <3>1, <3>2
  <2>4. sc[n][1] # nullptr /\ n =< lo[m] /\ hi[m] =< hi[n]
    BY <1>4, <1>16, <2>1, <2>3
  <2>5. tc[n][1] # nullptr  BY <1>7, <2>4
  <2>6. m # top
    <3>1. SUFFICES ASSUME m = top  PROVE FALSE  OBVIOUS
    <3>2. n =< w /\ MaxKey + 1 =< hi[n]  BY <1>7, <2>4, <3>1
    <3>3. n < w  BY <1>8, <2>1, <3>2
    <3>4. hi[n] =< w  BY <1>10, <3>3
    <3>5. w =< MaxKey  BY <1>1
    <3> QED  BY <1>1, <1>8, <2>2, <3>2, <3>4, <3>5
  <2> QED  BY <1>6, <1>12, <2>4, <2>5, <2>6
<1>17. ASSUME NEW n \in M, NEW m \in M
       PROVE  /\ b[n] = m => a[m] =< a[n]
              /\ a[n] = m => b[n] =< b[m]
  <2>1. n \in N /\ m \in N /\ m \in Nat /\ m =< MaxKey  BY <1>6
  <2>2. ASSUME b[n] = m  PROVE a[m] =< a[n]
    <3>1. /\ -1 =< lo[n] /\ lo[n] \in Int /\ lo[m] \in Int
      BY <1>2, <1>6, <2>1
    <3>2. -1 =< a[n]  BY <1>6, <3>1
    <3>3. CASE m = top  BY <1>6, <3>2, <3>3
    <3>4. CASE m # top
      <4>1. hi[n] = m  BY <1>6, <2>2, <3>4
      <4>2. n # top  BY <1>1, <1>7, <2>1, <4>1
      <4> QED  BY <1>5, <1>6, <2>1, <3>4, <4>1, <4>2
    <3> QED  BY <3>3, <3>4
  <2>3. ASSUME a[n] = m  PROVE b[n] =< b[m]
    <3>1. lo[n] = m  BY <1>1, <1>6, <2>1, <2>3
    <3> QED  BY <1>5, <1>12, <2>1, <3>1
  <2> QED  BY <2>2, <2>3
<1>18. top # nullptr /\ top \in M /\ a[top] = -1 /\ b[top] = MaxKey + 1
  <2>1. MaxKey + 1 # w  BY <1>1
  <2> QED  BY <1>6, <1>7, <1>8, <2>1
<1>19. InOrder(M, tc, top, a, b)
  BY <1>11, <1>13, <1>14, <1>15, <1>16, <1>17, <1>18 DEF InOrder
<1> QED  BY <1>9, <1>19 DEF M, top

\* A node is deleted and size told.
LEMMA DeleteFacts ==
  ASSUME SplayTypeOK, NEW n \in Nodes, Delete(n)
  PROVE  /\ Nodes' = Nodes \ {n} /\ v' \in [Nodes \ {n} -> Value]
         /\ size' = Cardinality(Nodes')
<1>1. v' = [m \in Nodes \ {n} |-> v[m]] /\ size' = size - 1  BY DEF Delete
<1>2. Nodes' = Nodes \ {n}  BY <1>1 DEF Nodes
<1>3. v' \in [Nodes \ {n} -> Value]
  <2>1. v \in [Nodes -> Value]  BY DEF SplayTypeOK
  <2> QED  BY <1>1, <2>1
<1>4. IsFiniteSet(Nodes)
  <2>1. IsFiniteSet(Key)  BY FS_Interval, MaxKeyAssumption DEF Key
  <2>2. Nodes \in SUBSET Key  BY DEF SplayTypeOK
  <2> QED  BY <2>1, <2>2, FS_Subset
<1>5. Cardinality(Nodes \ {n}) = Cardinality(Nodes) - 1  BY <1>4, FS_RemoveElement
<1> QED  BY <1>1, <1>2, <1>3, <1>5 DEF SplayTypeOK

\* A node of the list is unlinked.
LEMMA UnlinkFacts ==
  ASSUME SplayTypeOK, NEW n \in Nodes, victim = nullptr, ListInOrder, Unlink(n)
  PROVE  /\ InList(Nodes \ {n}, parent', children')
         /\ parent' \in [Key -> Pointer] /\ children' \in [Key -> Pointer]
<1>1. /\ parent' = [m \in Key |-> IF m = n THEN nullptr
                                  ELSE IF m = children[n] THEN parent[n] ELSE parent[m]]
      /\ children' = [m \in Key |-> IF m = n THEN nullptr
                                    ELSE IF m = parent[n] THEN children[n] ELSE children[m]]
  BY DEF Unlink
<1>2. /\ Nodes \in SUBSET Key /\ n \in Key
      /\ parent \in [Key -> Pointer] /\ children \in [Key -> Pointer]
      /\ nullptr \in Pointer
  BY KeyFacts DEF SplayTypeOK
<1>3. parent[n] \in Pointer /\ children[n] \in Pointer  BY <1>2
<1>4. parent' \in [Key -> Pointer] /\ children' \in [Key -> Pointer]
  BY <1>1, <1>2, <1>3
<1>5. InList(Nodes, parent, children)
  <2>1. Listed = Nodes  BY NodeTypes DEF Listed
  <2> QED  BY <2>1 DEF ListInOrder, InList
<1>6. \A m \in Nodes \ {n} :
        /\ parent'[m] = IF m = children[n] THEN parent[n] ELSE parent[m]
        /\ children'[m] = IF m = parent[n] THEN children[n] ELSE children[m]
  BY <1>1, <1>2
<1>7. InList(Nodes \ {n}, parent', children')
  BY <1>2, <1>5, <1>6, Unlinked
<1> QED  BY <1>4, <1>7

\* The root goes, and the one subtree it has is the tree.
LEMMA RemoveOneSidedStep ==
  ASSUME SplayInv, RemoveOneSided  PROVE SplayInv'
<1>1. /\ SplayTypeOK /\ CallOK /\ Fresh /\ LinksAgree /\ ListInOrder
  BY DEF SplayInv, TreeInv
<1>2. PICK lo, hi : TreeFits(lo, hi)  BY DEF SplayInv, TreeInv, TreeOK
<1>0. PICK r, rest : r = ptr /\ rest = IF Left(r) = nullptr THEN Right(r) ELSE Left(r)
  OBVIOUS
<1>3. /\ Hit
      /\ Left(r) = nullptr \/ Right(r) = nullptr
      /\ Unlink(r) /\ Delete(r) /\ Return
      /\ root_node' = rest
      /\ splay_parent' = [m \in Key |-> IF m = rest THEN nullptr ELSE splay_parent[m]]
      /\ splay_children' = [splay_children EXCEPT ![r] = Leaf]
      /\ answer' = answer
  BY <1>0 DEF RemoveOneSided
<1>4. /\ r = root_node /\ r \in Nodes /\ victim = nullptr /\ splay_parent[r] = nullptr
  <2>1. Splayed  BY <1>3 DEF Hit
  <2> QED  BY <1>0, <2>1, TopIsRoot DEF Splayed, AtTop
<1>5. /\ r \in Key /\ Nodes \in SUBSET Key /\ rest \in Pointer
      /\ Leaf \in [0..1 -> Pointer] /\ Leaf[0] = nullptr /\ Leaf[1] = nullptr
      /\ \A m \in Nodes : m # nullptr
  BY <1>0, <1>1, <1>4, NodeTypes, KeyFacts DEF SplayTypeOK, Leaf
<1>6. /\ Nodes' = Nodes \ {r} /\ v' \in [Nodes \ {r} -> Value]
      /\ size' = Cardinality(Nodes')
  BY <1>1, <1>3, <1>4, DeleteFacts
<1>7. /\ splay_parent' \in [Key -> Pointer]
      /\ \A m \in Key : splay_parent'[m] = IF m = rest THEN nullptr ELSE splay_parent[m]
  BY <1>1, <1>3, KeyFacts DEF SplayTypeOK
<1>8. /\ splay_children' \in [Key -> [0..1 -> Pointer]]
      /\ \A m \in Key : splay_children'[m] = IF m = r THEN Leaf ELSE splay_children[m]
  BY <1>1, <1>3, <1>5 DEF SplayTypeOK
<1>9. /\ ptr' = nullptr /\ last' = nullptr /\ victim' = nullptr
      /\ CallOK' /\ VictimOK' /\ SoughtOK'
      /\ \A a, b : SearchAt(a, b)' /\ EdgeAt(a, b)'
  BY <1>3, ReturnFacts
<1>10. InList(Nodes \ {r}, parent', children')
       /\ parent' \in [Key -> Pointer] /\ children' \in [Key -> Pointer]
  BY <1>1, <1>3, <1>4, UnlinkFacts
<1>11. SplayTypeOK'
  <2>1. answer' \in Pointer /\ root_node' \in Pointer /\ nullptr \in Pointer
    BY <1>1, <1>3, <1>5, KeyFacts DEF SplayTypeOK
  <2>2. Nodes' \subseteq Key /\ v' \in [Nodes' -> Value]  BY <1>5, <1>6
  <2> QED  BY <1>6, <1>7, <1>8, <1>9, <1>10, <2>1, <2>2 DEF SplayTypeOK
<1>12. ListInOrder'
  <2>1. Listed' = Nodes \ {r}  BY <1>5, <1>6, <1>9 DEF Listed
  <2> QED  BY <1>10, <2>1 DEF ListInOrder, InList
<1>13. Fresh'
  <2> SUFFICES ASSUME NEW m \in Key \ Nodes'
               PROVE  splay_parent'[m] = nullptr /\ splay_children'[m] = Leaf
    BY DEF Fresh
  <2>1. m = r \/ m \in Key \ Nodes  BY <1>6
  <2>2. splay_parent[m] = nullptr /\ (m # r => splay_children[m] = Leaf)
    BY <1>1, <1>4, <2>1 DEF Fresh
  <2> QED  BY <1>7, <1>8, <2>2
<1>14. rest # nullptr => splay_parent[rest] = r
  BY <1>0, <1>1, <1>4, <1>5, KeyFacts DEF LinksAgree, Left, Right
<1>15. ASSUME NEW n \in Nodes \ {r}, NEW i \in {0, 1}, splay_children[n][i] # nullptr
       PROVE  /\ splay_children[n][i] \in Nodes \ {r}
              /\ splay_parent'[splay_children[n][i]] = n
  <2>1. n # victim  BY <1>4, <1>5
  <2>2. splay_children[n][i] \in Nodes /\ splay_parent[splay_children[n][i]] = n
    BY <1>1, <1>15, <2>1, LinkFacts
  <2>3. splay_children[n][i] # r  BY <1>4, <1>5, <2>2
  <2>4. splay_children[n][i] # rest  BY <1>14, <1>15, <2>2
  <2> QED  BY <1>5, <1>7, <2>2, <2>3, <2>4
<1>16. ASSUME NEW n \in Nodes \ {r}
       PROVE  IF splay_parent'[n] # nullptr
              THEN n \in {splay_children'[splay_parent'[n]][0],
                          splay_children'[splay_parent'[n]][1]}
              ELSE n = rest
  <2>1. CASE n = rest  BY <1>5, <1>7, <2>1
  <2>2. CASE n # rest
    <3>1. splay_parent'[n] = splay_parent[n] /\ splay_parent[n] \in Pointer
      BY <1>1, <1>5, <1>7, <2>2, NodeTypes
    <3>2. splay_parent[n] # nullptr
      BY <1>1, <1>4 DEF LinksAgree
    <3>3. n \in {splay_children[splay_parent[n]][0], splay_children[splay_parent[n]][1]}
      BY <1>1, <3>2 DEF LinksAgree, Left, Right
    <3>4. splay_parent[n] # r
      <4>1. splay_parent[n] = r => n \in {Left(r), Right(r)}
        BY <3>3 DEF Left, Right
      <4> QED  BY <1>0, <1>3, <1>5, <2>2, <4>1
    <3>5. splay_parent[n] \in Key  BY <3>1, <3>2, KeyFacts
    <3> QED  BY <1>8, <3>1, <3>2, <3>3, <3>4, <3>5
  <2> QED  BY <2>1, <2>2
<1>17. LinksAgree'
  <2>1. \A n \in Nodes', i \in 0..1 :
          splay_children'[n][i] # nullptr =>
             /\ splay_children'[n][i] \in Nodes'
             /\ splay_parent'[splay_children'[n][i]] =
                  (IF n = victim' /\ i = 1 THEN nullptr ELSE n)
    <3> SUFFICES ASSUME NEW n \in Nodes', NEW i \in 0..1, splay_children'[n][i] # nullptr
                 PROVE  /\ splay_children'[n][i] \in Nodes'
                        /\ splay_parent'[splay_children'[n][i]] =
                             (IF n = victim' /\ i = 1 THEN nullptr ELSE n)
      OBVIOUS
    <3>1. n \in Nodes \ {r} /\ i \in {0, 1} /\ n # victim'
      BY <1>5, <1>6, <1>9, KeyFacts
    <3>2. splay_children'[n][i] = splay_children[n][i]  BY <1>5, <1>8, <3>1
    <3> QED  BY <1>6, <1>15, <3>1, <3>2
  <2>2. \A n \in Nodes' :
          IF splay_parent'[n] # nullptr
          THEN n \in {splay_children'[splay_parent'[n]][0],
                      splay_children'[splay_parent'[n]][1]}
          ELSE n = root_node' \/ (victim' # nullptr /\ n = splay_children'[victim'][1])
    BY <1>3, <1>6, <1>16
  <2> QED  BY <2>1, <2>2 DEF LinksAgree, Left, Right
<1>18. TreeOK'
  <2>1. InOrder(Nodes, splay_children, r, lo, hi)  BY <1>2, <1>4 DEF TreeFits
  <2>2. \A m \in Nodes \ {r} : splay_children'[m] = splay_children[m]  BY <1>5, <1>8
  <2>3. splay_children[r][0] = nullptr \/ splay_children[r][1] = nullptr
    BY <1>3 DEF Left, Right
  <2>4. rest = IF splay_children[r][0] = nullptr THEN splay_children[r][1]
                                                 ELSE splay_children[r][0]
    BY <1>0 DEF Left, Right
  <2>5. \E a, b : InOrder(Nodes \ {r}, splay_children',
                          IF splay_children[r][0] = nullptr THEN splay_children[r][1]
                                                            ELSE splay_children[r][0], a, b)
    BY <1>4, <1>5, <2>1, <2>2, <2>3, RootDropped
  <2>6. PICK a, b : InOrder(Nodes \ {r}, splay_children', rest, a, b)  BY <2>4, <2>5
  <2>7. TreeFits(a, b)'  BY <1>3, <1>6, <2>6 DEF TreeFits
  <2> QED  BY <1>9, <2>7 DEF TreeOK
<1> QED  BY <1>9, <1>11, <1>12, <1>13, <1>17, <1>18 DEF SplayInv, TreeInv

\* The root is unlinked and cut from its right subtree, whose least node is
\* sought.
LEMMA RemoveTwoSidedStep ==
  ASSUME SplayInv, RemoveTwoSided  PROVE SplayInv'
<1>1. /\ SplayTypeOK /\ CallOK /\ Fresh /\ LinksAgree /\ ListInOrder
  BY DEF SplayInv, TreeInv
<1>2. PICK lo, hi : TreeFits(lo, hi)  BY DEF SplayInv, TreeInv, TreeOK
<1>0. PICK r, c : r = ptr /\ c = Right(r)  OBVIOUS
<1>3. /\ Hit /\ Removes /\ Left(r) # nullptr /\ c # nullptr
      /\ Unlink(r) /\ victim' = r /\ ptr' = c /\ stage' = "min"
      /\ splay_parent' = [splay_parent EXCEPT ![c] = nullptr]
      /\ UNCHANGED <<v, splay_children, root_node, size, call, last, answer>>
  BY <1>0 DEF RemoveTwoSided
<1>4. /\ r = root_node /\ r \in Nodes /\ victim = nullptr /\ splay_parent[r] = nullptr
      /\ Wanted(r)
  <2>1. Splayed  BY <1>3 DEF Hit
  <2> QED  BY <1>0, <2>1, TopIsRoot DEF Splayed, AtTop
<1>5. /\ r \in Key /\ Nodes \in SUBSET Key /\ r # nullptr
      /\ \A m \in Nodes : m # nullptr
  BY <1>1, <1>4, NodeTypes DEF SplayTypeOK
<1>6. Nodes' = Nodes  BY <1>3 DEF Nodes
<1>7. c \in Nodes /\ c \in Key /\ lo[c] = r /\ r < c /\ splay_parent[c] = r /\ c # r
  <2>1. c \in Nodes /\ lo[c] = r  BY <1>0, <1>2, <1>3, <1>4 DEF TreeFits, InOrder, Right
  <2>2. r < c  BY <1>2, <2>1 DEF TreeFits, InOrder
  <2>3. splay_parent[c] = r
    <3>1. splay_children[r][1] = c  BY <1>0 DEF Right
    <3> QED  BY <1>1, <1>3, <1>4, <1>5, <3>1, LinkFacts
  <2> QED  BY <1>4, <1>5, <2>1, <2>2, <2>3
<1>8. /\ splay_parent' \in [Key -> Pointer]
      /\ \A m \in Key : splay_parent'[m] = IF m = c THEN nullptr ELSE splay_parent[m]
  BY <1>1, <1>3, <1>7, KeyFacts DEF SplayTypeOK
<1>9. InList(Nodes \ {r}, parent', children')
      /\ parent' \in [Key -> Pointer] /\ children' \in [Key -> Pointer]
  BY <1>1, <1>3, <1>4, UnlinkFacts
<1>10. SplayTypeOK'
  <2>1. ptr' \in Pointer /\ victim' \in Nodes' \cup {nullptr}
    BY <1>3, <1>4, <1>6, <1>7, KeyFacts
  <2> QED  BY <1>1, <1>3, <1>6, <1>8, <1>9, <2>1 DEF SplayTypeOK
<1>11. ListInOrder'
  <2>1. Listed' = Nodes \ {r}  BY <1>3, <1>6 DEF Listed
  <2> QED  BY <1>9, <2>1 DEF ListInOrder, InList
<1>12. Fresh'
  BY <1>1, <1>3, <1>6, <1>7, <1>8 DEF Fresh
<1>13. Removes' /\ call' = call  BY <1>3 DEF Removes
<1>14. CallOK'
  BY <1>1, <1>3, <1>4, <1>5, <1>6, <1>7, <1>13 DEF CallOK, Idle, Removes
<1>15. VictimOK'
  <2>1. splay_parent'[r] = nullptr  BY <1>4, <1>5, <1>8
  <2>2. splay_children'[r][0] # nullptr /\ splay_children'[r][1] # nullptr
    BY <1>0, <1>3 DEF Left, Right
  <2> QED  BY <1>3, <1>4, <1>7, <1>13, <2>1, <2>2 DEF VictimOK, Left, Right
<1>16. SoughtOK'
  <2>1. /\ call.op \in {"remove_le", "remove max"} => r =< call.k /\ Closest(r, call.k)
        /\ call.op = "remove_precise" => r = call.k
    BY <1>0, <1>3, <1>4 DEF Hit, Wanted
  <2>2. call.op \in {"remove_le", "remove max"} =>
          victim' =< call'.k /\ Closest(victim, call.k)'
    BY <1>3, <1>6, <1>13, <2>1 DEF Closest
  <2>3. call.op = "remove_precise" => victim' = call'.k
    BY <1>3, <1>13, <2>1
  <2>4. victim' # nullptr /\ stage' = "min"  BY <1>3, <1>5
  <2> QED  BY <1>13, <2>2, <2>3, <2>4 DEF SoughtOK
<1>17. LinksAgree'
  <2>1. \A n \in Nodes', i \in 0..1 :
          splay_children'[n][i] # nullptr =>
             /\ splay_children'[n][i] \in Nodes'
             /\ splay_parent'[splay_children'[n][i]] =
                  (IF n = victim' /\ i = 1 THEN nullptr ELSE n)
    <3> SUFFICES ASSUME NEW n \in Nodes, NEW i \in {0, 1}, splay_children[n][i] # nullptr
                 PROVE  /\ splay_children[n][i] \in Nodes
                        /\ splay_parent'[splay_children[n][i]] =
                             (IF n = r /\ i = 1 THEN nullptr ELSE n)
      BY <1>3, <1>6, KeyFacts
    <3>1. n # victim  BY <1>4, <1>5
    <3>2. splay_children[n][i] \in Nodes /\ splay_parent[splay_children[n][i]] = n
      BY <1>1, <3>1, LinkFacts
    <3>3. CASE n = r /\ i = 1
      <4>1. splay_children[n][i] = c  BY <1>0, <3>3 DEF Right
      <4> QED  BY <1>7, <1>8, <3>2, <3>3, <4>1
    <3>4. CASE ~(n = r /\ i = 1)
      <4>1. splay_children[n][i] # c
        <5>1. SUFFICES ASSUME splay_children[n][i] = c  PROVE FALSE  OBVIOUS
        <5>2. n = r /\ i = 0  BY <1>7, <3>2, <3>4, <5>1
        <5>3. hi[c] = r  BY <1>2, <1>3, <1>4, <5>1, <5>2 DEF TreeFits, InOrder
        <5>4. lo[c] \in Int /\ hi[c] \in Int /\ lo[c] < c /\ c < hi[c]
          BY <1>2, <1>7 DEF TreeFits, InOrder
        <5>5. c \in Int  BY <1>7, KeyFacts
        <5> QED  BY <1>7, <5>3, <5>4, <5>5
      <4> QED  BY <1>5, <1>8, <3>2, <3>4, <4>1
    <3> QED  BY <3>3, <3>4
  <2>2. \A n \in Nodes' :
          IF splay_parent'[n] # nullptr
          THEN n \in {splay_children'[splay_parent'[n]][0],
                      splay_children'[splay_parent'[n]][1]}
          ELSE n = root_node' \/ (victim' # nullptr /\ n = splay_children'[victim'][1])
    <3> SUFFICES ASSUME NEW n \in Nodes
                 PROVE  IF splay_parent'[n] # nullptr
                        THEN n \in {splay_children[splay_parent'[n]][0],
                                    splay_children[splay_parent'[n]][1]}
                        ELSE n = r \/ n = c
      BY <1>0, <1>3, <1>4, <1>5, <1>6 DEF Right
    <3>1. CASE n = c  BY <1>5, <1>8, <3>1
    <3>2. CASE n # c
      <4>1. splay_parent'[n] = splay_parent[n]  BY <1>5, <1>8, <3>2
      <4> QED  BY <1>1, <1>4, <4>1 DEF LinksAgree, Left, Right
    <3> QED  BY <3>1, <3>2
  <2> QED  BY <2>1, <2>2 DEF LinksAgree, Left, Right
<1>18. TreeOK'
  <2>1. TreeFits(lo, hi)'  BY <1>2, <1>3, <1>6 DEF TreeFits
  <2>2. SearchAt(lo, hi)' /\ EdgeAt(lo, hi)'
    BY <1>3, <1>7 DEF SearchAt, EdgeAt
  <2> QED  BY <2>1, <2>2 DEF TreeOK
<1> QED  BY <1>10, <1>11, <1>12, <1>14, <1>15, <1>16, <1>17, <1>18 DEF SplayInv, TreeInv

\* The least node of the right subtree takes the left one and is the root.
LEMMA JoinStep ==
  ASSUME SplayInv, Join  PROVE SplayInv'
<1>1. /\ SplayTypeOK /\ CallOK /\ Fresh /\ LinksAgree /\ ListInOrder /\ VictimOK
  BY DEF SplayInv, TreeInv
<1>2. PICK lo, hi : TreeFits(lo, hi)  BY DEF SplayInv, TreeInv, TreeOK
<1>0. PICK w, l, top : w = victim /\ l = Left(w) /\ top = Right(w)  OBVIOUS
<1>3. /\ stage = "splay" /\ AtTop /\ w # nullptr
      /\ root_node' = top
      /\ splay_parent' = [splay_parent EXCEPT ![l] = top]
      /\ splay_children' = [splay_children EXCEPT ![top][0] = l, ![w] = Leaf]
      /\ Delete(w) /\ Return
      /\ UNCHANGED <<listVars, answer>>
  BY <1>0 DEF Join
<1>4. /\ w \in Nodes /\ w = root_node /\ splay_parent[w] = nullptr
      /\ l # nullptr /\ top # nullptr
      /\ w < ptr /\ \A m \in Nodes : w < m => ptr =< m
      /\ w # nullptr
  BY <1>0, <1>1, <1>3 DEF VictimOK, SplayTypeOK
<1>5. /\ w \in Key /\ Nodes \in SUBSET Key /\ w \in Nat
      /\ Leaf \in [0..1 -> Pointer] /\ Leaf[0] = nullptr /\ Leaf[1] = nullptr
      /\ \A m \in Nodes : m # nullptr /\ m \in Nat /\ m \in Key
  BY <1>1, <1>4, NodeTypes, KeyFacts DEF SplayTypeOK, Leaf
<1>6. ptr = top
  <2>1. splay_parent[ptr] = nullptr /\ ptr \in Nodes
    BY <1>1, <1>3 DEF AtTop, CallOK
  <2>2. ptr # root_node  BY <1>4, <1>5, <2>1
  <2> QED  BY <1>0, <1>1, <2>1, <2>2 DEF LinksAgree
<1>7. /\ splay_children[w][0] = l /\ splay_children[w][1] = top
      /\ \A m \in Nodes : w < m => top =< m
  BY <1>0, <1>4, <1>6 DEF Left, Right
<1>8. /\ l \in Nodes /\ splay_parent[l] = w /\ hi[l] = w
      /\ top \in Nodes /\ splay_parent[top] = nullptr /\ lo[top] = w
      /\ l # top /\ l # w /\ top # w
  <2>1. l \in Nodes /\ splay_parent[l] = w
    BY <1>0, <1>1, <1>4, <1>7, LinkFacts
  <2>2. top \in Nodes /\ splay_parent[top] = nullptr
    BY <1>0, <1>1, <1>4, <1>7, LinkFacts
  <2>3. hi[l] = w /\ lo[top] = w
    BY <1>2, <1>4, <1>7 DEF TreeFits, InOrder
  <2>4. l < w /\ w < top  BY <1>2, <2>1, <2>2, <2>3 DEF TreeFits, InOrder
  <2> QED  BY <1>5, <2>1, <2>2, <2>3, <2>4
<1>9. /\ Nodes' = Nodes \ {w} /\ v' \in [Nodes \ {w} -> Value]
      /\ size' = Cardinality(Nodes')
  BY <1>1, <1>3, <1>4, DeleteFacts
<1>10. /\ splay_parent' \in [Key -> Pointer]
       /\ \A m \in Key : splay_parent'[m] = IF m = l THEN top ELSE splay_parent[m]
  <2>1. splay_parent \in [Key -> Pointer] /\ top \in Pointer /\ l \in Key
    BY <1>1, <1>5, <1>8, KeyFacts DEF SplayTypeOK
  <2> QED  BY <1>3, <2>1
<1>11. /\ splay_children' \in [Key -> [0..1 -> Pointer]]
       /\ \A m \in Key \ {w} : \A t \in {0, 1} : splay_children'[m][t] =
            IF m = top /\ t = 0 THEN l ELSE splay_children[m][t]
       /\ splay_children'[w] = Leaf
       /\ \A m \in Key \ {w, top} : splay_children'[m] = splay_children[m]
  <2>1. splay_children \in [Key -> [0..1 -> Pointer]] /\ l \in Pointer /\ top \in Key
        /\ 0..1 = {0, 1}
    BY <1>1, <1>5, <1>8, KeyFacts DEF SplayTypeOK
  <2> QED  BY <1>3, <1>5, <1>8, <2>1
<1>12. /\ ptr' = nullptr /\ last' = nullptr /\ victim' = nullptr
       /\ CallOK' /\ VictimOK' /\ SoughtOK'
       /\ \A a, b : SearchAt(a, b)' /\ EdgeAt(a, b)'
  BY <1>3, ReturnFacts
<1>13. parent' = parent /\ children' = children /\ answer' = answer
  BY <1>3 DEF listVars
<1>14. SplayTypeOK'
  <2>1. root_node' \in Pointer /\ nullptr \in Pointer
    BY <1>3, <1>5, <1>8, KeyFacts
  <2>2. Nodes' \subseteq Key /\ v' \in [Nodes' -> Value]  BY <1>5, <1>9
  <2> QED  BY <1>1, <1>9, <1>10, <1>11, <1>12, <1>13, <2>1, <2>2 DEF SplayTypeOK
<1>15. ListInOrder'
  <2>1. Listed' = Listed  BY <1>0, <1>5, <1>9, <1>12 DEF Listed
  <2> QED  BY <1>1, <1>13, <2>1 DEF ListInOrder
<1>16. Fresh'
  <2> SUFFICES ASSUME NEW m \in Key \ Nodes'
               PROVE  splay_parent'[m] = nullptr /\ splay_children'[m] = Leaf
    BY DEF Fresh
  <2>1. m = w \/ m \in Key \ Nodes  BY <1>9
  <2>2. /\ splay_parent[m] = nullptr /\ m # l /\ m # top
        /\ m # w => splay_children[m] = Leaf
    BY <1>1, <1>4, <1>8, <2>1 DEF Fresh
  <2> QED  BY <1>10, <1>11, <2>2
<1>17. /\ splay_children[top][0] = nullptr
       /\ \E a, b : InOrder(Nodes \ {w}, splay_children', top, a, b)
  <2>1. InOrder(Nodes, splay_children, w, lo, hi)  BY <1>2, <1>4 DEF TreeFits
  <2>2. \A m \in Nodes \ {w} : \A t \in {0, 1} : splay_children'[m][t] =
          IF m = splay_children[w][1] /\ t = 0 THEN splay_children[w][0]
                                               ELSE splay_children[m][t]
    BY <1>5, <1>7, <1>11
  <2>3. splay_children[w][0] # nullptr /\ splay_children[w][1] # nullptr
        /\ \A m \in Nodes : w < m => splay_children[w][1] =< m
    BY <1>4, <1>7
  <2>4. /\ splay_children[splay_children[w][1]][0] = nullptr
        /\ \E a, b : InOrder(Nodes \ {w}, splay_children', splay_children[w][1], a, b)
    BY <1>4, <1>5, <2>1, <2>2, <2>3, RootJoined
  <2> QED  BY <1>7, <2>4
<1>18. ASSUME NEW n \in Nodes \ {w}, NEW i \in {0, 1}, splay_children'[n][i] # nullptr
       PROVE  /\ splay_children'[n][i] \in Nodes \ {w}
              /\ splay_parent'[splay_children'[n][i]] = n
  <2>1. CASE n = top /\ i = 0
    <3>1. splay_children'[n][i] = l  BY <1>5, <1>11, <2>1
    <3> QED  BY <1>5, <1>8, <1>10, <2>1, <3>1
  <2>2. CASE ~(n = top /\ i = 0)
    <3>1. splay_children'[n][i] = splay_children[n][i]  BY <1>5, <1>11, <2>2
    <3>2. splay_children[n][i] \in Nodes /\ splay_parent[splay_children[n][i]] = n
      BY <1>0, <1>1, <1>18, <3>1, LinkFacts
    <3>3. splay_children[n][i] # w  BY <1>4, <1>5, <3>2
    <3>4. splay_children[n][i] # l  BY <1>8, <3>2
    <3> QED  BY <1>5, <1>10, <3>1, <3>2, <3>3, <3>4
  <2> QED  BY <2>1, <2>2
<1>19. ASSUME NEW n \in Nodes \ {w}
       PROVE  IF splay_parent'[n] # nullptr
              THEN n \in {splay_children'[splay_parent'[n]][0],
                          splay_children'[splay_parent'[n]][1]}
              ELSE n = top
  <2>1. CASE n = l
    <3>1. splay_parent'[n] = top  BY <1>5, <1>10, <2>1
    <3>2. splay_children'[top][0] = l  BY <1>5, <1>8, <1>11
    <3> QED  BY <1>4, <2>1, <3>1, <3>2
  <2>2. CASE n # l
    <3>1. splay_parent'[n] = splay_parent[n] /\ splay_parent[n] \in Pointer /\ n # nullptr
      BY <1>1, <1>5, <1>10, <2>2, NodeTypes
    <3>2. CASE splay_parent[n] = nullptr
      <4>1. n = root_node \/ n = Right(victim)  BY <1>1, <3>2 DEF LinksAgree
      <4> QED  BY <1>0, <1>4, <3>1, <3>2, <4>1
    <3>3. CASE splay_parent[n] # nullptr
      <4>1. n \in {splay_children[splay_parent[n]][0], splay_children[splay_parent[n]][1]}
        BY <1>1, <3>3 DEF LinksAgree, Left, Right
      <4>2. splay_parent[n] # w
        BY <1>7, <1>8, <2>2, <3>3, <4>1
      <4>3. splay_parent[n] \in Key \ {w}  BY <3>1, <3>3, <4>2, KeyFacts
      <4>4. \A t \in {0, 1} : splay_children[splay_parent[n]][t] = n =>
              splay_children'[splay_parent[n]][t] = n
        BY <1>11, <1>17, <3>1, <4>3
      <4> QED  BY <3>1, <3>3, <4>1, <4>4
    <3> QED  BY <3>2, <3>3
  <2> QED  BY <2>1, <2>2
<1>20. LinksAgree'
  <2>1. \A n \in Nodes', i \in 0..1 :
          splay_children'[n][i] # nullptr =>
             /\ splay_children'[n][i] \in Nodes'
             /\ splay_parent'[splay_children'[n][i]] =
                  (IF n = victim' /\ i = 1 THEN nullptr ELSE n)
    <3>1. \A n \in Nodes' : n # victim'  BY <1>5, <1>9, <1>12
    <3> QED  BY <1>9, <1>18, <3>1, KeyFacts
  <2>2. \A n \in Nodes' :
          IF splay_parent'[n] # nullptr
          THEN n \in {splay_children'[splay_parent'[n]][0],
                      splay_children'[splay_parent'[n]][1]}
          ELSE n = root_node' \/ (victim' # nullptr /\ n = splay_children'[victim'][1])
    BY <1>3, <1>9, <1>19
  <2> QED  BY <2>1, <2>2 DEF LinksAgree, Left, Right
<1>21. TreeOK'
  <2>1. PICK a, b : InOrder(Nodes \ {w}, splay_children', top, a, b)  BY <1>17
  <2>2. TreeFits(a, b)'  BY <1>3, <1>9, <2>1 DEF TreeFits
  <2> QED  BY <1>12, <2>2 DEF TreeOK
<1> QED  BY <1>12, <1>14, <1>15, <1>16, <1>20, <1>21 DEF SplayInv, TreeInv

(***************************************************************************)
(* The invariant holds                                                     *)
(***************************************************************************)

\* There is no node yet, and no call.
LEMMA SplayInitInv == SplayInit => SplayInv
<1> SUFFICES ASSUME SplayInit  PROVE SplayInv
  OBVIOUS
<1>1. /\ v = [k \in {} |-> NoArg]
      /\ parent = [k \in Key |-> nullptr] /\ children = [k \in Key |-> nullptr]
      /\ splay_parent = [k \in Key |-> nullptr]
      /\ splay_children = [k \in Key |-> Leaf]
      /\ root_node = nullptr /\ size = 0 /\ call = NoCall /\ stage = "idle"
      /\ ptr = nullptr /\ last = nullptr /\ victim = nullptr /\ answer = nullptr
  BY DEF SplayInit
<1>2. Nodes = {} /\ v \in [Nodes -> Value]  BY <1>1 DEF Nodes
<1>3. Leaf \in [0..1 -> Pointer] /\ nullptr \in Pointer  BY KeyFacts DEF Leaf
<1>4. SplayTypeOK
  <2>1. Cardinality(Nodes) = 0  BY <1>2, FS_EmptySet
  <2> QED  BY <1>1, <1>2, <1>3, <2>1 DEF SplayTypeOK
<1>5. CallOK
  <2>1. /\ NoCall \in [op : Ops \cup {"none", "settle", "max", "remove max"},
                       k : Key, x : Value \cup {NoArg}]
        /\ NoCall.op = "none"
    BY KeyFacts DEF NoCall, Key
  <2> QED  BY <1>1, <2>1 DEF CallOK, Idle
<1>6. Fresh  BY <1>1, <1>2 DEF Fresh
<1>7. LinksAgree /\ ListInOrder  BY <1>2 DEF LinksAgree, ListInOrder, Listed
<1>8. VictimOK /\ SoughtOK  BY <1>1 DEF VictimOK, SoughtOK
<1>9. TreeOK
  <2>1. \A lo, hi : TreeFits(lo, hi)  BY <1>1, <1>2 DEF TreeFits, InOrder
  <2>2. \A lo, hi : SearchAt(lo, hi) /\ EdgeAt(lo, hi)  BY <1>1 DEF SearchAt, EdgeAt
  <2> QED  BY <2>1, <2>2 DEF TreeOK
<1> QED  BY <1>4, <1>5, <1>6, <1>7, <1>8, <1>9 DEF SplayInv, TreeInv

\* Nothing moves.
LEMMA StillStep ==
  ASSUME SplayInv, UNCHANGED splayVars  PROVE SplayInv'
<1>1. /\ SplayTypeOK /\ CallOK /\ VictimOK /\ SoughtOK
  BY DEF SplayInv, TreeInv
<1>2. PICK lo, hi : TreeFits(lo, hi) /\ SearchAt(lo, hi) /\ EdgeAt(lo, hi)
  BY DEF SplayInv, TreeInv, TreeOK
<1>3. /\ UNCHANGED <<v, listVars, treeVars, size, victim>>
      /\ v' = v /\ root_node' = root_node /\ splay_parent' = splay_parent
      /\ splay_children' = splay_children
      /\ call' = call /\ stage' = stage /\ ptr' = ptr /\ last' = last
      /\ victim' = victim /\ answer' = answer /\ Nodes' = Nodes
  BY DEF splayVars, treeVars, localVars, Nodes
<1>4. CallOK'  BY <1>1, <1>3 DEF CallOK, Idle
<1>5. VictimOK'  BY <1>1, <1>3 DEF VictimOK, Removes, Left, Right
<1>6. SoughtOK'  BY <1>1, <1>3 DEF SoughtOK, Wanted, Closest
<1>7. SearchAt(lo, hi)' /\ EdgeAt(lo, hi)'  BY <1>2, <1>3 DEF SearchAt, EdgeAt
<1>8. ptr' \in Pointer /\ last' \in Pointer /\ answer' \in Pointer
  BY <1>1, <1>3 DEF SplayTypeOK
<1> QED  BY <1>2, <1>3, <1>4, <1>5, <1>6, <1>7, <1>8, Still

\* Every step keeps the invariant.
LEMMA SplayStep == SplayInv /\ [SplayNext]_splayVars => SplayInv'
<1> SUFFICES ASSUME SplayInv, [SplayNext]_splayVars  PROVE SplayInv'
  OBVIOUS
<1>1. CASE Descend  BY <1>1, DescendStep
<1>2. CASE InsertFirst  BY <1>2, InsertFirstStep
<1>3. CASE InsertLeaf  BY <1>3, InsertLeafStep
<1>4. CASE InsertOver  BY <1>4, InsertOverStep
<1>5. CASE SplayTurn  BY <1>5, SplayTurnStep
<1>6. CASE SplaySecond  BY <1>6, SplaySecondStep
<1>7. CASE InsertDone \/ FindEmpty \/ NothingLess \/ OtherKey \/ FindHit
  BY <1>7, EndStep
<1>8. CASE FindSplay  BY <1>8, FindSplayStep
<1>9. CASE SeekMax  BY <1>9, SeekMaxStep
<1>10. CASE MaxTurn  BY <1>10, MaxTurnStep
<1>11. CASE RemoveOneSided  BY <1>11, RemoveOneSidedStep
<1>12. CASE RemoveTwoSided  BY <1>12, RemoveTwoSidedStep
<1>13. CASE MinTurn  BY <1>13, MinTurnStep
<1>14. CASE Join  BY <1>14, JoinStep
<1>15. CASE \E c \in Calls : Begin(c)  BY <1>15, BeginStep
<1>16. CASE UNCHANGED splayVars  BY <1>16, StillStep
<1> QED
  BY <1>1, <1>2, <1>3, <1>4, <1>5, <1>6, <1>7, <1>8, <1>9, <1>10, <1>11, <1>12,
     <1>13, <1>14, <1>15, <1>16
  DEF SplayNext, CallStep

(***************************************************************************)
(* The ordered map                                                         *)
(***************************************************************************)

\* The call as its caller made it, while it has not taken effect.
LEMMA AskedFacts ==
  ASSUME CallOK
  PROVE  /\ call.op \in {"none", "settle"} => Asked = {}
         /\ call.op \notin {"none", "settle"} =>
              \E c : /\ Asked = {c} /\ c.k = call.k /\ c.x = call.x
                     /\ c.op = IF call.op = "max" THEN "le"
                               ELSE IF call.op = "remove max" THEN "remove_le"
                               ELSE call.op
<1>1. call \in [op : Ops \cup {"none", "settle", "max", "remove max"},
                k : Key, x : Value \cup {NoArg}]
  BY DEF CallOK
<1> DEFINE o == IF call.op = "max" THEN "le"
                ELSE IF call.op = "remove max" THEN "remove_le"
                ELSE call.op
           c == [call EXCEPT !.op = o]
<1>2. c.op = o /\ c.k = call.k /\ c.x = call.x  BY <1>1
<1>3. call.op \notin {"none", "settle"} => Asked = {c}  BY DEF Asked
<1>4. call.op \in {"none", "settle"} => Asked = {}  BY DEF Asked
<1> QED  BY <1>2, <1>3, <1>4

\* A call has returned or only settles.
LEMMA NoneAsked ==
  /\ Return => Asked' = {}
  /\ CallOK /\ Settling => Asked' = {}
<1>1. Return => Asked' = {}  BY DEF Return, NoCall, Asked
<1>2. ASSUME CallOK, Settling  PROVE Asked' = {}
  <2>1. call' = [call EXCEPT !.op = "settle"]  BY <1>2 DEF Settling
  <2>2. call \in [op : Ops \cup {"none", "settle", "max", "remove max"},
                  k : Key, x : Value \cup {NoArg}]
    BY <1>2 DEF CallOK
  <2>3. call'.op = "settle"  BY <2>1, <2>2
  <2> QED  BY <2>3 DEF Asked
<1> QED  BY <1>1, <1>2

\* An insertion takes effect when its node has its value.
LEMMA MapPut ==
  ASSUME SplayInv, InsertFirst \/ InsertLeaf \/ InsertOver  PROVE om!MapNext
<1>1. CallOK  BY DEF SplayInv, TreeInv
<1>2. /\ call.op = "insert" /\ SetValue(call.k, call.x) /\ answer' = answer
      /\ Return \/ Settling
  BY DEF InsertFirst, InsertLeaf, InsertOver
<1>3. PICK c : Asked = {c} /\ c.k = call.k /\ c.x = call.x /\ c.op = "insert"
  BY <1>1, <1>2, AskedFacts
<1>4. Asked' = {}  BY <1>1, <1>2, NoneAsked
<1>5. om!Put(c)  BY <1>2, <1>3 DEF om!Put, SetValue, Nodes
<1> QED  BY <1>3, <1>4, <1>5 DEF om!MapNext, om!Effect

\* A call that ends without a node has looked for one that is not there.
LEMMA MapMissed ==
  ASSUME SplayTypeOK, CallOK, Missed, Seeks,
         call.op \in {"le", "remove_le"} => \A j \in Nodes : j > call.k,
         call.op \in {"precise", "remove_precise"} => call.k \notin Nodes
  PROVE  om!MapNext
<1>1. PICK c : /\ Asked = {c} /\ c.k = call.k /\ c.op = call.op
  BY AskedFacts DEF Seeks
<1>2. Asked' = {} /\ v' = v /\ answer' = (IF Removes THEN answer ELSE nullptr)
  BY NoneAsked DEF Missed
<1>3. CASE Removes
  <2>1. v = [j \in Nodes \ {nullptr} |-> v[j]]
    <3>1. Nodes \ {nullptr} = Nodes  BY NodeTypes
    <3>2. v \in [Nodes -> Value]  BY DEF SplayTypeOK
    <3> QED  BY <3>1, <3>2
  <2>2. \/ c.op = "remove_le" /\ om!Below(nullptr, c.k)
        \/ c.op = "remove_precise" /\ om!At(nullptr, c.k)
    BY <1>1, <1>3 DEF Removes, Seeks, om!Below, om!At, Nodes
  <2>3. om!Drop(c, nullptr)  BY <1>2, <1>3, <2>1, <2>2 DEF om!Drop, Nodes
  <2> QED  BY <1>1, <1>2, <2>3 DEF om!MapNext, om!Effect
<1>4. CASE ~Removes
  <2>1. \/ c.op = "le" /\ om!Below(answer', c.k)
        \/ c.op = "precise" /\ om!At(answer', c.k)
    BY <1>1, <1>2, <1>4 DEF Removes, Seeks, om!Below, om!At, Nodes
  <2>2. om!Reply(c)  BY <1>2, <2>1 DEF om!Reply
  <2> QED  BY <1>1, <1>2, <2>2 DEF om!MapNext, om!Effect
<1> QED  BY <1>3, <1>4

\* A node at or below the key, with none between, is the greatest such.
LEMMA ClosestIsBelow ==
  ASSUME SplayTypeOK, CallOK, NEW n \in Nodes, n =< call.k, Closest(n, call.k)
  PROVE  om!Below(n, call.k)
<1>1. \A j \in Nodes : j =< call.k => j =< n
  <2>1. call.k \in Nat /\ \A j \in Nodes : j \in Nat
    BY NodeTypes, KeyFacts DEF CallOK
  <2> QED  BY <2>1 DEF Closest
<1> QED  BY <1>1 DEF om!Below, Nodes

\* Each step is a step of the map or changes nothing its user sees.
LEMMA MapStep == SplayInv /\ [SplayNext]_splayVars => [om!MapNext]_(om!mapVars)
<1> SUFFICES ASSUME SplayInv, [SplayNext]_splayVars
             PROVE  om!MapNext \/ UNCHANGED om!mapVars
  OBVIOUS
<1>1. SplayTypeOK /\ CallOK /\ VictimOK /\ SoughtOK  BY DEF SplayInv, TreeInv
<1>2. PICK lo, hi : TreeFits(lo, hi) /\ SearchAt(lo, hi)
  BY DEF SplayInv, TreeInv, TreeOK
<1>3. /\ call \in [op : Ops \cup {"none", "settle", "max", "remove max"},
                   k : Key, x : Value \cup {NoArg}]
      /\ call.k \in Nat
      /\ \A m \in Nodes : m \in Nat /\ m # nullptr
  BY <1>1, NodeTypes, KeyFacts DEF CallOK
<1>4. CASE \/ Descend \/ SplayTurn \/ SplaySecond \/ FindSplay \/ MaxTurn
           \/ RemoveTwoSided \/ MinTurn \/ UNCHANGED splayVars
  <2>1. v' = v /\ call' = call /\ answer' = answer
    BY <1>4 DEF Descend, SplayTurn, SplaySecond, FindSplay, MaxTurn, RemoveTwoSided,
                MinTurn, splayVars, localVars
  <2> QED  BY <2>1 DEF om!mapVars, Asked
<1>5. CASE SeekMax
  <2>1. /\ call.op \in {"le", "remove_le"} /\ v' = v /\ answer' = answer
        /\ call' = [call EXCEPT !.op = IF call.op = "le" THEN "max" ELSE "remove max"]
    BY <1>5 DEF SeekMax
  <2>2. Asked' = Asked
    <3>1. CASE call.op = "le"  BY <1>3, <2>1, <3>1 DEF Asked
    <3>2. CASE call.op = "remove_le"  BY <1>3, <2>1, <3>2 DEF Asked
    <3> QED  BY <2>1, <3>1, <3>2
  <2> QED  BY <2>1, <2>2 DEF om!mapVars
<1>6. CASE InsertDone
  <2>1. Asked = {} /\ Asked' = {} /\ v' = v /\ answer' = answer
    BY <1>1, <1>6, AskedFacts, NoneAsked DEF InsertDone
  <2> QED  BY <2>1 DEF om!mapVars
<1>7. CASE InsertFirst \/ InsertLeaf \/ InsertOver  BY <1>7, MapPut
<1>8. CASE FindEmpty
  <2>1. Landed /\ Seeks /\ Found = nullptr /\ Missed  BY <1>8 DEF FindEmpty
  <2>2. Nodes = {}  BY <1>2, <2>1, FoundFacts
  <2> QED  BY <1>1, <2>1, <2>2, MapMissed
<1>9. CASE NothingLess
  <2>1. /\ Splayed /\ call.op \in {"le", "remove_le"} /\ ptr > call.k
        /\ Left(ptr) = nullptr /\ Missed
    BY <1>9 DEF NothingLess
  <2>2. ptr = root_node /\ ptr \in Nodes  BY <2>1, TopIsRoot
  <2>3. lo[ptr] = -1  BY <1>2, <1>3, <2>2 DEF TreeFits, InOrder
  <2>4. \A j \in Nodes : ~(lo[ptr] < j /\ j < ptr)
    BY <1>2, <2>1, <2>2 DEF TreeFits, InOrder, Left
  <2>5. \A j \in Nodes : j > call.k
    <3> SUFFICES ASSUME NEW j \in Nodes  PROVE j > call.k
      OBVIOUS
    <3>1. j \in Nat /\ ptr \in Nat /\ call.k \in Nat  BY <1>3, <2>2
    <3>2. ~(j < ptr)  BY <2>3, <2>4, <3>1
    <3>3. call.k < ptr  BY <2>1, <3>1
    <3> QED  BY <3>1, <3>2, <3>3
  <2>6. Seeks  BY <2>1 DEF Seeks
  <2> QED  BY <1>1, <2>1, <2>5, <2>6, MapMissed
<1>10. CASE OtherKey
  <2>1. /\ Splayed /\ call.op \in {"precise", "remove_precise"} /\ ptr # call.k /\ Missed
    BY <1>10 DEF OtherKey
  <2>2. ptr \in Nodes /\ Closest(ptr, call.k)  BY <2>1, TopIsRoot DEF Wanted
  <2>3. call.k \notin Nodes
    <3> SUFFICES ASSUME call.k \in Nodes  PROVE FALSE
      OBVIOUS
    <3>1. ~(ptr < call.k /\ call.k =< call.k) /\ ~(call.k =< call.k /\ call.k < ptr)
      BY <2>2 DEF Closest
    <3>2. ptr \in Nat /\ call.k \in Nat /\ ptr # call.k  BY <1>3, <2>1, <2>2
    <3> QED  BY <3>1, <3>2
  <2>4. Seeks  BY <2>1 DEF Seeks
  <2> QED  BY <1>1, <2>1, <2>3, <2>4, MapMissed
<1>11. CASE FindHit
  <2>1. Hit /\ ~Removes /\ Splayed /\ answer' = ptr /\ Return /\ v' = v
    BY <1>11 DEF FindHit, Hit
  <2>2. ptr \in Nodes /\ Wanted(ptr)  BY <2>1, TopIsRoot
  <2>3. \/ call.op \in {"le", "max"} /\ om!Below(ptr, call.k)
        \/ call.op = "precise" /\ om!At(ptr, call.k)
    <3>1. CASE call.op = "le" /\ ptr =< call.k
      BY <1>1, <2>2, <3>1, ClosestIsBelow DEF Wanted
    <3>2. CASE call.op = "precise" /\ ptr = call.k
      BY <2>2, <3>2 DEF om!At, Nodes
    <3>3. CASE call.op = "max"
      BY <1>1, <2>2, <3>3, ClosestIsBelow DEF Wanted
    <3> QED  BY <2>1, <3>1, <3>2, <3>3 DEF Hit, Removes
  <2>4. PICK c : /\ Asked = {c} /\ c.k = call.k
                 /\ c.op = IF call.op = "max" THEN "le"
                           ELSE IF call.op = "remove max" THEN "remove_le"
                           ELSE call.op
    BY <1>1, <2>3, AskedFacts
  <2>5. om!Reply(c)
    BY <2>1, <2>3, <2>4 DEF om!Reply, om!Below, om!At
  <2> QED  BY <2>1, <2>4, <2>5, NoneAsked DEF om!MapNext, om!Effect
<1>12. ASSUME NEW n \in Nodes, Delete(n), Return, answer' = answer, Removes,
              call.op \in {"remove_le", "remove max"} =>
                n =< call.k /\ Closest(n, call.k),
              call.op = "remove_precise" => n = call.k
       PROVE  om!MapNext
  <2>1. PICK c : /\ Asked = {c} /\ c.k = call.k
                 /\ c.op = IF call.op = "max" THEN "le"
                           ELSE IF call.op = "remove max" THEN "remove_le"
                           ELSE call.op
    BY <1>1, <1>12, AskedFacts DEF Removes
  <2>2. \/ c.op = "remove_le" /\ om!Below(n, c.k)
        \/ c.op = "remove_precise" /\ om!At(n, c.k)
    <3>1. CASE call.op \in {"remove_le", "remove max"}
      <4>1. om!Below(n, call.k)  BY <1>1, <1>12, <3>1, ClosestIsBelow
      <4> QED  BY <2>1, <3>1, <4>1
    <3>2. CASE call.op = "remove_precise"
      BY <1>12, <2>1, <3>2 DEF om!At, Nodes
    <3> QED  BY <1>12, <3>1, <3>2 DEF Removes
  <2>3. om!Drop(c, n)  BY <1>12, <2>2 DEF om!Drop, Delete, Nodes
  <2>4. n \in DOMAIN v \cup {nullptr}  BY DEF Nodes
  <2> QED  BY <1>12, <2>1, <2>3, <2>4, NoneAsked DEF om!MapNext, om!Effect
<1>13. CASE RemoveOneSided
  <2>1. Hit /\ Removes /\ Splayed /\ Delete(ptr) /\ Return /\ answer' = answer
    BY <1>13 DEF RemoveOneSided, Hit
  <2>2. ptr \in Nodes /\ Wanted(ptr)  BY <2>1, TopIsRoot
  <2>3. call.op \in {"remove_le", "remove max"} => ptr =< call.k /\ Closest(ptr, call.k)
    BY <2>1, <2>2 DEF Hit, Wanted
  <2>4. call.op = "remove_precise" => ptr = call.k  BY <2>1 DEF Hit
  <2> QED  BY <1>12, <2>1, <2>2, <2>3, <2>4
<1>14. CASE Join
  <2>1. victim # nullptr /\ Delete(victim) /\ Return /\ answer' = answer
    BY <1>14 DEF Join
  <2>2. victim \in Nodes /\ Removes  BY <1>1, <2>1 DEF SplayTypeOK, VictimOK
  <2>3. call.op \in {"remove_le", "remove max"} =>
          victim =< call.k /\ Closest(victim, call.k)
    BY <1>1, <2>1 DEF SoughtOK
  <2>4. call.op = "remove_precise" => victim = call.k  BY <1>1, <2>1 DEF SoughtOK
  <2> QED  BY <1>12, <2>1, <2>2, <2>3, <2>4
<1>15. ASSUME NEW c \in Calls, Begin(c)  PROVE om!MapNext
  <2>1. Idle /\ call' = c /\ answer' = nullptr /\ v' = v  BY <1>15 DEF Begin
  <2>2. Asked = {}  BY <1>1, <2>1, AskedFacts DEF Idle
  <2>3. c.op \in Ops /\ [c EXCEPT !.op = c.op] = c  BY DEF Calls, Ops
  <2>4. Asked' = {c}  BY <2>1, <2>3 DEF Asked, Ops
  <2>5. om!Ask(c)  BY <2>1, <2>2, <2>4 DEF om!Ask
  <2> QED  BY <2>5 DEF om!MapNext
<1> QED
  BY <1>4, <1>5, <1>6, <1>7, <1>8, <1>9, <1>10, <1>11, <1>13, <1>14, <1>15
  DEF SplayNext, CallStep

(***************************************************************************)
(* Searches for any node                                                   *)
(***************************************************************************)

\* Where a search for k goes from x, through the children sc.
Onward(sc, k, x) ==
  IF x \in {nullptr, k} THEN x ELSE sc[x][IF k < x THEN 0 ELSE 1]

\* f follows a search for k that begins at root, up to its n-th turn.
Follows(f, sc, root, k, n) ==
  f[0] = root /\ \A i \in 1..n : f[i] = Onward(sc, k, f[i - 1])

\* The nodes in the subtree of n.
Below(N, lo, hi, n) == {m \in N : lo[n] < m /\ m < hi[n]}

\* A search for a node's key that is not there yet goes to a child, whose subtree is
\* smaller, and the node is in it.
LEMMA SearchNears ==
  ASSUME NEW N \in SUBSET Key, NEW sc, NEW root, NEW lo, NEW hi,
         InOrder(N, sc, root, lo, hi),
         NEW k \in N, NEW x \in N, x # k, k \in Below(N, lo, hi, x),
         NEW y, y = Onward(sc, k, x)
  PROVE  /\ y \in N /\ k \in Below(N, lo, hi, y)
         /\ Below(N, lo, hi, y) \subseteq Below(N, lo, hi, x) \ {x}
         /\ x \in Below(N, lo, hi, x)
<1>1. N \subseteq Nat /\ nullptr \notin N /\ k \in Nat /\ x \in Nat
  BY KeyFacts
<1>2. /\ \A n \in N : lo[n] \in Int /\ hi[n] \in Int /\ lo[n] < n /\ n < hi[n]
      /\ lo[x] < k /\ k < hi[x]
  BY DEF InOrder, Below
<1>3. y = sc[x][IF k < x THEN 0 ELSE 1]  BY <1>1 DEF Onward
<1>4. x \in Below(N, lo, hi, x)  BY <1>2 DEF Below
<1>5. CASE k < x
  <2>1. y = sc[x][0]  BY <1>3, <1>5
  <2>2. y \in N /\ lo[y] = lo[x] /\ hi[y] = x  BY <1>2, <1>5, <2>1 DEF InOrder
  <2>3. k \in Below(N, lo, hi, y)  BY <1>2, <1>5, <2>2 DEF Below
  <2>4. ASSUME NEW m \in Below(N, lo, hi, y)  PROVE m \in Below(N, lo, hi, x) \ {x}
    <3>1. m \in N /\ m \in Nat /\ lo[x] < m /\ m < x  BY <1>1, <2>2 DEF Below
    <3> QED  BY <1>1, <1>2, <3>1 DEF Below
  <2> QED  BY <1>4, <2>2, <2>3, <2>4
<1>6. CASE x < k
  <2>1. y = sc[x][1]  BY <1>1, <1>3, <1>6
  <2>2. y \in N /\ lo[y] = x /\ hi[y] = hi[x]  BY <1>2, <1>6, <2>1 DEF InOrder
  <2>3. k \in Below(N, lo, hi, y)  BY <1>2, <1>6, <2>2 DEF Below
  <2>4. ASSUME NEW m \in Below(N, lo, hi, y)  PROVE m \in Below(N, lo, hi, x) \ {x}
    <3>1. m \in N /\ m \in Nat /\ x < m /\ m < hi[x]  BY <1>1, <2>2 DEF Below
    <3> QED  BY <1>1, <1>2, <3>1 DEF Below
  <2> QED  BY <1>4, <2>2, <2>3, <2>4
<1> QED  BY <1>1, <1>5, <1>6

\* The search is at k, or at a node above it with at most c - i nodes in its subtree.
Nearer(N, lo, hi, k, x, i) ==
  \/ x = k
  \/ /\ x \in N /\ k \in Below(N, lo, hi, x)
     /\ Cardinality(Below(N, lo, hi, x)) + i =< Cardinality(N)

\* A search has reached its node after as many turns as there are nodes.
LEMMA SearchReaches ==
  ASSUME NEW N \in SUBSET Key, NEW sc, NEW root, NEW lo, NEW hi,
         InOrder(N, sc, root, lo, hi), IsFiniteSet(N),
         NEW k \in N, NEW c, c = Cardinality(N),
         NEW f, Follows(f, sc, root, k, c)
  PROVE  f[c] = k
<1>1. /\ N \subseteq Nat /\ nullptr \notin N /\ k \in Nat /\ c \in Nat /\ k =< MaxKey
      /\ MaxKey \in Nat
  BY FS_CardinalityType, KeyFacts
<1>2. f[0] = root /\ \A i \in 1..c : f[i] = Onward(sc, k, f[i - 1])  BY DEF Follows
<1>3. \A x : /\ Below(N, lo, hi, x) \subseteq N /\ IsFiniteSet(Below(N, lo, hi, x))
             /\ Cardinality(Below(N, lo, hi, x)) \in Nat
             /\ Cardinality(Below(N, lo, hi, x)) =< c
  <2> SUFFICES ASSUME NEW x
               PROVE  /\ Below(N, lo, hi, x) \subseteq N
                      /\ IsFiniteSet(Below(N, lo, hi, x))
                      /\ Cardinality(Below(N, lo, hi, x)) \in Nat
                      /\ Cardinality(Below(N, lo, hi, x)) =< c
    OBVIOUS
  <2>1. PICK B : B = Below(N, lo, hi, x)  OBVIOUS
  <2>2. B \in SUBSET N  BY <2>1 DEF Below
  <2>3. IsFiniteSet(B) /\ Cardinality(B) =< Cardinality(N)  BY <2>2, FS_Subset
  <2>4. Cardinality(B) \in Nat  BY <2>3, FS_CardinalityType
  <2> QED  BY <2>1, <2>2, <2>3, <2>4
<1> DEFINE G == {i \in 0..c : Nearer(N, lo, hi, k, f[i], i)}
<1>4. 0 \in G
  <2>1. root \in N /\ lo[root] = -1 /\ hi[root] = MaxKey + 1  BY DEF InOrder
  <2>2. k \in Below(N, lo, hi, root)  BY <1>1, <2>1 DEF Below
  <2>3. Cardinality(Below(N, lo, hi, root)) + 0 =< Cardinality(N)  BY <1>1, <1>3
  <2>4. 0 \in 0..c  BY <1>1
  <2> QED  BY <1>2, <2>1, <2>2, <2>3, <2>4 DEF Nearer
<1>5. ASSUME NEW i \in 1..c, i - 1 \in G
      PROVE  i \in G
  <2>1. PICK x : x = f[i - 1]  OBVIOUS
  <2>2. PICK y : y = f[i]  OBVIOUS
  <2>3. y = Onward(sc, k, x)  BY <1>2, <2>1, <2>2
  <2>4. Nearer(N, lo, hi, k, x, i - 1)  BY <1>5, <2>1
  <2>5. CASE x = k
    <3>1. y = k  BY <2>3, <2>5 DEF Onward
    <3>2. Nearer(N, lo, hi, k, y, i)  BY <3>1 DEF Nearer
    <3>3. i \in 0..c  BY <1>1
    <3> QED  BY <2>2, <3>2, <3>3
  <2>6. CASE x # k
    <3>1. PICK B : B = Below(N, lo, hi, x)  OBVIOUS
    <3>2. PICK D : D = Below(N, lo, hi, y)  OBVIOUS
    <3>3. x \in N /\ k \in B /\ Cardinality(B) + (i - 1) =< c
      BY <2>4, <2>6, <3>1 DEF Nearer
    <3>4. y \in N /\ k \in D /\ D \subseteq B \ {x} /\ x \in B
      <4> HIDE DEF G
      <4>1. k \in Below(N, lo, hi, x)  BY <3>1, <3>3
      <4>2. /\ y \in N /\ k \in Below(N, lo, hi, y)
            /\ Below(N, lo, hi, y) \subseteq Below(N, lo, hi, x) \ {x}
            /\ x \in Below(N, lo, hi, x)
        BY <2>3, <2>6, <3>3, <4>1, SearchNears
      <4> QED  BY <3>1, <3>2, <4>2
    <3>5. IsFiniteSet(B) /\ Cardinality(B) \in Nat /\ Cardinality(D) \in Nat
      BY <1>3, <3>1, <3>2
    <3>6. IsFiniteSet(B \ {x}) /\ Cardinality(B \ {x}) = Cardinality(B) - 1
      BY <3>4, <3>5, FS_RemoveElement
    <3>7. Cardinality(D) =< Cardinality(B \ {x})  BY <3>4, <3>6, FS_Subset
    <3>8. Cardinality(D) + i =< c  BY <1>1, <3>3, <3>5, <3>6, <3>7
    <3>9. Nearer(N, lo, hi, k, y, i)  BY <3>2, <3>4, <3>8 DEF Nearer
    <3>10. i \in 0..c  BY <1>1
    <3> QED  BY <2>2, <3>9, <3>10
  <2> QED  BY <2>5, <2>6
<1>6. G = 0..c
  <2>1. G \in SUBSET (0..c)  OBVIOUS
  <2> HIDE DEF G
  <2> QED  BY <1>1, <1>4, <1>5, <2>1, UpTo
<1>7. Nearer(N, lo, hi, k, f[c], c)
  <2>1. c \in 0..c  BY <1>1
  <2> QED  BY <1>6, <2>1
<1>8. PICK x : x = f[c]  OBVIOUS
<1>9. CASE x # k
  <2>1. PICK B : B = Below(N, lo, hi, x)  OBVIOUS
  <2>2. k \in B /\ Cardinality(B) + c =< c  BY <1>7, <1>8, <1>9, <2>1 DEF Nearer
  <2>3. IsFiniteSet(B) /\ Cardinality(B) \in Nat  BY <1>3, <2>1
  <2>4. Cardinality(B) = 0  BY <1>1, <2>2, <2>3
  <2>5. B = {}  BY <2>3, <2>4, FS_EmptySet
  <2> QED  BY <2>2, <2>5
<1> QED  BY <1>8, <1>9

\* A search can be followed up to any turn.
LEMMA FollowExists ==
  ASSUME NEW sc, NEW root, NEW k, NEW n \in Nat
  PROVE  \E f : Follows(f, sc, root, k, n)
<1> DEFINE Good(m) == \E f : Follows(f, sc, root, k, m)
           G == {m \in 0..n : Good(m)}
<1>1. 0 \in G
  <2>1. PICK f : f = [i \in {0} |-> root]  OBVIOUS
  <2>2. f[0] = root /\ 1..0 = {}  BY <2>1
  <2>3. Follows(f, sc, root, k, 0)  BY <2>2 DEF Follows
  <2> QED  BY <2>3
<1>2. ASSUME NEW m \in 1..n, m - 1 \in G
      PROVE  m \in G
  <2>1. PICK f : Follows(f, sc, root, k, m - 1)  BY <1>2
  <2>2. PICK g : g = [i \in 0..m |-> IF i = m THEN Onward(sc, k, f[m - 1]) ELSE f[i]]
    OBVIOUS
  <2>3. g[0] = root  BY <2>1, <2>2 DEF Follows
  <2>4. ASSUME NEW i \in 1..m  PROVE g[i] = Onward(sc, k, g[i - 1])
    <3>1. g[i - 1] = f[i - 1]  BY <2>2
    <3>2. CASE i = m  BY <2>2, <3>1, <3>2
    <3>3. CASE i # m
      <4>1. i \in 1..(m - 1) /\ g[i] = f[i]  BY <2>2, <3>3
      <4> QED  BY <2>1, <3>1, <4>1 DEF Follows
    <3> QED  BY <3>2, <3>3
  <2>5. Follows(g, sc, root, k, m)  BY <2>3, <2>4 DEF Follows
  <2> QED  BY <2>5
<1>3. G = 0..n
  <2>1. G \in SUBSET (0..n)  OBVIOUS
  <2> HIDE DEF G
  <2> QED  BY <1>1, <1>2, <2>1, UpTo
<1>4. n \in G  BY <1>3
<1> QED  BY <1>4

\* Path follows the search for ever, if the search ends somewhere.
LEMMA PathFollows ==
  ASSUME NEW k, NEW n \in Nat, NEW f, Follows(f, splay_children, root_node, k, n),
         f[n] = k
  PROVE  Follows(Path(k), splay_children, root_node, k, n)
<1> DEFINE E(at) == at = [i \in Nat |->
                       IF i = 0 THEN root_node
                       ELSE IF at[i - 1] \in {nullptr, k} THEN at[i - 1]
                       ELSE splay_children[at[i - 1]][IF k < at[i - 1] THEN 0 ELSE 1]]
<1>1. Path(k) = CHOOSE at : E(at)  BY DEF Path
<1>2. PICK g : g = [i \in Nat |-> IF i =< n THEN f[i] ELSE k]  OBVIOUS
<1>3. E(g)
  <2>1. ASSUME NEW i \in Nat
        PROVE  g[i] = IF i = 0 THEN root_node ELSE Onward(splay_children, k, g[i - 1])
    <3>1. CASE i = 0  BY <1>2, <3>1 DEF Follows
    <3>2. CASE i # 0 /\ i =< n
      <4>1. i \in 1..n /\ i - 1 \in Nat /\ i - 1 =< n  BY <3>2
      <4>2. g[i] = f[i] /\ g[i - 1] = f[i - 1]  BY <1>2, <3>2, <4>1
      <4> QED  BY <3>2, <4>1, <4>2 DEF Follows
    <3>3. CASE i > n
      <4>1. i # 0 /\ i - 1 \in Nat /\ g[i] = k  BY <1>2, <3>3
      <4>2. g[i - 1] = k
        <5>1. CASE i - 1 =< n
          <6>1. i - 1 = n  BY <3>3, <5>1
          <6> QED  BY <1>2, <6>1
        <5>2. CASE ~(i - 1 =< n)  BY <1>2, <4>1, <5>2
        <5> QED  BY <5>1, <5>2
      <4> QED  BY <4>1, <4>2 DEF Onward
    <3> QED  BY <3>1, <3>2, <3>3
  <2> QED  BY <1>2, <2>1 DEF Onward
<1>4. PICK at : at = Path(k)  OBVIOUS
<1>5. E(at)
  <2> HIDE DEF E
  <2> QED  BY <1>1, <1>3, <1>4
<1>6. at[0] = root_node  BY <1>5
<1>7. ASSUME NEW i \in 1..n  PROVE at[i] = Onward(splay_children, k, at[i - 1])
  BY <1>5 DEF Onward
<1> QED  BY <1>4, <1>6, <1>7 DEF Follows

(***************************************************************************)
(* Theorems                                                                *)
(***************************************************************************)

\* The invariant holds in every behaviour.
THEOREM SplayInvAlways == SplaySpec => []SplayInv
<1>1. SplayInit => SplayInv  BY SplayInitInv
<1>2. SplayInv /\ [SplayNext]_splayVars => SplayInv'  BY SplayStep
<1> QED  BY <1>1, <1>2, PTL DEF SplaySpec

\* Every variable keeps its type, and size is the number of nodes (SplayList).
THEOREM SplayTypeCorrect == SplaySpec => []SplayTypeOK
<1>1. SplayInv => SplayTypeOK  BY DEF SplayInv, TreeInv
<1> QED  BY <1>1, SplayInvAlways, PTL

\* Within the calls too each node's neighbours in the list are the nodes with
\* the next keys, so a context's parent is the context before it
\* (EZombie::shared_ptr).
THEOREM ListAlwaysInOrder == SplaySpec => []ListInOrder
<1>1. SplayInv => ListInOrder  BY DEF SplayInv
<1> QED  BY <1>1, SplayInvAlways, PTL

\* The tree's links agree in both directions after every rotation (rotate).
THEOREM LinksAlwaysAgree == SplaySpec => []LinksAgree
<1>1. SplayInv => LinksAgree  BY DEF SplayInv, TreeInv
<1> QED  BY <1>1, SplayInvAlways, PTL

\* A search for the key of a node ends at that node, however the calls before
\* it have turned the tree (find_node_without_splay).
THEOREM SearchesFind == SplaySpec => [](Landed /\ call.k \in Nodes => Found = call.k)
<1>1. SplayInv => (Landed /\ call.k \in Nodes => Found = call.k)
  <2> SUFFICES ASSUME SplayInv, Landed, call.k \in Nodes  PROVE Found = call.k
    OBVIOUS
  <2>1. PICK lo, hi : TreeFits(lo, hi) /\ SearchAt(lo, hi)
    BY DEF SplayInv, TreeInv, TreeOK
  <2> QED  BY <2>1, FoundFacts
<1> QED  BY <1>1, SplayInvAlways, PTL

\* In every state of every call, the search for any node's key, from the root down,
\* ends at that node (find_node_without_splay).
THEOREM SearchesAlwaysFind == SplaySpec => []SearchFinds
<1>1. SplayInv => SearchFinds
  <2> SUFFICES ASSUME SplayInv, NEW k \in Nodes
               PROVE  Path(k)[Cardinality(Nodes)] = k
    BY DEF SearchFinds
  <2>1. PICK lo, hi : InOrder(Nodes, splay_children, root_node, lo, hi)
    BY DEF SplayInv, TreeInv, TreeOK, TreeFits
  <2>2. Nodes \in SUBSET Key /\ IsFiniteSet(Nodes)
    <3>1. Nodes \in SUBSET Key  BY DEF SplayInv, TreeInv, SplayTypeOK, Nodes
    <3>2. IsFiniteSet(Key)  BY KeyFacts, FS_Interval DEF Key
    <3> QED  BY <3>1, <3>2, FS_Subset
  <2>3. PICK c : c = Cardinality(Nodes)  OBVIOUS
  <2>4. c \in Nat  BY <2>2, <2>3, FS_CardinalityType
  <2>5. PICK f : Follows(f, splay_children, root_node, k, c)  BY <2>4, FollowExists
  <2>6. f[c] = k  BY <2>1, <2>2, <2>3, <2>5, SearchReaches
  <2>7. Follows(Path(k), splay_children, root_node, k, c)
    BY <2>4, <2>5, <2>6, PathFollows
  <2>8. Path(k)[c] = k  BY <2>1, <2>2, <2>3, <2>7, SearchReaches
  <2> QED  BY <2>3, <2>8
<1> QED  BY <1>1, SplayInvAlways, PTL

\* A SplayList is an ordered map: find_le_node answers with the greatest key at
\* or below the one asked for, and insertions and removals change the entry
\* they name and no other (test/splay_list_test.cc).
THEOREM ListIsMap == SplaySpec => IsMap
<1>1. SplayInit => om!MapInit
  <2> SUFFICES ASSUME SplayInit  PROVE om!MapInit
    OBVIOUS
  <2>1. v = [k \in {} |-> NoArg] /\ call = NoCall /\ answer = nullptr
    BY DEF SplayInit
  <2>2. v = [k \in {} |-> 0]  BY <2>1
  <2>3. Asked = {}  BY <2>1 DEF Asked, NoCall
  <2> QED  BY <2>1, <2>2, <2>3 DEF om!MapInit
<1>2. SplayInv /\ [SplayNext]_splayVars => [om!MapNext]_(om!mapVars)
  BY MapStep
<1> QED  BY <1>1, <1>2, SplayInvAlways, PTL DEF SplaySpec, IsMap, om!MapSpec
=============================================================================
