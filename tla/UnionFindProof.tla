--------------------------- MODULE UnionFindProof ---------------------------
(***************************************************************************)
(* Proofs about UnionFind: the forest has no way round, and calls change   *)
(* the partition, the set and the answers as CostPartition says.           *)
(***************************************************************************)
EXTENDS UnionFindParts, ProofFacts, FiniteSetTheorems

(***************************************************************************)
(* Forests                                                                 *)
(***************************************************************************)

\* Parents have the lower address.
Up(parent) ==
  /\ parent \in [Addr -> Nat]
  /\ \A n \in Addr : parent[n] # Null => parent[n] \in Addr /\ parent[n] < n

\* What holds for an address if it does for all lower ones holds for all.
LEMMA AddrInduct ==
  ASSUME NEW G \in SUBSET Addr,
         \A n \in Addr : (\A k \in Addr : k < n => k \in G) => n \in G
  PROVE  G = Addr
<1> SUFFICES ASSUME G # Addr  PROVE FALSE
  OBVIOUS
<1> DEFINE T == Addr \ G
<1>1. T \in SUBSET Nat /\ T # {}
  <2>1. Addr \subseteq Nat  BY AddrAssumption DEF Addr
  <2>2. T \subseteq Addr  OBVIOUS
  <2>3. T # {}  OBVIOUS
  <2> QED  BY <2>1, <2>2, <2>3
<1> HIDE DEF T
<1>2. PICK n \in T : \A k \in T : n =< k  BY <1>1, LeastElement
<1>3. n \in Addr /\ n \notin G  BY <1>2 DEF T
<1>4. \A k \in Addr : k < n => k \in G
  <2> SUFFICES ASSUME NEW k \in Addr, k < n, k \notin G  PROVE FALSE
    OBVIOUS
  <2>1. k \in T /\ k \in Nat /\ n \in Nat  BY <1>3 DEF T, Addr
  <2>2. n =< k  BY <1>2, <2>1
  <2> QED  BY <2>1, <2>2
<1> QED  BY <1>3, <1>4

\* f is what is computed on the way up from a node: b is its value at a root, and
\* s takes it down one step.
IsWalk(f, parent, b, s) ==
  \A n \in Addr : f[n] = IF parent[n] = Null THEN b[n] ELSE s[<<n, f[parent[n]]>>]

\* There is such a function.
LEMMA WalkExists ==
  ASSUME NEW parent, Up(parent), NEW V, NEW b \in [Addr -> V],
         NEW s \in [Addr \X V -> V]
  PROVE  \E f \in [Addr -> V] : IsWalk(f, parent, b, s)
<1> DEFINE W(f, n) ==
             f[n] = IF parent[n] = Null THEN b[n] ELSE s[<<n, f[parent[n]]>>]
           Good(m) == \E f \in [1..m -> V] : \A n \in 1..m : W(f, n)
           G == {m \in Addr : Good(m)}
<1>1. ASSUME NEW m \in Addr, NEW f \in [1..(m - 1) -> V],
             \A n \in 1..(m - 1) : W(f, n)
      PROVE  Good(m)
  <2> DEFINE g == [n \in 1..m |->
                     IF n # m THEN f[n]
                     ELSE IF parent[m] = Null THEN b[m] ELSE s[<<m, f[parent[m]]>>]]
  <2>1. m \in Nat \ {0} /\ 1..m \subseteq Addr /\ m \in 1..m
        /\ \A n \in 1..m : n # m => n \in 1..(m - 1)
    BY AddrAssumption DEF Addr
  <2>2. \A n \in 1..m : parent[n] # Null => parent[n] \in 1..(m - 1) /\ parent[n] # m
    <3> SUFFICES ASSUME NEW n \in 1..m, parent[n] # Null
                 PROVE  parent[n] \in 1..(m - 1) /\ parent[n] # m
      OBVIOUS
    <3>1. n \in Addr  BY <2>1
    <3>2. parent[n] \in Addr /\ parent[n] < n  BY <3>1 DEF Up
    <3> QED  BY <2>1, <3>2 DEF Addr
  <2>3. ASSUME NEW n \in 1..m
        PROVE  g[n] \in V /\ W(g, n)
    <3>1. CASE n # m
      <4>1. n \in 1..(m - 1) /\ g[n] = f[n] /\ f[n] \in V  BY <2>1, <3>1
      <4>2. parent[n] # Null => g[parent[n]] = f[parent[n]]
        <5> SUFFICES ASSUME parent[n] # Null  PROVE g[parent[n]] = f[parent[n]]
          OBVIOUS
        <5>1. parent[n] \in 1..(m - 1) /\ parent[n] # m /\ parent[n] \in 1..m
          BY <2>1, <2>2
        <5> QED  BY <5>1
      <4> HIDE DEF g
      <4> QED  BY <1>1, <4>1, <4>2
    <3>2. CASE n = m
      <4>1. g[m] = IF parent[m] = Null THEN b[m] ELSE s[<<m, f[parent[m]]>>]
        BY <2>1
      <4>2. CASE parent[m] = Null  BY <2>1, <3>2, <4>1, <4>2
      <4>3. CASE parent[m] # Null
        <5>1. parent[m] \in 1..(m - 1) /\ parent[m] # m /\ parent[m] \in 1..m
          BY <2>1, <2>2, <4>3
        <5>2. g[parent[m]] = f[parent[m]] /\ f[parent[m]] \in V  BY <5>1
        <5>3. s[<<m, f[parent[m]]>>] \in V  BY <5>2
        <5> HIDE DEF g
        <5> QED  BY <3>2, <4>1, <4>3, <5>2, <5>3
      <4> QED  BY <4>2, <4>3
    <3> QED  BY <3>1, <3>2
  <2>4. g \in [1..m -> V]  BY <2>3
  <2> HIDE DEF g, W
  <2> QED  BY <2>3, <2>4
<1>2. ASSUME NEW m \in Addr, \A k \in Addr : k < m => k \in G
      PROVE  m \in G
  <2>1. CASE m = 1
    <3>1. 1..(m - 1) = {}  BY <2>1
    <3>2. [n \in {} |-> 0] \in [1..(m - 1) -> V]  BY <3>1
    <3> HIDE DEF W, Good
    <3> QED  BY <1>1, <3>1, <3>2
  <2>2. CASE m # 1
    <3>1. m - 1 \in Addr /\ m - 1 < m  BY <2>2, AddrAssumption DEF Addr
    <3>2. Good(m - 1)  BY <1>2, <3>1
    <3> HIDE DEF W
    <3>3. PICK f \in [1..(m - 1) -> V] : \A n \in 1..(m - 1) : W(f, n)
      BY <3>2
    <3> HIDE DEF Good
    <3> QED  BY <1>1, <3>3
  <2> QED  BY <2>1, <2>2
<1>3. G = Addr
  <2> HIDE DEF Good
  <2>1. G \in SUBSET Addr  OBVIOUS
  <2> HIDE DEF G
  <2> QED  BY <1>2, <2>1, AddrInduct
<1>4. CASE MaxAddr = 0
  <2>1. Addr = {}  BY <1>4 DEF Addr
  <2>2. [n \in {} |-> 0] \in [Addr -> V]  BY <2>1
  <2> QED  BY <2>1, <2>2 DEF IsWalk
<1>5. CASE MaxAddr # 0
  <2>1. MaxAddr \in Addr /\ Addr = 1..MaxAddr  BY <1>5, AddrAssumption DEF Addr
  <2>2. Good(MaxAddr)  BY <1>3, <2>1
  <2> QED  BY <2>1, <2>2 DEF IsWalk
<1> QED  BY <1>4, <1>5

\* What get_root answers, and that nothing else fits.
LEMMA RootsFacts ==
  ASSUME NEW parent, Up(parent)
  PROVE  /\ Roots(parent) \in [Addr -> Addr]
         /\ \A n \in Addr :
              /\ Roots(parent)[n] = IF parent[n] = Null THEN n
                                    ELSE Roots(parent)[parent[n]]
              /\ Roots(parent)[n] =< n
              /\ parent[Roots(parent)[n]] = Null
         /\ \A g \in [Addr -> Addr] :
              (\A n \in Addr : g[n] = IF parent[n] = Null THEN n ELSE g[parent[n]])
                => g = Roots(parent)
<1> DEFINE E(f) == f = [n \in Addr |-> IF parent[n] = Null THEN n ELSE f[parent[n]]]
<1>1. Roots(parent) = CHOOSE f : E(f)  BY DEF Roots
<1>2. \E f : E(f)
  <2> DEFINE b == [n \in Addr |-> n]
             s == [x \in Addr \X Addr |-> x[2]]
  <2>1. b \in [Addr -> Addr] /\ s \in [Addr \X Addr -> Addr]  OBVIOUS
  <2>2. /\ \A n \in Addr : b[n] = n
        /\ \A n, k \in Addr : s[<<n, k>>] = k
    OBVIOUS
  <2> HIDE DEF b, s
  <2>w. PICK f \in [Addr -> Addr] : IsWalk(f, parent, b, s)  BY <2>1, WalkExists
  <2>3. \A n \in Addr :
          f[n] = IF parent[n] = Null THEN b[n] ELSE s[<<n, f[parent[n]]>>]
    BY <2>w DEF IsWalk
  <2>4. ASSUME NEW n \in Addr
        PROVE  f[n] = IF parent[n] = Null THEN n ELSE f[parent[n]]
    <3>1. CASE parent[n] = Null  BY <2>2, <2>3, <3>1
    <3>2. CASE parent[n] # Null
      <4>1. parent[n] \in Addr  BY <3>2 DEF Up
      <4>2. f[parent[n]] \in Addr  BY <4>1
      <4>3. s[<<n, f[parent[n]]>>] = f[parent[n]]  BY <2>2, <4>2
      <4> QED  BY <2>3, <3>2, <4>3
    <3> QED  BY <3>1, <3>2
  <2>5. E(f)  BY <2>4
  <2> QED  BY <2>5
<1>3. PICK r : r = Roots(parent)  OBVIOUS
<1>4. E(r)  BY <1>1, <1>2, <1>3
<1>5. /\ DOMAIN r = Addr /\ r = [n \in Addr |-> r[n]]
      /\ \A n \in Addr : r[n] = IF parent[n] = Null THEN n ELSE r[parent[n]]
  BY <1>4
<1> DEFINE G == {n \in Addr : r[n] \in Addr /\ r[n] =< n /\ parent[r[n]] = Null}
<1>6. ASSUME NEW n \in Addr, \A k \in Addr : k < n => k \in G
      PROVE  n \in G
  <2>1. n \in Nat  BY DEF Addr
  <2>2. CASE parent[n] = Null  BY <1>5, <2>1, <2>2
  <2>3. CASE parent[n] # Null
    <3>1. parent[n] \in Addr /\ parent[n] < n /\ parent[n] \in Nat
      BY <2>3 DEF Up, Addr
    <3>2. parent[n] \in G  BY <1>6, <3>1
    <3>3. r[n] = r[parent[n]]  BY <1>5, <2>3
    <3>4. r[n] \in Addr /\ r[n] =< parent[n] /\ parent[r[n]] = Null  BY <3>2, <3>3
    <3>5. r[n] =< n  BY <2>1, <3>1, <3>4 DEF Addr
    <3> QED  BY <3>4, <3>5
  <2> QED  BY <2>2, <2>3
<1>7. G = Addr
  <2>1. G \in SUBSET Addr  OBVIOUS
  <2> HIDE DEF G
  <2> QED  BY <1>6, <2>1, AddrInduct
<1>8. \A n \in Addr : r[n] \in Addr /\ r[n] =< n /\ parent[r[n]] = Null  BY <1>7
<1>9. r \in [Addr -> Addr]  BY <1>5, <1>8
<1>10. ASSUME NEW g \in [Addr -> Addr],
              \A n \in Addr : g[n] = IF parent[n] = Null THEN n ELSE g[parent[n]]
       PROVE  g = r
  <2> DEFINE H == {n \in Addr : g[n] = r[n]}
  <2>1. ASSUME NEW n \in Addr, \A k \in Addr : k < n => k \in H
        PROVE  n \in H
    <3>1. CASE parent[n] = Null  BY <1>5, <1>10, <3>1
    <3>2. CASE parent[n] # Null
      <4>1. parent[n] \in Addr /\ parent[n] < n  BY <3>2 DEF Up
      <4>2. parent[n] \in H  BY <2>1, <4>1
      <4> QED  BY <1>5, <1>10, <3>2, <4>2
    <3> QED  BY <3>1, <3>2
  <2>2. H = Addr
    <3>1. H \in SUBSET Addr  OBVIOUS
    <3> HIDE DEF H
    <3> QED  BY <2>1, <3>1, AddrInduct
  <2>3. \A n \in Addr : g[n] = r[n]  BY <2>2
  <2> QED  BY <1>9, <2>3
<1> HIDE DEF E, G
<1> QED  BY <1>3, <1>5, <1>8, <1>9, <1>10

\* get_root passes no root.
LEMMA PassedFacts ==
  ASSUME NEW parent, Up(parent)
  PROVE  \A m \in Addr : \A k \in Passed(parent)[m] : k \in Addr /\ parent[k] # Null
<1> DEFINE E(f) == f = [n \in Addr |-> IF parent[n] = Null THEN {}
                                       ELSE {n} \cup f[parent[n]]]
<1>1. Passed(parent) = CHOOSE f : E(f)  BY DEF Passed
<1>2. \E f : E(f)
  <2>0. PICK V : V = SUBSET Addr  OBVIOUS
  <2>b. PICK b : b = [n \in Addr |-> {}]  OBVIOUS
  <2>s. PICK s : s = [x \in Addr \X V |-> {x[1]} \cup x[2]]  OBVIOUS
  <2>1. b \in [Addr -> V] /\ s \in [Addr \X V -> V]  BY <2>0, <2>b, <2>s
  <2>2. /\ \A n \in Addr : b[n] = {}
        /\ \A n \in Addr, v \in V : s[<<n, v>>] = {n} \cup v
    BY <2>b, <2>s
  <2>w. PICK f \in [Addr -> V] : IsWalk(f, parent, b, s)  BY <2>1, WalkExists
  <2>3. \A n \in Addr :
          f[n] = IF parent[n] = Null THEN b[n] ELSE s[<<n, f[parent[n]]>>]
    BY <2>w DEF IsWalk
  <2>4. ASSUME NEW n \in Addr
        PROVE  f[n] = IF parent[n] = Null THEN {} ELSE {n} \cup f[parent[n]]
    <3>1. CASE parent[n] = Null  BY <2>2, <2>3, <3>1
    <3>2. CASE parent[n] # Null
      <4>1. parent[n] \in Addr  BY <3>2 DEF Up
      <4>2. f[parent[n]] \in V  BY <4>1
      <4>3. s[<<n, f[parent[n]]>>] = {n} \cup f[parent[n]]  BY <2>2, <4>2
      <4> QED  BY <2>3, <3>2, <4>3
    <3> QED  BY <3>1, <3>2
  <2>5. E(f)  BY <2>4
  <2> QED  BY <2>5
<1>3. PICK p : p = Passed(parent)  OBVIOUS
<1>4. E(p)  BY <1>1, <1>2, <1>3
<1>5. \A n \in Addr : p[n] = IF parent[n] = Null THEN {} ELSE {n} \cup p[parent[n]]
  BY <1>4
<1> DEFINE G == {n \in Addr : \A k \in p[n] : k \in Addr /\ parent[k] # Null}
<1>6. ASSUME NEW n \in Addr, \A k \in Addr : k < n => k \in G
      PROVE  n \in G
  <2>1. CASE parent[n] = Null  BY <1>5, <2>1
  <2>2. CASE parent[n] # Null
    <3>1. parent[n] \in Addr /\ parent[n] < n  BY <2>2 DEF Up
    <3>2. parent[n] \in G  BY <1>6, <3>1
    <3> QED  BY <1>5, <2>2, <3>2
  <2> QED  BY <2>1, <2>2
<1>7. G = Addr
  <2>1. G \in SUBSET Addr  OBVIOUS
  <2> HIDE DEF G
  <2> QED  BY <1>6, <2>1, AddrInduct
<1> QED  BY <1>3, <1>7

ForestOK(f) ==
  /\ f \in [parent : [Addr -> Nat], t : [Addr -> Nat]]
  /\ Up(f.parent)

\* Only nodes of M have parents, and these are in M.
Within(parent, M) ==
  \A n \in Addr : parent[n] # Null => n \in M /\ parent[n] \in M

\* A node of M has its root in M, and the others are their own roots.
LEMMA WithinRoots ==
  ASSUME NEW parent, Up(parent), NEW M \in SUBSET Addr, Within(parent, M)
  PROVE  /\ \A n \in M : Roots(parent)[n] \in M
         /\ \A n \in Addr \ M : Roots(parent)[n] = n
<1>1. PICK r : r = Roots(parent)  OBVIOUS
<1>2. \A n \in Addr : r[n] = IF parent[n] = Null THEN n ELSE r[parent[n]]
  BY <1>1, RootsFacts
<1> DEFINE G == {n \in Addr : n \in M => r[n] \in M}
<1>3. ASSUME NEW n \in Addr, \A k \in Addr : k < n => k \in G
      PROVE  n \in G
  <2>1. CASE parent[n] = Null  BY <1>2, <2>1
  <2>2. CASE parent[n] # Null
    <3>1. parent[n] \in Addr /\ parent[n] < n /\ parent[n] \in M
      BY <2>2 DEF Up, Within
    <3>2. parent[n] \in G  BY <1>3, <3>1
    <3> QED  BY <1>2, <2>2, <3>1, <3>2
  <2> QED  BY <2>1, <2>2
<1>4. G = Addr
  <2>1. G \in SUBSET Addr  OBVIOUS
  <2> HIDE DEF G
  <2> QED  BY <1>3, <2>1, AddrInduct
<1>5. \A n \in Addr \ M : r[n] = n  BY <1>2 DEF Within
<1> QED  BY <1>1, <1>4, <1>5

\* Path compression: nodes that are no roots get their roots for parents, and no
\* root changes.
LEMMA CompressedFacts ==
  ASSUME NEW f, ForestOK(f), NEW S \in SUBSET Addr, NEW g, g = Compressed(f, S)
  PROVE  /\ ForestOK(g) /\ g.t = f.t
         /\ Roots(g.parent) = Roots(f.parent)
         /\ \A n \in Addr : f.parent[n] = Null => g.parent[n] = Null
         /\ \A M \in SUBSET Addr : Within(f.parent, M) => Within(g.parent, M)
<1>1. PICK p : p = f.parent  OBVIOUS
<1>2. PICK r : r = Roots(p)  OBVIOUS
<1>3. PICK seen : seen = UNION {Passed(p)[m] : m \in S}  OBVIOUS
<1>4. PICK q : q = g.parent  OBVIOUS
<1>5. /\ f \in [parent : [Addr -> Nat], t : [Addr -> Nat]] /\ Up(p)
      /\ p \in [Addr -> Nat]
  BY <1>1 DEF ForestOK
<1>6. /\ r \in [Addr -> Addr]
      /\ \A n \in Addr :
           /\ r[n] = IF p[n] = Null THEN n ELSE r[p[n]]
           /\ r[n] =< n
           /\ p[r[n]] = Null
  BY <1>2, <1>5, RootsFacts
<1>7. \A k \in seen : k \in Addr /\ p[k] # Null  BY <1>3, <1>5, PassedFacts
<1>8. g = [f EXCEPT !.parent = [n \in Addr |-> IF n \in seen THEN r[n] ELSE p[n]]]
  BY <1>1, <1>2, <1>3 DEF Compressed
<1>9. /\ q = [n \in Addr |-> IF n \in seen THEN r[n] ELSE p[n]]
      /\ g.t = f.t /\ g = [parent |-> q, t |-> f.t]
  BY <1>4, <1>5, <1>8
<1>10. ASSUME NEW n \in Addr
       PROVE  /\ q[n] \in Nat /\ (q[n] = Null <=> p[n] = Null)
              /\ q[n] # Null => q[n] \in Addr /\ q[n] < n /\ (q[n] = p[n] \/ q[n] = r[n])
  <2>1. p[n] # Null => p[n] \in Addr /\ p[n] < n  BY <1>5 DEF Up
  <2>2. CASE n \in seen
    <3>1. q[n] = r[n] /\ p[n] # Null  BY <1>7, <1>9, <2>2
    <3>2. r[n] = r[p[n]] /\ r[p[n]] =< p[n] /\ r[n] \in Addr  BY <1>6, <2>1, <3>1
    <3>3. r[n] < n /\ r[n] \in Nat /\ r[n] # Null  BY <2>1, <3>1, <3>2 DEF Addr, Null
    <3> QED  BY <3>1, <3>2, <3>3
  <2>3. CASE n \notin seen
    <3>1. q[n] = p[n] /\ p[n] \in Nat  BY <1>5, <1>9, <2>3
    <3> QED  BY <2>1, <3>1
  <2> QED  BY <2>2, <2>3
<1>11. Up(q)
  <2>1. q \in [Addr -> Nat]  BY <1>9, <1>10
  <2> QED  BY <1>10, <2>1 DEF Up
<1>12. ForestOK(g)
  <2>1. g.parent = q /\ f.t \in [Addr -> Nat] /\ q \in [Addr -> Nat]
    BY <1>4, <1>5, <1>11 DEF Up
  <2>2. g \in [parent : [Addr -> Nat], t : [Addr -> Nat]]  BY <1>9, <2>1
  <2> QED  BY <1>11, <2>1, <2>2 DEF ForestOK
<1>13. Roots(q) = r
  <2>1. ASSUME NEW n \in Addr
        PROVE  r[n] = IF q[n] = Null THEN n ELSE r[q[n]]
    <3>1. CASE p[n] = Null  BY <1>6, <1>10, <3>1
    <3>2. CASE p[n] # Null
      <4>1. q[n] # Null /\ r[n] = r[p[n]] /\ (q[n] = p[n] \/ q[n] = r[n])
        BY <1>6, <1>10, <3>2
      <4>2. r[n] \in Addr /\ p[r[n]] = Null  BY <1>6
      <4>3. r[r[n]] = r[n]  BY <1>6, <4>2
      <4> QED  BY <4>1, <4>3
    <3> QED  BY <3>1, <3>2
  <2> QED  BY <1>6, <1>11, <2>1, RootsFacts
<1>14. ASSUME NEW M \in SUBSET Addr, Within(p, M)
       PROVE  Within(q, M)
  <2>1. \A n \in M : r[n] \in M  BY <1>2, <1>5, <1>14, WithinRoots
  <2> QED  BY <1>10, <1>14, <2>1 DEF Within
<1> QED  BY <1>1, <1>2, <1>4, <1>9, <1>10, <1>12, <1>13, <1>14

\* What merging m and n does to a forest with roots r: one of their roots, c, is
\* the root of both, and has the sum.
Merges(f, g, m, n, c) ==
  LET r == Roots(f.parent)
      a == r[m]
      b == r[n]
  IN  /\ c \in {a, b}
      /\ Roots(g.parent) = [k \in Addr |-> IF r[k] \in {a, b} THEN c ELSE r[k]]
      /\ g.t = [k \in Addr |-> IF k # c \/ a = b THEN f.t[k] ELSE f.t[a] + f.t[b]]

\* merge makes the lower root the parent of the other.
LEMMA MergedFacts ==
  ASSUME NEW f, ForestOK(f), NEW m \in Addr, NEW n \in Addr,
         NEW g, g = Merged(f, m, n)
  PROVE  /\ ForestOK(g) /\ \E c \in Addr : Merges(f, g, m, n, c)
         /\ \A M \in SUBSET Addr :
              Within(f.parent, M) /\ m \in M /\ n \in M => Within(g.parent, M)
<1>1. PICK r : r = Roots(f.parent)  OBVIOUS
<1>2. PICK e : e = Compressed(f, {m, n})  OBVIOUS
<1>3. PICK p : p = e.parent  OBVIOUS
<1>4. PICK t : t = f.t  OBVIOUS
<1>5. /\ ForestOK(e) /\ e.t = t /\ Roots(p) = r
      /\ \A M \in SUBSET Addr : Within(f.parent, M) => Within(p, M)
  BY <1>1, <1>2, <1>3, <1>4, CompressedFacts
<1>6. /\ Up(p) /\ p \in [Addr -> Nat] /\ t \in [Addr -> Nat] /\ e = [parent |-> p, t |-> t]
  BY <1>3, <1>5 DEF ForestOK
<1>7. /\ r \in [Addr -> Addr]
      /\ \A k \in Addr :
           /\ r[k] = IF p[k] = Null THEN k ELSE r[p[k]]
           /\ p[r[k]] = Null
  BY <1>5, <1>6, RootsFacts
<1>8. PICK a : a = r[m]  OBVIOUS
<1>9. PICK b : b = r[n]  OBVIOUS
<1>10. /\ a \in Addr /\ b \in Addr /\ p[a] = Null /\ p[b] = Null
       /\ r[a] = a /\ r[b] = b
  BY <1>7, <1>8, <1>9
<1>11. g = Linked(e, a, b)  BY <1>1, <1>2, <1>8, <1>9 DEF Merged
<1>12. ASSUME NEW M \in SUBSET Addr, Within(f.parent, M), m \in M, n \in M
       PROVE  Within(p, M) /\ a \in M /\ b \in M
  BY <1>5, <1>6, <1>8, <1>9, <1>12, WithinRoots
<1>13. CASE a = b
  <2>1. g = e  BY <1>11, <1>13 DEF Linked
  <2>2. r = [k \in Addr |-> IF r[k] \in {a, b} THEN a ELSE r[k]]  BY <1>7, <1>13
  <2>3. t = [k \in Addr |-> IF k # a \/ a = b THEN t[k] ELSE t[a] + t[b]]
    BY <1>6, <1>13
  <2>4. Merges(f, g, m, n, a)
    BY <1>1, <1>3, <1>4, <1>5, <1>8, <1>9, <2>1, <2>2, <2>3 DEF Merges
  <2> QED  BY <1>3, <1>5, <1>10, <1>12, <2>1, <2>4
<1>14. CASE a # b
  <2>1. PICK low : low = IF a > b THEN b ELSE a  OBVIOUS
  <2>2. PICK high : high = IF a > b THEN a ELSE b  OBVIOUS
  <2>3. /\ low \in {a, b} /\ {low, high} = {a, b} /\ low < high /\ low # Null
        /\ low \in Addr /\ high \in Addr /\ low \in Nat
    BY <1>10, <1>14, <2>1, <2>2 DEF Addr, Null
  <2>4. PICK q : q = [p EXCEPT ![high] = low]  OBVIOUS
  <2>5. PICK u : u = [t EXCEPT ![low] = t[low] + t[high]]  OBVIOUS
  <2>6. g = [parent |-> q, t |-> u]
    BY <1>6, <1>11, <1>14, <2>1, <2>2, <2>4, <2>5 DEF Linked
  <2>7. /\ q \in [Addr -> Nat] /\ q[high] = low
        /\ \A k \in Addr : k # high => q[k] = p[k]
    BY <1>6, <2>3, <2>4
  <2>8. t[low] + t[high] = t[a] + t[b] /\ t[a] + t[b] \in Nat
    <3>1. t[a] \in Nat /\ t[b] \in Nat  BY <1>6, <1>10
    <3>2. CASE a > b  BY <2>1, <2>2, <3>1, <3>2
    <3>3. CASE ~(a > b)  BY <2>1, <2>2, <3>1, <3>3
    <3> QED  BY <3>2, <3>3
  <2>9. /\ u \in [Addr -> Nat]
        /\ u = [k \in Addr |-> IF k # low \/ a = b THEN t[k] ELSE t[a] + t[b]]
    <3>1. u = [k \in Addr |-> IF k = low THEN t[a] + t[b] ELSE t[k]]
      BY <1>6, <2>5, <2>8
    <3> QED  BY <1>6, <1>14, <2>3, <2>8, <3>1
  <2>10. Up(q)  BY <1>6, <2>3, <2>7 DEF Up
  <2>11. PICK s : s = [k \in Addr |-> IF r[k] \in {a, b} THEN low ELSE r[k]]
    OBVIOUS
  <2>12. s = Roots(q)
    <3>1. s \in [Addr -> Addr]  BY <1>7, <2>3, <2>11
    <3>2. ASSUME NEW k \in Addr
          PROVE  s[k] = IF q[k] = Null THEN k ELSE s[q[k]]
      <4>1. CASE k = high
        <5>1. r[k] \in {a, b} /\ r[low] \in {a, b}  BY <1>10, <2>3, <4>1
        <5> QED  BY <2>3, <2>7, <2>11, <4>1, <5>1
      <4>2. CASE k # high /\ p[k] = Null
        <5>1. r[k] = k /\ q[k] = Null  BY <1>7, <2>7, <4>2
        <5>2. k \in {a, b} => k = low  BY <2>3, <4>2
        <5> QED  BY <2>11, <5>1, <5>2
      <4>3. CASE k # high /\ p[k] # Null
        <5>1. r[k] = r[p[k]] /\ q[k] = p[k] /\ p[k] \in Addr
          BY <1>6, <1>7, <2>7, <4>3 DEF Up
        <5> QED  BY <2>11, <4>3, <5>1
      <4> QED  BY <4>1, <4>2, <4>3
    <3> QED  BY <2>10, <3>1, <3>2, RootsFacts
  <2>13. Merges(f, g, m, n, low)
    BY <1>1, <1>4, <1>8, <1>9, <2>3, <2>6, <2>9, <2>11, <2>12 DEF Merges
  <2>14. ForestOK(g)  BY <2>6, <2>7, <2>9, <2>10 DEF ForestOK
  <2>15. ASSUME NEW M \in SUBSET Addr, Within(f.parent, M), m \in M, n \in M
         PROVE  Within(g.parent, M)
    <3>1. Within(p, M) /\ low \in M /\ high \in M  BY <1>12, <2>3, <2>15
    <3>2. g.parent = q  BY <2>6
    <3> QED  BY <2>7, <3>1, <3>2 DEF Within
  <2> QED  BY <2>3, <2>13, <2>14, <2>15
<1> QED  BY <1>13, <1>14

(***************************************************************************)
(* Folds over the vector                                                   *)
(***************************************************************************)

\* f is a fold from the left over the places 1..n, as FoldLeft computes it.
IsFold(f, n, base, s) ==
  \A T \in SUBSET (1..n) :
    f[T] = IF T = {} THEN base ELSE s[<<f[T \ {Max(T)}], Max(T)>>]

\* There is such a function.
LEMMA FoldExists ==
  ASSUME NEW n \in Nat, NEW X, NEW base \in X, NEW s \in [X \X (1..n) -> X]
  PROVE  \E f \in [SUBSET (1..n) -> X] : IsFold(f, n, base, s)
<1> DEFINE Good(k) == \E f \in [SUBSET (1..k) -> X] : IsFold(f, k, base, s)
           G == {k \in 0..n : Good(k)}
<1>1. 0 \in G
  <2>1. 1..0 = {}  OBVIOUS
  <2> DEFINE f == [T \in SUBSET (1..0) |-> base]
  <2>2. f \in [SUBSET (1..0) -> X] /\ IsFold(f, 0, base, s)
    BY <2>1 DEF IsFold
  <2>3. Good(0)  BY <2>2
  <2> HIDE DEF Good
  <2> QED  BY <2>3
<1>2. ASSUME NEW k \in 1..n, k - 1 \in G
      PROVE  k \in G
  <2> DEFINE A == 1..(k - 1)
             B == 1..k
  <2>1. PICK f \in [SUBSET A -> X] : IsFold(f, k - 1, base, s)  BY <1>2
  <2>2. /\ A \subseteq B /\ B = A \cup {k} /\ k \notin A /\ k \in Nat /\ k - 1 \in Nat
        /\ A \subseteq 1..n /\ \A x \in B : x =< k
    OBVIOUS
  <2>f. \A T \in SUBSET A :
          f[T] = IF T = {} THEN base ELSE s[<<f[T \ {Max(T)}], Max(T)>>]
    BY <2>1 DEF IsFold
  <2>3. ASSUME NEW T \in SUBSET A, T # {}
        PROVE  Max(T) \in A
    BY <2>2, <2>3, MaxFacts
  <2>4. ASSUME NEW T \in SUBSET B, k \in T
        PROVE  Max(T) = k
    <3>0. T \in SUBSET (1..k) /\ T # {} /\ k \in Nat
      <4>1. T # {}  BY <2>4
      <4>2. T \in SUBSET (1..k) /\ k \in Nat  OBVIOUS
      <4> QED  BY <4>1, <4>2
    <3>1. Max(T) \in T /\ k =< Max(T)  BY <2>4, <3>0, MaxFacts
    <3>2. Max(T) =< k /\ Max(T) \in Int
      <4>1. Max(T) \in 1..k  BY <3>0, <3>1
      <4> QED  BY <3>0, <4>1
    <3> QED  BY <2>2, <3>1, <3>2
  <2>5. \A T \in SUBSET B : k \notin T => T \in SUBSET A  BY <2>2
  <2>6. \A T \in SUBSET B : T \ {k} \in SUBSET A  BY <2>2
  <2> HIDE DEF A, B
  <2> DEFINE g == [T \in SUBSET B |-> IF k \in T THEN s[<<f[T \ {k}], k>>] ELSE f[T]]
  <2>7. \A T \in SUBSET A : T \in SUBSET B /\ g[T] = f[T]  BY <2>2
  <2>8. ASSUME NEW T \in SUBSET B
        PROVE  /\ g[T] \in X
               /\ g[T] = IF T = {} THEN base ELSE s[<<g[T \ {Max(T)}], Max(T)>>]
    <3>1. CASE k \in T
      <4>1. f[T \ {k}] \in X /\ g[T \ {k}] = f[T \ {k}]  BY <2>6, <2>7
      <4>2. g[T] = s[<<f[T \ {k}], k>>]  BY <3>1
      <4>3. Max(T) = k  BY <2>4, <3>1
      <4>4. s[<<f[T \ {k}], k>>] \in X  BY <4>1
      <4> HIDE DEF g
      <4> QED  BY <3>1, <4>1, <4>2, <4>3, <4>4
    <3>2. CASE k \notin T
      <4>1. T \in SUBSET A /\ g[T] = f[T] /\ f[T] \in X  BY <2>5, <2>7, <3>2
      <4>2. T # {} => T \ {Max(T)} \in SUBSET A
        BY <4>1
      <4>3. T # {} => g[T \ {Max(T)}] = f[T \ {Max(T)}]  BY <2>7, <4>2
      <4>4. f[T] = IF T = {} THEN base ELSE s[<<f[T \ {Max(T)}], Max(T)>>]
        BY <2>f, <4>1
      <4> HIDE DEF g
      <4> QED  BY <4>1, <4>3, <4>4
    <3> QED  BY <3>1, <3>2
  <2>9. g \in [SUBSET B -> X]  BY <2>8
  <2>10. IsFold(g, k, base, s)
    <3> HIDE DEF g
    <3> QED  BY <2>8 DEF IsFold, B
  <2>11. Good(k)
    <3> HIDE DEF g
    <3> QED  BY <2>9, <2>10 DEF B
  <2> HIDE DEF Good
  <2> QED  BY <2>11
<1>3. G = 0..n
  <2> HIDE DEF Good
  <2>1. G \in SUBSET (0..n)  OBVIOUS
  <2> HIDE DEF G
  <2>2. \A k \in 1..n : k - 1 \in G => k \in G  BY <1>2
  <2> QED  BY <1>1, <2>1, <2>2, UpTo
<1>4. n \in G
  <2>1. n \in 0..n  OBVIOUS
  <2> HIDE DEF G
  <2> QED  BY <1>3, <2>1
<1> QED  BY <1>4

\* The places up to k, and those before it.
LEMMA UpToMax ==
  ASSUME NEW n \in Nat
  PROVE  /\ 1..0 = {} /\ 0 \in 0..n /\ n \in 0..n
         /\ \A k \in 1..n : /\ 1..k \in SUBSET (1..n) /\ 1..k # {}
                            /\ Max(1..k) = k /\ (1..k) \ {k} = 1..(k - 1)
                            /\ k \in 0..n /\ k - 1 \in 0..n
<1>1. ASSUME NEW k \in 1..n
      PROVE  /\ 1..k \in SUBSET (1..n) /\ 1..k # {}
             /\ Max(1..k) = k /\ (1..k) \ {k} = 1..(k - 1)
             /\ k \in 0..n /\ k - 1 \in 0..n
  <2>1. k \in Nat /\ k \in 1..k /\ 1..k \in SUBSET (1..n)  OBVIOUS
  <2>2. Max(1..k) \in 1..k /\ \A y \in 1..k : y =< Max(1..k)  BY <2>1, MaxFacts
  <2>3. Max(1..k) = k  BY <2>1, <2>2
  <2>4. (1..k) \ {k} = 1..(k - 1)  BY <2>1
  <2>5. k \in 0..n /\ k - 1 \in 0..n  OBVIOUS
  <2> QED  BY <2>1, <2>3, <2>4, <2>5
<1>2. 1..0 = {} /\ 0 \in 0..n /\ n \in 0..n  OBVIOUS
<1> QED  BY <1>1, <1>2

\* What UFSet::merge does for one node of the vector.
MergeStep(e, n) ==
  [forest |-> Merged(e.forest, n, e.with), with |-> Roots(e.forest.parent)[e.with]]

\* What UFSet::merge has come to after each place: J is a run of its loop.
IsMergeRun(J, f, w, s) ==
  /\ J[0] = [forest |-> f, with |-> w]
  /\ \A k \in 1..Len(s) : J[k] = MergeStep(J[k - 1], s[k])

\* What the loop of UFSet::merge ends with.
MergeEnd(f, w, s) ==
  FoldLeft(LAMBDA e, n : [forest |-> Merged(e.forest, n, e.with),
                          with   |-> Roots(e.forest.parent)[e.with]],
           [forest |-> f, with |-> w], s)

\* The loop of UFSet::merge has such a run, and ends where it ends.
LEMMA MergeFold ==
  ASSUME NEW f, ForestOK(f), NEW w \in Addr, NEW s \in Seq(Addr),
         NEW end, end = MergeEnd(f, w, s)
  PROVE  \E J : IsMergeRun(J, f, w, s) /\ end = J[Len(s)]
<1> DEFINE base == [forest |-> f, with |-> w]
           E(g) == g = [T \in SUBSET DOMAIN s |->
                          IF T = {} THEN base
                          ELSE MergeStep(g[T \ {Max(T)}], s[Max(T)])]
<1>1. end = (CHOOSE g : E(g))[DOMAIN s]
  BY DEF MergeEnd, FoldLeft, MapThenFoldSet, MergeStep
<1>2. PICK n : n = Len(s)  OBVIOUS
<1>3. n \in Nat /\ DOMAIN s = 1..n /\ s \in [1..n -> Addr]  BY <1>2, LenProperties
<1>4. PICK X : X = {e \in [forest : [parent : [Addr -> Nat], t : [Addr -> Nat]],
                           with : Addr] : ForestOK(e.forest)}
  OBVIOUS
<1>5. \A e : e \in X => ForestOK(e.forest) /\ e.with \in Addr  BY <1>4
<1>6. \A g, v : ForestOK(g) /\ v \in Addr => [forest |-> g, with |-> v] \in X
  BY <1>4 DEF ForestOK
<1>7. ASSUME NEW e \in X, NEW m \in Addr
      PROVE  MergeStep(e, m) \in X
  <2>1. ForestOK(e.forest) /\ e.with \in Addr  BY <1>5
  <2>2. Up(e.forest.parent)  BY <2>1 DEF ForestOK
  <2>3. Roots(e.forest.parent) \in [Addr -> Addr]  BY <2>2, RootsFacts
  <2>4. ForestOK(Merged(e.forest, m, e.with))  BY <2>1, MergedFacts
  <2> QED  BY <1>6, <2>1, <2>3, <2>4 DEF MergeStep
<1>8. PICK h : h = [x \in X \X (1..n) |-> MergeStep(x[1], s[x[2]])]  OBVIOUS
<1>9. h \in [X \X (1..n) -> X]
  <2>1. \A x \in X \X (1..n) : MergeStep(x[1], s[x[2]]) \in X
    <3> SUFFICES ASSUME NEW x \in X \X (1..n)
                 PROVE  MergeStep(x[1], s[x[2]]) \in X
      OBVIOUS
    <3>1. x[1] \in X /\ s[x[2]] \in Addr  BY <1>3
    <3> QED  BY <1>7, <3>1
  <2> QED  BY <1>8, <2>1
<1>10. base \in X  BY <1>6
<1> HIDE DEF base
<1>11. PICK g \in [SUBSET (1..n) -> X] : IsFold(g, n, base, h)
  BY <1>3, <1>9, <1>10, FoldExists
<1>12. E(g)
  <2>1. ASSUME NEW T \in SUBSET (1..n), T # {}
        PROVE  g[T] = MergeStep(g[T \ {Max(T)}], s[Max(T)])
    <3>1. Max(T) \in 1..n  BY <1>3, <2>1, MaxFacts
    <3>2. g[T \ {Max(T)}] \in X  OBVIOUS
    <3>3. g[T] = h[<<g[T \ {Max(T)}], Max(T)>>]  BY <1>11, <2>1 DEF IsFold
    <3> QED  BY <1>8, <3>1, <3>2, <3>3
  <2>2. g[{}] = base  BY <1>11 DEF IsFold
  <2> QED  BY <1>3, <2>1, <2>2
<1>13. PICK r : r = (CHOOSE x : E(x))  OBVIOUS
<1>14. E(r)  BY <1>12, <1>13
<1>15. PICK J : J = [k \in 0..n |-> r[1..k]]  OBVIOUS
<1>16. J[0] = base
  <2>1. 1..0 = {} /\ 0 \in 0..n  BY <1>3, UpToMax
  <2>2. r[{}] = base  BY <1>14
  <2> HIDE DEF E
  <2> QED  BY <1>15, <2>1, <2>2
<1>17. ASSUME NEW k \in 1..n
       PROVE  J[k] = MergeStep(J[k - 1], s[k])
  <2>1. 1..k \in SUBSET (1..n) /\ 1..k # {} /\ Max(1..k) = k
        /\ (1..k) \ {k} = 1..(k - 1)
    BY <1>3, UpToMax
  <2>2. r[1..k] = MergeStep(r[(1..k) \ {Max(1..k)}], s[Max(1..k)])
    BY <1>3, <1>14, <2>1
  <2>3. k \in 0..n /\ k - 1 \in 0..n  BY <1>3, UpToMax
  <2> HIDE DEF E
  <2> QED  BY <1>15, <2>1, <2>2, <2>3
<1>18. end = J[n]
  <2>1. n \in 0..n  BY <1>3, UpToMax
  <2> HIDE DEF E
  <2> QED  BY <1>1, <1>3, <1>13, <1>15, <2>1
<1> QED  BY <1>2, <1>16, <1>17, <1>18 DEF IsMergeRun, base

\* What holds for a run of UFSet::merge before a place and after it, if it does
\* before the first, does after the last.
LEMMA MergeRunKeeps ==
  ASSUME NEW f, NEW w, NEW s \in Seq(Addr), NEW J, IsMergeRun(J, f, w, s),
         NEW X, [forest |-> f, with |-> w] \in X,
         \A e \in X : \A k \in 1..Len(s) : MergeStep(e, s[k]) \in X
  PROVE  \A k \in 0..Len(s) : J[k] \in X
<1> DEFINE G == {k \in 0..Len(s) : J[k] \in X}
<1>1. Len(s) \in Nat  BY LenProperties
<1>2. 0 \in G  BY <1>1, UpToMax DEF IsMergeRun
<1>3. \A k \in 1..Len(s) : k - 1 \in G => k \in G  BY <1>1, UpToMax DEF IsMergeRun
<1>4. G \in SUBSET (0..Len(s))  OBVIOUS
<1>5. G = 0..Len(s)
  <2> HIDE DEF G
  <2> QED  BY <1>1, <1>2, <1>3, <1>4, UpTo
<1> QED  BY <1>5

(***************************************************************************)
(* The invariant                                                           *)
(***************************************************************************)

\* Each UF object points to a node under the root of the node it was made with.
LeadsOn(f, p) ==
  \A n \in DOMAIN p : Roots(f.parent)[p[n]] = Roots(f.parent)[n]

\* The forest has no way round and holds no node that was not made, and what UF
\* objects and the vector point to was made.
Sound(f, p, d) ==
  /\ ForestOK(f)
  /\ DOMAIN p \subseteq Addr /\ p \in [DOMAIN p -> DOMAIN p]
  /\ Within(f.parent, DOMAIN p)
  /\ LeadsOn(f, p)
  /\ d \in Seq(DOMAIN p)

UFInv == Sound(forest, ptr, data) /\ turn \in Nat

\* What Sound says about roots.
LEMMA SoundRoots ==
  ASSUME NEW f, NEW p, NEW d, Sound(f, p, d), NEW M, M = DOMAIN p,
         NEW r, r = Roots(f.parent)
  PROVE  /\ Up(f.parent) /\ r \in [Addr -> Addr] /\ M \in SUBSET Addr
         /\ \A n \in Addr : r[r[n]] = r[n]
         /\ \A n \in M : r[n] \in M /\ p[n] \in M /\ r[p[n]] = r[n]
         /\ \A n \in Addr \ M : r[n] = n /\ f.parent[n] = Null
<1>1. Up(f.parent) /\ M \in SUBSET Addr /\ Within(f.parent, M)  BY DEF Sound, LeadsOn, ForestOK
<1>2. /\ r \in [Addr -> Addr]
      /\ \A n \in Addr : /\ r[n] = IF f.parent[n] = Null THEN n ELSE r[f.parent[n]]
                         /\ f.parent[r[n]] = Null
  BY <1>1, RootsFacts
<1>3. \A n \in M : r[n] \in M  BY <1>1, WithinRoots
<1>4. \A n \in Addr \ M : r[n] = n /\ f.parent[n] = Null  BY <1>1, <1>2 DEF Within
<1>5. \A n \in M : p[n] \in M /\ r[p[n]] = r[n]  BY DEF Sound, LeadsOn
<1> QED  BY <1>1, <1>2, <1>3, <1>4, <1>5

\* A sequence of nodes stays one when more are made.
LEMMA SeqGrows ==
  ASSUME NEW S, NEW T, S \subseteq T, NEW s \in Seq(S)
  PROVE  s \in Seq(T)
<1>1. Len(s) \in Nat /\ s \in [1..Len(s) -> S]  BY LenProperties
<1>2. s \in [1..Len(s) -> T]  BY <1>1
<1> QED  BY <1>1, <1>2, FunctionSeq

\* At most one UF object comes to point to its root.
Rises(f, p, q) ==
  q = p \/ \E n \in DOMAIN p : q = [p EXCEPT ![n] = Roots(f.parent)[p[n]]]

\* Path compression, and UF objects that come to point to their roots, change
\* nothing that Sound says.
LEMMA CompressSound ==
  ASSUME NEW f, NEW p, NEW d, Sound(f, p, d), NEW S \in SUBSET DOMAIN p,
         NEW g, g = Compressed(f, S), NEW q,
         Rises(f, p, q),
         NEW e, e \in Seq(DOMAIN p)
  PROVE  /\ Sound(g, q, e) /\ DOMAIN q = DOMAIN p
         /\ g.t = f.t /\ Roots(g.parent) = Roots(f.parent)
         /\ \A n \in DOMAIN p : Roots(f.parent)[q[n]] = Roots(f.parent)[n]
<1>1. PICK M : M = DOMAIN p  OBVIOUS
<1>2. PICK r : r = Roots(f.parent)  OBVIOUS
<1>3. /\ Up(f.parent) /\ r \in [Addr -> Addr] /\ M \in SUBSET Addr
      /\ \A n \in Addr : r[r[n]] = r[n]
      /\ \A n \in M : r[n] \in M /\ p[n] \in M /\ r[p[n]] = r[n]
  BY <1>1, <1>2, SoundRoots
<1>4. ForestOK(f) /\ Within(f.parent, M) /\ p \in [M -> M]  BY <1>1 DEF Sound, LeadsOn
<1>5. /\ ForestOK(g) /\ g.t = f.t /\ Roots(g.parent) = r /\ Within(g.parent, M)
  <2>1. S \in SUBSET Addr  BY <1>1, <1>3
  <2>2. ForestOK(g) /\ g.t = f.t /\ Roots(g.parent) = Roots(f.parent)
    BY <1>4, <2>1, CompressedFacts
  <2>3. Within(g.parent, M)  BY <1>3, <1>4, <2>1, CompressedFacts
  <2> QED  BY <1>2, <2>2, <2>3
<1>6. DOMAIN q = M /\ q \in [M -> M] /\ \A n \in M : r[q[n]] = r[n]
  <2>1. CASE q = p  BY <1>1, <1>3, <1>4, <2>1
  <2>2. ASSUME NEW n \in M, q = [p EXCEPT ![n] = r[p[n]]]
        PROVE  DOMAIN q = M /\ q \in [M -> M] /\ \A m \in M : r[q[m]] = r[m]
    <3>1. p[n] \in M /\ p[n] \in Addr /\ r[p[n]] \in M /\ r[r[p[n]]] = r[n]
      BY <1>3
    <3>2. DOMAIN q = M /\ q \in [M -> M]
          /\ \A m \in M : q[m] = IF m = n THEN r[p[n]] ELSE p[m]
      BY <1>4, <2>2, <3>1
    <3> QED  BY <1>3, <3>1, <3>2
  <2> QED  BY <1>1, <1>2, <2>1, <2>2 DEF Rises
<1> QED  BY <1>1, <1>2, <1>3, <1>5, <1>6 DEF Sound, LeadsOn

\* The UF objects with a new one.
WithNew(p, n) == [m \in DOMAIN p \cup {n} |-> IF m = n THEN n ELSE p[m]]

\* The forest with the cost of a new one.
WithPrice(f, n) == [f EXCEPT !.t[n] = Price(n)]

\* A node that is made is its own root.
LEMMA MakeSound ==
  ASSUME NEW f, NEW p, NEW d, Sound(f, p, d), NEW n \in Addr \ DOMAIN p,
         NEW g, g = WithPrice(f, n),
         NEW q, q = WithNew(p, n)
  PROVE  /\ Sound(g, q, d) /\ DOMAIN q = DOMAIN p \cup {n}
         /\ g.parent = f.parent /\ g.t = [f.t EXCEPT ![n] = Price(n)]
<1>1. PICK M : M = DOMAIN p  OBVIOUS
<1>2. PICK r : r = Roots(f.parent)  OBVIOUS
<1>3. PICK N : N = M \cup {n}  OBVIOUS
<1>4. /\ Up(f.parent) /\ r \in [Addr -> Addr] /\ M \in SUBSET Addr
      /\ \A m \in M : r[m] \in M /\ p[m] \in M /\ r[p[m]] = r[m]
      /\ \A m \in Addr \ M : r[m] = m
  BY <1>1, <1>2, SoundRoots
<1>5. ForestOK(f) /\ Within(f.parent, M) /\ p \in [M -> M] /\ d \in Seq(M)
  BY <1>1 DEF Sound, LeadsOn
<1>6. f \in [parent : [Addr -> Nat], t : [Addr -> Nat]]  BY <1>5 DEF ForestOK
<1>7. Price(n) \in Nat  BY PriceAssumption DEF Addr
<1>8. /\ g = [parent |-> f.parent, t |-> [f.t EXCEPT ![n] = Price(n)]]
      /\ [f.t EXCEPT ![n] = Price(n)] \in [Addr -> Nat]
      /\ f.parent \in [Addr -> Nat]
  BY <1>6, <1>7 DEF WithPrice
<1>9. ForestOK(g) /\ g.parent = f.parent  BY <1>4, <1>8 DEF ForestOK
<1>10. Within(g.parent, N)  BY <1>3, <1>5, <1>9 DEF Within
<1>11. /\ DOMAIN q = N /\ N \subseteq Addr /\ q \in [N -> N]
       /\ \A m \in N : r[q[m]] = r[m]
  BY <1>1, <1>3, <1>4, <1>5 DEF WithNew
<1>12. d \in Seq(N)  BY <1>3, <1>5, SeqGrows
<1> QED  BY <1>1, <1>2, <1>3, <1>8, <1>9, <1>10, <1>11, <1>12 DEF Sound, LeadsOn

\* Nodes under one root in f are so in g.
Coarser(f, g) ==
  \A x, y \in Addr : Roots(f.parent)[x] = Roots(f.parent)[y]
                       => Roots(g.parent)[x] = Roots(g.parent)[y]

\* A merge keeps what Sound says, wherever below their roots UF objects come to
\* point.
LEMMA MergedSound ==
  ASSUME NEW f, NEW p, NEW d, Sound(f, p, d), NEW m \in DOMAIN p, NEW n \in DOMAIN p,
         NEW g, g = Merged(f, m, n),
         NEW q \in [DOMAIN p -> DOMAIN p],
         LeadsOn(f, q),
         NEW e, e \in Seq(DOMAIN p)
  PROVE  /\ Sound(g, q, e) /\ DOMAIN q = DOMAIN p
         /\ \E c \in Addr : Merges(f, g, m, n, c)
         /\ Coarser(f, g)
<1>1. PICK M : M = DOMAIN p  OBVIOUS
<1>2. PICK r : r = Roots(f.parent)  OBVIOUS
<1>3. /\ Up(f.parent) /\ r \in [Addr -> Addr] /\ M \in SUBSET Addr
      /\ \A k \in M : r[k] \in M /\ p[k] \in M /\ r[p[k]] = r[k]
  BY <1>1, <1>2, SoundRoots
<1>4. ForestOK(f) /\ Within(f.parent, M)  BY <1>1 DEF Sound, LeadsOn
<1>5. m \in Addr /\ n \in Addr /\ m \in M /\ n \in M  BY <1>1, <1>3
<1>6. /\ ForestOK(g) /\ \E c \in Addr : Merges(f, g, m, n, c)
      /\ \A N \in SUBSET Addr :
           Within(f.parent, N) /\ m \in N /\ n \in N => Within(g.parent, N)
  BY <1>4, <1>5, MergedFacts
<1>7. Within(g.parent, M)  BY <1>3, <1>4, <1>5, <1>6
<1>8. PICK u : u = Roots(g.parent)  OBVIOUS
<1>9. \A x, y \in Addr : r[x] = r[y] => u[x] = u[y]
  <2>1. PICK c \in Addr : Merges(f, g, m, n, c)  BY <1>6
  <2>2. u = [k \in Addr |-> IF r[k] \in {r[m], r[n]} THEN c ELSE r[k]]
    BY <1>2, <1>8, <2>1 DEF Merges
  <2> QED  BY <2>2
<1>10. q \in [M -> M] /\ \A k \in M : r[q[k]] = r[k] /\ q[k] \in Addr /\ k \in Addr
  BY <1>1, <1>2, <1>3 DEF LeadsOn
<1>11. \A k \in M : u[q[k]] = u[k]  BY <1>9, <1>10
<1>12. Coarser(f, g)  BY <1>2, <1>8, <1>9 DEF Coarser
<1> QED
  BY <1>1, <1>2, <1>3, <1>6, <1>7, <1>8, <1>10, <1>11, <1>12 DEF Sound, LeadsOn

\* UFSet::merge keeps it too, and ends with a node under the root of the one it
\* began with.
LEMMA MergeRunSound ==
  ASSUME NEW f, NEW p, NEW d, Sound(f, p, d), NEW w \in DOMAIN p,
         NEW s \in Seq(DOMAIN p), NEW J, IsMergeRun(J, f, w, s)
  PROVE  \A k \in 0..Len(s) :
           /\ Sound(J[k].forest, p, d) /\ J[k].with \in DOMAIN p
           /\ LET u == Roots(J[k].forest.parent)
              IN  u[J[k].with] = u[w]
<1>1. PICK M : M = DOMAIN p  OBVIOUS
<1>2. /\ M \in SUBSET Addr /\ p \in [M -> M] /\ d \in Seq(M)
      /\ f \in [parent : [Addr -> Nat], t : [Addr -> Nat]]
  BY <1>1 DEF Sound, LeadsOn, ForestOK
<1> DEFINE Good(e) == /\ Sound(e.forest, p, d) /\ e.with \in M
                      /\ Roots(e.forest.parent)[e.with] = Roots(e.forest.parent)[w]
<1>3. PICK X : X = {e \in [forest : [parent : [Addr -> Nat], t : [Addr -> Nat]],
                           with : M] : Good(e)}
  OBVIOUS
<1>4. [forest |-> f, with |-> w] \in X  BY <1>1, <1>2, <1>3
<1>5. s \in Seq(Addr) /\ \A k \in 1..Len(s) : s[k] \in M
  BY <1>1, <1>2, SeqGrows
<1>6. ASSUME NEW e \in X, NEW k \in 1..Len(s)
      PROVE  MergeStep(e, s[k]) \in X
  <2>1. Good(e)  BY <1>3
  <2>2. PICK h : h = e.forest  OBVIOUS
  <2>3. PICK v : v = e.with  OBVIOUS
  <2>4. PICK r : r = Roots(h.parent)  OBVIOUS
  <2>5. PICK g : g = Merged(h, s[k], v)  OBVIOUS
  <2>6. Sound(h, p, d) /\ v \in M /\ r[v] = r[w]  BY <2>1, <2>2, <2>3, <2>4
  <2>s. Sound(h, p, d)  BY <2>6
  <2>7. /\ r \in [Addr -> Addr] /\ \A n \in Addr : r[r[n]] = r[n]
        /\ \A n \in M : r[n] \in M /\ r[p[n]] = r[n]
    <3> HIDE DEF Good
    <3> QED  BY <1>1, <2>4, <2>s, SoundRoots
  <2>8. /\ Sound(g, p, d)
        /\ \A x, y \in Addr : r[x] = r[y] => Roots(g.parent)[x] = Roots(g.parent)[y]
    <3>1. v \in DOMAIN p /\ s[k] \in DOMAIN p /\ p \in [DOMAIN p -> DOMAIN p]
          /\ d \in Seq(DOMAIN p)
      BY <1>1, <1>2, <1>5, <2>6
    <3>2. LeadsOn(h, p)  BY <2>s DEF Sound
    <3>3. PICK x \in DOMAIN p : x = s[k]  BY <3>1
    <3>4. v \in DOMAIN p /\ g = Merged(h, x, v)  BY <2>5, <3>1, <3>3
    <3>5. p \in [DOMAIN p -> DOMAIN p] /\ d \in Seq(DOMAIN p)  BY <3>1
    <3> HIDE DEF Good
    <3>6. Sound(g, p, d)  BY <2>s, <3>2, <3>4, <3>5, MergedSound
    <3>7. Coarser(h, g)  BY <2>s, <3>2, <3>4, <3>5, MergedSound
    <3> QED  BY <2>4, <3>6, <3>7 DEF Coarser
  <2>9. MergeStep(e, s[k]) = [forest |-> g, with |-> r[v]]
    BY <2>2, <2>3, <2>4, <2>5 DEF MergeStep
  <2>10. r[v] \in M /\ r[v] \in Addr /\ w \in Addr /\ r[r[v]] = r[w]
    BY <1>1, <1>2, <2>6, <2>7
  <2>11. Roots(g.parent)[r[v]] = Roots(g.parent)[w]  BY <2>8, <2>10
  <2>12. Good([forest |-> g, with |-> r[v]])  BY <2>8, <2>10, <2>11
  <2>13. g \in [parent : [Addr -> Nat], t : [Addr -> Nat]]
    BY <2>8 DEF Sound, LeadsOn, ForestOK
  <2> HIDE DEF Good
  <2> QED  BY <1>3, <2>9, <2>10, <2>12, <2>13
<1>7. \A k \in 0..Len(s) : J[k] \in X  BY <1>4, <1>5, <1>6, MergeRunKeeps
<1>8. \A e \in X : Good(e)  BY <1>3
<1> QED  BY <1>1, <1>7, <1>8

(***************************************************************************)
(* The first of each root                                                  *)
(***************************************************************************)

\* What is in a sequence after another element.
LEMMA ToSetAppend ==
  ASSUME NEW S, NEW s \in Seq(S), NEW x \in S
  PROVE  ToSet(Append(s, x)) = ToSet(s) \cup {x}
<1>1. PICK q : q = Append(s, x)  OBVIOUS
<1>2. PICK n : n = Len(s)  OBVIOUS
<1>3. n \in Nat /\ DOMAIN s = 1..n  BY <1>2, LenProperties
<1>4. /\ q \in Seq(S) /\ Len(q) = n + 1 /\ q[n + 1] = x
      /\ \A i \in 1..n : q[i] = s[i]
  BY <1>1, <1>2, AppendFacts
<1>5. DOMAIN q = 1..(n + 1)  BY <1>4, LenProperties
<1>6. ToSet(q) = {q[i] : i \in 1..(n + 1)} /\ ToSet(s) = {s[i] : i \in 1..n}
  BY <1>3, <1>5 DEF ToSet
<1>7. n + 1 \in 1..(n + 1) /\ \A i \in 1..n : i \in 1..(n + 1)  BY <1>3
<1>8. \A i \in 1..(n + 1) : i = n + 1 \/ i \in 1..n  BY <1>3
<1>9. ASSUME NEW y \in ToSet(q)  PROVE y \in ToSet(s) \cup {x}
  <2>1. PICK i \in 1..(n + 1) : y = q[i]  BY <1>6
  <2>2. CASE i = n + 1  BY <1>4, <2>1, <2>2
  <2>3. CASE i \in 1..n  BY <1>4, <1>6, <2>1, <2>3
  <2> QED  BY <1>8, <2>2, <2>3
<1>10. ASSUME NEW y \in ToSet(s) \cup {x}  PROVE y \in ToSet(q)
  <2>1. CASE y = x  BY <1>4, <1>6, <1>7, <2>1
  <2>2. CASE y \in ToSet(s)
    <3>1. PICK i \in 1..n : y = s[i]  BY <1>6, <2>2
    <3> QED  BY <1>4, <1>6, <1>7, <3>1
  <2> QED  BY <2>1, <2>2
<1> QED  BY <1>1, <1>9, <1>10

\* No two places hold the same.
NoDouble(q) == \A i, j \in DOMAIN q : q[i] = q[j] => i = j

\* UFSet::sum keeps a root from the vector if it is neither in C nor kept before.
KeptStep(r, C, kept, n) ==
  IF r[n] \in C \cup ToSet(kept) THEN kept ELSE Append(kept, r[n])

\* A step adds the root, if it was not counted elsewhere.
LEMMA KeptStepFacts ==
  ASSUME NEW r \in [Addr -> Addr], NEW C, NEW q \in Seq(Addr), NEW n \in Addr,
         NEW e, e = KeptStep(r, C, q, n)
  PROVE  /\ e \in Seq(Addr)
         /\ ToSet(q) \cap C = {} => ToSet(e) = (ToSet(q) \cup {r[n]}) \ C
         /\ NoDouble(q) => NoDouble(e)
<1>1. CASE r[n] \in C \cup ToSet(q)
  <2>1. e = q  BY <1>1 DEF KeptStep
  <2> QED  BY <1>1, <2>1
<1>2. CASE r[n] \notin C \cup ToSet(q)
  <2>1. e = Append(q, r[n]) /\ r[n] \in Addr  BY <1>2 DEF KeptStep
  <2>2. ToSet(e) = ToSet(q) \cup {r[n]}  BY <2>1, ToSetAppend
  <2>3. PICK k : k = Len(q)  OBVIOUS
  <2>4. k \in Nat /\ DOMAIN q = 1..k  BY <2>3, LenProperties
  <2>5. /\ e \in Seq(Addr) /\ Len(e) = k + 1 /\ e[k + 1] = r[n]
        /\ \A i \in 1..k : e[i] = q[i]
    BY <2>1, <2>3, AppendFacts
  <2>6. DOMAIN e = 1..(k + 1)  BY <2>5, LenProperties
  <2>7. \A i \in 1..(k + 1) : i = k + 1 \/ i \in 1..k  BY <2>4
  <2>8. \A i \in 1..k : q[i] # r[n]  BY <1>2, <2>4 DEF ToSet
  <2>9. ASSUME NoDouble(q), NEW i \in 1..(k + 1), NEW j \in 1..(k + 1), e[i] = e[j]
        PROVE  i = j
    <3>1. CASE i \in 1..k /\ j \in 1..k  BY <2>4, <2>5, <2>9, <3>1 DEF NoDouble
    <3>2. CASE i = k + 1 /\ j \in 1..k  BY <2>5, <2>8, <2>9, <3>2
    <3>3. CASE j = k + 1 /\ i \in 1..k  BY <2>5, <2>8, <2>9, <3>3
    <3> QED  BY <2>7, <3>1, <3>2, <3>3
  <2> QED  BY <1>2, <2>2, <2>5, <2>6, <2>9 DEF NoDouble
<1> QED  BY <1>1, <1>2

\* UFSet::sum keeps each root of the vector that was not counted elsewhere, once.
LEMMA FirstFold ==
  ASSUME ForestOK(forest), NEW r, r = Roots(forest.parent),
         NEW s \in Seq(Addr), NEW C, NEW D, D = FirstOfEach(s, C)
  PROVE  D \in Seq(Addr) /\ ToSet(D) = {r[m] : m \in ToSet(s)} \ C /\ NoDouble(D)
<1> DEFINE E(g) == g = [T \in SUBSET DOMAIN s |->
                          IF T = {} THEN <<>>
                          ELSE KeptStep(r, C, g[T \ {Max(T)}], s[Max(T)])]
<1>1. D = (CHOOSE g : E(g))[DOMAIN s]
  BY DEF FirstOfEach, FoldLeft, MapThenFoldSet, KeptStep, Root
<1>2. PICK n : n = Len(s)  OBVIOUS
<1>3. n \in Nat /\ DOMAIN s = 1..n /\ s \in [1..n -> Addr]  BY <1>2, LenProperties
<1>4. r \in [Addr -> Addr]  BY RootsFacts DEF ForestOK
<1>5. PICK X : X = Seq(Addr)  OBVIOUS
<1>6. ASSUME NEW e \in X, NEW m \in Addr
      PROVE  KeptStep(r, C, e, m) \in X
  BY <1>4, <1>5, KeptStepFacts
<1>7. PICK h : h = [x \in X \X (1..n) |-> KeptStep(r, C, x[1], s[x[2]])]  OBVIOUS
<1>8. h \in [X \X (1..n) -> X]
  <2>1. \A x \in X \X (1..n) : KeptStep(r, C, x[1], s[x[2]]) \in X
    <3> SUFFICES ASSUME NEW x \in X \X (1..n)
                 PROVE  KeptStep(r, C, x[1], s[x[2]]) \in X
      OBVIOUS
    <3>1. x[1] \in X /\ s[x[2]] \in Addr  BY <1>3
    <3> QED  BY <1>6, <3>1
  <2> QED  BY <1>7, <2>1
<1>9. <<>> \in X  BY <1>5
<1>10. PICK g \in [SUBSET (1..n) -> X] : IsFold(g, n, <<>>, h)
  BY <1>3, <1>8, <1>9, FoldExists
<1>11. E(g)
  <2>1. ASSUME NEW T \in SUBSET (1..n), T # {}
        PROVE  g[T] = KeptStep(r, C, g[T \ {Max(T)}], s[Max(T)])
    <3>1. Max(T) \in 1..n  BY <1>3, <2>1, MaxFacts
    <3>2. g[T \ {Max(T)}] \in X  OBVIOUS
    <3>3. g[T] = h[<<g[T \ {Max(T)}], Max(T)>>]  BY <1>10, <2>1 DEF IsFold
    <3> QED  BY <1>7, <3>1, <3>2, <3>3
  <2>2. g[{}] = <<>>  BY <1>10 DEF IsFold
  <2> QED  BY <1>3, <2>1, <2>2
<1>12. PICK c : c = (CHOOSE x : E(x))  OBVIOUS
<1>13. E(c)  BY <1>11, <1>12
<1>14. PICK J : J = [k \in 0..n |-> c[1..k]]  OBVIOUS
<1>15. J[0] = <<>>
  <2>1. 1..0 = {} /\ 0 \in 0..n  BY <1>3, UpToMax
  <2>2. c[{}] = <<>>  BY <1>13
  <2> HIDE DEF E
  <2> QED  BY <1>14, <2>1, <2>2
<1>16. ASSUME NEW k \in 1..n
       PROVE  J[k] = KeptStep(r, C, J[k - 1], s[k])
  <2>1. 1..k \in SUBSET (1..n) /\ 1..k # {} /\ Max(1..k) = k
        /\ (1..k) \ {k} = 1..(k - 1)
    BY <1>3, UpToMax
  <2>2. c[1..k] = KeptStep(r, C, c[(1..k) \ {Max(1..k)}], s[Max(1..k)])
    BY <1>3, <1>13, <2>1
  <2>3. k \in 0..n /\ k - 1 \in 0..n  BY <1>3, UpToMax
  <2> HIDE DEF E
  <2> QED  BY <1>14, <2>1, <2>2, <2>3
<1>17. D = J[n]
  <2>1. n \in 0..n  BY <1>3, UpToMax
  <2> HIDE DEF E
  <2> QED  BY <1>1, <1>3, <1>12, <1>14, <2>1
<1> HIDE DEF E
<1> DEFINE Good(k) == /\ J[k] \in Seq(Addr)
                      /\ ToSet(J[k]) = {r[s[i]] : i \in 1..k} \ C
                      /\ NoDouble(J[k])
           G == {k \in 0..n : Good(k)}
<1>18. 0 \in G
  <2>1. 1..0 = {} /\ 0 \in 0..n  BY <1>3, UpToMax
  <2>2. <<>> \in Seq(Addr) /\ DOMAIN <<>> = {}  OBVIOUS
  <2>3. Good(0)  BY <1>15, <2>1, <2>2 DEF ToSet, NoDouble
  <2> HIDE DEF Good
  <2> QED  BY <2>1, <2>3
<1>19. ASSUME NEW k \in 1..n, k - 1 \in G
       PROVE  k \in G
  <2>1. Good(k - 1) /\ k \in 0..n  BY <1>3, <1>19, UpToMax
  <2>2. PICK q : q = J[k - 1]  OBVIOUS
  <2>3. PICK e : e = J[k]  OBVIOUS
  <2>4. /\ q \in Seq(Addr) /\ ToSet(q) = {r[s[i]] : i \in 1..(k - 1)} \ C
        /\ NoDouble(q)
    BY <2>1, <2>2
  <2>5. s[k] \in Addr /\ e = KeptStep(r, C, q, s[k])  BY <1>3, <1>16, <2>2, <2>3
  <2>6. ToSet(q) \cap C = {}  BY <2>4
  <2>7. /\ e \in Seq(Addr) /\ ToSet(e) = (ToSet(q) \cup {r[s[k]]}) \ C /\ NoDouble(e)
    <3>1. q \in Seq(Addr) /\ NoDouble(q)  BY <2>4
    <3>2. PICK m \in Addr : m = s[k]  BY <2>5
    <3>3. e = KeptStep(r, C, q, m)  BY <2>5, <3>2
    <3> HIDE DEF Good, G
    <3>4. e \in Seq(Addr)  BY <1>4, <3>1, <3>3, KeptStepFacts
    <3>5. NoDouble(e)  BY <1>4, <3>1, <3>3, KeptStepFacts
    <3>6. ToSet(e) = (ToSet(q) \cup {r[m]}) \ C
      BY <1>4, <2>6, <3>1, <3>3, KeptStepFacts
    <3> QED  BY <3>2, <3>4, <3>5, <3>6
  <2>8. 1..k = (1..(k - 1)) \cup {k}
    <3>1. k \in Nat /\ k \in 1..k /\ (1..k) \ {k} = 1..(k - 1)  BY <1>3, UpToMax
    <3> QED  BY <3>1
  <2>9. {r[s[i]] : i \in 1..k} = {r[s[i]] : i \in 1..(k - 1)} \cup {r[s[k]]}
    BY <2>8
  <2>10. Good(k)  BY <2>3, <2>4, <2>7, <2>9
  <2> HIDE DEF Good
  <2> QED  BY <2>1, <2>10
<1>20. G = 0..n
  <2> HIDE DEF Good
  <2>1. G \in SUBSET (0..n)  OBVIOUS
  <2> HIDE DEF G
  <2>2. \A k \in 1..n : k - 1 \in G => k \in G  BY <1>19
  <2> QED  BY <1>3, <1>18, <2>1, <2>2, UpTo
<1>21. Good(n)
  <2> HIDE DEF Good
  <2>1. n \in 0..n  BY <1>3, UpToMax
  <2> QED  BY <1>20, <2>1
<1>22. {r[m] : m \in ToSet(s)} = {r[s[i]] : i \in 1..n}  BY <1>3 DEF ToSet
<1> QED  BY <1>17, <1>21, <1>22

(***************************************************************************)
(* Steps keep the invariant                                                *)
(***************************************************************************)

\* Two places of a sequence are written.
LEMMA WriteTwo ==
  ASSUME NEW M, NEW d \in Seq(M), NEW i \in 1..Len(d), NEW j \in 1..Len(d), i # j,
         NEW x \in M, NEW y \in M, NEW e, e = [d EXCEPT ![i] = x, ![j] = y]
  PROVE  /\ e \in Seq(M) /\ Len(e) = Len(d) /\ e[i] = x /\ e[j] = y
         /\ \A k \in 1..Len(d) : k # i /\ k # j => e[k] = d[k]
<1>1. PICK n : n = Len(d)  OBVIOUS
<1>2. n \in Nat /\ d \in [1..n -> M] /\ DOMAIN d = 1..n  BY <1>1, LenProperties
<1>3. /\ e \in [1..n -> M] /\ e[i] = x /\ e[j] = y
      /\ \A k \in 1..n : k # i /\ k # j => e[k] = d[k]
  BY <1>1, <1>2
<1>4. e \in Seq(M) /\ Len(e) = n  BY <1>2, <1>3, FunctionSeq
<1> QED  BY <1>1, <1>3, <1>4

\* The places fixup looks at.
LEMMA LoopPlaces ==
  ASSUME UFInv, InLoop, NEW up, up = Above(turn)
  PROVE  /\ turn \in 1..Len(data) /\ up \in 1..Len(data) /\ up < turn
         /\ turn \in Nat /\ Len(data) \in Nat /\ up \in Nat
         /\ data \in Seq(Made) /\ data[turn] \in Made /\ data[up] \in Made
         /\ {data[turn], data[up]} \in SUBSET Made
<1>1. turn \in Nat /\ data \in Seq(Made)  BY DEF UFInv, Sound, Made
<1>2. PICK t : t = turn  OBVIOUS
<1>3. PICK n : n = Len(data)  OBVIOUS
<1>4. t \in Nat /\ n \in Nat /\ t > 1 /\ t =< n /\ up = t \div 2
  BY <1>1, <1>2, <1>3, LenProperties DEF InLoop, Above
<1>5. up \in 1..(t - 1)  BY <1>4
<1>6. t \in 1..n /\ up \in 1..n /\ up < t /\ up \in Nat  BY <1>4, <1>5
<1>7. data[turn] \in Made /\ data[up] \in Made  BY <1>1, <1>2, <1>3, <1>6
<1> QED  BY <1>1, <1>2, <1>3, <1>4, <1>6, <1>7

\* What a comparison of two places leaves there.
LEMMA ComparedFacts ==
  ASSUME UFInv, NEW i \in 1..Len(data), NEW j \in 1..Len(data), i # j,
         NEW r, r = Roots(forest.parent), NEW c, c = Compared(i, j)
  PROVE  /\ c \in Seq(Made) /\ Len(c) = Len(data)
         /\ c[i] = r[data[i]] /\ c[j] = r[data[j]]
         /\ \A k \in 1..Len(data) : k # i /\ k # j => c[k] = data[k]
<1>1. Sound(forest, ptr, data) /\ data \in Seq(Made)  BY DEF UFInv, Sound, Made
<1>2. data[i] \in Made /\ data[j] \in Made  BY <1>1
<1>3. \A n \in Made : r[n] \in Made  BY <1>1, SoundRoots DEF Made
<1>4. PICK x \in Made : x = r[data[i]]  BY <1>2, <1>3
<1>5. PICK y \in Made : y = r[data[j]]  BY <1>2, <1>3
<1>6. c = [data EXCEPT ![i] = x, ![j] = y]  BY <1>4, <1>5 DEF Compared, Root
<1> QED  BY <1>1, <1>4, <1>5, <1>6, WriteTwo

\* e is d with the places i and j exchanged.
Exchanged(d, i, j, e) ==
  /\ Len(e) = Len(d) /\ e[i] = d[j] /\ e[j] = d[i]
  /\ \A k \in 1..Len(d) : k # i /\ k # j => e[k] = d[k]

\* What swapping two places leaves there.
LEMMA SwappedFacts ==
  ASSUME NEW M, NEW d \in Seq(M), NEW i \in 1..Len(d), NEW j \in 1..Len(d),
         NEW e, e = Swapped(d, i, j)
  PROVE  e \in Seq(M) /\ Exchanged(d, i, j, e)
<1>1. PICK x \in M : x = d[j]  OBVIOUS
<1>2. PICK y \in M : y = d[i]  OBVIOUS
<1>3. e = [d EXCEPT ![i] = x, ![j] = y]  BY <1>1, <1>2 DEF Swapped
<1>4. CASE i = j
  <2>1. e = d  BY <1>1, <1>2, <1>3, <1>4
  <2> QED  BY <1>4, <2>1 DEF Exchanged
<1>5. CASE i # j
  <2>1. /\ e \in Seq(M) /\ Len(e) = Len(d) /\ e[i] = x /\ e[j] = y
        /\ \A k \in 1..Len(d) : k # i /\ k # j => e[k] = d[k]
    BY <1>3, <1>5, WriteTwo
  <2> QED  BY <1>1, <1>2, <2>1 DEF Exchanged
<1> QED  BY <1>4, <1>5

\* What the three turns of fixup leave in the vector, in the order the code has it.
LEMMA FixupData ==
  ASSUME UFInv, InLoop, NEW up, up = Above(turn), NEW c, c = Compared(turn, up)
  PROVE  /\ c \in Seq(Made)
         /\ Swapped(c, turn, up) \in Seq(Made)
         /\ Front(Swapped(c, turn, Len(data))) \in Seq(Made)
<1>1. PICK t : t = turn  OBVIOUS
<1>2. PICK n : n = Len(data)  OBVIOUS
<1>3. t \in 1..n /\ up \in 1..n /\ t # up /\ n \in Nat /\ n \in 1..n
  <2>1. t \in 1..n /\ up \in 1..n /\ up < t /\ up \in Nat /\ t \in Nat /\ n \in Nat
    BY <1>1, <1>2, LoopPlaces
  <2> QED  BY <2>1
<1>4. c \in Seq(Made) /\ Len(c) = n  BY <1>1, <1>2, <1>3, ComparedFacts
<1>5. Swapped(c, t, up) \in Seq(Made)  BY <1>3, <1>4, SwappedFacts
<1>6. PICK e : e = Swapped(c, t, n)  OBVIOUS
<1>7. e \in Seq(Made) /\ Len(e) = n
  <2>1. n \in 1..Len(c) /\ t \in 1..Len(c) /\ c \in Seq(Made)  BY <1>3, <1>4
  <2>2. e \in Seq(Made) /\ Len(e) = Len(c)
    BY <1>6, <2>1, SwappedFacts DEF Exchanged
  <2> QED  BY <1>4, <2>2
<1>8. e # <<>>  BY <1>3, <1>7
<1>9. Front(e) \in Seq(Made)  BY <1>7, <1>8, FrontFacts
<1> QED  BY <1>1, <1>2, <1>4, <1>5, <1>6, <1>9

\* A turn of fixup keeps the invariant.
LEMMA FixupInv == UFInv /\ Fixup => UFInv'
<1> SUFFICES ASSUME UFInv, Fixup  PROVE UFInv'
  OBVIOUS
<1>1. Sound(forest, ptr, data) /\ turn \in Nat /\ data \in Seq(Made)
  BY DEF UFInv, Sound, Made
<1>2. PICK up : up = Above(turn)  OBVIOUS
<1>3. PICK e : e = data'  OBVIOUS
<1>4. PICK g : g = forest'  OBVIOUS
<1>5. CASE FixUp
  <2>1. /\ InLoop /\ g = Compressed(forest, {data[turn], data[up]})
        /\ e = Swapped(Compared(turn, up), turn, up) /\ turn' = up /\ ptr' = ptr
    BY <1>2, <1>3, <1>4, <1>5 DEF FixUp
  <2>2. e \in Seq(Made)  BY <1>2, <2>1, FixupData
  <2>3. {data[turn], data[up]} \in SUBSET Made /\ up \in Nat  BY <1>2, <2>1, LoopPlaces
  <2>4. Sound(g, ptr, e)  BY <1>1, <2>1, <2>2, <2>3, CompressSound DEF Made, Rises
  <2> QED  BY <1>3, <1>4, <2>1, <2>3, <2>4 DEF UFInv
<1>6. CASE FixSame
  <2>1. /\ InLoop /\ g = Compressed(forest, {data[turn], data[up]})
        /\ e = Front(Swapped(Compared(turn, up), turn, Len(data)))
        /\ turn' = turn /\ ptr' = ptr
    BY <1>2, <1>3, <1>4, <1>6 DEF FixSame
  <2>2. e \in Seq(Made)  BY <1>2, <2>1, FixupData
  <2>3. {data[turn], data[up]} \in SUBSET Made  BY <1>2, <2>1, LoopPlaces
  <2>4. Sound(g, ptr, e)  BY <1>1, <2>1, <2>2, <2>3, CompressSound DEF Made, Rises
  <2> QED  BY <1>1, <1>3, <1>4, <2>1, <2>4 DEF UFInv
<1>7. CASE FixDone
  <2>1. turn' \in Nat
    <3>1. DOMAIN data = 1..Len(data)  BY <1>1, LenProperties
    <3>2. \A i \in DOMAIN data : i \in Nat  BY <3>1
    <3> QED  BY <1>7, <3>2 DEF FixDone
  <2>2. ptr' = ptr  BY <1>7 DEF FixDone
  <2>3. CASE InLoop
    <3>1. g = Compressed(forest, {data[turn], data[up]}) /\ e = Compared(turn, up)
      BY <1>2, <1>3, <1>4, <1>7, <2>3 DEF FixDone
    <3>2. e \in Seq(Made)  BY <1>2, <2>3, <3>1, FixupData
    <3>3. {data[turn], data[up]} \in SUBSET Made  BY <1>2, <2>3, LoopPlaces
    <3>4. Sound(g, ptr, e)  BY <1>1, <3>1, <3>2, <3>3, CompressSound DEF Made, Rises
    <3> QED  BY <1>3, <1>4, <2>1, <2>2, <3>4 DEF UFInv
  <2>4. CASE ~InLoop
    <3>1. forest' = forest /\ data' = data  BY <1>7, <2>4 DEF FixDone
    <3> QED  BY <1>1, <2>1, <2>2, <3>1 DEF UFInv
  <2> QED  BY <2>3, <2>4
<1> QED  BY <1>5, <1>6, <1>7 DEF Fixup

\* merge, with the UF objects that come to point to their roots.
LEMMA MergeInv ==
  ASSUME UFInv, NEW m \in Made, NEW n \in Made, merge(m, n)
  PROVE  UFInv'
<1>1. Sound(forest, ptr, data) /\ turn \in Nat /\ data \in Seq(Made)
      /\ ptr \in [Made -> Made]
  BY DEF UFInv, Sound, Made
<1>2. PICK r : r = Roots(forest.parent)  OBVIOUS
<1>3. PICK g : g = forest'  OBVIOUS
<1>4. PICK q : q = ptr'  OBVIOUS
<1>5. /\ g = Merged(forest, ptr[m], ptr[n])
      /\ q = [ptr EXCEPT ![m] = r[ptr[m]], ![n] = r[ptr[n]]]
      /\ m # n /\ data' = data /\ turn' = turn
  BY <1>2, <1>3, <1>4 DEF merge, Root
<1>6. /\ \A k \in Addr : r[r[k]] = r[k]
      /\ \A k \in Made : k \in Addr /\ r[k] \in Made /\ ptr[k] \in Made
                         /\ r[ptr[k]] = r[k]
  BY <1>1, <1>2, SoundRoots DEF Made
<1>7. PICK x \in Made : x = r[ptr[m]]  BY <1>6
<1>8. PICK y \in Made : y = r[ptr[n]]  BY <1>6
<1>9. q = [ptr EXCEPT ![m] = x, ![n] = y]  BY <1>5, <1>7, <1>8
<1>10. q \in [Made -> Made]
       /\ \A k \in Made : q[k] = IF k = n THEN y ELSE IF k = m THEN x ELSE ptr[k]
  BY <1>1, <1>9
<1>11. r[x] = r[m] /\ r[y] = r[n]  BY <1>6, <1>7, <1>8
<1>12. LeadsOn(forest, q)  BY <1>2, <1>6, <1>10, <1>11 DEF LeadsOn
<1>13. PICK a \in Made : a = ptr[m]  BY <1>6
<1>14. PICK b \in Made : b = ptr[n]  BY <1>6
<1>15. g = Merged(forest, a, b)  BY <1>5, <1>13, <1>14
<1>16. Sound(g, q, data)
  BY <1>1, <1>10, <1>12, <1>15, MergedSound DEF Made
<1> QED  BY <1>1, <1>3, <1>4, <1>5, <1>16 DEF UFInv

\* UFSet::merge.
LEMMA MergeAllInv ==
  ASSUME UFInv, NEW w \in Made, mergeAll(w)
  PROVE  UFInv'
<1>1. Sound(forest, ptr, data) /\ turn \in Nat /\ data \in Seq(Made)
      /\ ptr \in [Made -> Made] /\ ForestOK(forest)
  BY DEF UFInv, Sound, Made
<1>2. PICK end : end = MergeEnd(forest, ptr[w], data)  OBVIOUS
<1>3. /\ forest' = end.forest /\ ptr' = [ptr EXCEPT ![w] = end.with]
      /\ data' = <<end.with>> /\ turn' = turn
  BY <1>2 DEF mergeAll, MergeEnd
<1>4. /\ Made \in SUBSET Addr
      /\ \A n \in Made : ptr[n] \in Made
  BY <1>1, SoundRoots DEF Made
<1>5. PICK v \in Made : v = ptr[w]  BY <1>4
<1>6. data \in Seq(Addr) /\ v \in Addr  BY <1>1, <1>4, SeqGrows
<1>7. PICK J : IsMergeRun(J, forest, v, data) /\ end = J[Len(data)]
  BY <1>1, <1>2, <1>5, <1>6, MergeFold
<1>8. PICK g : g = end.forest  OBVIOUS
<1>9. PICK x : x = end.with  OBVIOUS
<1>10. PICK u : u = Roots(g.parent)  OBVIOUS
<1>11. Sound(g, ptr, data) /\ x \in Made /\ u[x] = u[v]
  <2>1. Len(data) \in 0..Len(data)
    <3>1. Len(data) \in Nat  BY <1>1, LenProperties
    <3> QED  BY <3>1, UpToMax
  <2> QED  BY <1>1, <1>7, <1>8, <1>9, <1>10, <2>1, MergeRunSound DEF Made
<1>12. \A n \in Made : u[ptr[n]] = u[n]  BY <1>10, <1>11, SoundRoots DEF Made
<1>13. PICK q : q = [ptr EXCEPT ![w] = x]  OBVIOUS
<1>14. DOMAIN q = Made /\ q \in [Made -> Made]
       /\ \A n \in Made : q[n] = IF n = w THEN x ELSE ptr[n]
  BY <1>1, <1>11, <1>13
<1>15. LeadsOn(g, q)  BY <1>5, <1>10, <1>11, <1>12, <1>14 DEF LeadsOn
<1>16. <<x>> \in Seq(Made)  BY <1>11
<1>17. Sound(g, q, <<x>>)
  <2>1. ForestOK(g) /\ Within(g.parent, Made) /\ Made \subseteq Addr
    BY <1>11 DEF Sound, Made
  <2> QED  BY <1>14, <1>15, <1>16, <2>1 DEF Sound
<1> QED  BY <1>1, <1>3, <1>8, <1>9, <1>13, <1>17 DEF UFInv

\* What is left in the vector by sum.
LEMMA SumData ==
  ASSUME UFInv, NEW r, r = Roots(forest.parent), NEW C, NEW e, e = FirstOfEach(data, C)
  PROVE  /\ e \in Seq(Made) /\ NoDouble(e)
         /\ ToSet(e) = {r[m] : m \in ToSet(data)} \ C
<1>1. Sound(forest, ptr, data) /\ data \in Seq(Made) /\ ForestOK(forest)
  BY DEF UFInv, Sound, Made
<1>2. Made \in SUBSET Addr /\ \A n \in Made : r[n] \in Made
  BY <1>1, SoundRoots DEF Made
<1>3. data \in Seq(Addr)  BY <1>1, <1>2, SeqGrows
<1>4. e \in Seq(Addr) /\ ToSet(e) = {r[m] : m \in ToSet(data)} \ C /\ NoDouble(e)
  BY <1>1, <1>3, FirstFold
<1>5. \A m \in ToSet(data) : m \in Made  BY <1>1 DEF ToSet
<1>6. \A i \in DOMAIN e : e[i] \in Made
  <2>1. \A i \in DOMAIN e : e[i] \in ToSet(e)  BY DEF ToSet
  <2>2. ToSet(e) \subseteq Made  BY <1>2, <1>4, <1>5
  <2> QED  BY <2>1, <2>2
<1>7. e \in Seq(Made)
  <2>1. PICK k : k = Len(e)  OBVIOUS
  <2>2. k \in Nat /\ DOMAIN e = 1..k /\ e \in [1..k -> Addr]
    BY <1>4, <2>1, LenProperties
  <2>3. e \in [1..k -> Made]  BY <1>6, <2>2
  <2> QED  BY <2>2, <2>3, FunctionSeq
<1> QED  BY <1>4, <1>7

\* sum.
LEMMA SumInv ==
  ASSUME UFInv, NEW C \in SUBSET Made, sum(C)
  PROVE  UFInv'
<1>1. Sound(forest, ptr, data) /\ turn \in Nat /\ data \in Seq(Made)
  BY DEF UFInv, Sound, Made
<1>2. \A n \in Made : ptr[n] \in Made  BY <1>1, SoundRoots DEF Made
<1>3. PICK S : S = ToSet(data) \cup {ptr[n] : n \in C}  OBVIOUS
<1>4. S \in SUBSET Made
  <2>1. ToSet(data) \subseteq Made  BY <1>1 DEF ToSet
  <2> QED  BY <1>2, <1>3, <2>1
<1>5. PICK g : g = forest'  OBVIOUS
<1>6. PICK e : e = data'  OBVIOUS
<1>7. /\ g = Compressed(forest, S) /\ e = FirstOfEach(data, {Root(ptr[n]) : n \in C})
      /\ ptr' = ptr /\ turn' = turn
  BY <1>3, <1>5, <1>6 DEF sum
<1>8. e \in Seq(Made)  BY <1>7, SumData
<1>9. Sound(g, ptr, e)  BY <1>1, <1>4, <1>7, <1>8, CompressSound DEF Made, Rises
<1> QED  BY <1>1, <1>5, <1>6, <1>7, <1>9 DEF UFInv

\* Every step keeps the invariant.
LEMMA UFNextInv == UFInv /\ [UFNext]_ufVars => UFInv'
<1> SUFFICES ASSUME UFInv, [UFNext]_ufVars  PROVE UFInv'
  OBVIOUS
<1>1. Sound(forest, ptr, data) /\ turn \in Nat /\ data \in Seq(Made)
      /\ ptr \in [Made -> Made]
  BY DEF UFInv, Sound, Made
<1>2. \A n \in Made : ptr[n] \in Made  BY <1>1
<1>3. ASSUME NEW n \in Addr, Make(n)  PROVE UFInv'
  <2>1. PICK g : g = forest'  OBVIOUS
  <2>2. PICK q : q = ptr'  OBVIOUS
  <2>3. /\ n \in Addr \ Made /\ g = WithPrice(forest, n)
        /\ q = WithNew(ptr, n)
        /\ data' = data /\ turn' = turn
    BY <1>3, <2>1, <2>2 DEF Make, WithPrice, WithNew, Made
  <2>4. Sound(g, q, data)  BY <1>1, <2>3, MakeSound DEF Made
  <2> QED  BY <1>1, <2>1, <2>2, <2>3, <2>4 DEF UFInv
<1>4. ASSUME NEW n \in Made, value(n)  PROVE UFInv'
  <2>1. PICK g : g = forest'  OBVIOUS
  <2>2. PICK q : q = ptr'  OBVIOUS
  <2>3. /\ g = Compressed(forest, {ptr[n]}) /\ {ptr[n]} \in SUBSET Made
        /\ q = [ptr EXCEPT ![n] = Roots(forest.parent)[ptr[n]]]
        /\ data' = data /\ turn' = turn
    BY <1>2, <1>4, <2>1, <2>2 DEF value, Root
  <2>4. Rises(forest, ptr, q)  BY <2>3 DEF Rises, Made
  <2>5. Sound(g, q, data)  BY <1>1, <2>3, <2>4, CompressSound DEF Made
  <2> QED  BY <1>1, <2>1, <2>2, <2>3, <2>5 DEF UFInv
<1>5. ASSUME NEW n \in Made, insert(n)  PROVE UFInv'
  <2>1. PICK e : e = data'  OBVIOUS
  <2>2. e = Append(data, ptr[n]) /\ turn' = Len(e) /\ forest' = forest /\ ptr' = ptr
    BY <1>5, <2>1 DEF insert
  <2>3. e \in Seq(Made)  BY <1>1, <1>2, <2>2, AppendFacts
  <2>4. turn' \in Nat  BY <2>2, <2>3, LenProperties
  <2>5. Sound(forest, ptr, e)  BY <1>1, <2>3 DEF Sound, Made
  <2> QED  BY <2>1, <2>2, <2>4, <2>5 DEF UFInv
<1>6. CASE UNCHANGED ufVars
  <2>1. forest' = forest /\ ptr' = ptr /\ data' = data /\ turn' = turn
    BY <1>6 DEF ufVars
  <2> QED  BY <1>1, <2>1 DEF UFInv
<1> QED
  BY <1>3, <1>4, <1>5, <1>6, FixupInv, MergeInv, MergeAllInv, SumInv DEF UFNext

\* At the start nothing is made.
LEMMA UFInitInv == UFInit => UFInv
<1> SUFFICES ASSUME UFInit  PROVE UFInv
  OBVIOUS
<1>1. PICK f : f = forest  OBVIOUS
<1>2. PICK p : p = ptr  OBVIOUS
<1>3. /\ f = [parent |-> [n \in Addr |-> Null], t |-> [n \in Addr |-> 0]]
      /\ p = [n \in {} |-> Null] /\ data = <<>> /\ turn = 0
  BY <1>1, <1>2 DEF UFInit
<1>4. f.parent = [n \in Addr |-> Null] /\ f.t = [n \in Addr |-> 0]  BY <1>3
<1>5. DOMAIN p = {} /\ p \in [{} -> {}]  BY <1>3
<1>6. f \in [parent : [Addr -> Nat], t : [Addr -> Nat]]  BY <1>3 DEF Null
<1>7. Up(f.parent) /\ Within(f.parent, {})  BY <1>4, <1>6 DEF Up, Within, Null
<1>8. data \in Seq({})  BY <1>3
<1>9. LeadsOn(f, p)  BY <1>5 DEF LeadsOn
<1>10. Sound(f, p, data)  BY <1>5, <1>6, <1>7, <1>8, <1>9 DEF Sound, ForestOK
<1> QED  BY <1>1, <1>2, <1>3, <1>10 DEF UFInv

(***************************************************************************)
(* Theorems about the forest                                               *)
(***************************************************************************)

\* In every state of every run the forest leads up and holds nodes that were
\* made, UF objects point below the roots of the nodes they were made with, and
\* the vector points to nodes (uf.hpp).
THEOREM UFInvAlways == UFSpec => []UFInv
BY UFInitInv, UFNextInv, PTL DEF UFSpec

\* A parent has the lower address, in every state of every run (the comment at
\* UFNode::parent); what get_root needs, a forest without a circle, follows.
THEOREM ParentsAlwaysBelow == UFSpec => []ParentBelow
<1>1. UFInv => ParentBelow
  <2> SUFFICES ASSUME UFInv, NEW n \in Addr, forest.parent[n] # Null
               PROVE  /\ forest.parent[n] < n
                      /\ {n, forest.parent[n]} \subseteq Made
    BY DEF ParentBelow
  <2>1. Sound(forest, ptr, data)  BY DEF UFInv
  <2>2. Up(forest.parent) /\ Within(forest.parent, Made)
    BY <2>1 DEF Sound, ForestOK, Made
  <2> QED  BY <2>2 DEF Up, Within
<1> QED  BY <1>1, UFInvAlways, PTL

(***************************************************************************)
(* Totals                                                                  *)
(***************************************************************************)

\* One thing for every unit of a part's total.
Units(Q) == UNION {{x} \X (1..x.total) : x \in Q}

\* The units of some parts and of one more.
LEMMA UnitsStep ==
  ASSUME NEW T, IsFiniteSet(T), \A x \in T : x.total \in Nat, NEW y \in T,
         IsFiniteSet(Units(T \ {y}))
  PROVE  /\ IsFiniteSet(Units(T))
         /\ Cardinality(Units(T)) = y.total + Cardinality(Units(T \ {y}))
<1>1. PICK n : n = y.total  OBVIOUS
<1>2. PICK A : A = {y} \X (1..n)  OBVIOUS
<1>3. PICK B : B = Units(T \ {y})  OBVIOUS
<1>4. n \in Nat  BY <1>1
<1>5. Units(T) = A \cup B
  <2>1. T = (T \ {y}) \cup {y}  OBVIOUS
  <2> QED  BY <1>1, <1>2, <1>3, <2>1 DEF Units
<1>6. A \cap B = {}  BY <1>2, <1>3 DEF Units
<1>7. IsFiniteSet(A) /\ Cardinality(A) = n
  <2>1. IsFiniteSet({y}) /\ Cardinality({y}) = 1  BY FS_Singleton
  <2>2. IsFiniteSet(1..n) /\ Cardinality(1..n) = n
    <3>1. /\ IsFiniteSet(1..n)
          /\ Cardinality(1..n) = IF 1 > n THEN 0 ELSE n - 1 + 1
      BY <1>4, FS_Interval
    <3> QED  BY <1>4, <3>1
  <2>3. PICK S : S = {y}  OBVIOUS
  <2>4. PICK V : V = 1..n  OBVIOUS
  <2>5. /\ IsFiniteSet(S \X V)
        /\ Cardinality(S \X V) = Cardinality(S) * Cardinality(V)
    BY <2>1, <2>2, <2>3, <2>4, FS_Product
  <2>6. 1 * n = n  BY <1>4
  <2> QED  BY <1>2, <2>1, <2>2, <2>3, <2>4, <2>5, <2>6
<1>8. IsFiniteSet(B) /\ Cardinality(B) \in Nat  BY <1>3, FS_CardinalityType
<1>9. /\ IsFiniteSet(A \cup B)
      /\ Cardinality(A \cup B) = Cardinality(A) + Cardinality(B) - Cardinality(A \cap B)
  BY <1>7, <1>8, FS_Union
<1>10. Cardinality(A \cap B) = 0  BY <1>6, FS_EmptySet
<1> QED  BY <1>1, <1>3, <1>4, <1>5, <1>7, <1>8, <1>9, <1>10

\* There are finitely many units.
LEMMA UnitsFinite ==
  ASSUME NEW T, IsFiniteSet(T), \A x \in T : x.total \in Nat
  PROVE  IsFiniteSet(Units(T))
<1>1. PICK U : U = {{x} \X (1..x.total) : x \in T}  OBVIOUS
<1>2. PICK h : h = [x \in T |-> {x} \X (1..x.total)]  OBVIOUS
<1>3. h \in Surjection(T, U)  BY <1>1, <1>2 DEF Surjection
<1>4. IsFiniteSet(U)  BY <1>3, FS_Surjection
<1>5. ASSUME NEW u \in U  PROVE IsFiniteSet(u)
  <2>1. PICK x \in T : u = {x} \X (1..x.total)  BY <1>1
  <2>2. PICK n : n = x.total  OBVIOUS
  <2>3. n \in Nat  BY <2>2
  <2>4. IsFiniteSet(1..n)  BY <2>3, FS_Interval
  <2>5. IsFiniteSet({x})  BY FS_Singleton
  <2> QED  BY <2>1, <2>2, <2>4, <2>5, FS_Product
<1>6. IsFiniteSet(UNION U)  BY <1>4, <1>5, FS_UNION
<1> QED  BY <1>1, <1>6 DEF Units

\* The total of parts is the number of their units.
LEMMA TotalUnits ==
  ASSUME NEW Q, IsFiniteSet(Q), \A x \in Q : x.total \in Nat
  PROVE  cp!Total(Q) = Cardinality(Units(Q))
<1> DEFINE N(T) == Cardinality(Units(T))
           Pick(T) == CHOOSE x \in T : TRUE
           Sums(f) == f = [T \in SUBSET Q |->
                             IF T = {} THEN 0 ELSE Pick(T).total + f[T \ {Pick(T)}]]
           g == [T \in SUBSET Q |-> N(T)]
<1>1. cp!Total(Q) = (CHOOSE f : Sums(f))[Q]
  BY DEF cp!Total, cp!MapThenSumSet, cp!MapThenFoldSet
<1>2. \A T \in SUBSET Q : T # {} => Pick(T) \in T  OBVIOUS
<1> HIDE DEF Pick
<1>3. ASSUME NEW T \in SUBSET Q, T # {}
      PROVE  N(T) = Pick(T).total + N(T \ {Pick(T)})
  <2>1. IsFiniteSet(T) /\ IsFiniteSet(T \ {Pick(T)})
    <3>1. T \ {Pick(T)} \in SUBSET Q  OBVIOUS
    <3> QED  BY <3>1, FS_Subset
  <2>2. IsFiniteSet(Units(T \ {Pick(T)}))  BY <2>1, UnitsFinite
  <2>3. Pick(T) \in T /\ \A x \in T : x.total \in Nat  BY <1>2, <1>3
  <2> QED  BY <2>1, <2>2, <2>3, UnitsStep
<1>4. N({}) = 0
  <2>1. Units({}) = {}  BY DEF Units
  <2> QED  BY <2>1, FS_EmptySet
<1> HIDE DEF N
<1>5. Sums(g)
  <2>1. \A T \in SUBSET Q : T \ {Pick(T)} \in SUBSET Q  OBVIOUS
  <2>2. \A T \in SUBSET Q :
          N(T) = IF T = {} THEN 0 ELSE Pick(T).total + g[T \ {Pick(T)}]
    BY <1>3, <1>4, <2>1
  <2> QED  BY <2>2
<1>6. PICK f : f = (CHOOSE x : Sums(x))  OBVIOUS
<1>7. Sums(f)  BY <1>5, <1>6
<1> DEFINE H == {T \in SUBSET Q : f[T] # N(T)}
<1>8. H = {}
  <2> SUFFICES ASSUME H # {}  PROVE FALSE
    OBVIOUS
  <2> DEFINE C == {Cardinality(T) : T \in H}
  <2>1. \A T \in H : IsFiniteSet(T) /\ Cardinality(T) \in Nat
    BY FS_Subset, FS_CardinalityType
  <2>2. C \in SUBSET Nat /\ C # {}  BY <2>1
  <2> HIDE DEF C
  <2>3. PICK c \in C : \A k \in C : c =< k  BY <2>2, LeastElement
  <2>4. PICK T \in H : c = Cardinality(T)  BY DEF C
  <2>5. \A S \in H : Cardinality(S) \in C  BY DEF C
  <2>6. T # {}  BY <1>4, <1>7
  <2>7. PICK S : S = T \ {Pick(T)}  OBVIOUS
  <2>8. S \in SUBSET Q /\ Pick(T) \in T  BY <1>2, <2>6, <2>7
  <2>9. Cardinality(S) = c - 1 /\ c \in Nat
    BY <2>1, <2>4, <2>7, <2>8, FS_RemoveElement
  <2>10. S \notin H
    <3> SUFFICES ASSUME S \in H  PROVE FALSE
      OBVIOUS
    <3>1. c =< Cardinality(S)  BY <2>3, <2>5
    <3> HIDE DEF H
    <3> QED  BY <2>9, <3>1
  <2>11. f[S] = N(S)  BY <2>8, <2>10
  <2>12. f[T] = Pick(T).total + f[S]  BY <1>7, <2>6, <2>7
  <2>13. N(T) = Pick(T).total + N(S)  BY <1>3, <2>6, <2>7
  <2> QED  BY <2>11, <2>12, <2>13
<1>9. f[Q] = N(Q)  BY <1>8
<1> QED  BY <1>1, <1>6, <1>9 DEF N

\* The total of nothing is 0; one more part adds its own.
LEMMA TotalStep ==
  /\ cp!Total({}) = 0
  /\ \A Q, y : IsFiniteSet(Q) /\ (\A x \in Q : x.total \in Nat) /\ y.total \in Nat
                 /\ y \notin Q
               => cp!Total(Q \cup {y}) = cp!Total(Q) + y.total
<1>1. cp!Total({}) = 0
  <2>1. IsFiniteSet({}) /\ Cardinality({}) = 0  BY FS_EmptySet
  <2>2. cp!Total({}) = Cardinality(Units({}))  BY <2>1, TotalUnits
  <2>3. Units({}) = {}  BY DEF Units
  <2> QED  BY <2>1, <2>2, <2>3
<1>2. ASSUME NEW Q, NEW y, IsFiniteSet(Q), \A x \in Q : x.total \in Nat,
             y.total \in Nat, y \notin Q
      PROVE  cp!Total(Q \cup {y}) = cp!Total(Q) + y.total
  <2>1. PICK R : R = Q \cup {y}  OBVIOUS
  <2>2. IsFiniteSet(R)  BY <1>2, <2>1, FS_AddElement
  <2>3. /\ \A x \in R : x.total \in Nat
        /\ R \ {y} = Q /\ y \in R
    BY <1>2, <2>1
  <2>4. IsFiniteSet(Units(Q))  BY <1>2, UnitsFinite
  <2>5. Cardinality(Units(R)) = y.total + Cardinality(Units(Q))
    BY <2>2, <2>3, <2>4, UnitsStep
  <2>6. cp!Total(R) = Cardinality(Units(R)) /\ cp!Total(Q) = Cardinality(Units(Q))
    BY <1>2, <2>2, <2>3, TotalUnits
  <2>7. Cardinality(Units(Q)) \in Nat  BY <2>4, FS_CardinalityType
  <2> QED  BY <1>2, <2>1, <2>5, <2>6, <2>7
<1> QED  BY <1>1, <1>2

(***************************************************************************)
(* Parts                                                                   *)
(***************************************************************************)

\* r leads every node to its root, and none out of M.
Rooted(r, M) ==
  /\ M \in SUBSET Addr /\ r \in [Addr -> Addr]
  /\ \A n \in Addr : r[r[n]] = r[n]
  /\ \A n \in M : r[n] \in M

RootSet(r, S) == {r[n] : n \in S}

\* The nodes of M whose root is in X.
HeldBy(r, M, X) == {n \in M : r[n] \in X}

\* The part of a root, and the parts of some.
PartOf(r, t, M, x) == [ufs |-> {n \in M : r[n] = x}, total |-> t[x]]

PartsOf(r, t, M, X) == {PartOf(r, t, M, x) : x \in X}

\* Different roots have different parts, with themselves in them, and there are
\* finitely many.
LEMMA PartsFacts ==
  ASSUME NEW r, NEW M, Rooted(r, M), NEW t \in [Addr -> Nat],
         NEW X \in SUBSET RootSet(r, M)
  PROVE  /\ \A x \in X : x \in M /\ r[x] = x /\ x \in Addr /\ t[x] \in Nat
                         /\ x \in PartOf(r, t, M, x).ufs
         /\ \A x, y : PartOf(r, t, M, x) = PartOf(r, t, M, y) /\ x \in X => x = y
         /\ IsFiniteSet(X) /\ IsFiniteSet(PartsOf(r, t, M, X))
         /\ \A p \in PartsOf(r, t, M, X) : p.total \in Nat
<1>1. /\ M \in SUBSET Addr /\ r \in [Addr -> Addr]
      /\ \A n \in Addr : r[r[n]] = r[n]
      /\ \A n \in M : r[n] \in M
  BY DEF Rooted
<1>2. \A x \in X : x \in M /\ r[x] = x /\ x \in Addr /\ t[x] \in Nat
  BY <1>1 DEF RootSet
<1>3. \A x : /\ PartOf(r, t, M, x).ufs = {n \in M : r[n] = x}
             /\ PartOf(r, t, M, x).total = t[x]
  BY DEF PartOf
<1>4. \A x \in X : x \in PartOf(r, t, M, x).ufs  BY <1>2, <1>3
<1>5. ASSUME NEW x, NEW y, PartOf(r, t, M, x) = PartOf(r, t, M, y), x \in X
      PROVE  x = y
  <2>1. x \in {n \in M : r[n] = y}  BY <1>3, <1>4, <1>5
  <2> QED  BY <1>2, <1>5, <2>1
<1>6. IsFiniteSet(X)
  <2>1. IsFiniteSet(1..MaxAddr)  BY AddrAssumption, FS_Interval
  <2>2. X \in SUBSET (1..MaxAddr)  BY <1>2 DEF Addr
  <2> QED  BY <2>1, <2>2, FS_Subset
<1>7. IsFiniteSet(PartsOf(r, t, M, X))
  <2>1. PICK h : h = [x \in X |-> PartOf(r, t, M, x)]  OBVIOUS
  <2>2. PICK P : P = PartsOf(r, t, M, X)  OBVIOUS
  <2>3. h \in Surjection(X, P)  BY <2>1, <2>2 DEF Surjection, PartsOf
  <2>4. IsFiniteSet(P)  BY <1>6, <2>3, FS_Surjection
  <2> QED  BY <2>2, <2>4
<1>8. \A p \in PartsOf(r, t, M, X) : p.total \in Nat  BY <1>2, <1>3 DEF PartsOf
<1> QED  BY <1>2, <1>4, <1>5, <1>6, <1>7, <1>8

\* What the parts of all roots tell of names and sets of names.
LEMMA AllParts ==
  ASSUME NEW r, NEW M, Rooted(r, M), NEW t \in [Addr -> Nat],
         NEW P, P = PartsOf(r, t, M, RootSet(r, M))
  PROVE  /\ cp!Names(P) = M
         /\ \A n \in M : cp!Part(P, n) = PartOf(r, t, M, r[n])
         /\ \A S \in SUBSET M :
              /\ cp!Meets(P, S) = PartsOf(r, t, M, RootSet(r, S))
              /\ cp!Closure(P, S) = HeldBy(r, M, RootSet(r, S))
<1>1. /\ M \in SUBSET Addr /\ r \in [Addr -> Addr]
      /\ \A n \in Addr : r[r[n]] = r[n]
      /\ \A n \in M : r[n] \in M
  BY DEF Rooted
<1>2. \A x : PartOf(r, t, M, x).ufs = {n \in M : r[n] = x}  BY DEF PartOf
<1>3. \A n \in M : PartOf(r, t, M, r[n]) \in P  BY DEF PartsOf, RootSet
<1>4. \A p \in P : \E n \in M : p = PartOf(r, t, M, r[n])  BY DEF PartsOf, RootSet
<1>5. cp!Names(P) = M
  <2>1. \A n \in M : n \in PartOf(r, t, M, r[n]).ufs  BY <1>2
  <2>2. \A p \in P : p.ufs \subseteq M  BY <1>2, <1>4
  <2>3. cp!Names(P) = UNION {p.ufs : p \in P}  BY DEF cp!Names
  <2>4. ASSUME NEW n \in M  PROVE n \in cp!Names(P)
    BY <1>3, <2>1, <2>3
  <2>5. ASSUME NEW n \in cp!Names(P)  PROVE n \in M
    BY <2>2, <2>3
  <2> QED  BY <2>4, <2>5
<1>6. ASSUME NEW p \in P, NEW n \in p.ufs
      PROVE  n \in M /\ p = PartOf(r, t, M, r[n])
  <2>1. PICK m \in M : p = PartOf(r, t, M, r[m])  BY <1>4
  <2>2. n \in M /\ r[n] = r[m]  BY <1>2, <2>1
  <2> QED  BY <2>1, <2>2
<1>7. ASSUME NEW n \in M
      PROVE  cp!Part(P, n) = PartOf(r, t, M, r[n])
  <2>1. PartOf(r, t, M, r[n]) \in P /\ n \in PartOf(r, t, M, r[n]).ufs
    BY <1>2, <1>3
  <2>2. cp!Part(P, n) \in P /\ n \in cp!Part(P, n).ufs  BY <2>1 DEF cp!Part
  <2> QED  BY <1>6, <2>2
<1>8. ASSUME NEW S \in SUBSET M
      PROVE  /\ cp!Meets(P, S) = PartsOf(r, t, M, RootSet(r, S))
             /\ cp!Closure(P, S) = HeldBy(r, M, RootSet(r, S))
  <2>1. PICK Q : Q = cp!Meets(P, S)  OBVIOUS
  <2>2. Q = {p \in P : p.ufs \cap S # {}}  BY <2>1 DEF cp!Meets
  <2>3. ASSUME NEW p \in Q  PROVE \E s \in S : p = PartOf(r, t, M, r[s])
    <3>1. PICK s \in S : s \in p.ufs  BY <2>2
    <3> QED  BY <1>6, <2>2, <3>1
  <2>4. ASSUME NEW s \in S  PROVE PartOf(r, t, M, r[s]) \in Q
    <3>1. s \in PartOf(r, t, M, r[s]).ufs  BY <1>2
    <3> QED  BY <1>3, <2>2, <3>1
  <2>5. Q = PartsOf(r, t, M, RootSet(r, S))
    <3>1. \A p : p \in PartsOf(r, t, M, RootSet(r, S))
                   <=> \E s \in S : p = PartOf(r, t, M, r[s])
      BY DEF PartsOf, RootSet
    <3> QED  BY <2>3, <2>4, <3>1
  <2>6. cp!Closure(P, S) = UNION {p.ufs : p \in Q}  BY <2>1 DEF cp!Closure
  <2>7. ASSUME NEW n \in cp!Closure(P, S)  PROVE n \in HeldBy(r, M, RootSet(r, S))
    <3>1. PICK p \in Q : n \in p.ufs  BY <2>6
    <3>2. PICK s \in S : p = PartOf(r, t, M, r[s])  BY <2>3
    <3>3. n \in M /\ r[n] = r[s]  BY <1>2, <3>1, <3>2
    <3> QED  BY <3>3 DEF HeldBy, RootSet
  <2>8. ASSUME NEW n \in HeldBy(r, M, RootSet(r, S))  PROVE n \in cp!Closure(P, S)
    <3>1. PICK s \in S : n \in M /\ r[n] = r[s]  BY DEF HeldBy, RootSet
    <3>2. n \in PartOf(r, t, M, r[s]).ufs  BY <1>2, <3>1
    <3> QED  BY <2>4, <2>6, <3>2
  <2> QED  BY <2>1, <2>5, <2>7, <2>8
<1> QED  BY <1>5, <1>7, <1>8

\* The total of the parts of one more root.
LEMMA PartsTotal ==
  ASSUME NEW r, NEW M, Rooted(r, M), NEW t \in [Addr -> Nat],
         NEW X \in SUBSET RootSet(r, M), NEW x \in RootSet(r, M), x \notin X
  PROVE  cp!Total(PartsOf(r, t, M, X \cup {x})) = cp!Total(PartsOf(r, t, M, X)) + t[x]
<1>1. PICK Q : Q = PartsOf(r, t, M, X)  OBVIOUS
<1>2. PICK y : y = PartOf(r, t, M, x)  OBVIOUS
<1>3. PICK Y : Y = {x}  OBVIOUS
<1>4. IsFiniteSet(Q) /\ \A p \in Q : p.total \in Nat  BY <1>1, PartsFacts
<1>5. Y \in SUBSET RootSet(r, M) /\ x \in Y  BY <1>3
<1>6. t[x] \in Nat /\ \A z : PartOf(r, t, M, x) = PartOf(r, t, M, z) => x = z
  BY <1>5, PartsFacts
<1>7. y.total = t[x]  BY <1>2 DEF PartOf
<1>8. y \notin Q  BY <1>1, <1>2, <1>6 DEF PartsOf
<1>9. PartsOf(r, t, M, X \cup {x}) = Q \cup {y}  BY <1>1, <1>2 DEF PartsOf
<1>10. cp!Total(Q \cup {y}) = cp!Total(Q) + y.total
  BY <1>4, <1>6, <1>7, <1>8, TotalStep
<1> QED  BY <1>1, <1>7, <1>9, <1>10

\* The total of the parts of one root, and that of some is a number.
LEMMA PartsTotalOne ==
  ASSUME NEW r, NEW M, Rooted(r, M), NEW t \in [Addr -> Nat], NEW x \in RootSet(r, M)
  PROVE  cp!Total(PartsOf(r, t, M, {x})) = t[x]
<1>1. PICK Y : Y = {x}  OBVIOUS
<1>2. Y \in SUBSET RootSet(r, M)  BY <1>1
<1>3. \A z \in Y : t[z] \in Nat  BY <1>2, PartsFacts
<1>4. t[x] \in Nat  BY <1>1, <1>3
<1>5. PICK X : X = {z \in {} : TRUE}  OBVIOUS
<1>6. X = {} /\ X \in SUBSET RootSet(r, M) /\ x \notin X  BY <1>5
<1>7. PartsOf(r, t, M, X) = {}  BY <1>6 DEF PartsOf
<1>8. cp!Total(PartsOf(r, t, M, X \cup {x})) = cp!Total(PartsOf(r, t, M, X)) + t[x]
  BY <1>6, PartsTotal
<1>9. X \cup {x} = {x}  BY <1>6
<1>10. cp!Total({}) = 0  BY TotalStep
<1> QED  BY <1>4, <1>7, <1>8, <1>9, <1>10

(***************************************************************************)
(* Throwing together                                                       *)
(***************************************************************************)

\* From roots r and costs t, those under the roots in G have come under c, which
\* has all their costs.
Gathers(r, t, M, G, u, v, c) ==
  /\ c \in G /\ G \in SUBSET RootSet(r, M)
  /\ u = [k \in Addr |-> IF r[k] \in G THEN c ELSE r[k]]
  /\ v \in [Addr -> Nat]
  /\ v[c] = cp!Total(PartsOf(r, t, M, G))
  /\ \A x \in Addr \ G : v[x] = t[x]

\* A root with itself.
LEMMA GatherFirst ==
  ASSUME NEW r, NEW M, Rooted(r, M), NEW t \in [Addr -> Nat], NEW n \in M
  PROVE  Gathers(r, t, M, {r[n]}, r, t, r[n])
<1>1. r \in [Addr -> Addr]  BY DEF Rooted
<1>2. r = [k \in Addr |-> IF r[k] \in {r[n]} THEN r[n] ELSE r[k]]  BY <1>1
<1>3. r[n] \in RootSet(r, M)  BY DEF RootSet
<1>4. cp!Total(PartsOf(r, t, M, {r[n]})) = t[r[n]]  BY <1>3, PartsTotalOne
<1> QED  BY <1>2, <1>3, <1>4 DEF Gathers

\* A merge of the root of m with what has been gathered.
LEMMA GatherStep ==
  ASSUME NEW r, NEW M, Rooted(r, M), NEW t \in [Addr -> Nat], NEW G, NEW c,
         NEW h, ForestOK(h), NEW u, u = Roots(h.parent), Gathers(r, t, M, G, u, h.t, c),
         NEW m \in M, NEW n \in M, u[n] = c,
         NEW g, ForestOK(g), NEW d, Merges(h, g, m, n, d)
  PROVE  Gathers(r, t, M, G \cup {r[m]}, Roots(g.parent), g.t, d)
<1>1. /\ M \in SUBSET Addr /\ r \in [Addr -> Addr]
      /\ \A k \in Addr : r[r[k]] = r[k]
      /\ \A k \in M : r[k] \in M
  BY DEF Rooted
<1>2. PICK v : v = h.t  OBVIOUS
<1>3. PICK w : w = g.t  OBVIOUS
<1>4. PICK z : z = Roots(g.parent)  OBVIOUS
<1>5. /\ c \in G /\ G \in SUBSET RootSet(r, M)
      /\ u = [k \in Addr |-> IF r[k] \in G THEN c ELSE r[k]]
      /\ v \in [Addr -> Nat]
      /\ v[c] = cp!Total(PartsOf(r, t, M, G))
      /\ \A x \in Addr \ G : v[x] = t[x]
  BY <1>2 DEF Gathers
<1>6. w \in [Addr -> Nat]  BY <1>3 DEF ForestOK
<1>7. /\ d \in {u[m], c}
      /\ z = [k \in Addr |-> IF u[k] \in {u[m], c} THEN d ELSE u[k]]
      /\ w = [k \in Addr |-> IF k # d \/ u[m] = c THEN v[k] ELSE v[u[m]] + v[c]]
  BY <1>2, <1>3, <1>4 DEF Merges
<1>8. m \in Addr /\ r[m] \in RootSet(r, M) /\ r[m] \in Addr  BY <1>1 DEF RootSet
<1>9. RootSet(r, M) \subseteq Addr  BY <1>1 DEF RootSet
<1>10. CASE r[m] \in G
  <2>1. u[m] = c /\ d = c /\ G \cup {r[m]} = G  BY <1>5, <1>7, <1>8, <1>10
  <2>2. z = u  BY <1>5, <1>7, <2>1
  <2>3. w = v  BY <1>5, <1>7, <2>1
  <2> QED  BY <1>2, <1>3, <1>4, <2>1, <2>2, <2>3
<1>11. CASE r[m] \notin G
  <2>1. PICK a : a = r[m]  OBVIOUS
  <2>2. u[m] = a /\ a # c /\ a \in Addr /\ a \notin G /\ c \in Addr
    BY <1>5, <1>8, <1>9, <1>11, <2>1
  <2>3. PICK H : H = G \cup {a}  OBVIOUS
  <2>4. d \in H /\ d \in {a, c} /\ d \in Addr  BY <1>5, <1>7, <2>2, <2>3
  <2>5. H \in SUBSET RootSet(r, M)  BY <1>5, <1>8, <2>1, <2>3
  <2>6. z = [k \in Addr |-> IF r[k] \in H THEN d ELSE r[k]]
    <3>1. ASSUME NEW k \in Addr
          PROVE  (IF u[k] \in {a, c} THEN d ELSE u[k])
                   = IF r[k] \in H THEN d ELSE r[k]
      <4>1. CASE r[k] \in G  BY <1>5, <2>3, <4>1
      <4>2. CASE r[k] \notin G
        <5>1. u[k] = r[k] /\ r[k] # c  BY <1>5, <4>2
        <5> QED  BY <2>3, <4>2, <5>1
      <4> QED  BY <4>1, <4>2
    <3> QED  BY <1>7, <2>2, <3>1
  <2>7. w[d] = cp!Total(PartsOf(r, t, M, H))
    <3>1. w[d] = v[a] + v[c]  BY <1>7, <2>2, <2>4
    <3>2. v[a] = t[a]  BY <1>5, <2>2
    <3>3. cp!Total(PartsOf(r, t, M, H)) = cp!Total(PartsOf(r, t, M, G)) + t[a]
      BY <1>5, <1>8, <2>1, <2>2, <2>3, PartsTotal
    <3>4. v[a] \in Nat /\ v[c] \in Nat  BY <1>5, <2>2
    <3> QED  BY <1>5, <3>1, <3>2, <3>3, <3>4
  <2>8. \A x \in Addr \ H : w[x] = t[x]
    <3> SUFFICES ASSUME NEW x \in Addr \ H  PROVE w[x] = t[x]
      OBVIOUS
    <3>1. x # d /\ x \notin G  BY <2>3, <2>4
    <3> QED  BY <1>5, <1>7, <3>1
  <2> QED  BY <1>3, <1>4, <1>6, <2>1, <2>3, <2>4, <2>5, <2>6, <2>7, <2>8 DEF Gathers
<1> QED  BY <1>10, <1>11

\* What has come under one root is thrown together.
LEMMA GatherJoins ==
  ASSUME NEW r, NEW M, Rooted(r, M), NEW t \in [Addr -> Nat],
         NEW S \in SUBSET M, NEW u, NEW v, NEW c,
         Gathers(r, t, M, RootSet(r, S), u, v, c)
  PROVE  PartsOf(u, v, M, RootSet(u, M)) = cp!Joined(PartsOf(r, t, M, RootSet(r, M)), S)
<1>1. /\ M \in SUBSET Addr /\ r \in [Addr -> Addr]
      /\ \A k \in Addr : r[r[k]] = r[k]
      /\ \A k \in M : r[k] \in M
  BY DEF Rooted
<1>2. PICK G : G = RootSet(r, S)  OBVIOUS
<1>3. PICK R : R = RootSet(r, M)  OBVIOUS
<1>4. PICK P : P = PartsOf(r, t, M, R)  OBVIOUS
<1>5. /\ c \in G /\ G \in SUBSET R
      /\ u = [k \in Addr |-> IF r[k] \in G THEN c ELSE r[k]]
      /\ v[c] = cp!Total(PartsOf(r, t, M, G))
      /\ \A x \in Addr \ G : v[x] = t[x]
  BY <1>2, <1>3 DEF Gathers
<1>6. /\ cp!Meets(P, S) = PartsOf(r, t, M, G)
      /\ cp!Closure(P, S) = HeldBy(r, M, G)
  BY <1>2, <1>3, <1>4, AllParts
<1>7. cp!Joined(P, S) = (P \ PartsOf(r, t, M, G)) \cup
                          {[ufs |-> HeldBy(r, M, G), total |-> v[c]]}
  BY <1>5, <1>6 DEF cp!Joined
<1>8. \A x \in R : x \in M /\ x \in Addr /\ r[x] = x  BY <1>3, PartsFacts
<1>9. RootSet(u, M) = (R \ G) \cup {c}
  <2>1. \A k \in M : u[k] = IF r[k] \in G THEN c ELSE r[k]  BY <1>1, <1>5
  <2>2. \A k \in M : u[k] \in (R \ G) \cup {c}  BY <1>3, <2>1 DEF RootSet
  <2>3. c \in RootSet(u, M)
    <3>1. c \in M /\ u[c] = c  BY <1>5, <1>8, <2>1
    <3> QED  BY <3>1 DEF RootSet
  <2>4. ASSUME NEW x \in R \ G  PROVE x \in RootSet(u, M)
    <3>1. x \in M /\ u[x] = x  BY <1>8, <2>1
    <3> QED  BY <3>1 DEF RootSet
  <2>5. \A x \in RootSet(u, M) : x \in (R \ G) \cup {c}  BY <2>2 DEF RootSet
  <2> QED  BY <2>3, <2>4, <2>5
<1>10. ASSUME NEW x \in R \ G  PROVE PartOf(u, v, M, x) = PartOf(r, t, M, x)
  <2>1. x # c /\ x \in Addr \ G  BY <1>5, <1>8
  <2>2. \A k \in M : u[k] = x <=> r[k] = x  BY <1>1, <1>5, <2>1
  <2>3. v[x] = t[x]  BY <1>5, <2>1
  <2>4. {k \in M : u[k] = x} = {k \in M : r[k] = x}  BY <2>2
  <2> QED  BY <2>3, <2>4 DEF PartOf
<1>11. PartOf(u, v, M, c) = [ufs |-> HeldBy(r, M, G), total |-> v[c]]
  <2>1. \A k \in M : u[k] = c <=> r[k] \in G  BY <1>1, <1>5
  <2>2. {k \in M : u[k] = c} = HeldBy(r, M, G)  BY <2>1 DEF HeldBy
  <2> QED  BY <2>2 DEF PartOf
<1>12. P \ PartsOf(r, t, M, G) = PartsOf(r, t, M, R \ G)
  <2>1. \A x, y : PartOf(r, t, M, x) = PartOf(r, t, M, y) /\ x \in R => x = y
    BY <1>3, PartsFacts
  <2>2. ASSUME NEW p \in P \ PartsOf(r, t, M, G)
        PROVE  p \in PartsOf(r, t, M, R \ G)
    BY <1>4 DEF PartsOf
  <2>3. ASSUME NEW p \in PartsOf(r, t, M, R \ G)
        PROVE  p \in P \ PartsOf(r, t, M, G)
    <3>1. PICK x \in R \ G : p = PartOf(r, t, M, x)  BY DEF PartsOf
    <3>2. p \in P  BY <1>4, <3>1 DEF PartsOf
    <3>3. p \notin PartsOf(r, t, M, G)
      <4> SUFFICES ASSUME p \in PartsOf(r, t, M, G)  PROVE FALSE
        OBVIOUS
      <4>1. PICK y \in G : p = PartOf(r, t, M, y)  BY DEF PartsOf
      <4> QED  BY <2>1, <3>1, <4>1
    <3> QED  BY <3>2, <3>3
  <2> QED  BY <2>2, <2>3
<1>13. PartsOf(u, v, M, RootSet(u, M))
         = PartsOf(r, t, M, R \ G) \cup {PartOf(u, v, M, c)}
  <2>1. PartsOf(u, v, M, R \ G) = PartsOf(r, t, M, R \ G)  BY <1>10 DEF PartsOf
  <2>2. PartsOf(u, v, M, (R \ G) \cup {c})
          = PartsOf(u, v, M, R \ G) \cup {PartOf(u, v, M, c)}
    BY DEF PartsOf
  <2> QED  BY <1>9, <2>1, <2>2
<1> QED  BY <1>3, <1>4, <1>7, <1>11, <1>12, <1>13

(***************************************************************************)
(* The abstraction                                                         *)
(***************************************************************************)

\* Parts and InData, of any forest, UF objects and vector.
PartsIn(f, p) ==
  LET root == Roots(f.parent)
      At   == [n \in DOMAIN p |-> root[p[n]]]
  IN  {[ufs |-> {m \in DOMAIN p : At[m] = r}, total |-> f.t[r]] :
         r \in {At[n] : n \in DOMAIN p}}

DataIn(f, p, d) ==
  LET root == Roots(f.parent)
      held == {root[n] : n \in ToSet(d)}
  IN  {m \in DOMAIN p : root[p[m]] \in held}

\* By the invariant, what UF objects point to can be left out of them.
LEMMA AbsFacts ==
  ASSUME NEW f, NEW p, NEW d, Sound(f, p, d), NEW M, M = DOMAIN p,
         NEW r, r = Roots(f.parent)
  PROVE  /\ Rooted(r, M) /\ f.t \in [Addr -> Nat]
         /\ PartsIn(f, p) = PartsOf(r, f.t, M, RootSet(r, M))
         /\ DataIn(f, p, d) = HeldBy(r, M, RootSet(r, ToSet(d)))
         /\ ToSet(d) \in SUBSET M
<1>1. /\ r \in [Addr -> Addr] /\ M \in SUBSET Addr
      /\ \A n \in Addr : r[r[n]] = r[n]
      /\ \A n \in M : r[n] \in M /\ p[n] \in M /\ r[p[n]] = r[n]
  BY SoundRoots
<1>2. Rooted(r, M)  BY <1>1 DEF Rooted
<1>3. f.t \in [Addr -> Nat]  BY DEF Sound, ForestOK
<1>4. ToSet(d) \in SUBSET M  BY DEF Sound, ToSet
<1>5. DataIn(f, p, d) = HeldBy(r, M, RootSet(r, ToSet(d)))
  <2>1. DataIn(f, p, d) = {m \in M : r[p[m]] \in RootSet(r, ToSet(d))}
    BY DEF DataIn, RootSet
  <2> QED  BY <1>1, <2>1 DEF HeldBy
<1>6. PartsIn(f, p) = PartsOf(r, f.t, M, RootSet(r, M))
  <2>1. PICK A : A = [n \in M |-> r[p[n]]]  OBVIOUS
  <2>2. A = [n \in M |-> r[n]]  BY <1>1, <2>1
  <2>3. PartsIn(f, p) = {[ufs |-> {m \in M : A[m] = x}, total |-> f.t[x]] :
                            x \in {A[n] : n \in M}}
    BY <2>1 DEF PartsIn
  <2>4. {A[n] : n \in M} = RootSet(r, M)  BY <2>2 DEF RootSet
  <2>5. \A x : {m \in M : A[m] = x} = {m \in M : r[m] = x}  BY <2>2
  <2>6. \A x : [ufs |-> {m \in M : A[m] = x}, total |-> f.t[x]] = PartOf(r, f.t, M, x)
    BY <2>5 DEF PartOf
  <2>7. PICK X : X = RootSet(r, M)  OBVIOUS
  <2>8. PartsIn(f, p) = {[ufs |-> {m \in M : A[m] = x}, total |-> f.t[x]] : x \in X}
    BY <2>3, <2>4, <2>7
  <2>9. {[ufs |-> {m \in M : A[m] = x}, total |-> f.t[x]] : x \in X}
          = {PartOf(r, f.t, M, x) : x \in X}
    <3> DEFINE Rec(x) == [ufs |-> {m \in M : A[m] = x}, total |-> f.t[x]]
    <3>1. \A x : Rec(x) = PartOf(r, f.t, M, x)  BY <2>6
    <3> HIDE DEF Rec
    <3>2. {Rec(x) : x \in X} = {PartOf(r, f.t, M, x) : x \in X}  BY <3>1
    <3> QED  BY <3>2 DEF Rec
  <2> QED  BY <2>7, <2>8, <2>9 DEF PartsOf
<1> QED  BY <1>2, <1>3, <1>4, <1>5, <1>6

\* What the sum of different roots is.
SumOver(t, s) == FoldLeft(LAMBDA a, n : a + t[n], 0, s)

LEMMA SumFold ==
  ASSUME NEW r, NEW M, Rooted(r, M), NEW t \in [Addr -> Nat],
         NEW s \in Seq(Addr), NoDouble(s), ToSet(s) \in SUBSET RootSet(r, M)
  PROVE  SumOver(t, s) = cp!Total(PartsOf(r, t, M, ToSet(s)))
<1> DEFINE E(g) == g = [T \in SUBSET DOMAIN s |->
                          IF T = {} THEN 0 ELSE g[T \ {Max(T)}] + t[s[Max(T)]]]
<1>1. SumOver(t, s) = (CHOOSE g : E(g))[DOMAIN s]
  BY DEF SumOver, FoldLeft, MapThenFoldSet
<1>2. PICK n : n = Len(s)  OBVIOUS
<1>3. n \in Nat /\ DOMAIN s = 1..n /\ s \in [1..n -> Addr]  BY <1>2, LenProperties
<1>4. PICK h : h = [x \in Nat \X (1..n) |-> x[1] + t[s[x[2]]]]  OBVIOUS
<1>5. h \in [Nat \X (1..n) -> Nat]
  <2>1. \A x \in Nat \X (1..n) : x[1] + t[s[x[2]]] \in Nat
    <3> SUFFICES ASSUME NEW x \in Nat \X (1..n)
                 PROVE  x[1] + t[s[x[2]]] \in Nat
      OBVIOUS
    <3>1. x[1] \in Nat /\ t[s[x[2]]] \in Nat  BY <1>3
    <3> QED  BY <3>1
  <2> QED  BY <1>4, <2>1
<1>6. PICK g \in [SUBSET (1..n) -> Nat] : IsFold(g, n, 0, h)
  BY <1>3, <1>5, FoldExists
<1>7. E(g)
  <2>1. ASSUME NEW T \in SUBSET (1..n), T # {}
        PROVE  g[T] = g[T \ {Max(T)}] + t[s[Max(T)]]
    <3>1. Max(T) \in 1..n  BY <1>3, <2>1, MaxFacts
    <3>2. g[T \ {Max(T)}] \in Nat  OBVIOUS
    <3>3. g[T] = h[<<g[T \ {Max(T)}], Max(T)>>]  BY <1>6, <2>1 DEF IsFold
    <3> QED  BY <1>4, <3>1, <3>2, <3>3
  <2>2. g[{}] = 0  BY <1>6 DEF IsFold
  <2> QED  BY <1>3, <2>1, <2>2
<1>8. PICK c : c = (CHOOSE x : E(x))  OBVIOUS
<1>9. E(c)  BY <1>7, <1>8
<1>10. PICK J : J = [k \in 0..n |-> c[1..k]]  OBVIOUS
<1>11. J[0] = 0
  <2>1. 1..0 = {} /\ 0 \in 0..n  BY <1>3, UpToMax
  <2>2. c[{}] = 0  BY <1>9
  <2> HIDE DEF E
  <2> QED  BY <1>10, <2>1, <2>2
<1>12. ASSUME NEW k \in 1..n
       PROVE  J[k] = J[k - 1] + t[s[k]]
  <2>1. 1..k \in SUBSET (1..n) /\ 1..k # {} /\ Max(1..k) = k
        /\ (1..k) \ {k} = 1..(k - 1)
    BY <1>3, UpToMax
  <2>2. c[1..k] = c[(1..k) \ {Max(1..k)}] + t[s[Max(1..k)]]
    BY <1>3, <1>9, <2>1
  <2>3. k \in 0..n /\ k - 1 \in 0..n  BY <1>3, UpToMax
  <2> HIDE DEF E
  <2> QED  BY <1>10, <2>1, <2>2, <2>3
<1>13. SumOver(t, s) = J[n]
  <2>1. n \in 0..n  BY <1>3, UpToMax
  <2> HIDE DEF E
  <2> QED  BY <1>1, <1>3, <1>8, <1>10, <2>1
<1> HIDE DEF E
<1> DEFINE In(k) == {s[i] : i \in 1..k}
           Good(k) == J[k] = cp!Total(PartsOf(r, t, M, In(k)))
           G == {k \in 0..n : Good(k)}
<1>14. 0 \in G
  <2>1. 1..0 = {} /\ 0 \in 0..n  BY <1>3, UpToMax
  <2>2. PartsOf(r, t, M, In(0)) = {}  BY <2>1 DEF PartsOf
  <2>3. cp!Total({}) = 0  BY TotalStep
  <2>4. Good(0)  BY <1>11, <2>2, <2>3
  <2> HIDE DEF Good
  <2> QED  BY <2>1, <2>4
<1>15. ASSUME NEW k \in 1..n, k - 1 \in G
       PROVE  k \in G
  <2>1. Good(k - 1) /\ k \in 0..n  BY <1>3, <1>15, UpToMax
  <2>2. /\ 1..k = (1..(k - 1)) \cup {k} /\ k \notin 1..(k - 1)
        /\ 1..(k - 1) \in SUBSET (1..n)
    <3>1. k \in Nat /\ k \in 1..k /\ (1..k) \ {k} = 1..(k - 1)
          /\ 1..k \in SUBSET (1..n)
      BY <1>3, UpToMax
    <3> QED  BY <3>1
  <2>3. PICK X : X = In(k - 1)  OBVIOUS
  <2>4. In(k) = X \cup {s[k]}  BY <2>2, <2>3
  <2>5. X \in SUBSET RootSet(r, M) /\ s[k] \in RootSet(r, M)
    <3>1. \A i \in 1..n : s[i] \in RootSet(r, M)  BY <1>3 DEF ToSet
    <3> QED  BY <2>2, <2>3, <3>1
  <2>6. s[k] \notin X  BY <1>3, <2>2, <2>3 DEF NoDouble
  <2>7. PICK x : x = s[k]  OBVIOUS
  <2>8. cp!Total(PartsOf(r, t, M, X \cup {x})) = cp!Total(PartsOf(r, t, M, X)) + t[x]
    BY <2>5, <2>6, <2>7, PartsTotal
  <2>9. Good(k)  BY <1>12, <2>1, <2>3, <2>4, <2>7, <2>8
  <2> HIDE DEF Good
  <2> QED  BY <2>1, <2>9
<1>16. G = 0..n
  <2> HIDE DEF Good
  <2>1. G \in SUBSET (0..n)  OBVIOUS
  <2> HIDE DEF G
  <2>2. \A k \in 1..n : k - 1 \in G => k \in G  BY <1>15
  <2> QED  BY <1>3, <1>14, <2>1, <2>2, UpTo
<1>17. Good(n)
  <2> HIDE DEF Good
  <2>1. n \in 0..n  BY <1>3, UpToMax
  <2> QED  BY <1>16, <2>1
<1>18. In(n) = ToSet(s)  BY <1>3 DEF ToSet
<1> QED  BY <1>13, <1>17, <1>18

(***************************************************************************)
(* Steps keep what is promised                                             *)
(***************************************************************************)

\* The roots in a vector.
RootsIn(r, d) == {r[d[k]] : k \in 1..Len(d)}

LEMMA RootsInFacts ==
  ASSUME NEW S, NEW d \in Seq(S), NEW r
  PROVE  RootSet(r, ToSet(d)) = RootsIn(r, d)
<1>1. DOMAIN d = 1..Len(d)  BY LenProperties
<1> QED  BY <1>1 DEF RootSet, RootsIn, ToSet

\* A turn of fixup leaves the same roots in the vector: it swaps two places, or
\* drops one of two that have the same root, or only compares.
LEMMA FixupRoots ==
  ASSUME UFInv, InLoop, NEW up, up = Above(turn), NEW c, c = Compared(turn, up),
         NEW r, r = Roots(forest.parent)
  PROVE  /\ RootsIn(r, c) = RootsIn(r, data)
         /\ RootsIn(r, Swapped(c, turn, up)) = RootsIn(r, data)
         /\ r[data[turn]] = r[data[up]] =>
              RootsIn(r, Front(Swapped(c, turn, Len(data)))) = RootsIn(r, data)
<1>1. PICK t : t = turn  OBVIOUS
<1>2. PICK n : n = Len(data)  OBVIOUS
<1>3. PICK d : d = data  OBVIOUS
<1>4. /\ t \in 1..n /\ up \in 1..n /\ t # up /\ n \in Nat /\ n \in 1..n /\ up < n
      /\ t \in Nat /\ up \in Nat /\ d \in Seq(Made)
  <2>1. /\ t \in 1..n /\ up \in 1..n /\ up < t /\ up \in Nat /\ t \in Nat /\ n \in Nat
        /\ d \in Seq(Made)
    BY <1>1, <1>2, <1>3, LoopPlaces
  <2> QED  BY <2>1
<1>5. \A k \in Addr : r[r[k]] = r[k]  BY SoundRoots DEF UFInv
<1>6. Made \in SUBSET Addr  BY SoundRoots DEF UFInv, Made
<1>7. \A k \in 1..n : d[k] \in Addr /\ r[r[d[k]]] = r[d[k]]  BY <1>2, <1>3, <1>4, <1>5, <1>6
<1>8. /\ c \in Seq(Made) /\ Len(c) = n
      /\ c[t] = r[d[t]] /\ c[up] = r[d[up]]
      /\ \A k \in 1..n : k # t /\ k # up => c[k] = d[k]
  BY <1>1, <1>2, <1>3, <1>4, ComparedFacts
<1>9. \A k \in 1..n : r[c[k]] = r[d[k]]  BY <1>4, <1>7, <1>8
<1>10. RootsIn(r, d) = {r[d[k]] : k \in 1..n}  BY <1>2, <1>3 DEF RootsIn
<1>11. RootsIn(r, c) = RootsIn(r, d)
  <2>1. RootsIn(r, c) = {r[c[k]] : k \in 1..n}  BY <1>8 DEF RootsIn
  <2> QED  BY <1>9, <1>10, <2>1
<1>12. RootsIn(r, Swapped(c, t, up)) = RootsIn(r, d)
  <2>1. PICK e : e = Swapped(c, t, up)  OBVIOUS
  <2>2. /\ Len(e) = n /\ e[t] = c[up] /\ e[up] = c[t]
        /\ \A k \in 1..n : k # t /\ k # up => e[k] = c[k]
    <3>1. t \in 1..Len(c) /\ up \in 1..Len(c) /\ c \in Seq(Made)  BY <1>4, <1>8
    <3>2. Exchanged(c, t, up, e)  BY <2>1, <3>1, SwappedFacts
    <3> QED  BY <1>8, <3>2 DEF Exchanged
  <2>3. RootsIn(r, e) = {r[e[k]] : k \in 1..n}  BY <2>2 DEF RootsIn
  <2>4. ASSUME NEW k \in 1..n  PROVE r[e[k]] \in RootsIn(r, d)
    <3>1. CASE k = t  BY <1>4, <1>9, <1>10, <2>2, <3>1
    <3>2. CASE k = up  BY <1>4, <1>9, <1>10, <2>2, <3>2
    <3>3. CASE k # t /\ k # up  BY <1>9, <1>10, <2>2, <3>3
    <3> QED  BY <3>1, <3>2, <3>3
  <2>5. ASSUME NEW k \in 1..n  PROVE r[d[k]] \in RootsIn(r, e)
    <3>1. CASE k = t  BY <1>4, <1>9, <2>2, <2>3, <3>1
    <3>2. CASE k = up  BY <1>4, <1>9, <2>2, <2>3, <3>2
    <3>3. CASE k # t /\ k # up  BY <1>9, <2>2, <2>3, <3>3
    <3> QED  BY <3>1, <3>2, <3>3
  <2>6. RootsIn(r, e) = RootsIn(r, d)  BY <1>10, <2>3, <2>4, <2>5
  <2> QED  BY <2>1, <2>6
<1>13. ASSUME r[d[t]] = r[d[up]]
       PROVE  RootsIn(r, Front(Swapped(c, t, n))) = RootsIn(r, d)
  <2>1. PICK e : e = Swapped(c, t, n)  OBVIOUS
  <2>2. /\ e \in Seq(Made) /\ Len(e) = n /\ e[t] = c[n] /\ e[n] = c[t]
        /\ \A k \in 1..n : k # t /\ k # n => e[k] = c[k]
    <3>1. n \in 1..Len(c) /\ t \in 1..Len(c) /\ c \in Seq(Made)  BY <1>4, <1>8
    <3>2. e \in Seq(Made) /\ Exchanged(c, t, n, e)  BY <2>1, <3>1, SwappedFacts
    <3> QED  BY <1>8, <3>2 DEF Exchanged
  <2>3. e # <<>>  BY <1>4, <2>2
  <2>4. PICK b : b = Front(e)  OBVIOUS
  <2>5. PICK m : m = n - 1  OBVIOUS
  <2>6. /\ Len(b) = m /\ \A k \in 1..m : b[k] = e[k]
    BY <2>2, <2>3, <2>4, <2>5, FrontFacts
  <2>7. /\ \A k \in 1..m : k \in 1..n /\ k # n
        /\ \A k \in 1..n : k # n => k \in 1..m
        /\ up \in 1..m
    BY <1>4, <2>5
  <2>8. RootsIn(r, b) = {r[e[k]] : k \in 1..m}
    <3>1. RootsIn(r, b) = {r[b[k]] : k \in 1..m}  BY <2>6 DEF RootsIn
    <3> QED  BY <2>6, <3>1
  <2>9. ASSUME NEW k \in 1..m  PROVE r[e[k]] \in RootsIn(r, d)
    <3>1. k \in 1..n /\ k # n  BY <2>7
    <3>2. CASE k = t  BY <1>4, <1>9, <1>10, <2>2, <3>2
    <3>3. CASE k # t  BY <1>9, <1>10, <2>2, <3>1, <3>3
    <3> QED  BY <3>2, <3>3
  <2>10. r[d[up]] \in RootsIn(r, b)
    <3>1. e[up] = c[up]  BY <1>4, <2>2, <2>7
    <3> QED  BY <1>4, <1>9, <2>7, <2>8, <3>1
  <2>11. ASSUME NEW k \in 1..n  PROVE r[d[k]] \in RootsIn(r, b)
    <3>1. CASE k = t  BY <1>13, <2>10, <3>1
    <3>2. CASE k # t /\ k # n
      <4>1. k \in 1..m /\ e[k] = c[k]  BY <2>2, <2>7, <3>2
      <4> QED  BY <1>9, <2>8, <4>1
    <3>3. CASE k # t /\ k = n
      <4>1. t \in 1..m /\ e[t] = c[n]  BY <1>4, <2>2, <2>7, <3>3
      <4> QED  BY <1>9, <2>8, <3>3, <4>1
    <3> QED  BY <3>1, <3>2, <3>3
  <2>12. RootsIn(r, b) = RootsIn(r, d)  BY <1>10, <2>8, <2>9, <2>11
  <2> QED  BY <2>1, <2>4, <2>12
<1> QED  BY <1>1, <1>2, <1>3, <1>11, <1>12, <1>13

\* Path compression changes no part, and no member if the vector has the same roots.
LEMMA CompressAbs ==
  ASSUME NEW f, NEW p, NEW d, Sound(f, p, d), NEW g, NEW q, NEW e, Sound(g, q, e),
         DOMAIN q = DOMAIN p, g.t = f.t, Roots(g.parent) = Roots(f.parent)
  PROVE  /\ PartsIn(g, q) = PartsIn(f, p)
         /\ RootsIn(Roots(f.parent), e) = RootsIn(Roots(f.parent), d)
              => DataIn(g, q, e) = DataIn(f, p, d)
<1>1. PICK M : M = DOMAIN p  OBVIOUS
<1>2. PICK r : r = Roots(f.parent)  OBVIOUS
<1>3. /\ PartsIn(f, p) = PartsOf(r, f.t, M, RootSet(r, M))
      /\ DataIn(f, p, d) = HeldBy(r, M, RootSet(r, ToSet(d)))
  BY <1>1, <1>2, AbsFacts
<1>4. /\ PartsIn(g, q) = PartsOf(r, g.t, M, RootSet(r, M))
      /\ DataIn(g, q, e) = HeldBy(r, M, RootSet(r, ToSet(e)))
  BY <1>1, <1>2, AbsFacts
<1>5. d \in Seq(M) /\ e \in Seq(M)  BY <1>1 DEF Sound
<1>6. RootSet(r, ToSet(d)) = RootsIn(r, d) /\ RootSet(r, ToSet(e)) = RootsIn(r, e)
  BY <1>5, RootsInFacts
<1> QED  BY <1>2, <1>3, <1>4, <1>6

\* What the refinement mapping reads, now and after a step.
LEMMA MappedNow ==
  Parts = PartsIn(forest, ptr) /\ InData = DataIn(forest, ptr, data)
BY DEF Parts, InData, PartsIn, DataIn, Made

LEMMA MappedThen ==
  Parts' = PartsIn(forest', ptr') /\ InData' = DataIn(forest', ptr', data')
BY DEF Parts, InData, PartsIn, DataIn, Made

\* A cost that is made is a part of its own.
LEMMA MakeAbs ==
  ASSUME UFInv, NEW n \in Addr, Make(n)
  PROVE  cp!Create(n)
<1>1. PICK f : f = forest  OBVIOUS
<1>2. PICK p : p = ptr  OBVIOUS
<1>3. PICK d : d = data  OBVIOUS
<1>4. PICK g : g = forest'  OBVIOUS
<1>5. PICK q : q = ptr'  OBVIOUS
<1>6. PICK M : M = DOMAIN p  OBVIOUS
<1>7. PICK N : N = M \cup {n}  OBVIOUS
<1>8. PICK r : r = Roots(f.parent)  OBVIOUS
<1>9. /\ Sound(f, p, d) /\ n \in Addr \ M /\ g = WithPrice(f, n)
      /\ q = WithNew(p, n) /\ data' = d /\ result' = 0
  BY <1>1, <1>2, <1>3, <1>4, <1>5, <1>6 DEF UFInv, Make, WithPrice, WithNew, Made
<1>10. /\ Sound(g, q, d) /\ DOMAIN q = N /\ Roots(g.parent) = r
       /\ g.t = [f.t EXCEPT ![n] = Price(n)]
  <2>1. n \in Addr \ DOMAIN p  BY <1>6, <1>9
  <2>2. Sound(g, q, d) /\ DOMAIN q = DOMAIN p \cup {n}
        /\ g.parent = f.parent /\ g.t = [f.t EXCEPT ![n] = Price(n)]
    BY <1>9, <2>1, MakeSound
  <2> QED  BY <1>6, <1>7, <1>8, <2>2
<1>11. PICK t : t = f.t  OBVIOUS
<1>12. PICK v : v = g.t  OBVIOUS
<1>13. /\ Rooted(r, M) /\ t \in [Addr -> Nat] /\ ToSet(d) \in SUBSET M
       /\ PartsIn(f, p) = PartsOf(r, t, M, RootSet(r, M))
       /\ DataIn(f, p, d) = HeldBy(r, M, RootSet(r, ToSet(d)))
  BY <1>6, <1>8, <1>9, <1>11, AbsFacts
<1>14. /\ PartsIn(g, q) = PartsOf(r, v, N, RootSet(r, N))
       /\ DataIn(g, q, d) = HeldBy(r, N, RootSet(r, ToSet(d)))
  BY <1>10, <1>12, AbsFacts
<1>15. /\ r[n] = n /\ n \notin M /\ \A m \in M : r[m] \in M /\ r[m] # n
  BY <1>6, <1>8, <1>9, SoundRoots
<1>16. v = [t EXCEPT ![n] = Price(n)]  BY <1>10, <1>11, <1>12
<1>17. v[n] = Price(n) /\ \A x \in M : v[x] = t[x]  BY <1>9, <1>13, <1>16 DEF Rooted
<1>18. RootSet(r, N) = RootSet(r, M) \cup {n} /\ \A x \in RootSet(r, M) : x \in M
  BY <1>7, <1>15 DEF RootSet
<1>19. ASSUME NEW x \in RootSet(r, M)  PROVE PartOf(r, v, N, x) = PartOf(r, t, M, x)
  <2>1. x \in M /\ x # n  BY <1>15, <1>18
  <2>2. {m \in N : r[m] = x} = {m \in M : r[m] = x}  BY <1>7, <1>15, <2>1
  <2> QED  BY <1>17, <2>1, <2>2 DEF PartOf
<1>20. PartOf(r, v, N, n) = [ufs |-> {n}, total |-> Price(n)]
  <2>1. {m \in N : r[m] = n} = {n}  BY <1>7, <1>15
  <2> QED  BY <1>17, <2>1 DEF PartOf
<1>21. PartsIn(g, q) = PartsIn(f, p) \cup {[ufs |-> {n}, total |-> Price(n)]}
  <2>1. PartsOf(r, v, N, RootSet(r, M)) = PartsOf(r, t, M, RootSet(r, M))
    BY <1>19 DEF PartsOf
  <2>2. PartsOf(r, v, N, RootSet(r, M) \cup {n})
          = PartsOf(r, v, N, RootSet(r, M)) \cup {PartOf(r, v, N, n)}
    BY DEF PartsOf
  <2> QED  BY <1>13, <1>14, <1>18, <1>20, <2>1, <2>2
<1>22. DataIn(g, q, d) = DataIn(f, p, d)
  <2>1. n \notin RootSet(r, ToSet(d))  BY <1>13, <1>15 DEF RootSet
  <2> QED  BY <1>7, <1>13, <1>14, <1>15, <2>1 DEF HeldBy
<1>23. cp!Names(PartsIn(f, p)) = M  BY <1>13, AllParts
<1>24. /\ Parts = PartsIn(f, p) /\ InData = DataIn(f, p, d)
       /\ Parts' = PartsIn(g, q) /\ InData' = DataIn(g, q, d)
  BY <1>1, <1>2, <1>3, <1>4, <1>5, <1>9, MappedNow, MappedThen
<1> QED  BY <1>9, <1>21, <1>22, <1>23, <1>24 DEF cp!Create

\* Names that are held come to the roots that what holds them comes to.
LEMMA HeldRoots ==
  ASSUME NEW r, NEW u, NEW M, NEW D \in SUBSET M,
         \A x, y \in M : r[x] = r[y] => u[x] = u[y]
  PROVE  RootSet(u, HeldBy(r, M, RootSet(r, D))) = RootSet(u, D)
<1>1. PICK H : H = HeldBy(r, M, RootSet(r, D))  OBVIOUS
<1>2. ASSUME NEW h \in H  PROVE u[h] \in RootSet(u, D)
  <2>1. PICK x \in D : h \in M /\ r[h] = r[x]  BY <1>1 DEF HeldBy, RootSet
  <2> QED  BY <2>1 DEF RootSet
<1>3. \A x \in D : x \in H  BY <1>1 DEF HeldBy, RootSet
<1>4. RootSet(u, H) = RootSet(u, D)  BY <1>2, <1>3 DEF RootSet
<1> QED  BY <1>1, <1>4

\* merge throws two parts together.
LEMMA MergeAbs ==
  ASSUME UFInv, UFInv', NEW m \in Made, NEW n \in Made, merge(m, n)
  PROVE  m # n /\ cp!Join({m, n})
<1>1. PICK f : f = forest  OBVIOUS
<1>2. PICK p : p = ptr  OBVIOUS
<1>3. PICK d : d = data  OBVIOUS
<1>4. PICK g : g = forest'  OBVIOUS
<1>5. PICK q : q = ptr'  OBVIOUS
<1>6. PICK M : M = DOMAIN p  OBVIOUS
<1>7. PICK r : r = Roots(f.parent)  OBVIOUS
<1>8. PICK u : u = Roots(g.parent)  OBVIOUS
<1>9. PICK t : t = f.t  OBVIOUS
<1>10. PICK v : v = g.t  OBVIOUS
<1>11. PICK a : a = p[m]  OBVIOUS
<1>12. PICK b : b = p[n]  OBVIOUS
<1>13. /\ Sound(f, p, d) /\ Sound(g, q, d) /\ g = Merged(f, a, b)
       /\ data' = d /\ result' = 0 /\ m # n /\ DOMAIN q = M
       /\ m \in M /\ n \in M
  <2>1. Sound(forest', ptr', data') /\ Sound(f, p, d)
    BY <1>1, <1>2, <1>3 DEF UFInv
  <2>2. DOMAIN ptr' = DOMAIN ptr  BY DEF merge
  <2> QED
    BY <1>1, <1>2, <1>3, <1>4, <1>5, <1>6, <1>11, <1>12, <2>1, <2>2 DEF merge, Made
<1>14. /\ Rooted(r, M) /\ t \in [Addr -> Nat] /\ ToSet(d) \in SUBSET M
       /\ PartsIn(f, p) = PartsOf(r, t, M, RootSet(r, M))
       /\ DataIn(f, p, d) = HeldBy(r, M, RootSet(r, ToSet(d)))
  BY <1>6, <1>7, <1>9, <1>13, AbsFacts
<1>15. /\ Rooted(u, M) /\ v \in [Addr -> Nat]
       /\ PartsIn(g, q) = PartsOf(u, v, M, RootSet(u, M))
       /\ DataIn(g, q, d) = HeldBy(u, M, RootSet(u, ToSet(d)))
  BY <1>8, <1>10, <1>13, AbsFacts
<1>16. /\ a \in M /\ b \in M /\ r[a] = r[m] /\ r[b] = r[n] /\ M \in SUBSET Addr
  BY <1>6, <1>7, <1>11, <1>12, <1>13, SoundRoots
<1>17. ForestOK(f) /\ ForestOK(g)  BY <1>13 DEF Sound
<1>18. PICK c \in Addr : Merges(f, g, a, b, c)
  BY <1>13, <1>16, <1>17, MergedFacts
<1>19. Gathers(r, t, M, {r[b]}, r, t, r[b])  BY <1>14, <1>16, GatherFirst
<1>20. Gathers(r, t, M, {r[b]} \cup {r[a]}, u, v, c)
  BY <1>7, <1>8, <1>9, <1>10, <1>14, <1>16, <1>17, <1>18, <1>19, GatherStep
<1>21. PICK S \in SUBSET M : S = {m, n}  BY <1>13
<1>22. {r[b]} \cup {r[a]} = RootSet(r, S)  BY <1>16, <1>21 DEF RootSet
<1>23. PartsIn(g, q) = cp!Joined(PartsIn(f, p), S)
  <2>1. Gathers(r, t, M, RootSet(r, S), u, v, c)  BY <1>20, <1>22
  <2>2. PartsOf(u, v, M, RootSet(u, M)) = cp!Joined(PartsOf(r, t, M, RootSet(r, M)), S)
    BY <1>14, <2>1, GatherJoins
  <2> QED  BY <1>14, <1>15, <2>2
<1>24. \A x, y \in M : r[x] = r[y] => u[x] = u[y]  BY <1>16, <1>20 DEF Gathers
<1>25. PICK H : H = HeldBy(r, M, RootSet(r, ToSet(d)))  OBVIOUS
<1>26. H \in SUBSET M  BY <1>25 DEF HeldBy
<1>27. RootSet(u, H) = RootSet(u, ToSet(d))  BY <1>14, <1>24, <1>25, HeldRoots
<1>28. cp!Closure(PartsIn(g, q), H) = HeldBy(u, M, RootSet(u, H))
  BY <1>15, <1>26, AllParts
<1>29. DataIn(g, q, d) = cp!Closure(PartsIn(g, q), DataIn(f, p, d))
  BY <1>14, <1>15, <1>25, <1>27, <1>28
<1>30. /\ Parts = PartsIn(f, p) /\ InData = DataIn(f, p, d)
       /\ Parts' = PartsIn(g, q) /\ InData' = DataIn(g, q, d)
  BY <1>1, <1>2, <1>3, <1>4, <1>5, <1>13, MappedNow, MappedThen
<1> QED  BY <1>13, <1>21, <1>23, <1>29, <1>30 DEF cp!Join

\* value answers the cost of the whole part and changes none.
LEMMA ValueAbs ==
  ASSUME UFInv, UFInv', NEW n \in Made, value(n)
  PROVE  cp!Read(n)
<1>1. PICK f : f = forest  OBVIOUS
<1>2. PICK p : p = ptr  OBVIOUS
<1>3. PICK d : d = data  OBVIOUS
<1>4. PICK g : g = forest'  OBVIOUS
<1>5. PICK q : q = ptr'  OBVIOUS
<1>6. PICK M : M = DOMAIN p  OBVIOUS
<1>7. PICK r : r = Roots(f.parent)  OBVIOUS
<1>8. PICK t : t = f.t  OBVIOUS
<1>9. /\ Sound(f, p, d) /\ n \in M /\ data' = d /\ result' = t[r[p[n]]]
      /\ g = Compressed(f, {p[n]}) /\ q = [p EXCEPT ![n] = r[p[n]]]
  BY <1>1, <1>2, <1>3, <1>4, <1>5, <1>6, <1>7, <1>8 DEF UFInv, value, Root, Made
<1>10. /\ \A k \in M : p[k] \in M /\ r[p[k]] = r[k]
  BY <1>6, <1>7, <1>9, SoundRoots
<1>11. /\ {p[n]} \in SUBSET DOMAIN p /\ d \in Seq(DOMAIN p)
       /\ Rises(f, p, q)
  BY <1>6, <1>7, <1>9, <1>10 DEF Sound, Rises
<1>12. /\ Sound(g, q, d) /\ DOMAIN q = DOMAIN p
       /\ g.t = f.t /\ Roots(g.parent) = Roots(f.parent)
  BY <1>9, <1>11, CompressSound
<1>13. PartsIn(g, q) = PartsIn(f, p) /\ DataIn(g, q, d) = DataIn(f, p, d)
  <2>0. Sound(f, p, d)  BY <1>9
  <2>1. PartsIn(g, q) = PartsIn(f, p)  BY <1>12, <2>0, CompressAbs
  <2>2. DataIn(g, q, d) = DataIn(f, p, d)  BY <1>12, <2>0, CompressAbs
  <2> QED  BY <2>1, <2>2
<1>14. /\ Rooted(r, M) /\ t \in [Addr -> Nat]
       /\ PartsIn(f, p) = PartsOf(r, t, M, RootSet(r, M))
  BY <1>6, <1>7, <1>8, <1>9, AbsFacts
<1>15. cp!Part(PartsIn(f, p), n) = PartOf(r, t, M, r[n])  BY <1>9, <1>14, AllParts
<1>16. cp!Part(PartsIn(f, p), n).total = t[r[n]]  BY <1>15 DEF PartOf
<1>17. /\ Parts = PartsIn(f, p) /\ InData = DataIn(f, p, d)
       /\ Parts' = PartsIn(g, q) /\ InData' = DataIn(g, q, d)
  BY <1>1, <1>2, <1>3, <1>4, <1>5, <1>9, MappedNow, MappedThen
<1>18. result' = t[r[n]]  BY <1>9, <1>10
<1> QED  BY <1>13, <1>16, <1>17, <1>18 DEF cp!Read

\* insert adds the part of n to the set.
LEMMA InsertAbs ==
  ASSUME UFInv, UFInv', NEW n \in Made, insert(n)
  PROVE  cp!Add(n)
<1>1. PICK f : f = forest  OBVIOUS
<1>2. PICK p : p = ptr  OBVIOUS
<1>3. PICK d : d = data  OBVIOUS
<1>4. PICK e : e = data'  OBVIOUS
<1>5. PICK M : M = DOMAIN p  OBVIOUS
<1>6. PICK r : r = Roots(f.parent)  OBVIOUS
<1>7. PICK t : t = f.t  OBVIOUS
<1>8. PICK a : a = p[n]  OBVIOUS
<1>9. /\ Sound(f, p, d) /\ Sound(f, p, e) /\ n \in M /\ e = Append(d, a)
      /\ result' = 0 /\ forest' = f /\ ptr' = p
  BY <1>1, <1>2, <1>3, <1>4, <1>5, <1>8 DEF UFInv, insert, Made
<1>10. a \in M /\ r[a] = r[n]  BY <1>5, <1>6, <1>8, <1>9, SoundRoots
<1>11. d \in Seq(M)  BY <1>5, <1>9 DEF Sound
<1>12. /\ Rooted(r, M) /\ t \in [Addr -> Nat]
       /\ PartsIn(f, p) = PartsOf(r, t, M, RootSet(r, M))
       /\ DataIn(f, p, d) = HeldBy(r, M, RootSet(r, ToSet(d)))
  BY <1>5, <1>6, <1>7, <1>9, AbsFacts
<1>13. DataIn(f, p, e) = HeldBy(r, M, RootSet(r, ToSet(e)))
  BY <1>5, <1>6, <1>9, AbsFacts
<1>14. RootSet(r, ToSet(e)) = RootSet(r, ToSet(d)) \cup {r[n]}
  <2>1. ToSet(e) = ToSet(d) \cup {a}  BY <1>9, <1>10, <1>11, ToSetAppend
  <2>2. RootSet(r, ToSet(d) \cup {a}) = RootSet(r, ToSet(d)) \cup {r[a]}
    BY DEF RootSet
  <2> QED  BY <1>10, <2>1, <2>2
<1>15. cp!Part(PartsIn(f, p), n) = PartOf(r, t, M, r[n])  BY <1>9, <1>12, AllParts
<1>16. cp!Part(PartsIn(f, p), n).ufs = {m \in M : r[m] = r[n]}  BY <1>15 DEF PartOf
<1>17. DataIn(f, p, e) = DataIn(f, p, d) \cup cp!Part(PartsIn(f, p), n).ufs
  BY <1>12, <1>13, <1>14, <1>16 DEF HeldBy
<1>18. /\ Parts = PartsIn(f, p) /\ InData = DataIn(f, p, d)
       /\ Parts' = PartsIn(f, p) /\ InData' = DataIn(f, p, e)
  BY <1>1, <1>2, <1>3, <1>4, <1>9, MappedNow, MappedThen
<1> QED  BY <1>9, <1>17, <1>18 DEF cp!Add

\* sum answers each member once, and lets go of what was counted elsewhere.
LEMMA SumAbs ==
  ASSUME UFInv, UFInv', NEW C \in SUBSET Made, sum(C)
  PROVE  cp!SumUp(C)
<1>1. PICK f : f = forest  OBVIOUS
<1>2. PICK p : p = ptr  OBVIOUS
<1>3. PICK d : d = data  OBVIOUS
<1>4. PICK g : g = forest'  OBVIOUS
<1>5. PICK e : e = data'  OBVIOUS
<1>6. PICK M : M = DOMAIN p  OBVIOUS
<1>7. PICK r : r = Roots(f.parent)  OBVIOUS
<1>8. PICK t : t = f.t  OBVIOUS
<1>9. PICK K : K = {r[p[k]] : k \in C}  OBVIOUS
<1>10. PICK S : S = ToSet(d) \cup {p[k] : k \in C}  OBVIOUS
<1>11. /\ Sound(f, p, d) /\ C \in SUBSET M /\ g = Compressed(f, S) /\ ptr' = p
  BY <1>1, <1>2, <1>3, <1>4, <1>6, <1>10 DEF UFInv, sum, Made
<1>12. e = FirstOfEach(data, K)
  BY <1>1, <1>2, <1>5, <1>7, <1>9 DEF sum, Root
<1>13. result' = SumOver(t, e)
  <2>1. result' = SumOver(forest.t, data')  BY DEF sum, SumOver
  <2> QED  BY <1>1, <1>5, <1>8, <2>1
<1>14. /\ \A k \in M : p[k] \in M /\ r[p[k]] = r[k] /\ k \in Addr /\ r[k] \in M
       /\ \A k \in Addr : r[r[k]] = r[k]
       /\ r \in [Addr -> Addr]
  BY <1>6, <1>7, <1>11, SoundRoots
<1>15. /\ Rooted(r, M) /\ t \in [Addr -> Nat] /\ ToSet(d) \in SUBSET M
       /\ PartsIn(f, p) = PartsOf(r, t, M, RootSet(r, M))
       /\ DataIn(f, p, d) = HeldBy(r, M, RootSet(r, ToSet(d)))
  BY <1>6, <1>7, <1>8, <1>11, AbsFacts
<1>16. e \in Seq(M) /\ NoDouble(e) /\ ToSet(e) = RootSet(r, ToSet(d)) \ K
  <2>1. /\ e \in Seq(Made) /\ NoDouble(e)
        /\ ToSet(e) = {r[m] : m \in ToSet(data)} \ K
    BY <1>1, <1>7, <1>12, SumData
  <2> QED  BY <1>2, <1>3, <1>6, <2>1 DEF RootSet, Made
<1>17. PICK X : X = ToSet(e)  OBVIOUS
<1>18. K = RootSet(r, C)  BY <1>9, <1>11, <1>14 DEF RootSet
<1>19. /\ X = RootSet(r, ToSet(d)) \ K /\ X \in SUBSET RootSet(r, M)
       /\ \A x \in X : r[x] = x /\ x \in M
  <2>1. X = RootSet(r, ToSet(d)) \ K  BY <1>16, <1>17
  <2>2. \A x \in RootSet(r, ToSet(d)) : x \in RootSet(r, M) /\ r[x] = x /\ x \in M
    BY <1>14, <1>15 DEF RootSet
  <2> QED  BY <2>1, <2>2
<1>20. RootSet(r, X) = X  BY <1>19 DEF RootSet
<1>21. S \in SUBSET DOMAIN p
  BY <1>6, <1>10, <1>11, <1>14, <1>15
<1>22. /\ Sound(g, p, e) /\ g.t = f.t /\ Roots(g.parent) = Roots(f.parent)
  <2>1. e \in Seq(DOMAIN p)  BY <1>6, <1>16
  <2>2. Rises(f, p, p)  BY DEF Rises
  <2> QED  BY <1>11, <1>21, <2>1, <2>2, CompressSound
<1>23. PartsIn(g, p) = PartsIn(f, p)  BY <1>11, <1>22, CompressAbs
<1>24. DataIn(g, p, e) = HeldBy(r, M, X)
  BY <1>6, <1>7, <1>17, <1>20, <1>22, AbsFacts
<1>25. cp!Closure(PartsIn(f, p), C) = HeldBy(r, M, K)  BY <1>11, <1>15, <1>18, AllParts
<1>26. DataIn(g, p, e) = DataIn(f, p, d) \ cp!Closure(PartsIn(f, p), C)
  BY <1>15, <1>19, <1>24, <1>25 DEF HeldBy
<1>27. RootSet(r, HeldBy(r, M, X)) = X
  <2>1. \A x \in X : x \in HeldBy(r, M, X)  BY <1>19 DEF HeldBy
  <2>2. \A m \in HeldBy(r, M, X) : r[m] \in X  BY DEF HeldBy
  <2> QED  BY <1>19, <2>1, <2>2 DEF RootSet
<1>28. cp!Meets(PartsIn(f, p), DataIn(g, p, e)) = PartsOf(r, t, M, X)
  <2>1. HeldBy(r, M, X) \in SUBSET M  BY DEF HeldBy
  <2>2. PICK H : H = HeldBy(r, M, X)  OBVIOUS
  <2>3. cp!Meets(PartsIn(f, p), H) = PartsOf(r, t, M, RootSet(r, H))
    BY <1>15, <2>1, <2>2, AllParts
  <2> QED  BY <1>24, <1>27, <2>2, <2>3
<1>29. SumOver(t, e) = cp!Total(PartsOf(r, t, M, X))
  <2>1. e \in Seq(Addr)
    <3>1. M \subseteq Addr  BY <1>15 DEF Rooted
    <3> QED  BY <1>16, <3>1, SeqGrows
  <2>2. ToSet(e) \in SUBSET RootSet(r, M)  BY <1>17, <1>19
  <2> QED  BY <1>15, <1>16, <1>17, <2>1, <2>2, SumFold
<1>30. /\ Parts = PartsIn(f, p) /\ InData = DataIn(f, p, d)
       /\ Parts' = PartsIn(g, p) /\ InData' = DataIn(g, p, e)
  BY <1>1, <1>2, <1>3, <1>4, <1>5, <1>11, MappedNow, MappedThen
<1> QED  BY <1>13, <1>23, <1>26, <1>28, <1>29, <1>30 DEF cp!SumUp

\* The roots that UFSet::merge has come to after k places.
RunRoots(r, w, s, k) == {r[w]} \cup {r[s[i]] : i \in 1..k}

\* The roots in G have come under one, in the forest of e.
Gathered(r, t, M, G, e) ==
  \E c : Gathers(r, t, M, G, Roots(e.forest.parent), e.forest.t, c)

\* One turn of the loop of UFSet::merge.
LEMMA TurnGathers ==
  ASSUME NEW r, NEW M, Rooted(r, M), NEW t \in [Addr -> Nat], NEW G,
         NEW e, Gathered(r, t, M, G, e), NEW d, NEW p, Sound(e.forest, p, d),
         M = DOMAIN p, e.with \in M, r[e.with] \in G,
         NEW m \in M, NEW a, a = MergeStep(e, m)
  PROVE  Gathered(r, t, M, G \cup {r[m]}, a)
<1>1. PICK h : h = e.forest  OBVIOUS
<1>2. PICK n : n = e.with  OBVIOUS
<1>3. PICK g : g = a.forest  OBVIOUS
<1>4. PICK u : u = Roots(h.parent)  OBVIOUS
<1>5. g = Merged(h, m, n)  BY <1>1, <1>2, <1>3 DEF MergeStep
<1>6. ForestOK(h) /\ M \in SUBSET Addr  BY <1>1 DEF Sound
<1>7. n \in M /\ n \in Addr /\ m \in Addr /\ r[n] \in G  BY <1>2, <1>6
<1>8. ForestOK(g) /\ \E b \in Addr : Merges(h, g, m, n, b)
  BY <1>5, <1>6, <1>7, MergedFacts
<1>9. PICK b \in Addr : Merges(h, g, m, n, b)  BY <1>8
<1>10. PICK c : Gathers(r, t, M, G, u, h.t, c)  BY <1>1, <1>4 DEF Gathered
<1>11. u[n] = c  BY <1>7, <1>10 DEF Gathers
<1>12. Gathers(r, t, M, G \cup {r[m]}, Roots(g.parent), g.t, b)
  BY <1>4, <1>6, <1>7, <1>8, <1>9, <1>10, <1>11, GatherStep
<1> QED  BY <1>3, <1>12 DEF Gathered

\* The loop of UFSet::merge brings what it comes to under one root.
LEMMA RunGathers ==
  ASSUME NEW f, NEW p, NEW d, Sound(f, p, d), NEW M, M = DOMAIN p, NEW w \in M,
         NEW s \in Seq(M), NEW J, IsMergeRun(J, f, w, s), NEW r, r = Roots(f.parent),
         NEW t, t = f.t, NEW n, n = Len(s)
  PROVE  Gathered(r, t, M, RunRoots(r, w, s, n), J[n])
<1>1. n \in Nat /\ DOMAIN s = 1..n  BY LenProperties
<1>2. Rooted(r, M) /\ t \in [Addr -> Nat]  BY AbsFacts
<1>3. \A k \in 0..n : /\ Sound(J[k].forest, p, d) /\ J[k].with \in M
                      /\ Roots(J[k].forest.parent)[J[k].with]
                           = Roots(J[k].forest.parent)[w]
  BY MergeRunSound
<1>4. J[0] = [forest |-> f, with |-> w]
      /\ \A k \in 1..n : J[k] = MergeStep(J[k - 1], s[k])
  BY DEF IsMergeRun
<1> DEFINE Good(k) == /\ Gathered(r, t, M, RunRoots(r, w, s, k), J[k])
                      /\ r[J[k].with] \in RunRoots(r, w, s, k)
           G == {k \in 0..n : Good(k)}
<1>6. 0 \in G
  <2>1. Gathers(r, t, M, {r[w]}, r, t, r[w])  BY <1>2, GatherFirst
  <2>2. Roots(J[0].forest.parent) = r /\ J[0].forest.t = t /\ J[0].with = w
    BY <1>4
  <2>3. RunRoots(r, w, s, 0) = {r[w]}
    <3>1. 1..0 = {}  BY <1>1, UpToMax
    <3> QED  BY <3>1 DEF RunRoots
  <2>4. Gathered(r, t, M, {r[w]}, J[0])  BY <2>1, <2>2 DEF Gathered
  <2>5. r[J[0].with] \in {r[w]}  BY <2>2
  <2>6. 0 \in 0..n  BY <1>1
  <2> QED  BY <2>3, <2>4, <2>5, <2>6
<1>7. ASSUME NEW k \in 1..n, k - 1 \in G
      PROVE  k \in G
  <2>1. PICK R : R = RunRoots(r, w, s, k - 1)  OBVIOUS
  <2>2. PICK e : e = J[k - 1]  OBVIOUS
  <2>3. PICK a : a = J[k]  OBVIOUS
  <2>4. PICK m \in M : m = s[k]  BY <1>1
  <2>5. Gathered(r, t, M, R, e) /\ r[e.with] \in R  BY <1>7, <2>1, <2>2
  <2>6. k - 1 \in 0..n /\ k \in 0..n  BY <1>1
  <2>7. Sound(e.forest, p, d) /\ e.with \in M  BY <1>3, <2>2, <2>6
  <2>8. a = MergeStep(e, m)  BY <1>4, <2>2, <2>3, <2>4
  <2>9. Gathered(r, t, M, R \cup {r[m]}, a)
    BY <1>2, <2>5, <2>7, <2>8, TurnGathers
  <2>10. RunRoots(r, w, s, k) = R \cup {r[m]}
    <3>1. {r[s[i]] : i \in 1..k} = {r[s[i]] : i \in 1..(k - 1)} \cup {r[s[k]]}
      <4>1. 1..k = (1..(k - 1)) \cup {k}  BY <1>1
      <4> QED  BY <4>1
    <3> QED  BY <2>1, <2>4, <3>1 DEF RunRoots
  <2>11. r[a.with] \in R
    <3>1. a.with = Roots(e.forest.parent)[e.with]  BY <2>8 DEF MergeStep
    <3>2. PICK c : Gathers(r, t, M, R, Roots(e.forest.parent), e.forest.t, c)
      BY <2>5 DEF Gathered
    <3>3. c \in R /\ R \in SUBSET RootSet(r, M)
          /\ Roots(e.forest.parent) = [x \in Addr |-> IF r[x] \in R THEN c ELSE r[x]]
      BY <3>2 DEF Gathers
    <3>4. e.with \in Addr  BY <1>2, <2>7 DEF Rooted
    <3>5. PICK x \in M : c = r[x]  BY <3>3 DEF RootSet
    <3>6. r[c] = c  BY <1>2, <3>5 DEF Rooted
    <3>7. a.with = c  BY <2>5, <3>1, <3>3, <3>4
    <3> QED  BY <3>3, <3>6, <3>7
  <2>12. r[a.with] \in R \cup {r[m]}  BY <2>11
  <2> QED  BY <2>3, <2>6, <2>9, <2>10, <2>12
<1>8. G = 0..n
  <2>1. G \in SUBSET (0..n)  OBVIOUS
  <2> HIDE DEF G
  <2> QED  BY <1>1, <1>6, <1>7, <2>1, UpTo
<1>9. n \in G  BY <1>1, <1>8
<1> QED  BY <1>9

\* UFSet::merge throws n and all members together, and the set becomes what n is in.
LEMMA MergeAllAbs ==
  ASSUME UFInv, UFInv', NEW n \in Made, mergeAll(n)
  PROVE  cp!Gather(n)
<1>1. PICK f : f = forest  OBVIOUS
<1>2. PICK p : p = ptr  OBVIOUS
<1>3. PICK d : d = data  OBVIOUS
<1>4. PICK M : M = DOMAIN p  OBVIOUS
<1>5. PICK r : r = Roots(f.parent)  OBVIOUS
<1>6. PICK t : t = f.t  OBVIOUS
<1>7. PICK a : a = p[n]  OBVIOUS
<1>8. PICK end : end = MergeEnd(f, a, d)  OBVIOUS
<1>9. PICK g : g = end.forest  OBVIOUS
<1>10. PICK x : x = end.with  OBVIOUS
<1>11. PICK u : u = Roots(g.parent)  OBVIOUS
<1>12. PICK v : v = g.t  OBVIOUS
<1>13. PICK q : q = ptr'  OBVIOUS
<1>14. PICK e : e = <<x>>  OBVIOUS
<1>15. PICK k : k = Len(d)  OBVIOUS
<1>16. /\ Sound(f, p, d) /\ n \in M /\ result' = 0 /\ DOMAIN q = M
       /\ forest' = g /\ data' = e
  <2>1. DOMAIN ptr' = DOMAIN ptr  BY DEF mergeAll
  <2>2. end = MergeEnd(forest, ptr[n], data)  BY <1>1, <1>2, <1>3, <1>7, <1>8
  <2>3. forest' = end.forest /\ data' = <<end.with>> /\ result' = 0
    BY <2>2 DEF mergeAll, MergeEnd
  <2>4. Sound(f, p, d)  BY <1>1, <1>2, <1>3 DEF UFInv
  <2> QED  BY <1>2, <1>4, <1>9, <1>10, <1>13, <1>14, <2>1, <2>3, <2>4 DEF Made
<1>17. Sound(g, q, e)  BY <1>13, <1>16 DEF UFInv
<1>18. /\ a \in M /\ r[a] = r[n] /\ M \in SUBSET Addr
  BY <1>4, <1>5, <1>7, <1>16, SoundRoots
<1>19. ForestOK(f) /\ d \in Seq(M) /\ k \in Nat /\ DOMAIN d = 1..k
  BY <1>4, <1>15, <1>16, LenProperties DEF Sound
<1>20. PICK J : IsMergeRun(J, f, a, d) /\ end = J[k]
  <2>1. d \in Seq(Addr) /\ a \in Addr  BY <1>18, <1>19, SeqGrows
  <2> QED  BY <1>8, <1>15, <1>19, <2>1, MergeFold
<1>21. u[x] = u[a]
  <2>1. k \in 0..k  BY <1>19
  <2> QED
    BY <1>4, <1>9, <1>10, <1>11, <1>15, <1>16, <1>18, <1>19, <1>20, <2>1, MergeRunSound
<1>22. PICK S : S = ToSet(d) \cup {n}  OBVIOUS
<1>23. /\ Rooted(r, M) /\ t \in [Addr -> Nat] /\ ToSet(d) \in SUBSET M
       /\ PartsIn(f, p) = PartsOf(r, t, M, RootSet(r, M))
       /\ DataIn(f, p, d) = HeldBy(r, M, RootSet(r, ToSet(d)))
  BY <1>4, <1>5, <1>6, <1>16, AbsFacts
<1>24. /\ Rooted(u, M) /\ v \in [Addr -> Nat]
       /\ PartsIn(g, q) = PartsOf(u, v, M, RootSet(u, M))
       /\ DataIn(g, q, e) = HeldBy(u, M, RootSet(u, ToSet(e)))
  BY <1>11, <1>12, <1>16, <1>17, AbsFacts
<1>25. RunRoots(r, a, d, k) = RootSet(r, S)
  <2>1. ToSet(d) = {d[i] : i \in 1..k}  BY <1>19 DEF ToSet
  <2>2. RootSet(r, ToSet(d)) = {r[d[i]] : i \in 1..k}  BY <2>1 DEF RootSet
  <2>3. RootSet(r, S) = RootSet(r, ToSet(d)) \cup {r[n]}  BY <1>22 DEF RootSet
  <2> QED  BY <1>18, <2>2, <2>3 DEF RunRoots
<1>26. PICK c : Gathers(r, t, M, RootSet(r, S), u, v, c)
  <2>1. Gathered(r, t, M, RunRoots(r, a, d, k), J[k])
    BY <1>4, <1>5, <1>6, <1>15, <1>16, <1>18, <1>19, <1>20, RunGathers
  <2>2. Gathered(r, t, M, RootSet(r, S), end)  BY <1>20, <1>25, <2>1
  <2> QED  BY <1>9, <1>11, <1>12, <2>2 DEF Gathered
<1>27. PICK T : T = DataIn(f, p, d) \cup {n}  OBVIOUS
<1>28. T \in SUBSET M /\ RootSet(r, T) = RootSet(r, S)
  <2>1. PICK H : H = DataIn(f, p, d)  OBVIOUS
  <2>2. H = HeldBy(r, M, RootSet(r, ToSet(d)))  BY <1>23, <2>1
  <2>3. RootSet(r, H) = RootSet(r, ToSet(d))
    <3>1. \A y, z \in M : r[y] = r[z] => r[y] = r[z]  OBVIOUS
    <3> QED  BY <1>23, <2>2, <3>1, HeldRoots
  <2>4. RootSet(r, T) = RootSet(r, H) \cup {r[n]}  BY <1>27, <2>1 DEF RootSet
  <2>5. RootSet(r, S) = RootSet(r, ToSet(d)) \cup {r[n]}  BY <1>22 DEF RootSet
  <2>6. H \in SUBSET M  BY <2>2 DEF HeldBy
  <2> QED  BY <1>16, <1>27, <2>1, <2>3, <2>4, <2>5, <2>6
<1>29. PartsIn(g, q) = cp!Joined(PartsIn(f, p), T)
  <2>1. Gathers(r, t, M, RootSet(r, T), u, v, c)  BY <1>26, <1>28
  <2>2. PartsOf(u, v, M, RootSet(u, M)) = cp!Joined(PartsOf(r, t, M, RootSet(r, M)), T)
    BY <1>23, <1>28, <2>1, GatherJoins
  <2> QED  BY <1>23, <1>24, <2>2
<1>30. u[a] = u[n]
  <2>1. a \in Addr /\ n \in Addr  BY <1>16, <1>18
  <2> QED  BY <1>18, <1>26, <2>1 DEF Gathers
<1>31. DataIn(g, q, e) = cp!Part(PartsIn(g, q), n).ufs
  <2>1. ToSet(e) = {x}
    <3>1. DOMAIN e = {1} /\ e[1] = x  BY <1>14
    <3> QED  BY <3>1 DEF ToSet
  <2>2. RootSet(u, ToSet(e)) = {u[n]}  BY <1>21, <1>30, <2>1 DEF RootSet
  <2>3. cp!Part(PartsIn(g, q), n) = PartOf(u, v, M, u[n])
    BY <1>16, <1>24, AllParts
  <2>4. cp!Part(PartsIn(g, q), n).ufs = {m \in M : u[m] = u[n]}  BY <2>3 DEF PartOf
  <2> QED  BY <1>24, <2>2, <2>4 DEF HeldBy
<1>32. /\ Parts = PartsIn(f, p) /\ InData = DataIn(f, p, d)
       /\ Parts' = PartsIn(g, q) /\ InData' = DataIn(g, q, e)
  BY <1>1, <1>2, <1>3, <1>13, <1>16, MappedNow, MappedThen
<1> QED  BY <1>16, <1>27, <1>29, <1>31, <1>32 DEF cp!Gather

\* A turn of fixup that only compresses paths and keeps the roots in the vector is
\* not seen.
LEMMA UnseenTurn ==
  ASSUME UFInv, UFInv', forest' = Compressed(forest, {data[turn], data[Above(turn)]}),
         ptr' = ptr, result' = result, InLoop,
         RootsIn(Roots(forest.parent), data') = RootsIn(Roots(forest.parent), data)
  PROVE  UNCHANGED <<Parts, InData, result>>
<1>1. PICK f : f = forest  OBVIOUS
<1>2. PICK p : p = ptr  OBVIOUS
<1>3. PICK d : d = data  OBVIOUS
<1>4. PICK g : g = forest'  OBVIOUS
<1>5. PICK e : e = data'  OBVIOUS
<1>6. PICK S : S = {data[turn], data[Above(turn)]}  OBVIOUS
<1>7. Sound(f, p, d) /\ g = Compressed(f, S) /\ ptr' = p
  BY <1>1, <1>2, <1>3, <1>4, <1>6 DEF UFInv
<1>8. Sound(g, p, e)  BY <1>4, <1>5, <1>7 DEF UFInv
<1>9. S \in SUBSET DOMAIN p  BY <1>2, <1>6, LoopPlaces DEF Made
<1>10. g.t = f.t /\ Roots(g.parent) = Roots(f.parent)
  <2>1. e \in Seq(DOMAIN p)  BY <1>8 DEF Sound
  <2>2. Rises(f, p, p)  BY DEF Rises
  <2> QED  BY <1>7, <1>9, <2>1, <2>2, CompressSound
<1>11. PartsIn(g, p) = PartsIn(f, p)  BY <1>7, <1>8, <1>10, CompressAbs
<1>12. DataIn(g, p, e) = DataIn(f, p, d)
  <2>1. RootsIn(Roots(f.parent), e) = RootsIn(Roots(f.parent), d)  BY <1>1, <1>3, <1>5
  <2> QED  BY <1>7, <1>8, <1>10, <2>1, CompressAbs
<1>13. /\ Parts = PartsIn(f, p) /\ InData = DataIn(f, p, d)
       /\ Parts' = PartsIn(g, p) /\ InData' = DataIn(g, p, e)
  BY <1>1, <1>2, <1>3, <1>4, <1>5, <1>7, MappedNow, MappedThen
<1> QED  BY <1>11, <1>12, <1>13

\* No turn of fixup is seen.
LEMMA FixupAbs ==
  ASSUME UFInv, UFInv', Fixup
  PROVE  UNCHANGED <<Parts, InData, result>>
<1>1. PICK up : up = Above(turn)  OBVIOUS
<1>2. PICK r : r = Roots(forest.parent)  OBVIOUS
<1>3. CASE FixUp
  <2>1. /\ InLoop /\ forest' = Compressed(forest, {data[turn], data[up]})
        /\ data' = Swapped(Compared(turn, up), turn, up)
        /\ ptr' = ptr /\ result' = result
    BY <1>1, <1>3 DEF FixUp
  <2>2. RootsIn(r, data') = RootsIn(r, data)  BY <1>1, <1>2, <2>1, FixupRoots
  <2> QED  BY <1>1, <1>2, <2>1, <2>2, UnseenTurn
<1>4. CASE FixSame
  <2>1. /\ InLoop /\ forest' = Compressed(forest, {data[turn], data[up]})
        /\ data' = Front(Swapped(Compared(turn, up), turn, Len(data)))
        /\ r[data[turn]] = r[data[up]] /\ ptr' = ptr /\ result' = result
    BY <1>1, <1>2, <1>4 DEF FixSame, Root
  <2>2. RootsIn(r, data') = RootsIn(r, data)  BY <1>1, <1>2, <2>1, FixupRoots
  <2> QED  BY <1>1, <1>2, <2>1, <2>2, UnseenTurn
<1>5. CASE FixDone /\ InLoop
  <2>1. /\ forest' = Compressed(forest, {data[turn], data[up]})
        /\ data' = Compared(turn, up) /\ ptr' = ptr /\ result' = result
    BY <1>1, <1>5 DEF FixDone
  <2>2. RootsIn(r, data') = RootsIn(r, data)  BY <1>1, <1>2, <1>5, <2>1, FixupRoots
  <2> QED  BY <1>1, <1>2, <1>5, <2>1, <2>2, UnseenTurn
<1>6. CASE FixDone /\ ~InLoop
  <2>1. forest' = forest /\ data' = data /\ ptr' = ptr /\ result' = result
    BY <1>6 DEF FixDone
  <2>2. Parts' = Parts /\ InData' = InData  BY <2>1, MappedNow, MappedThen
  <2> QED  BY <2>1, <2>2
<1> QED  BY <1>3, <1>4, <1>5, <1>6 DEF Fixup

\* The names of the parts are the UF objects there are.
LEMMA NamesMade == UFInv => cp!Names(Parts) = Made
<1> SUFFICES ASSUME UFInv  PROVE cp!Names(Parts) = Made
  OBVIOUS
<1>1. PICK f : f = forest  OBVIOUS
<1>2. PICK p : p = ptr  OBVIOUS
<1>3. PICK M : M = DOMAIN p  OBVIOUS
<1>4. PICK r : r = Roots(f.parent)  OBVIOUS
<1>5. Sound(f, p, data)  BY <1>1, <1>2 DEF UFInv
<1>6. PICK t : t = f.t  OBVIOUS
<1>7. /\ Rooted(r, M) /\ t \in [Addr -> Nat]
      /\ PartsIn(f, p) = PartsOf(r, t, M, RootSet(r, M))
  BY <1>3, <1>4, <1>5, <1>6, AbsFacts
<1>8. cp!Names(PartsIn(f, p)) = M  BY <1>7, AllParts
<1>9. Parts = PartsIn(f, p)  BY <1>1, <1>2, MappedNow
<1> QED  BY <1>2, <1>3, <1>8, <1>9 DEF Made

\* Every call does to the parts, the members and the answer what CostPartition
\* says of it.
LEMMA UFNextAbs ==
  UFInv /\ UFInv' /\ [UFNext]_ufVars => [cp!PartitionNext]_(cp!costVars)
<1> SUFFICES ASSUME UFInv, UFInv', [UFNext]_ufVars
             PROVE  cp!PartitionNext \/ UNCHANGED <<Parts, InData, result>>
  BY DEF cp!costVars
<1>1. cp!Names(Parts) = Made  BY NamesMade
<1>2. ASSUME NEW n \in Addr, Make(n)  PROVE cp!PartitionNext
  <2>1. cp!Create(n)  BY <1>2, MakeAbs
  <2> QED  BY <2>1 DEF cp!PartitionNext
<1>3. ASSUME NEW n \in Made, value(n) \/ insert(n)  PROVE cp!PartitionNext
  <2>1. cp!Read(n) \/ cp!Add(n)  BY <1>3, ValueAbs, InsertAbs
  <2> QED  BY <1>1, <2>1 DEF cp!PartitionNext
<1>4. ASSUME NEW n \in Made, mergeAll(n)  PROVE cp!PartitionNext
  <2>1. cp!Gather(n)  BY <1>4, MergeAllAbs
  <2> QED  BY <1>1, <2>1 DEF cp!PartitionNext
<1>5. ASSUME NEW m \in Made, NEW n \in Made, merge(m, n)  PROVE cp!PartitionNext
  <2>1. m # n /\ cp!Join({m, n})  BY <1>5, MergeAbs
  <2> QED  BY <1>1, <2>1 DEF cp!PartitionNext
<1>6. ASSUME NEW C \in SUBSET Made, sum(C)  PROVE cp!PartitionNext
  <2>1. cp!SumUp(C)  BY <1>6, SumAbs
  <2> QED  BY <1>1, <2>1 DEF cp!PartitionNext
<1>7. ASSUME Fixup  PROVE UNCHANGED <<Parts, InData, result>>
  BY <1>7, FixupAbs
<1>8. CASE UNCHANGED ufVars
  <2>1. forest' = forest /\ data' = data /\ ptr' = ptr /\ result' = result
    BY <1>8 DEF ufVars
  <2>2. Parts' = Parts /\ InData' = InData  BY <2>1, MappedNow, MappedThen
  <2> QED  BY <2>1, <2>2
<1> QED  BY <1>2, <1>3, <1>4, <1>5, <1>6, <1>7, <1>8 DEF UFNext

\* At the start there are no costs.
LEMMA UFInitAbs == UFInit => cp!PartitionInit
<1> SUFFICES ASSUME UFInit  PROVE cp!PartitionInit
  OBVIOUS
<1>1. DOMAIN ptr = {} /\ result = 0  BY DEF UFInit
<1>2. Parts = {} /\ InData = {}  BY <1>1 DEF Parts, InData, Made
<1> QED  BY <1>1, <1>2 DEF cp!PartitionInit

\* UFNode, UF and UFSet implement CostPartition: no merge loses or doubles a cost,
\* path compression and both fixups change nothing that can be seen, and a sum has
\* each cost once (uf.hpp).
THEOREM UFIsPartition == UFSpec => IsCostPartition
BY UFInitAbs, UFNextAbs, UFInvAlways, PTL DEF UFSpec, IsCostPartition, cp!PartitionSpec
=============================================================================
