-------------------------- MODULE AccountingProof --------------------------
(***************************************************************************)
(* Proofs about Accounting: what every eviction is charged to, for any     *)
(* program, any order of evictions, replays and compactions.               *)
(***************************************************************************)
EXTENDS Accounting, ProofFacts, FiniteSetTheorems

(***************************************************************************)
(* Parts                                                                   *)
(***************************************************************************)

\* No name is in two parts.
Apart(P) == \A a, b \in P : a.ufs \cap b.ufs # {} => a = b

\* Two names are in one part.
Together(P, m, n) == \E a \in P : m \in a.ufs /\ n \in a.ufs

\* A part's total is the number of evictions whose cost it holds.
Counts(P, C) == \A a \in P : a.total = Cardinality({i \in C : cost(i) \in a.ufs})

\* UF objects of different contexts, or of different kinds, differ.
LEMMA UfNames ==
  \A i, j :
    /\ forward_uf(i) = forward_uf(j) => i = j
    /\ backward_uf(i) = backward_uf(j) => i = j
    /\ cost(i) = cost(j) => i = j
    /\ forward_uf(i) # backward_uf(j)
    /\ forward_uf(i) # cost(j)
    /\ backward_uf(i) # cost(j)
<1>1. \A u, v, i, j : [uf |-> u, of |-> i] = [uf |-> v, of |-> j] => u = v /\ i = j
  OBVIOUS
<1>2. "forward" # "backward" /\ "forward" # "cost" /\ "backward" # "cost"
  OBVIOUS
<1> QED  BY <1>1, <1>2 DEF forward_uf, backward_uf, cost

\* The part of a name is the one that has it.
LEMMA TogetherSame ==
  ASSUME NEW P, Apart(P), NEW m, NEW n, Together(P, m, n)
  PROVE  Same(P, m, n)
<1>1. PICK a \in P : m \in a.ufs /\ n \in a.ufs  BY DEF Together
<1>2. ASSUME NEW x \in a.ufs  PROVE Part(P, x) = a
  <2>1. Part(P, x) \in P /\ x \in Part(P, x).ufs  BY <1>2 DEF Part
  <2> QED  BY <1>2, <2>1 DEF Apart
<1> QED  BY <1>1, <1>2 DEF Same

\* What is in one part with a name of S.
LEMMA ClosureNames ==
  ASSUME NEW P, NEW S
  PROVE  /\ Closure(P, S) = Names(Meets(P, S))
         /\ \A n : n \in Closure(P, S) <=> \E s \in S : Together(P, s, n)
         /\ Closure(P, S) \subseteq Names(P)
BY DEF Closure, Meets, Names, Together

\* To be together is not lost, and what is thrown together is together.
LEMMA JoinedFacts ==
  ASSUME NEW P, NEW S
  PROVE  /\ Names(Joined(P, S)) = Names(P)
         /\ Apart(P) => Apart(Joined(P, S))
         /\ IsFiniteSet(P) => IsFiniteSet(Joined(P, S))
         /\ \A m, n : Together(P, m, n) => Together(Joined(P, S), m, n)
         /\ \A m, n \in S \cap Names(P) : Together(Joined(P, S), m, n)
<1> DEFINE M == Meets(P, S)
           w == [ufs |-> Closure(P, S), total |-> Total(M)]
           J == (P \ M) \cup {w}
<1>1. Joined(P, S) = J  BY DEF Joined
<1>2. w.ufs = UNION {a.ufs : a \in M}  BY DEF Closure
<1>3. M = {a \in P : a.ufs \cap S # {}}  BY DEF Meets
<1> HIDE DEF M, w
<1>4. Names(J) = Names(P)
  <2>1. Names(J) = (UNION {a.ufs : a \in P \ M}) \cup w.ufs  BY DEF Names
  <2> QED  BY <1>2, <1>3, <2>1 DEF Names
<1>5. Apart(P) => Apart(J)
  <2> SUFFICES ASSUME Apart(P), NEW a \in J, NEW b \in J, a.ufs \cap b.ufs # {}
               PROVE  a = b
    BY DEF Apart
  <2>1. ASSUME NEW x \in P \ M  PROVE x.ufs \cap w.ufs = {}
    <3> SUFFICES ASSUME NEW n, n \in x.ufs, n \in w.ufs  PROVE FALSE
      OBVIOUS
    <3>1. PICK y \in M : n \in y.ufs  BY <1>2
    <3>2. x = y  BY <1>3, <3>1 DEF Apart
    <3> QED  BY <2>1, <3>2
  <2>2. CASE a # w /\ b # w  BY <2>2 DEF Apart
  <2>3. CASE a = w /\ b # w  BY <2>1, <2>3
  <2>4. CASE a # w /\ b = w  BY <2>1, <2>4
  <2> QED  BY <2>2, <2>3, <2>4
<1>6. IsFiniteSet(P) => IsFiniteSet(J)
  <2> SUFFICES ASSUME IsFiniteSet(P)  PROVE IsFiniteSet(J)
    OBVIOUS
  <2>1. IsFiniteSet(P \ M)  BY FS_Difference
  <2> QED  BY <2>1, FS_AddElement
<1>7. \A m, n : Together(P, m, n) => Together(J, m, n)
  <2> SUFFICES ASSUME NEW m, NEW n, Together(P, m, n)  PROVE Together(J, m, n)
    OBVIOUS
  <2>1. PICK a \in P : m \in a.ufs /\ n \in a.ufs  BY DEF Together
  <2>2. CASE a \in M
    <3>1. m \in w.ufs /\ n \in w.ufs  BY <1>2, <2>1, <2>2
    <3> QED  BY <3>1 DEF Together
  <2>3. CASE a \notin M  BY <2>1, <2>3 DEF Together
  <2> QED  BY <2>2, <2>3
<1>8. \A m, n \in S \cap Names(P) : Together(J, m, n)
  <2>1. \A m \in S \cap Names(P) : m \in w.ufs
    <3> SUFFICES ASSUME NEW m \in S \cap Names(P)  PROVE m \in w.ufs
      OBVIOUS
    <3>1. PICK a \in P : m \in a.ufs  BY DEF Names
    <3> QED  BY <1>2, <1>3, <3>1
  <2> QED  BY <2>1 DEF Together
<1> HIDE DEF J
<1> QED  BY <1>1, <1>4, <1>5, <1>6, <1>7, <1>8

\* A part that is new.
LEMMA AddPart ==
  ASSUME NEW P, NEW w, w.ufs \cap Names(P) = {}
  PROVE  /\ Names(P \cup {w}) = Names(P) \cup w.ufs
         /\ Apart(P) => Apart(P \cup {w})
         /\ IsFiniteSet(P) => IsFiniteSet(P \cup {w})
         /\ \A m, n : Together(P, m, n) => Together(P \cup {w}, m, n)
<1>1. Names(P \cup {w}) = Names(P) \cup w.ufs  BY DEF Names
<1>2. Apart(P) => Apart(P \cup {w})
  <2> SUFFICES ASSUME Apart(P), NEW a \in P \cup {w}, NEW b \in P \cup {w},
                      a.ufs \cap b.ufs # {}
               PROVE  a = b
    BY DEF Apart
  <2>1. \A x \in P : x.ufs \cap w.ufs = {}  BY DEF Names
  <2> QED  BY <2>1 DEF Apart
<1>3. IsFiniteSet(P) => IsFiniteSet(P \cup {w})  BY FS_AddElement
<1>4. \A m, n : Together(P, m, n) => Together(P \cup {w}, m, n)  BY DEF Together
<1> QED  BY <1>1, <1>2, <1>3, <1>4

\* Parts whose totals are counts add up to the count of all they hold.
LEMMA TotalCounts ==
  ASSUME NEW Q, IsFiniteSet(Q), Apart(Q), NEW C, IsFiniteSet(C), Counts(Q, C)
  PROVE  Total(Q) = Cardinality({i \in C : cost(i) \in Names(Q)})
<1> DEFINE N(T) == Cardinality({i \in C : cost(i) \in Names(T)})
           Pick(T) == CHOOSE x \in T : TRUE
           Sums(f) == f = [T \in SUBSET Q |->
                             IF T = {} THEN 0 ELSE Pick(T).total + f[T \ {Pick(T)}]]
           g == [T \in SUBSET Q |-> N(T)]
<1>1. Total(Q) = (CHOOSE f : Sums(f))[Q]
  BY DEF Total, MapThenSumSet, MapThenFoldSet
<1>2. \A T \in SUBSET Q : T # {} => Pick(T) \in T  OBVIOUS
<1>3. ASSUME NEW T \in SUBSET Q, T # {}
      PROVE  N(T) = Pick(T).total + N(T \ {Pick(T)})
  <2> DEFINE x == Pick(T)
             A == {i \in C : cost(i) \in x.ufs}
             B == {i \in C : cost(i) \in Names(T \ {x})}
  <2>1. x \in T  BY <1>2, <1>3
  <2> HIDE DEF x
  <2>2. {i \in C : cost(i) \in Names(T)} = A \cup B  BY <2>1 DEF Names
  <2>3. A \cap B = {}
    <3> SUFFICES ASSUME NEW i \in C, cost(i) \in x.ufs, cost(i) \in Names(T \ {x})
                 PROVE  FALSE
      OBVIOUS
    <3>1. PICK y \in T \ {x} : cost(i) \in y.ufs  BY DEF Names
    <3>2. x = y  BY <2>1, <3>1 DEF Apart
    <3> QED  BY <3>1, <3>2
  <2>4. IsFiniteSet(A) /\ IsFiniteSet(B)  BY FS_Subset
  <2>5. Cardinality(A) \in Nat /\ Cardinality(B) \in Nat
    BY <2>4, FS_CardinalityType
  <2>6. Cardinality(A \cup B) = Cardinality(A) + Cardinality(B)
    <3>1. Cardinality(A \cap B) = 0  BY <2>3, FS_EmptySet
    <3>2. Cardinality(A \cup B) = Cardinality(A) + Cardinality(B) - Cardinality(A \cap B)
      BY <2>4, FS_Union
    <3> HIDE DEF A, B
    <3> QED  BY <2>5, <3>1, <3>2
  <2>7. x.total = Cardinality(A)  BY <2>1 DEF Counts
  <2> QED  BY <2>2, <2>6, <2>7 DEF x
<1>4. N({}) = 0
  <2>1. {i \in C : cost(i) \in Names({})} = {}  BY DEF Names
  <2> QED  BY <2>1, FS_EmptySet
<1> HIDE DEF N, Pick
<1>5. Sums(g)
  <2>1. \A T \in SUBSET Q : T \ {Pick(T)} \in SUBSET Q  OBVIOUS
  <2>2. \A T \in SUBSET Q :
          N(T) = IF T = {} THEN 0 ELSE Pick(T).total + g[T \ {Pick(T)}]
    BY <1>3, <1>4, <2>1
  <2> QED  BY <2>2
<1>6. ASSUME NEW f, Sums(f)  PROVE f[Q] = g[Q]
  <2> DEFINE Bad == {n \in Nat : \E T \in SUBSET Q : Cardinality(T) = n /\ f[T] # g[T]}
  <2> SUFFICES ASSUME f[Q] # g[Q]  PROVE FALSE
    OBVIOUS
  <2>1. Cardinality(Q) \in Bad
    <3>1. Cardinality(Q) \in Nat  BY FS_CardinalityType
    <3> QED  BY <3>1
  <2>2. PICK n \in Bad : \A y \in Bad : n =< y  BY <2>1, LeastElement
  <2>3. PICK T \in SUBSET Q : Cardinality(T) = n /\ f[T] # g[T]  OBVIOUS
  <2>4. f[T] = IF T = {} THEN 0 ELSE Pick(T).total + f[T \ {Pick(T)}]  BY <1>6
  <2>5. g[T] = IF T = {} THEN 0 ELSE Pick(T).total + g[T \ {Pick(T)}]  BY <1>5
  <2>6. T # {}  BY <2>3, <2>4, <2>5
  <2> DEFINE R == T \ {Pick(T)}
  <2>7. f[R] # g[R]  BY <2>3, <2>4, <2>5, <2>6
  <2>8. /\ R \in SUBSET Q /\ Cardinality(R) \in Nat
        /\ Cardinality(R) = Cardinality(T) - 1
    <3>1. IsFiniteSet(T)  BY FS_Subset
    <3>2. Pick(T) \in T  BY <1>2, <2>6
    <3>3. IsFiniteSet(R) /\ Cardinality(R) = Cardinality(T) - 1
      BY <3>1, <3>2, FS_RemoveElement
    <3> QED  BY <3>3, FS_CardinalityType
  <2>9. Cardinality(R) \in Bad  BY <2>7, <2>8
  <2>10. n \in Nat  OBVIOUS
  <2> HIDE DEF R, Bad
  <2>11. n =< Cardinality(R)  BY <2>2, <2>9
  <2> QED  BY <2>3, <2>8, <2>10, <2>11
<1>7. Sums(CHOOSE f : Sums(f))  BY <1>5
<1>8. (CHOOSE f : Sums(f))[Q] = g[Q]
  <2> DEFINE h == CHOOSE f : Sums(f)
  <2>1. Sums(h)  BY <1>7
  <2> HIDE DEF h
  <2>2. h[Q] = g[Q]  BY <1>6, <2>1
  <2> QED  BY <2>2 DEF h
<1> QED  BY <1>1, <1>8 DEF N

\* Some of them, and after some are thrown together.
LEMMA MeetsCounts ==
  ASSUME NEW P, IsFiniteSet(P), Apart(P), NEW C, IsFiniteSet(C), Counts(P, C), NEW S
  PROVE  /\ Total(Meets(P, S)) = Cardinality({i \in C : cost(i) \in Closure(P, S)})
         /\ Counts(Joined(P, S), C)
<1> DEFINE M == Meets(P, S)
<1>1. M \in SUBSET P  BY DEF Meets
<1>2. IsFiniteSet(M)  BY <1>1, FS_Subset
<1>3. Apart(M) /\ Counts(M, C)  BY <1>1 DEF Apart, Counts
<1>4. Total(M) = Cardinality({i \in C : cost(i) \in Closure(P, S)})
  <2>1. Total(M) = Cardinality({i \in C : cost(i) \in Names(M)})
    BY <1>2, <1>3, TotalCounts
  <2> QED  BY <2>1, ClosureNames
<1>5. Counts(Joined(P, S), C)
  <2> DEFINE w == [ufs |-> Closure(P, S), total |-> Total(M)]
  <2>1. Joined(P, S) = (P \ M) \cup {w}  BY DEF Joined
  <2>2. w.total = Cardinality({i \in C : cost(i) \in w.ufs})  BY <1>4
  <2> HIDE DEF w, M
  <2> QED  BY <2>1, <2>2 DEF Counts
<1> QED  BY <1>4, <1>5

(***************************************************************************)
(* The invariant                                                           *)
(***************************************************************************)

\* All contexts there have been: an object for every life of a place.
Objects     == UNION {{p} \X (1..lives[p]) : p \in Place}
FullObjects == {i \in Objects : IsFull(i[1])}

\* Contexts take values from earlier ones, and root contexts are not evicted.
ProgramOK ==
  /\ program \in Seq([root : BOOLEAN, deps : SUBSET Nat])
  /\ lives \in Seq(Nat \ {0}) /\ Len(lives) = Len(program)
  /\ akasha \subseteq Place
  /\ \A p \in Place : Deps(p) \subseteq 1..(p - 1)
  /\ \A p \in Place : program[p].root => p \in akasha
  /\ program # <<>> => program[1].root

\* Replays make contexts that are not root contexts.
ReplaysOK ==
  /\ replays \in Seq([at : Nat, to : Nat])
  /\ \A k \in DOMAIN replays :
       /\ replays[k].at =< replays[k].to
       /\ \A q \in replays[k].at..replays[k].to : q \in Place /\ IsFull(q)

\* The past is about contexts there have been.
PastOK ==
  /\ DOMAIN sources = FullObjects
  /\ \A j \in DOMAIN sources : sources[j] \subseteq Objects
  /\ DOMAIN evictions \subseteq FullObjects /\ DOMAIN evictions \cap Alive = {}
  /\ IsFiniteSet(DOMAIN evictions)
  /\ \A i \in DOMAIN evictions :
       evictions[i].alive \subseteq Objects /\ evictions[i].held \subseteq Objects

\* The UF objects there are.
Ufs ==
  {forward_uf(i) : i \in FullObjects} \cup {backward_uf(i) : i \in Objects}
    \cup {cost(i) : i \in DOMAIN evictions}

CostsOK ==
  /\ IsFiniteSet(parts) /\ Apart(parts) /\ Names(parts) = Ufs
  /\ Counts(parts, DOMAIN evictions)

\* backedges is a sequence of sets of UF objects.
EdgesOK == backedges \in Seq(SUBSET Ufs) /\ Len(backedges) = Len(program)

\* Who took a value is in the context's set, or one with the context.  When it
\* is evicted they become one with its cost.
TakersKnown ==
  \A j \in DOMAIN sources : \A i \in sources[j] :
    /\ i \in Alive /\ IsFull(i[1]) =>
         \/ forward_uf(j) \in backedges[i[1]]
         \/ Together(parts, forward_uf(j), forward_uf(i))
         \/ Together(parts, forward_uf(j), backward_uf(i))
    /\ i \in DOMAIN evictions => Together(parts, cost(i), forward_uf(j))

\* Who held a dependency of an evicted context is one with its cost.
HoldersKnown ==
  \A i \in DOMAIN evictions :
    \A j \in evictions[i].held : Together(parts, cost(i), backward_uf(j))

\* No context from b on, before the evicted i, was there when i was evicted.
NoneLeft(i, b) ==
  \A q \in akasha : b =< q /\ q < i[1] => Now(q) \notin evictions[i].alive

\* There is a context before an evicted one that is one with its cost, and none
\* between is left from then; or one was replaced while it lived.
BeforeKnown ==
  \A i \in DOMAIN evictions : \E b \in 1..(i[1] - 1) :
    \/ /\ b \in akasha /\ Together(parts, cost(i), backward_uf(Now(b)))
       /\ NoneLeft(i, b + 1)
    \/ /\ \E j \in DOMAIN sources : Replaced(j) /\ j[1] = b
       /\ NoneLeft(i, b)

AccInv ==
  /\ ProgramOK /\ ReplaysOK /\ PastOK /\ CostsOK /\ EdgesOK
  /\ TakersKnown /\ HoldersKnown /\ BeforeKnown

(***************************************************************************)
(* Places                                                                  *)
(***************************************************************************)

\* An object is a place and a number.
LEMMA ObjectFacts ==
  /\ \A i \in Objects : i[1] \in Place /\ i[2] \in 1..lives[i[1]] /\ i = <<i[1], i[2]>>
  /\ \A p \in Place : \A k \in 1..lives[p] : <<p, k>> \in Objects
BY DEF Objects

\* The context at a place is an object.
LEMMA NowFacts ==
  ASSUME ProgramOK
  PROVE  /\ Len(program) \in Nat /\ DOMAIN program = Place /\ DOMAIN lives = Place
         /\ \A p \in Place : p \in Nat \ {0} /\ lives[p] \in Nat \ {0}
         /\ \A p : Now(p)[1] = p
         /\ \A p \in Place : Now(p) \in Objects
         /\ \A p \in akasha : p \in Place /\ Now(p) \in Alive
         /\ \A i \in Alive : i[1] \in akasha /\ i = Now(i[1]) /\ i \in Objects
<1>1. /\ Len(program) \in Nat /\ DOMAIN program = Place /\ DOMAIN lives = Place
      /\ \A p \in Place : p \in Nat \ {0} /\ lives[p] \in Nat \ {0}
  BY DEF ProgramOK, Place
<1>2. \A p : Now(p)[1] = p  BY DEF Now
<1>3. \A p \in Place : Now(p) \in Objects
  <2>1. \A p \in Place : lives[p] \in 1..lives[p]  BY <1>1
  <2> QED  BY <2>1, ObjectFacts DEF Now
<1>4. \A p \in akasha : p \in Place /\ Now(p) \in Alive  BY DEF ProgramOK, Alive
<1>5. \A i \in Alive : i[1] \in akasha /\ i = Now(i[1]) /\ i \in Objects
  BY <1>2, <1>3, <1>4 DEF Alive
<1> QED  BY <1>1, <1>2, <1>3, <1>4, <1>5

\* The context that has tock d.
LEMMA HolderFacts ==
  ASSUME ProgramOK, program # <<>>, NEW d \in Nat \ {0}
  PROVE  Holder(d) \in akasha /\ Holder(d) =< d
<1> DEFINE S == {q \in akasha : q =< d}
<1>1. Len(program) \in Nat /\ akasha \subseteq 1..Len(program)
  BY NowFacts DEF ProgramOK, Place
<1>2. 1 \in akasha
  <2>1. 1 \in 1..Len(program)  BY <1>1 DEF ProgramOK
  <2> QED  BY <2>1 DEF ProgramOK, Place
<1>3. 1 \in S  BY <1>2
<1>4. S \in SUBSET (1..Len(program))  BY <1>1
<1> HIDE DEF S
<1>5. Max(S) \in S  BY <1>1, <1>3, <1>4, MaxFacts
<1>6. Holder(d) = Max(S)  BY DEF Holder, S
<1> QED  BY <1>5, <1>6 DEF S

\* The context before a full context.
LEMMA BeforeFacts ==
  ASSUME ProgramOK, NEW p \in Place, IsFull(p)
  PROVE  /\ program # <<>>
         /\ Before(p) \in akasha /\ Before(p) < p
         /\ \A q \in akasha : q < p => q =< Before(p)
<1>1. /\ Len(program) \in Nat /\ p \in 1..Len(program)
      /\ akasha \subseteq 1..Len(program)
  BY NowFacts DEF ProgramOK, Place
<1>2. program # <<>>  BY <1>1
<1>3. 1 \in akasha /\ program[1].root
  <2>1. 1 \in 1..Len(program)  BY <1>1
  <2> QED  BY <1>2, <2>1 DEF ProgramOK, Place
<1>4. 1 < p
  <2>1. p # 1  BY <1>3 DEF IsFull
  <2> QED  BY <1>1, <2>1
<1> DEFINE S == {q \in akasha : q < p}
<1>5. 1 \in S  BY <1>3, <1>4
<1>6. S \in SUBSET (1..Len(program))  BY <1>1
<1> HIDE DEF S
<1>7. Max(S) \in S /\ \A y \in S : y =< Max(S)  BY <1>1, <1>5, <1>6, MaxFacts
<1>8. Before(p) = Max(S)  BY DEF Before, S
<1> QED  BY <1>2, <1>7, <1>8 DEF S

(***************************************************************************)
(* What the invariant says of the properties                               *)
(***************************************************************************)

\* The counts are what time_cost adds up.
LEMMA CountedNow == AccInv => CountedOnce
<1> SUFFICES ASSUME AccInv, NEW p \in akasha, IsFull(p)
             PROVE  time_cost(p) = plank_time *
                      (1 + Cardinality({i \in DOMAIN evictions :
                                          cost(i) \in Closure(parts, Around(p))}))
  BY DEF CountedOnce
<1> DEFINE c == Cardinality({i \in DOMAIN evictions : cost(i) \in Closure(parts, Around(p))})
<1>1. /\ IsFiniteSet(parts) /\ Apart(parts) /\ Counts(parts, DOMAIN evictions)
      /\ IsFiniteSet(DOMAIN evictions)
  BY DEF AccInv, CostsOK, PastOK
<1>2. Total(Meets(parts, Around(p))) = c  BY <1>1, MeetsCounts
<1>3. c \in Nat
  <2>1. IsFiniteSet({i \in DOMAIN evictions : cost(i) \in Closure(parts, Around(p))})
    BY <1>1, FS_Subset
  <2> QED  BY <2>1, FS_CardinalityType
<1> HIDE DEF c
<1>4. time_cost(p) = 1 + c  BY <1>2 DEF time_cost, plank_time
<1> QED  BY <1>3, <1>4 DEF c, plank_time

\* Neighbours are one with the cost.
LEMMA ChargedNow == AccInv => NeighboursCharged
<1> SUFFICES ASSUME AccInv, NEW i \in DOMAIN evictions
             PROVE  /\ \A j \in Alive : j \in DOMAIN sources /\ i \in sources[j] =>
                         Same(parts, cost(i), forward_uf(j))
                    /\ \A j \in Alive \cap evictions[i].held :
                         Same(parts, cost(i), backward_uf(j))
  BY DEF NeighboursCharged
<1>1. Apart(parts) /\ TakersKnown /\ HoldersKnown  BY DEF AccInv, CostsOK
<1>2. ASSUME NEW j \in DOMAIN sources, i \in sources[j]
      PROVE  Same(parts, cost(i), forward_uf(j))
  BY <1>1, <1>2, TogetherSame DEF TakersKnown
<1>3. ASSUME NEW j \in evictions[i].held  PROVE Same(parts, cost(i), backward_uf(j))
  BY <1>1, TogetherSame DEF HoldersKnown
<1> QED  BY <1>2, <1>3

\* The context before knows, or is younger, or one between was replaced.
LEMMA ReplayNow == AccInv => ReplayCharged
<1> SUFFICES ASSUME AccInv, NEW i \in DOMAIN evictions
             PROVE  LET b == Before(i[1])
                    IN  \/ Now(b) \notin evictions[i].alive
                        \/ \E j \in DOMAIN sources :
                             Replaced(j) /\ b < j[1] /\ j[1] < i[1]
                        \/ Same(parts, cost(i), backward_uf(Now(b)))
  BY DEF ReplayCharged
<1> DEFINE p == i[1]
           b == Before(p)
<1>1. Apart(parts) /\ ProgramOK /\ PastOK  BY DEF AccInv, CostsOK
<1>2. p \in Place /\ IsFull(p)  BY <1>1, ObjectFacts DEF PastOK, FullObjects
<1>3. /\ b \in akasha /\ b < p /\ b \in Nat /\ p \in Nat
      /\ \A q \in akasha : q < p => q =< b
  BY <1>1, <1>2, BeforeFacts, NowFacts
<1>4. PICK x \in 1..(p - 1) :
        \/ /\ x \in akasha /\ Together(parts, cost(i), backward_uf(Now(x)))
           /\ NoneLeft(i, x + 1)
        \/ /\ \E j \in DOMAIN sources : Replaced(j) /\ j[1] = x
           /\ NoneLeft(i, x)
  BY DEF AccInv, BeforeKnown
<1> HIDE DEF b
<1>5. x \in Nat /\ x < p  BY <1>3, <1>4
<1>6. CASE /\ x \in akasha /\ Together(parts, cost(i), backward_uf(Now(x)))
           /\ NoneLeft(i, x + 1)
  <2>1. CASE x = b
    <3>1. Same(parts, cost(i), backward_uf(Now(b)))  BY <1>1, <1>6, <2>1, TogetherSame
    <3> QED  BY <3>1 DEF b
  <2>2. CASE x # b
    <3>1. x + 1 =< b  BY <1>3, <1>5, <1>6, <2>2
    <3>2. Now(b) \notin evictions[i].alive  BY <1>3, <1>6, <3>1 DEF NoneLeft
    <3> QED  BY <3>2 DEF b
  <2> QED  BY <2>1, <2>2
<1>7. CASE /\ \E j \in DOMAIN sources : Replaced(j) /\ j[1] = x
           /\ NoneLeft(i, x)
  <2>1. CASE b < x  BY <1>5, <1>7, <2>1 DEF b
  <2>2. CASE x =< b
    <3>1. Now(b) \notin evictions[i].alive  BY <1>3, <1>7, <2>2 DEF NoneLeft
    <3> QED  BY <3>1 DEF b
  <2> QED  BY <1>3, <1>5, <2>1, <2>2
<1> QED  BY <1>4, <1>6, <1>7

\* No eviction counts twice; without replacements every one is in sight.
LEMMA NoneLostNow == AccInv => NoCostLost
<1> SUFFICES ASSUME AccInv  PROVE NoCostLost
  OBVIOUS
<1> DEFINE C == DOMAIN evictions
           B == {backward_uf(i) : i \in Alive}
           seen == {i \in C : cost(i) \in Closure(parts, B)}
<1>1. /\ IsFiniteSet(parts) /\ Apart(parts) /\ Counts(parts, C) /\ IsFiniteSet(C)
      /\ ProgramOK /\ BeforeKnown
  BY DEF AccInv, CostsOK, PastOK
<1>2. InSight = Cardinality(seen)
  <2>1. InSight = Total(Meets(parts, B))  BY DEF InSight
  <2> HIDE DEF B
  <2> QED  BY <1>1, <2>1, MeetsCounts
<1>3. Cardinality(seen) =< Cardinality(C) /\ Cardinality(C) \in Nat
  BY <1>1, FS_Subset, FS_CardinalityType
<1>4. plank_time * Cardinality(C) = Cardinality(C)  BY <1>3 DEF plank_time
<1>5. ASSUME \A j \in DOMAIN sources : ~Replaced(j)  PROVE seen = C
  <2> SUFFICES ASSUME NEW i \in C  PROVE cost(i) \in Closure(parts, B)
    OBVIOUS
  <2>1. PICK b \in akasha : Together(parts, cost(i), backward_uf(Now(b)))
    BY <1>1, <1>5 DEF BeforeKnown
  <2>2. backward_uf(Now(b)) \in B  BY <1>1, NowFacts
  <2>3. Together(parts, backward_uf(Now(b)), cost(i))  BY <2>1 DEF Together
  <2> HIDE DEF B
  <2> QED  BY <2>2, <2>3, ClosureNames
<1> QED  BY <1>2, <1>3, <1>4, <1>5 DEF NoCostLost

(***************************************************************************)
(* A context is made                                                       *)
(***************************************************************************)

\* The step makes object i.
Makes(i) ==
  /\ i \notin Objects /\ Objects' = Objects \cup {i}
  /\ Place' = Place \cup {i[1]} /\ akasha' = akasha \cup {i[1]}
  /\ Now(i[1])' = i
  /\ \A q \in Place : q # i[1] => Now(q)' = Now(q)
  /\ \A q \in Place : IsFull(q)' = IsFull(q)
  /\ i[1] \in Place => IsFull(i[1])

\* What lives after that, and what is full.
LEMMA MakesFacts ==
  ASSUME ProgramOK, ProgramOK', NEW i, Makes(i)
  PROVE  /\ FullObjects' = IF IsFull(i[1])' THEN FullObjects \cup {i} ELSE FullObjects
         /\ FullObjects \subseteq FullObjects'
         /\ i \in Alive' /\ i \notin Alive
         /\ \A j \in Alive' : j = i \/ (j \in Alive /\ j[1] # i[1])
         /\ \A q \in akasha : q # i[1] => Now(q) \in Alive'
<1>1. FullObjects' = IF IsFull(i[1])' THEN FullObjects \cup {i} ELSE FullObjects
  <2>1. \A j \in Objects : IsFull(j[1])' = IsFull(j[1])
    BY ObjectFacts DEF Makes
  <2>2. FullObjects' = {j \in Objects' : IsFull(j[1])'}  BY DEF FullObjects
  <2>3. Objects' = Objects \cup {i}  BY DEF Makes
  <2> QED  BY <2>1, <2>2, <2>3 DEF FullObjects
<1>2. Alive' = {Now(q)' : q \in akasha'}  BY DEF Alive
<1>3. akasha' = akasha \cup {i[1]} /\ Now(i[1])' = i  BY DEF Makes
<1>4. \A q \in akasha : q # i[1] => Now(q)' = Now(q)  BY NowFacts DEF Makes
<1>5. i \in Alive'  BY <1>2, <1>3
<1>6. i \notin Alive  BY NowFacts DEF Makes
<1>7. ASSUME NEW j \in Alive'  PROVE j = i \/ (j \in Alive /\ j[1] # i[1])
  <2>1. PICK q \in akasha' : j = Now(q)'  BY <1>2
  <2>2. CASE q = i[1]  BY <1>3, <2>1, <2>2
  <2>3. CASE q # i[1]
    <3>1. q \in akasha /\ j = Now(q)  BY <1>3, <1>4, <2>1, <2>3
    <3> QED  BY <2>3, <3>1, NowFacts
  <2> QED  BY <2>2, <2>3
<1>8. ASSUME NEW q \in akasha, q # i[1]  PROVE Now(q) \in Alive'
  <2>1. q \in akasha' /\ Now(q)' = Now(q)  BY <1>3, <1>4, <1>8
  <2> QED  BY <1>2, <2>1
<1> QED  BY <1>1, <1>5, <1>6, <1>7, <1>8

\* A place is added to the program.
LEMMA AppendPlace ==
  ASSUME ProgramOK, NEW r \in [root : BOOLEAN, deps : SUBSET Nat],
         NEW n, n = Len(program), NEW p, p = n + 1,
         r.deps \subseteq 1..n, program = <<>> => r.root,
         program' = Append(program, r), lives' = Append(lives, 1),
         akasha' = akasha \cup {p}
  PROVE  ProgramOK' /\ Makes(<<p, 1>>) /\ (IsFull(p)' <=> ~r.root)
<1>1. /\ n \in Nat /\ Place = 1..n /\ DOMAIN program = 1..n /\ DOMAIN lives = 1..n
      /\ program \in Seq([root : BOOLEAN, deps : SUBSET Nat])
      /\ lives \in Seq(Nat \ {0}) /\ Len(lives) = n
  BY NowFacts DEF ProgramOK, Place
<1>2. /\ program' \in Seq([root : BOOLEAN, deps : SUBSET Nat]) /\ Len(program') = p
      /\ program'[p] = r /\ \A q \in 1..n : program'[q] = program[q]
  BY <1>1, AppendProperties
<1>3. /\ lives' \in Seq(Nat \ {0}) /\ Len(lives') = p
      /\ lives'[p] = 1 /\ \A q \in 1..n : lives'[q] = lives[q]
  BY <1>1, AppendProperties
<1>r. r.deps \subseteq 1..n /\ akasha' = akasha \cup {p} /\ (n = 0 => r.root)
  <2>1. n = 0 => program = <<>>  BY <1>1, EmptySeq
  <2> QED  BY <2>1
<1>4. Place' = 1..p /\ 1..p = 1..n \cup {p} /\ p \notin 1..n /\ p \in 1..p
      /\ p - 1 = n
  <2>1. Place' = 1..Len(program')  BY DEF Place
  <2>2. n \in Nat  BY <1>1
  <2>3. 1..p = 1..n \cup {p} /\ p \notin 1..n /\ p \in 1..p /\ p - 1 = n
    BY <2>2
  <2> QED  BY <1>2, <2>1, <2>3
<1>5. ProgramOK'
  <2>1. (akasha \subseteq Place)'  BY <1>1, <1>4, <1>r DEF ProgramOK
  <2>2. ASSUME NEW q \in 1..p
        PROVE  program'[q].deps \subseteq 1..(q - 1) /\ (program'[q].root => q \in akasha')
    <3>1. CASE q = p  BY <1>2, <1>4, <1>r, <3>1
    <3>2. CASE q # p
      <4>1. q \in 1..n /\ program'[q] = program[q]  BY <1>2, <1>4, <3>2
      <4>2. program[q].deps \subseteq 1..(q - 1) /\ (program[q].root => q \in akasha)
        BY <1>1, <4>1 DEF ProgramOK, Deps
      <4> QED  BY <1>r, <4>1, <4>2
    <3> QED  BY <3>1, <3>2
  <2>3. program'[1].root
    <3>1. CASE n = 0
      <4>1. p = 1 /\ r.root  BY <1>r, <3>1
      <4> QED  BY <1>2, <4>1
    <3>2. CASE n # 0
      <4>1. 1 \in 1..n /\ program # <<>>  BY <1>1, <3>2
      <4> QED  BY <1>2, <4>1 DEF ProgramOK
    <3> QED  BY <3>1, <3>2
  <2>4. Len(lives') = Len(program')  BY <1>2, <1>3
  <2>5. /\ (\A q \in Place : Deps(q) \subseteq 1..(q - 1))'
        /\ (\A q \in Place : program[q].root => q \in akasha)'
    BY <1>4, <2>2 DEF Deps
  <2> QED  BY <1>2, <1>3, <2>1, <2>3, <2>4, <2>5 DEF ProgramOK
<1>6. Objects' = Objects \cup {<<p, 1>>} /\ <<p, 1>> \notin Objects
  <2>1. Objects' = UNION {{q} \X (1..lives'[q]) : q \in 1..p}  BY <1>4 DEF Objects
  <2>2. \A q \in 1..n : {q} \X (1..lives'[q]) = {q} \X (1..lives[q])  BY <1>3
  <2>3. {p} \X (1..lives'[p]) = {<<p, 1>>}  BY <1>3
  <2>4. UNION {{q} \X (1..lives'[q]) : q \in 1..p}
          = (UNION {{q} \X (1..lives'[q]) : q \in 1..n}) \cup ({p} \X (1..lives'[p]))
    <3> DEFINE F(q) == {q} \X (1..lives'[q])
    <3> HIDE DEF F
    <3>1. \A A : UNION {F(q) : q \in A \cup {p}} = (UNION {F(q) : q \in A}) \cup F(p)
      OBVIOUS
    <3> QED  BY <1>4, <3>1 DEF F
  <2>5. UNION {{q} \X (1..lives'[q]) : q \in 1..n} = Objects
    BY <1>1, <2>2 DEF Objects
  <2>6. <<p, 1>> \notin Objects
    <3>1. \A i \in Objects : i[1] \in 1..n  BY <1>1, ObjectFacts
    <3> QED  BY <1>4, <3>1
  <2> QED  BY <2>1, <2>3, <2>4, <2>5, <2>6
<1>7. IsFull(p)' <=> ~r.root  BY <1>2 DEF IsFull
<1>8. Makes(<<p, 1>>)
  <2>1. <<p, 1>>[1] = p  OBVIOUS
  <2>2. Now(p)' = <<p, 1>>  BY <1>3 DEF Now
  <2>3. \A q \in Place : q # p => Now(q)' = Now(q)  BY <1>1, <1>3 DEF Now
  <2>4. \A q \in Place : IsFull(q)' = IsFull(q)  BY <1>1, <1>2 DEF IsFull
  <2>5. p \notin Place /\ Place' = Place \cup {p}  BY <1>1, <1>4
  <2> QED  BY <1>6, <1>r, <2>1, <2>2, <2>3, <2>4, <2>5 DEF Makes
<1> QED  BY <1>5, <1>7, <1>8

\* A place gets another object.
LEMMA AgainPlace ==
  ASSUME ProgramOK, NEW p \in Place, IsFull(p), NEW k, k = lives[p] + 1,
         program' = program, lives' = [lives EXCEPT ![p] = @ + 1],
         akasha' = akasha \cup {p}
  PROVE  ProgramOK' /\ Makes(<<p, k>>) /\ IsFull(p)'
<1>1. /\ lives \in Seq(Nat \ {0}) /\ DOMAIN lives = Place /\ lives[p] \in Nat \ {0}
      /\ p \in Nat \ {0}
  BY NowFacts DEF ProgramOK
<1>2. /\ lives' \in Seq(Nat \ {0}) /\ Len(lives') = Len(lives)
      /\ lives'[p] = lives[p] + 1 /\ \A q \in Place : q # p => lives'[q] = lives[q]
  <2>1. p \in 1..Len(lives)  BY <1>1
  <2>2. lives[p] + 1 \in Nat \ {0}  BY <1>1
  <2> QED  BY <1>1, <2>1, <2>2, ExceptSeq
<1>3. Place' = Place /\ (\A q \in Place : IsFull(q)' = IsFull(q)) /\ \A q : Deps(q)' = Deps(q)
  BY DEF Place, IsFull, Deps
<1>4. ProgramOK'  BY <1>2, <1>3 DEF ProgramOK
<1>5. 1..lives'[p] = 1..lives[p] \cup {k} /\ k \notin 1..lives[p]  BY <1>1, <1>2
<1>6. <<p, k>> \notin Objects
  <2>1. \A i \in Objects : i[2] \in 1..lives[i[1]]  BY ObjectFacts
  <2>2. <<p, k>>[1] = p /\ <<p, k>>[2] = k  OBVIOUS
  <2> QED  BY <1>5, <2>1, <2>2
<1>7. Objects' = Objects \cup {<<p, k>>}
  <2>1. Objects' = UNION {{q} \X (1..lives'[q]) : q \in Place}  BY <1>3 DEF Objects
  <2>2. \A q \in Place : q # p => {q} \X (1..lives'[q]) = {q} \X (1..lives[q])
    BY <1>2
  <2>3. {p} \X (1..lives'[p]) = ({p} \X (1..lives[p])) \cup {<<p, k>>}  BY <1>5
  <2>4. \A i : i \in Objects' <=> \E q \in Place : i \in {q} \X (1..lives'[q])
    BY <2>1
  <2>5. \A i : i \in Objects <=> \E q \in Place : i \in {q} \X (1..lives[q])
    BY DEF Objects
  <2>6. \A i : i \in Objects' <=> i \in Objects \/ i = <<p, k>>
    BY <2>2, <2>3, <2>4, <2>5
  <2> QED  BY <2>6
<1>8. Makes(<<p, k>>)
  <2>1. <<p, k>>[1] = p  OBVIOUS
  <2>2. Now(p)' = <<p, k>>  BY <1>2 DEF Now
  <2>3. \A q \in Place : q # p => Now(q)' = Now(q)  BY <1>2 DEF Now
  <2>4. Place' = Place \cup {p}  BY <1>3
  <2> QED  BY <1>3, <1>6, <1>7, <2>1, <2>2, <2>3, <2>4 DEF Makes
<1> QED  BY <1>3, <1>4, <1>8

\* What was said of the past stays true when object i is made.
LEMMA NewPast ==
  ASSUME AccInv, ProgramOK', NEW i, Makes(i), evictions' = evictions,
         DOMAIN sources' = FullObjects',
         \A j \in DOMAIN sources : sources'[j] = sources[j],
         i \in DOMAIN sources' => sources'[i] \subseteq Objects
  PROVE  PastOK'
<1>1. ProgramOK /\ PastOK  BY DEF AccInv
<1>2. /\ Objects \subseteq Objects' /\ FullObjects \subseteq FullObjects'
      /\ FullObjects \subseteq Objects
      /\ \A j \in FullObjects' : j \in FullObjects \/ j = i
      /\ \A j \in Alive' : j = i \/ j \in Alive
      /\ i \notin Objects
  BY <1>1, MakesFacts DEF Makes, FullObjects
<1>3. ASSUME NEW j \in DOMAIN sources'  PROVE sources'[j] \subseteq Objects'
  <2>1. CASE j \in DOMAIN sources  BY <1>1, <1>2, <2>1 DEF PastOK
  <2>2. CASE j \notin DOMAIN sources
    <3>1. j = i  BY <1>1, <1>2, <2>2 DEF PastOK
    <3> QED  BY <1>2, <3>1
  <2> QED  BY <2>1, <2>2
<1>4. /\ DOMAIN evictions' \subseteq FullObjects'
      /\ DOMAIN evictions' \cap Alive' = {}
      /\ IsFiniteSet(DOMAIN evictions')
  BY <1>1, <1>2 DEF PastOK
<1>5. \A e \in DOMAIN evictions' :
        evictions'[e].alive \subseteq Objects' /\ evictions'[e].held \subseteq Objects'
  BY <1>1, <1>2 DEF PastOK
<1> QED  BY <1>3, <1>4, <1>5 DEF PastOK

\* So does what is known of the evictions.
LEMMA NewKnown ==
  ASSUME AccInv, ProgramOK', NEW i, Makes(i), evictions' = evictions,
         DOMAIN sources' = FullObjects',
         \A j \in DOMAIN sources : sources'[j] = sources[j],
         i \in DOMAIN sources' =>
           \A s \in sources'[i] :
             /\ s \in Alive
             /\ s \in Alive' /\ IsFull(s[1])' => forward_uf(i) \in backedges'[s[1]],
         \A q \in Place : q # i[1] => backedges[q] \subseteq backedges'[q],
         \A m, n : Together(parts, m, n) => Together(parts', m, n)
  PROVE  TakersKnown' /\ HoldersKnown' /\ BeforeKnown'
<1>1. /\ ProgramOK /\ PastOK /\ TakersKnown /\ HoldersKnown /\ BeforeKnown
      /\ i \notin Objects
  BY DEF AccInv, Makes
<1>2. /\ FullObjects \subseteq FullObjects'
      /\ \A j \in FullObjects' : j \in FullObjects \/ j = i
      /\ i \in Alive' /\ i \notin Alive
      /\ \A j \in Alive' : j = i \/ (j \in Alive /\ j[1] # i[1])
  BY <1>1, MakesFacts
<1>3. ASSUME NEW j \in DOMAIN sources', NEW s \in sources'[j]
      PROVE  /\ s \in Alive' /\ IsFull(s[1])' =>
                  \/ forward_uf(j) \in backedges'[s[1]]
                  \/ Together(parts', forward_uf(j), forward_uf(s))
                  \/ Together(parts', forward_uf(j), backward_uf(s))
             /\ s \in DOMAIN evictions' => Together(parts', cost(s), forward_uf(j))
  <2>1. CASE j \in DOMAIN sources
    <3>1. s \in sources[j] /\ s \in Objects  BY <1>1, <2>1 DEF PastOK
    <3>2. s \in DOMAIN evictions' => Together(parts', cost(s), forward_uf(j))
      BY <1>1, <2>1, <3>1 DEF TakersKnown
    <3>3. ASSUME s \in Alive', IsFull(s[1])'
          PROVE  \/ forward_uf(j) \in backedges'[s[1]]
                 \/ Together(parts', forward_uf(j), forward_uf(s))
                 \/ Together(parts', forward_uf(j), backward_uf(s))
      <4>1. s \in Alive /\ s[1] # i[1]  BY <1>1, <1>2, <3>1, <3>3
      <4>2. s[1] \in Place  BY <3>1, ObjectFacts
      <4>3. IsFull(s[1])  BY <3>3, <4>2 DEF Makes
      <4>4. \/ forward_uf(j) \in backedges[s[1]]
            \/ Together(parts, forward_uf(j), forward_uf(s))
            \/ Together(parts, forward_uf(j), backward_uf(s))
        BY <1>1, <2>1, <3>1, <4>1, <4>3 DEF TakersKnown
      <4> QED  BY <4>1, <4>2, <4>4
    <3> QED  BY <3>2, <3>3
  <2>2. CASE j \notin DOMAIN sources
    <3>1. j = i  BY <1>1, <1>2, <2>2 DEF PastOK
    <3>2. s \in Alive /\ s \notin DOMAIN evictions'  BY <1>1, <3>1 DEF PastOK
    <3> QED  BY <3>1, <3>2
  <2> QED  BY <2>1, <2>2
<1>4. TakersKnown'  BY <1>3 DEF TakersKnown
<1>5. HoldersKnown'  BY <1>1 DEF HoldersKnown
<1>6. ASSUME NEW e \in DOMAIN evictions, NEW b, NoneLeft(e, b)  PROVE NoneLeft(e, b)'
  <2> SUFFICES ASSUME NEW q \in akasha', b =< q, q < e[1]
               PROVE  Now(q)' \notin evictions[e].alive
    BY DEF NoneLeft
  <2>1. CASE q = i[1]
    <3>1. Now(q)' = i  BY <2>1 DEF Makes
    <3> QED  BY <1>1, <3>1 DEF PastOK
  <2>2. CASE q # i[1]
    <3>1. q \in akasha  BY <2>2 DEF Makes
    <3>2. Now(q)' = Now(q)  BY <1>1, <2>2, <3>1, NowFacts DEF Makes
    <3> QED  BY <1>6, <3>1, <3>2 DEF NoneLeft
  <2> QED  BY <2>1, <2>2
<1>7. ASSUME NEW j \in DOMAIN sources, Replaced(j)  PROVE j \in DOMAIN sources' /\ Replaced(j)'
  <2>1. j \in Objects /\ j \in DOMAIN sources'  BY <1>1, <1>2 DEF PastOK, FullObjects
  <2>2. j \notin Alive /\ j \notin DOMAIN evictions  BY <1>7 DEF Replaced
  <2>3. j \notin Alive'  BY <1>1, <1>2, <2>1, <2>2
  <2> QED  BY <2>1, <2>2, <2>3 DEF Replaced
<1>8. ASSUME NEW e \in DOMAIN evictions
      PROVE  \E b \in 1..(e[1] - 1) :
               \/ /\ b \in akasha' /\ Together(parts', cost(e), backward_uf(Now(b)'))
                  /\ NoneLeft(e, b + 1)'
               \/ /\ \E j \in DOMAIN sources' : Replaced(j)' /\ j[1] = b
                  /\ NoneLeft(e, b)'
  <2>1. PICK b \in 1..(e[1] - 1) :
          \/ /\ b \in akasha /\ Together(parts, cost(e), backward_uf(Now(b)))
             /\ NoneLeft(e, b + 1)
          \/ /\ \E j \in DOMAIN sources : Replaced(j) /\ j[1] = b
             /\ NoneLeft(e, b)
    BY <1>1 DEF BeforeKnown
  <2>2. CASE \E j \in DOMAIN sources : Replaced(j) /\ j[1] = b /\ NoneLeft(e, b)
    BY <1>6, <1>7, <2>2
  <2>3. CASE /\ b \in akasha /\ Together(parts, cost(e), backward_uf(Now(b)))
             /\ NoneLeft(e, b + 1) /\ b # i[1]
    <3>1. b \in akasha' /\ Now(b)' = Now(b)  BY <1>1, <2>3, NowFacts DEF Makes
    <3>2. Together(parts', cost(e), backward_uf(Now(b)'))  BY <2>3, <3>1
    <3>3. NoneLeft(e, b + 1)'  BY <1>6, <2>3
    <3> QED  BY <3>1, <3>2, <3>3
  <2>4. CASE b \in akasha /\ NoneLeft(e, b + 1) /\ b = i[1]
    <3> PICK j : j = Now(b)  OBVIOUS
    <3>1. b \in Place /\ j \in Alive /\ j[1] = b /\ j \in Objects
      BY <1>1, <2>4, NowFacts
    <3>2. IsFull(b)  BY <2>4, <3>1 DEF Makes
    <3>3. j \in DOMAIN sources  BY <1>1, <3>1, <3>2 DEF PastOK, FullObjects
    <3>4. j \notin DOMAIN evictions  BY <1>1, <3>1 DEF PastOK
    <3>5. j \notin Alive'  BY <1>1, <1>2, <2>4, <3>1
    <3>6. j \in DOMAIN sources' /\ Replaced(j)'
      BY <1>1, <1>2, <3>3, <3>4, <3>5 DEF Replaced, PastOK
    <3>7. NoneLeft(e, b)'
      <4> SUFFICES ASSUME NEW q \in akasha', b =< q, q < e[1]
                   PROVE  Now(q)' \notin evictions[e].alive
        BY DEF NoneLeft
      <4>1. CASE q = b
        <5>1. Now(q)' = i  BY <2>4, <4>1 DEF Makes
        <5> QED  BY <1>1, <5>1 DEF PastOK
      <4>2. CASE q # b
        <5>1. q \in akasha  BY <2>4, <4>2 DEF Makes
        <5>2. Now(q)' = Now(q)  BY <1>1, <2>4, <4>2, <5>1, NowFacts DEF Makes
        <5>3. q \in Nat /\ b \in Nat  BY <1>1, <3>1, <5>1, NowFacts
        <5>4. b + 1 =< q  BY <4>2, <5>3
        <5> QED  BY <2>4, <5>1, <5>2, <5>4 DEF NoneLeft
      <4> QED  BY <4>1, <4>2
    <3> QED  BY <3>1, <3>6, <3>7
  <2> QED  BY <2>1, <2>2, <2>3, <2>4
<1>9. BeforeKnown'  BY <1>8 DEF BeforeKnown
<1> QED  BY <1>4, <1>5, <1>9

\* The UF objects of a new context are parts of their own.
LEMMA NewCosts ==
  ASSUME AccInv, ProgramOK', NEW i, Makes(i), evictions' = evictions,
         \/ parts' = parts \cup {New(backward_uf(i))} /\ ~IsFull(i[1])'
         \/ parts' = parts \cup {New(forward_uf(i)), New(backward_uf(i))} /\ IsFull(i[1])'
  PROVE  /\ CostsOK' /\ Ufs \subseteq Ufs' /\ (IsFull(i[1])' => forward_uf(i) \in Ufs')
         /\ \A m, n : Together(parts, m, n) => Together(parts', m, n)
<1> DEFINE f == forward_uf(i)
           b == backward_uf(i)
           C == DOMAIN evictions
<1>1. /\ ProgramOK /\ PastOK /\ IsFiniteSet(parts) /\ Apart(parts) /\ Names(parts) = Ufs
      /\ Counts(parts, C) /\ i \notin Objects
  BY DEF AccInv, CostsOK, Makes
<1>2. f \notin Ufs /\ b \notin Ufs /\ f # b
  <2>1. i \notin FullObjects  BY <1>1 DEF FullObjects
  <2> QED  BY <1>1, <2>1, UfNames DEF Ufs
<1>3. ASSUME NEW u \in {f, b}
      PROVE  /\ New(u).ufs = {u} /\ New(u).total = 0
             /\ Cardinality({e \in C : cost(e) \in New(u).ufs}) = 0
  <2>1. New(u).ufs = {u} /\ New(u).total = 0  BY DEF New
  <2>2. \A e : cost(e) # u  BY UfNames
  <2>3. {e \in C : cost(e) \in New(u).ufs} = {}  BY <2>1, <2>2
  <2> QED  BY <2>1, <2>3, FS_EmptySet
<1>4. Counts(parts', C)
  <2>1. \A a \in parts' : a \in parts \/ a = New(f) \/ a = New(b)  OBVIOUS
  <2> HIDE DEF f, b, C
  <2> QED  BY <1>1, <1>3, <2>1 DEF Counts
<1>5. /\ FullObjects' = IF IsFull(i[1])' THEN FullObjects \cup {i} ELSE FullObjects
      /\ Objects' = Objects \cup {i}
  BY <1>1, MakesFacts DEF Makes
<1>6. Ufs' = IF IsFull(i[1])' THEN Ufs \cup {f, b} ELSE Ufs \cup {b}
  <2>1. Ufs' = {forward_uf(j) : j \in FullObjects'} \cup {backward_uf(j) : j \in Objects'}
                 \cup {cost(j) : j \in C}
    BY DEF Ufs
  <2>2. {backward_uf(j) : j \in Objects'} = {backward_uf(j) : j \in Objects} \cup {b}
    BY <1>5
  <2>3. CASE IsFull(i[1])'
    <3>1. {forward_uf(j) : j \in FullObjects'} = {forward_uf(j) : j \in FullObjects} \cup {f}
      BY <1>5, <2>3
    <3> HIDE DEF f, b
    <3> QED  BY <2>1, <2>2, <2>3, <3>1 DEF Ufs
  <2>4. CASE ~IsFull(i[1])'
    <3>1. FullObjects' = FullObjects  BY <1>5, <2>4
    <3> HIDE DEF f, b
    <3> QED  BY <2>1, <2>2, <2>4, <3>1 DEF Ufs
  <2> QED  BY <2>3, <2>4
<1> DEFINE P == parts \cup {New(f)}
<1>7. /\ Names(P) = Ufs \cup {f} /\ Apart(P) /\ IsFiniteSet(P)
      /\ \A m, n : Together(parts, m, n) => Together(P, m, n)
  <2>1. New(f).ufs = {f}  BY <1>3
  <2> HIDE DEF f
  <2>2. New(f).ufs \cap Names(parts) = {}  BY <1>1, <1>2, <2>1
  <2> QED  BY <1>1, <2>1, <2>2, AddPart
<1>8. /\ Names(P \cup {New(b)}) = Ufs \cup {f, b} /\ Apart(P \cup {New(b)})
      /\ IsFiniteSet(P \cup {New(b)})
      /\ \A m, n : Together(P, m, n) => Together(P \cup {New(b)}, m, n)
  <2>1. New(b).ufs = {b}  BY <1>3
  <2> HIDE DEF P, f, b
  <2>2. New(b).ufs \cap Names(P) = {}  BY <1>2, <1>7, <2>1
  <2>3. /\ Names(P \cup {New(b)}) = Names(P) \cup New(b).ufs
        /\ Apart(P) => Apart(P \cup {New(b)})
        /\ IsFiniteSet(P) => IsFiniteSet(P \cup {New(b)})
        /\ \A m, n : Together(P, m, n) => Together(P \cup {New(b)}, m, n)
    BY <2>2, AddPart
  <2>4. Ufs \cup {f} \cup {b} = Ufs \cup {f, b}  OBVIOUS
  <2> QED  BY <1>7, <2>1, <2>3, <2>4
<1>9. P \cup {New(b)} = parts \cup {New(f), New(b)}  OBVIOUS
<1>10. /\ Names(parts \cup {New(b)}) = Ufs \cup {b} /\ Apart(parts \cup {New(b)})
       /\ IsFiniteSet(parts \cup {New(b)})
       /\ \A m, n : Together(parts, m, n) => Together(parts \cup {New(b)}, m, n)
  <2>1. New(b).ufs = {b}  BY <1>3
  <2> HIDE DEF b
  <2>2. New(b).ufs \cap Names(parts) = {}  BY <1>1, <1>2, <2>1
  <2> QED  BY <1>1, <2>1, <2>2, AddPart
<1> HIDE DEF P, f, b, C
<1>11. /\ Names(parts') = Ufs' /\ Apart(parts') /\ IsFiniteSet(parts')
       /\ \A m, n : Together(parts, m, n) => Together(parts', m, n)
  <2>1. CASE parts' = parts \cup {New(b)} /\ ~IsFull(i[1])'
    <3>1. Ufs' = Ufs \cup {b}  BY <1>6, <2>1
    <3> QED  BY <1>10, <2>1, <3>1
  <2>2. CASE parts' = parts \cup {New(f), New(b)} /\ IsFull(i[1])'
    <3>1. Ufs' = Ufs \cup {f, b}  BY <1>6, <2>2
    <3>2. parts' = P \cup {New(b)}  BY <1>9, <2>2
    <3> QED  BY <1>7, <1>8, <2>2, <3>1, <3>2
  <2> QED  BY <2>1, <2>2 DEF f, b
<1>12. CostsOK'  BY <1>4, <1>11 DEF CostsOK, C
<1>13. Ufs \subseteq Ufs' /\ (IsFull(i[1])' => f \in Ufs')  BY <1>6
<1> QED  BY <1>11, <1>12, <1>13 DEF f

\* To be in one part goes both ways, and on.
LEMMA TogetherFacts ==
  ASSUME NEW P
  PROVE  /\ \A m, n : Together(P, m, n) => Together(P, n, m)
         /\ Apart(P) => \A m, n, k :
              Together(P, m, n) /\ Together(P, n, k) => Together(P, m, k)
<1>1. \A m, n : Together(P, m, n) => Together(P, n, m)  BY DEF Together
<1>2. ASSUME Apart(P), NEW m, NEW n, NEW k, Together(P, m, n), Together(P, n, k)
      PROVE  Together(P, m, k)
  <2>1. PICK a \in P : m \in a.ufs /\ n \in a.ufs  BY <1>2 DEF Together
  <2>2. PICK b \in P : n \in b.ufs /\ k \in b.ufs  BY <1>2 DEF Together
  <2>3. a = b  BY <1>2, <2>1, <2>2 DEF Apart
  <2> QED  BY <2>1, <2>2, <2>3 DEF Together
<1> QED  BY <1>1, <1>2

\* A full context is made: its object is new, the contexts it took values from
\* are there and hear of it, and what was known stays known.
LEMMA ConstructOK ==
  ASSUME AccInv, ProgramOK', ReplaysOK', NEW i, Makes(i), IsFull(i[1])',
         NEW D \in SUBSET (1..(i[1] - 1)), program # <<>>, Construct(i, D)
  PROVE  AccInv'
<1> DEFINE p == i[1]
<1>1. /\ ProgramOK /\ PastOK /\ EdgesOK /\ i \notin Objects
      /\ Place' = Place \cup {p} /\ \A q \in Place : IsFull(q)' = IsFull(q)
  BY DEF AccInv, Makes
<1>2. Place' = 1..Len(lives') /\ Len(lives') \in Nat /\ Len(lives') = Len(program')
  BY DEF ProgramOK, Place
<1>3. p \in Int
  <2>1. p \in 1..Len(lives')  BY <1>1, <1>2
  <2> QED  BY <1>2, <2>1
<1>4. PICK h : h = {Holder(d) : d \in D}  OBVIOUS
<1>5. ASSUME NEW q \in h  PROVE q \in akasha /\ q \in Place /\ q # p
  <2>1. PICK d \in D : q = Holder(d)  BY <1>4
  <2>2. d \in Nat \ {0} /\ d < p
    <3>1. d \in 1..(p - 1)  OBVIOUS
    <3> QED  BY <1>3, <3>1
  <2>3. q \in akasha /\ q =< d  BY <1>1, <2>1, <2>2, HolderFacts
  <2>4. q \in Place /\ q \in Nat  BY <1>1, <2>3, NowFacts
  <2> QED  BY <1>3, <2>2, <2>3, <2>4
<1>6. /\ parts' = parts \cup {New(forward_uf(i)), New(backward_uf(i))}
      /\ backedges' = [q \in 1..Len(lives') |->
                         IF q = p THEN {}
                         ELSE IF q \in h /\ IsFull(q)
                         THEN backedges[q] \cup {forward_uf(i)}
                         ELSE backedges[q]]
      /\ sources' = [j \in DOMAIN sources \cup {i} |->
                       IF j = i THEN {Now(q) : q \in h} ELSE sources[j]]
      /\ evictions' = evictions
  BY <1>4 DEF Construct
<1>7. /\ CostsOK' /\ Ufs \subseteq Ufs' /\ forward_uf(i) \in Ufs'
      /\ \A m, n : Together(parts, m, n) => Together(parts', m, n)
  BY <1>6, NewCosts
<1>8. /\ DOMAIN sources' = FullObjects' /\ i \notin DOMAIN sources
      /\ \A j \in DOMAIN sources : sources'[j] = sources[j]
      /\ sources'[i] = {Now(q) : q \in h}
  <2>1. FullObjects' = FullObjects \cup {i} /\ DOMAIN sources = FullObjects
    BY <1>1, MakesFacts DEF PastOK
  <2>2. i \notin FullObjects  BY <1>1 DEF FullObjects
  <2> QED  BY <1>6, <2>1, <2>2
<1>9. ASSUME NEW s \in sources'[i]
      PROVE  /\ s \in Alive /\ s \in Objects
             /\ s \in Alive' /\ IsFull(s[1])' => forward_uf(i) \in backedges'[s[1]]
  <2>1. PICK q \in h : s = Now(q)  BY <1>8
  <2>2. s \in Alive /\ s \in Objects /\ s[1] = q  BY <1>1, <1>5, <2>1, NowFacts
  <2>3. q \in Place /\ q # p /\ q \in 1..Len(lives')  BY <1>1, <1>2, <1>5
  <2>4. IsFull(q)' => IsFull(q)  BY <1>1, <2>3
  <2>5. IsFull(q) => forward_uf(i) \in backedges'[q]  BY <1>6, <2>3
  <2> QED  BY <2>2, <2>4, <2>5
<1>10. \A q \in Place : q # p => backedges[q] \subseteq backedges'[q]
  BY <1>1, <1>2, <1>6
<1>11. PastOK'  BY <1>6, <1>8, <1>9, NewPast
<1>12. TakersKnown' /\ HoldersKnown' /\ BeforeKnown'
  BY <1>6, <1>7, <1>8, <1>9, <1>10, NewKnown
<1>13. EdgesOK'
  <2>1. ASSUME NEW q \in 1..Len(lives')  PROVE backedges'[q] \in SUBSET Ufs'
    <3>1. CASE q = p  BY <1>6, <3>1
    <3>2. CASE q # p
      <4>1. q \in 1..Len(backedges) /\ backedges \in Seq(SUBSET Ufs)
        BY <1>1, <1>2, <3>2 DEF EdgesOK, Place
      <4>2. backedges[q] \in SUBSET Ufs  BY <4>1, ElementOfSeq
      <4> QED  BY <1>6, <1>7, <3>2, <4>2
    <3> QED  BY <3>1, <3>2
  <2>2. backedges' \in [1..Len(lives') -> SUBSET Ufs']  BY <1>6, <2>1
  <2>3. backedges' \in Seq(SUBSET Ufs') /\ Len(backedges') = Len(lives')
    BY <1>2, <2>2, FunctionSeq
  <2> QED  BY <1>2, <2>3 DEF EdgesOK
<1> QED  BY <1>7, <1>11, <1>12, <1>13 DEF AccInv

(***************************************************************************)
(* Every step keeps the invariant                                          *)
(***************************************************************************)

\* What only the replays could change.
LEMMA SameOK ==
  ASSUME AccInv, UNCHANGED <<program, lives, akasha, costVars, pastVars>>, ReplaysOK'
  PROVE  AccInv'
<1>1. /\ program' = program /\ lives' = lives /\ akasha' = akasha
      /\ backedges' = backedges /\ parts' = parts
      /\ evictions' = evictions /\ sources' = sources
  BY DEF costVars, pastVars
<1>2. /\ Place' = Place /\ \A q : IsFull(q)' = IsFull(q) /\ Deps(q)' = Deps(q)
      /\ \A q : Now(q)' = Now(q)
  BY <1>1 DEF Place, IsFull, Deps, Now
<1>3. Objects' = Objects /\ FullObjects' = FullObjects /\ Alive' = Alive
  BY <1>1, <1>2 DEF Objects, FullObjects, Alive
<1>4. Ufs' = Ufs  BY <1>1, <1>3 DEF Ufs
<1>5. \A j : Replaced(j)' = Replaced(j)  BY <1>1, <1>3 DEF Replaced
<1>6. \A e, b : NoneLeft(e, b)' = NoneLeft(e, b)  BY <1>1, <1>2 DEF NoneLeft
<1>7. ProgramOK'  BY <1>1, <1>2 DEF AccInv, ProgramOK
<1>8. PastOK'  BY <1>1, <1>3 DEF AccInv, PastOK
<1>9. CostsOK' /\ EdgesOK'  BY <1>1, <1>4 DEF AccInv, CostsOK, EdgesOK
<1>10. TakersKnown'  BY <1>1, <1>2, <1>3 DEF AccInv, TakersKnown
<1>11. HoldersKnown'  BY <1>1 DEF AccInv, HoldersKnown
<1>12. BeforeKnown'  BY <1>1, <1>2, <1>5, <1>6 DEF AccInv, BeforeKnown
<1> QED  BY <1>7, <1>8, <1>9, <1>10, <1>11, <1>12 DEF AccInv

\* A root context is put in front: it has a cost of its own and takes nothing.
LEMMA SuspendRootOK == AccInv /\ SuspendRoot => AccInv'
<1> SUFFICES ASSUME AccInv, SuspendRoot  PROVE AccInv'
  OBVIOUS
<1>1. /\ ProgramOK /\ PastOK /\ EdgesOK  BY DEF AccInv
<1>2. PICK n : n = Len(program)  OBVIOUS
<1>3. PICK p : p = n + 1  OBVIOUS
<1>4. PICK i : i = <<p, 1>>  OBVIOUS
<1>5. PICK r : r = [root |-> TRUE, deps |-> {}]  OBVIOUS
<1>6. /\ program' = Append(program, r) /\ lives' = Append(lives, 1)
      /\ akasha' = akasha \cup {p} /\ backedges' = Append(backedges, {})
      /\ parts' = parts \cup {New(backward_uf(i))}
      /\ replays = <<>> /\ replays' = replays
      /\ evictions' = evictions /\ sources' = sources
  BY <1>2, <1>3, <1>4, <1>5 DEF SuspendRoot, pastVars
<1>7. r \in [root : BOOLEAN, deps : SUBSET Nat] /\ r.root /\ r.deps \subseteq 1..n
  BY <1>5
<1>8. ProgramOK' /\ Makes(i) /\ ~IsFull(i[1])'
  <2>1. ProgramOK' /\ Makes(<<p, 1>>) /\ (IsFull(p)' <=> ~r.root)
    BY <1>1, <1>2, <1>3, <1>6, <1>7, AppendPlace
  <2>2. i[1] = p  BY <1>4
  <2> QED  BY <1>4, <1>7, <2>1, <2>2
<1>9. /\ CostsOK' /\ Ufs \subseteq Ufs'
      /\ \A m, k : Together(parts, m, k) => Together(parts', m, k)
  BY <1>6, <1>8, NewCosts
<1>10. /\ DOMAIN sources' = FullObjects' /\ i \notin DOMAIN sources'
       /\ \A j \in DOMAIN sources : sources'[j] = sources[j]
  <2>1. FullObjects' = FullObjects /\ DOMAIN sources = FullObjects
    BY <1>1, <1>8, MakesFacts DEF PastOK
  <2>2. i \notin FullObjects  BY <1>8 DEF Makes, FullObjects
  <2> QED  BY <1>6, <2>1, <2>2
<1>11. /\ backedges \in Seq(SUBSET Ufs) /\ Len(backedges) = n /\ Place = 1..n
       /\ n \in Nat
  BY <1>1, <1>2, NowFacts DEF EdgesOK, Place
<1>12. \A q \in Place : backedges[q] \subseteq backedges'[q]
  BY <1>6, <1>11
<1>13. EdgesOK'
  <2>1. Append(backedges, {}) \in Seq(SUBSET Ufs) /\ Len(Append(backedges, {})) = n + 1
    BY <1>11, AppendFacts
  <2>2. backedges' \in Seq(SUBSET Ufs')  BY <1>6, <1>9, <2>1, SeqMonotonic
  <2>3. Len(program') = n + 1
    <3>1. program \in Seq([root : BOOLEAN, deps : SUBSET Nat])
      BY <1>1 DEF ProgramOK
    <3> QED  BY <1>2, <1>6, <1>7, <3>1, AppendFacts
  <2> QED  BY <1>6, <2>1, <2>2, <2>3 DEF EdgesOK
<1>14. PastOK'  BY <1>6, <1>8, <1>10, NewPast
<1>15. TakersKnown' /\ HoldersKnown' /\ BeforeKnown'
  BY <1>6, <1>8, <1>9, <1>10, <1>12, NewKnown
<1>16. ReplaysOK'  BY <1>6 DEF ReplaysOK
<1> QED  BY <1>8, <1>9, <1>13, <1>14, <1>15, <1>16 DEF AccInv

\* A record completes for the first time.
LEMMA CompleteOK ==
  ASSUME AccInv, NEW D \in SUBSET Place, Complete(D)
  PROVE  AccInv'
<1>1. ProgramOK  BY DEF AccInv
<1>2. PICK n : n = Len(program)  OBVIOUS
<1>3. PICK p : p = n + 1  OBVIOUS
<1>4. PICK i : i = <<p, 1>>  OBVIOUS
<1>5. PICK r : r = [root |-> FALSE, deps |-> D]  OBVIOUS
<1>6. /\ program # <<>> /\ program' = Append(program, r) /\ lives' = Append(lives, 1)
      /\ Construct(i, D) /\ replays = <<>> /\ replays' = replays
  BY <1>2, <1>3, <1>4, <1>5 DEF Complete
<1>7. n \in Nat /\ D \subseteq 1..n  BY <1>1, <1>2, NowFacts DEF Place
<1>8. r \in [root : BOOLEAN, deps : SUBSET Nat] /\ ~r.root /\ r.deps \subseteq 1..n
  <2>1. D \in SUBSET Nat  BY <1>7
  <2> QED  BY <1>5, <1>7, <2>1
<1>9. i[1] = p  BY <1>4
<1>10. akasha' = akasha \cup {p}  BY <1>6, <1>9 DEF Construct
<1>11. ProgramOK' /\ Makes(i) /\ IsFull(i[1])'
  <2>1. ProgramOK' /\ Makes(<<p, 1>>) /\ (IsFull(p)' <=> ~r.root)
    BY <1>1, <1>2, <1>3, <1>6, <1>8, <1>10, AppendPlace
  <2> QED  BY <1>4, <1>8, <1>9, <2>1
<1>12. D \subseteq 1..(i[1] - 1)  BY <1>3, <1>7, <1>9
<1>13. ReplaysOK'  BY <1>6 DEF ReplaysOK
<1> QED  BY <1>6, <1>11, <1>12, <1>13, ConstructOK

\* A record of a replay completes: there is a new object at its place, and the
\* replay goes on or ends.
LEMMA CompleteAgainOK == AccInv /\ CompleteAgain => AccInv'
<1> SUFFICES ASSUME AccInv, CompleteAgain  PROVE AccInv'
  OBVIOUS
<1>1. ProgramOK /\ ReplaysOK  BY DEF AccInv
<1>2. PICK top : top = Last(replays)  OBVIOUS
<1>3. PICK p : p = top.at  OBVIOUS
<1>4. PICK k : k = lives[p] + 1  OBVIOUS
<1>5. PICK i : i = <<p, k>>  OBVIOUS
<1>6. /\ replays # <<>> /\ lives' = [lives EXCEPT ![p] = @ + 1]
      /\ Construct(i, Deps(p)) /\ program' = program
      /\ replays' = IF p = top.to THEN Front(replays)
                    ELSE Append(Front(replays), [top EXCEPT !.at = p + 1])
  BY <1>2, <1>3, <1>4, <1>5 DEF CompleteAgain
<1>7. /\ replays \in Seq([at : Nat, to : Nat]) /\ top \in [at : Nat, to : Nat]
      /\ top.at =< top.to /\ \A q \in top.at..top.to : q \in Place /\ IsFull(q)
      /\ \A m \in 1..(Len(replays) - 1) :
           /\ replays[m].at =< replays[m].to
           /\ \A q \in replays[m].at..replays[m].to : q \in Place /\ IsFull(q)
  <2>1. replays \in Seq([at : Nat, to : Nat])  BY <1>1 DEF ReplaysOK
  <2>2. /\ top \in [at : Nat, to : Nat] /\ top = replays[Len(replays)]
        /\ Len(replays) \in Nat \ {0}
    BY <1>2, <1>6, <2>1, LastFacts
  <2>3. /\ Len(replays) \in DOMAIN replays
        /\ 1..(Len(replays) - 1) \subseteq DOMAIN replays
    BY <2>1, <2>2
  <2> QED  BY <1>1, <2>1, <2>2, <2>3 DEF ReplaysOK
<1>8. p \in Place /\ IsFull(p) /\ p \in Nat /\ top.to \in Nat
  BY <1>3, <1>7
<1>9. i[1] = p  BY <1>5
<1>10. akasha' = akasha \cup {p}  BY <1>6, <1>9 DEF Construct
<1>11. ProgramOK' /\ Makes(i) /\ IsFull(i[1])'
  <2>1. ProgramOK' /\ Makes(<<p, k>>) /\ IsFull(p)'
    BY <1>1, <1>4, <1>6, <1>8, <1>10, AgainPlace
  <2> QED  BY <1>5, <1>9, <2>1
<1>12. PICK D : D = Deps(p)  OBVIOUS
<1>13. D \subseteq 1..(i[1] - 1) /\ program # <<>>
  BY <1>1, <1>8, <1>9, <1>12, BeforeFacts DEF ProgramOK
<1>14. ReplaysOK'
  <2>1. Place' = Place /\ \A q : IsFull(q)' = IsFull(q)  BY <1>6 DEF Place, IsFull
  <2>2. /\ Front(replays) \in Seq([at : Nat, to : Nat])
        /\ Len(Front(replays)) = Len(replays) - 1
        /\ \A m \in 1..(Len(replays) - 1) : Front(replays)[m] = replays[m]
    BY <1>6, <1>7, FrontFacts
  <2>3. PICK f : f = Front(replays)  OBVIOUS
  <2>4. /\ f \in Seq([at : Nat, to : Nat])
        /\ \A m \in 1..Len(f) :
             /\ f[m].at =< f[m].to
             /\ \A q \in f[m].at..f[m].to : q \in Place /\ IsFull(q)
    BY <1>7, <2>2, <2>3
  <2>5. CASE p = top.to
    <3>1. replays' = f  BY <1>6, <2>3, <2>5
    <3>2. DOMAIN f = 1..Len(f)  BY <2>4
    <3> QED  BY <2>1, <2>4, <3>1, <3>2 DEF ReplaysOK
  <2>6. CASE p # top.to
    <3>1. PICK t : t = [top EXCEPT !.at = p + 1]  OBVIOUS
    <3>2. t \in [at : Nat, to : Nat] /\ t.at = p + 1 /\ t.to = top.to
      BY <1>7, <1>8, <3>1
    <3>3. t.at =< t.to /\ \A q \in t.at..t.to : q \in top.at..top.to
      BY <1>3, <1>7, <1>8, <2>6, <3>2
    <3>4. replays' = Append(f, t)  BY <1>6, <2>3, <2>6, <3>1
    <3>5. /\ Append(f, t) \in Seq([at : Nat, to : Nat])
          /\ Len(Append(f, t)) = Len(f) + 1 /\ Len(f) \in Nat
          /\ Append(f, t)[Len(f) + 1] = t
          /\ \A m \in 1..Len(f) : Append(f, t)[m] = f[m]
      BY <2>4, <3>2, AppendFacts, LenProperties
    <3>6. PICK g : g = Append(f, t)  OBVIOUS
    <3>7. ASSUME NEW m \in DOMAIN g
          PROVE  /\ g[m].at =< g[m].to
                 /\ \A q \in g[m].at..g[m].to : q \in Place /\ IsFull(q)
      <4>1. m \in 1..(Len(f) + 1)  BY <3>5, <3>6
      <4>2. CASE m = Len(f) + 1
        <5>1. g[m] = t  BY <3>5, <3>6, <4>2
        <5> QED  BY <1>7, <3>3, <5>1
      <4>3. CASE m # Len(f) + 1
        <5>1. m \in 1..Len(f)  BY <3>5, <4>1, <4>3
        <5>2. g[m] = f[m]  BY <3>5, <3>6, <5>1
        <5> QED  BY <2>4, <5>1, <5>2
      <4> QED  BY <4>2, <4>3
    <3> QED  BY <2>1, <3>4, <3>5, <3>6, <3>7 DEF ReplaysOK
  <2> QED  BY <2>5, <2>6
<1> QED  BY <1>6, <1>11, <1>12, <1>13, <1>14, ConstructOK

\* A replay starts: between the context before a place and the place there is
\* no root context, for those live.
LEMMA DemandOK ==
  ASSUME AccInv, NEW p \in Place, Demand(p)
  PROVE  AccInv'
<1>1. ProgramOK /\ ReplaysOK /\ IsFull(p)  BY DEF AccInv, Demand
<1>2. PICK b : b = Before(p)  OBVIOUS
<1>3. /\ b \in akasha /\ b < p /\ b \in Nat /\ p \in Nat
      /\ \A q \in akasha : q < p => q =< b
  BY <1>1, <1>2, BeforeFacts, NowFacts
<1>4. PICK r : r = [at |-> b + 1, to |-> p]  OBVIOUS
<1>5. /\ r \in [at : Nat, to : Nat] /\ r.at =< r.to /\ r.at = b + 1 /\ r.to = p
  BY <1>3, <1>4
<1>6. ASSUME NEW q \in r.at..r.to  PROVE q \in Place /\ IsFull(q)
  <2>1. q \in Nat /\ b < q /\ q =< p  BY <1>3, <1>5
  <2>2. Len(program) \in Nat /\ Place = 1..Len(program)  BY <1>1, NowFacts DEF Place
  <2>3. q \in Place  BY <1>3, <2>1, <2>2
  <2>4. CASE q = p  BY <1>1, <2>3, <2>4
  <2>5. CASE q # p
    <3>1. q \notin akasha  BY <1>3, <2>1, <2>5
    <3>2. ~program[q].root  BY <1>1, <2>3, <3>1 DEF ProgramOK
    <3> QED  BY <2>3, <3>2 DEF IsFull
  <2> QED  BY <2>4, <2>5
<1>7. /\ replays' = Append(replays, r) /\ replays \in Seq([at : Nat, to : Nat])
      /\ UNCHANGED <<program, lives, akasha, costVars, pastVars>>
  BY <1>1, <1>2, <1>4 DEF Demand, ReplaysOK
<1>8. Place' = Place /\ \A q : IsFull(q)' = IsFull(q)  BY <1>7 DEF Place, IsFull
<1>9. ReplaysOK'
  <2>1. PICK g : g = Append(replays, r)  OBVIOUS
  <2>2. PICK n : n = Len(replays)  OBVIOUS
  <2>3. /\ g \in Seq([at : Nat, to : Nat]) /\ Len(g) = n + 1 /\ n \in Nat
        /\ g[n + 1] = r /\ \A m \in 1..n : g[m] = replays[m]
        /\ DOMAIN replays = 1..n /\ DOMAIN g = 1..(n + 1)
    BY <1>5, <1>7, <2>1, <2>2, AppendFacts, LenProperties
  <2>4. ASSUME NEW m \in DOMAIN g
        PROVE  /\ g[m].at =< g[m].to
               /\ \A q \in g[m].at..g[m].to : q \in Place /\ IsFull(q)
    <3>1. CASE m = n + 1  BY <1>5, <1>6, <2>3, <3>1
    <3>2. CASE m # n + 1
      <4>1. m \in 1..n  BY <2>3, <3>2
      <4>2. g[m] = replays[m] /\ m \in DOMAIN replays  BY <2>3, <4>1
      <4> QED  BY <1>1, <4>2 DEF ReplaysOK
    <3> QED  BY <3>1, <3>2
  <2> QED  BY <1>7, <1>8, <2>1, <2>3, <2>4 DEF ReplaysOK
<1> QED  BY <1>7, <1>9, SameOK

\* The set of a context is compacted: who leaves it is one with the context.
LEMMA WeighOK ==
  ASSUME AccInv, NEW p \in akasha, Weigh(p)
  PROVE  AccInv'
<1>1. /\ ProgramOK /\ EdgesOK /\ TakersKnown /\ PastOK  BY DEF AccInv
<1>2. /\ program' = program /\ lives' = lives /\ akasha' = akasha /\ replays' = replays
      /\ parts' = parts /\ evictions' = evictions /\ sources' = sources
      /\ backedges' = [backedges EXCEPT ![p] = Compacted(p)]
  BY DEF Weigh, progVars, pastVars
<1>3. /\ Place' = Place /\ \A q : IsFull(q)' = IsFull(q) /\ Deps(q)' = Deps(q)
      /\ \A q : Now(q)' = Now(q)
  BY <1>2 DEF Place, IsFull, Deps, Now
<1>4. Objects' = Objects /\ FullObjects' = FullObjects /\ Alive' = Alive
  BY <1>2, <1>3 DEF Objects, FullObjects, Alive
<1>5. Ufs' = Ufs  BY <1>2, <1>4 DEF Ufs
<1>6. /\ backedges \in Seq(SUBSET Ufs) /\ Len(backedges) = Len(program)
      /\ p \in 1..Len(backedges) /\ p \in Place
  BY <1>1, NowFacts DEF EdgesOK, Place
<1>7. Compacted(p) \in SUBSET Ufs
  <2>1. backedges[p] \in SUBSET Ufs  BY <1>6, ElementOfSeq
  <2> QED  BY <2>1 DEF Compacted
<1>8. /\ backedges' \in Seq(SUBSET Ufs) /\ Len(backedges') = Len(backedges)
      /\ \A q \in 1..Len(backedges) :
           backedges'[q] = IF q = p THEN Compacted(p) ELSE backedges[q]
  BY <1>2, <1>6, <1>7, ExceptSeq
<1>9. ASSUME NEW j \in DOMAIN sources, NEW s \in sources[j], s \in Alive, IsFull(s[1])
      PROVE  \/ forward_uf(j) \in backedges'[s[1]]
             \/ Together(parts, forward_uf(j), forward_uf(s))
             \/ Together(parts, forward_uf(j), backward_uf(s))
  <2>1. \/ forward_uf(j) \in backedges[s[1]]
        \/ Together(parts, forward_uf(j), forward_uf(s))
        \/ Together(parts, forward_uf(j), backward_uf(s))
    BY <1>1, <1>9 DEF TakersKnown
  <2>2. s[1] \in 1..Len(backedges) /\ s = Now(s[1])
    BY <1>1, <1>6, <1>9, NowFacts DEF Place
  <2>3. CASE s[1] # p  BY <1>8, <2>1, <2>2, <2>3
  <2>4. CASE s[1] = p /\ forward_uf(j) \in backedges[p]
    <3>1. CASE forward_uf(j) \in Closure(parts, Own(p))
      <4>1. PICK u \in Own(p) : Together(parts, u, forward_uf(j))
        BY <3>1, ClosureNames
      <4>2. Together(parts, forward_uf(j), u)  BY <4>1, TogetherFacts
      <4>3. u = forward_uf(s) \/ u = backward_uf(s)  BY <2>2, <2>4, <4>1 DEF Own
      <4> QED  BY <4>2, <4>3
    <3>2. CASE forward_uf(j) \notin Closure(parts, Own(p))
      <4>1. forward_uf(j) \in Compacted(p)  BY <2>4, <3>2 DEF Compacted
      <4> QED  BY <1>6, <1>8, <2>4, <4>1
    <3> QED  BY <3>1, <3>2
  <2> QED  BY <2>1, <2>3, <2>4
<1>10. TakersKnown'
  <2>1. ASSUME NEW j \in DOMAIN sources, NEW s \in sources[j], s \in DOMAIN evictions
        PROVE  Together(parts, cost(s), forward_uf(j))
    BY <1>1, <2>1 DEF TakersKnown
  <2> QED  BY <1>2, <1>3, <1>4, <1>9, <2>1 DEF TakersKnown
<1>11. ProgramOK' /\ ReplaysOK'
  BY <1>2, <1>3 DEF AccInv, ProgramOK, ReplaysOK
<1>12. PastOK'  BY <1>2, <1>4 DEF AccInv, PastOK
<1>13. CostsOK'  BY <1>2, <1>5 DEF AccInv, CostsOK
<1>14. EdgesOK'  BY <1>2, <1>5, <1>6, <1>8 DEF EdgesOK
<1>15. HoldersKnown'  BY <1>2 DEF AccInv, HoldersKnown
<1>16. BeforeKnown'
  <2>1. \A j : Replaced(j)' = Replaced(j)  BY <1>2, <1>4 DEF Replaced
  <2>2. \A e, b : NoneLeft(e, b)' = NoneLeft(e, b)  BY <1>2, <1>3 DEF NoneLeft
  <2> QED  BY <1>2, <1>3, <2>1, <2>2 DEF AccInv, BeforeKnown
<1> QED  BY <1>10, <1>11, <1>12, <1>13, <1>14, <1>15, <1>16 DEF AccInv

\* The cost of an evicted context is a part of its own, before it is thrown
\* together with its neighbours': the totals still count evictions.
LEMMA NewCostCounts ==
  ASSUME NEW P, IsFiniteSet(P), Apart(P), NEW C, IsFiniteSet(C), Counts(P, C),
         NEW i, i \notin C, cost(i) \notin Names(P),
         NEW Q, Q = P \cup {[ufs |-> {cost(i)}, total |-> plank_time]}
  PROVE  /\ Names(Q) = Names(P) \cup {cost(i)} /\ Apart(Q) /\ IsFiniteSet(Q)
         /\ Counts(Q, C \cup {i}) /\ IsFiniteSet(C \cup {i})
         /\ \A m, n : Together(P, m, n) => Together(Q, m, n)
<1>1. PICK w : w = [ufs |-> {cost(i)}, total |-> plank_time]  OBVIOUS
<1>2. w.ufs = {cost(i)} /\ w.total = 1 /\ Q = P \cup {w}  BY <1>1 DEF plank_time
<1>3. w.ufs \cap Names(P) = {}  BY <1>2
<1>4. /\ Names(Q) = Names(P) \cup {cost(i)} /\ Apart(Q) /\ IsFiniteSet(Q)
      /\ \A m, n : Together(P, m, n) => Together(Q, m, n)
  <2>1. /\ Names(P \cup {w}) = Names(P) \cup w.ufs
        /\ Apart(P) => Apart(P \cup {w})
        /\ IsFiniteSet(P) => IsFiniteSet(P \cup {w})
        /\ \A m, n : Together(P, m, n) => Together(P \cup {w}, m, n)
    BY <1>3, AddPart
  <2> QED  BY <1>2, <2>1
<1>5. ASSUME NEW a \in P
      PROVE  a.total = Cardinality({e \in C \cup {i} : cost(e) \in a.ufs})
  <2>1. cost(i) \notin a.ufs  BY DEF Names
  <2>2. {e \in C \cup {i} : cost(e) \in a.ufs} = {e \in C : cost(e) \in a.ufs}
    BY <2>1
  <2> QED  BY <2>2 DEF Counts
<1>6. w.total = Cardinality({e \in C \cup {i} : cost(e) \in w.ufs})
  <2>1. \A e : cost(e) = cost(i) => e = i  BY UfNames
  <2>2. {e \in C \cup {i} : cost(e) \in w.ufs} = {i}  BY <1>2, <2>1
  <2> QED  BY <1>2, <2>2, FS_Singleton
<1>7. Counts(Q, C \cup {i})  BY <1>2, <1>5, <1>6 DEF Counts
<1>8. IsFiniteSet(C \cup {i})  BY FS_AddElement
<1> QED  BY <1>4, <1>7, <1>8

\* What evict makes of the parts: all it gathers is one, and the rest as it was.
LEMMA EvictCosts ==
  ASSUME AccInv, NEW p \in akasha, evict(p), NEW i, i = Now(p)
  PROVE  /\ IsFiniteSet(parts') /\ Apart(parts')
         /\ Names(parts') = Ufs \cup {cost(i)}
         /\ Counts(parts', DOMAIN evictions \cup {i})
         /\ IsFiniteSet(DOMAIN evictions \cup {i})
         /\ i \in FullObjects /\ i \notin DOMAIN evictions
         /\ \A m, n : Together(parts, m, n) => Together(parts', m, n)
         /\ \A n \in Gathered(p) : Together(parts', cost(i), n)
<1>1. /\ ProgramOK /\ PastOK /\ EdgesOK /\ IsFiniteSet(parts) /\ Apart(parts)
      /\ Names(parts) = Ufs /\ Counts(parts, DOMAIN evictions)
      /\ IsFiniteSet(DOMAIN evictions) /\ IsFull(p)
  BY DEF AccInv, CostsOK, PastOK, evict
<1>2. p \in Place /\ i \in Alive /\ i \in Objects /\ i[1] = p  BY <1>1, NowFacts
<1>3. i \in FullObjects /\ i \notin DOMAIN evictions
  BY <1>1, <1>2 DEF FullObjects, PastOK
<1>4. cost(i) \notin Ufs  BY <1>3, UfNames DEF Ufs
<1>5. PICK C : C = DOMAIN evictions \cup {i}  OBVIOUS
<1>6. PICK Q : Q = parts \cup {[ufs |-> {cost(i)}, total |-> plank_time]}  OBVIOUS
<1>7. /\ Names(Q) = Ufs \cup {cost(i)} /\ Apart(Q) /\ IsFiniteSet(Q)
      /\ Counts(Q, C) /\ IsFiniteSet(C)
      /\ \A m, n : Together(parts, m, n) => Together(Q, m, n)
  BY <1>1, <1>3, <1>4, <1>5, <1>6, NewCostCounts
<1>8. PICK S : S = Gathered(p)  OBVIOUS
<1>9. parts' = Joined(Q, S)  BY <1>6, <1>8 DEF evict
<1>10. Counts(parts', C)  BY <1>7, <1>9, MeetsCounts
<1>11. /\ Names(parts') = Ufs \cup {cost(i)} /\ Apart(parts') /\ IsFiniteSet(parts')
       /\ \A m, n : Together(Q, m, n) => Together(parts', m, n)
       /\ \A m, n \in S \cap Names(Q) : Together(parts', m, n)
  BY <1>7, <1>9, JoinedFacts
<1>12. ASSUME NEW n \in S  PROVE n \in Names(Q)
  <2>1. \A j \in Objects : backward_uf(j) \in Ufs  BY DEF Ufs
  <2>2. CASE n \in {forward_uf(i), backward_uf(i), cost(i)}
    BY <1>2, <1>3, <1>7, <2>1, <2>2 DEF Ufs
  <2>3. CASE n \in backedges[p]
    <3>1. backedges \in Seq(SUBSET Ufs) /\ p \in 1..Len(backedges)
      BY <1>1, <1>2 DEF EdgesOK, Place
    <3>2. backedges[p] \in SUBSET Ufs  BY <3>1, ElementOfSeq
    <3> QED  BY <1>7, <2>3, <3>2
  <2>4. ASSUME NEW d \in Deps(p)  PROVE backward_uf(Now(Holder(d))) \in Ufs
    <3>1. d \in 1..(p - 1) /\ program # <<>>  BY <1>1, <1>2, BeforeFacts DEF ProgramOK
    <3>2. Holder(d) \in akasha  BY <1>1, <3>1, HolderFacts
    <3>3. Now(Holder(d)) \in Objects  BY <1>1, <3>2, NowFacts
    <3> QED  BY <2>1, <3>3
  <2>5. backward_uf(Now(Before(p))) \in Ufs
    <3>1. Before(p) \in akasha  BY <1>1, <1>2, BeforeFacts
    <3>2. Now(Before(p)) \in Objects  BY <1>1, <3>1, NowFacts
    <3> QED  BY <2>1, <3>2
  <2>6. \/ n \in {forward_uf(i), backward_uf(i), cost(i)} \/ n \in backedges[p]
        \/ n \in {backward_uf(Now(Holder(d))) : d \in Deps(p)}
        \/ n = backward_uf(Now(Before(p)))
    BY <1>8 DEF Gathered
  <2> QED  BY <1>7, <2>2, <2>3, <2>4, <2>5, <2>6
<1>13. cost(i) \in S  BY <1>8 DEF Gathered
<1>14. \A n \in S : Together(parts', cost(i), n)  BY <1>11, <1>12, <1>13
<1> QED  BY <1>3, <1>5, <1>7, <1>8, <1>10, <1>11, <1>14

\* Who took a value of the evicted context is in its set or one with it, and so
\* hears of its cost; a set that is not the evicted one's only grows.
LEMMA EvictTakers ==
  ASSUME AccInv, NEW p \in akasha, evict(p), NEW i, i = Now(p),
         Alive' = Alive \ {i}, \A q : IsFull(q)' = IsFull(q),
         NEW j \in DOMAIN sources, NEW s \in sources[j]
  PROVE  /\ s \in Alive' /\ IsFull(s[1])' =>
              \/ forward_uf(j) \in backedges'[s[1]]
              \/ Together(parts', forward_uf(j), forward_uf(s))
              \/ Together(parts', forward_uf(j), backward_uf(s))
         /\ s \in DOMAIN evictions \cup {i} => Together(parts', cost(s), forward_uf(j))
<1>1. /\ ProgramOK /\ PastOK /\ TakersKnown /\ IsFull(p)  BY DEF AccInv, evict
<1>2. /\ Apart(parts') /\ Names(parts') = Ufs \cup {cost(i)}
      /\ \A m, n : Together(parts, m, n) => Together(parts', m, n)
      /\ \A n \in Gathered(p) : Together(parts', cost(i), n)
  BY EvictCosts
<1>3. /\ i[1] = p /\ i \in Alive /\ \A q \in akasha : Now(q)[1] = q  BY <1>1, NowFacts
<1>4. ASSUME s \in Alive', IsFull(s[1])'
      PROVE  \/ forward_uf(j) \in backedges'[s[1]]
             \/ Together(parts', forward_uf(j), forward_uf(s))
             \/ Together(parts', forward_uf(j), backward_uf(s))
  <2>1. /\ s \in Alive /\ s # i /\ IsFull(s[1])  BY <1>4
  <2>2. s = Now(s[1]) /\ s[1] \in Place  BY <1>1, <2>1, NowFacts
  <2>3. s[1] # p  BY <2>1, <2>2
  <2>4. \/ forward_uf(j) \in backedges[s[1]]
        \/ Together(parts, forward_uf(j), forward_uf(s))
        \/ Together(parts, forward_uf(j), backward_uf(s))
    BY <1>1, <2>1 DEF TakersKnown
  <2>5. CASE forward_uf(j) \in backedges[s[1]]
    <3>1. forward_uf(j) \in Names(parts')
      BY <1>1, <1>2 DEF PastOK, Ufs
    <3>2. Together(parts', forward_uf(j), forward_uf(j))
      BY <3>1 DEF Names, Together
    <3>3. backedges'[s[1]] = Closure(parts', backedges[s[1]])
      BY <2>2, <2>3 DEF evict
    <3> QED  BY <2>5, <3>2, <3>3, ClosureNames
  <2> QED  BY <1>2, <2>4, <2>5
<1>5. ASSUME s \in DOMAIN evictions  PROVE Together(parts', cost(s), forward_uf(j))
  BY <1>1, <1>2, <1>5 DEF TakersKnown
<1>6. ASSUME s = i  PROVE Together(parts', cost(s), forward_uf(j))
  <2>1. \/ forward_uf(j) \in backedges[p]
        \/ Together(parts, forward_uf(j), forward_uf(i))
        \/ Together(parts, forward_uf(j), backward_uf(i))
    BY <1>1, <1>3, <1>6 DEF TakersKnown
  <2>2. /\ forward_uf(i) \in Gathered(p) /\ backward_uf(i) \in Gathered(p)
        /\ backedges[p] \subseteq Gathered(p)
    BY DEF Gathered
  <2>3. CASE forward_uf(j) \in backedges[p]  BY <1>2, <1>6, <2>2, <2>3
  <2>4. ASSUME NEW u \in Gathered(p), Together(parts, forward_uf(j), u)
        PROVE  Together(parts', cost(i), forward_uf(j))
    <3>1. Together(parts', cost(i), u) /\ Together(parts', forward_uf(j), u)
      BY <1>2, <2>4
    <3>2. Together(parts', u, forward_uf(j))  BY <3>1, TogetherFacts
    <3> QED  BY <1>2, <3>1, <3>2, TogetherFacts
  <2> QED  BY <1>6, <2>1, <2>2, <2>3, <2>4
<1> QED  BY <1>4, <1>5, <1>6

\* Behind every evicted context there is still one that knows, or a context was
\* replaced: when the one that knows is evicted too, the one before it learns.
LEMMA EvictBefore ==
  ASSUME AccInv, NEW p \in akasha, evict(p), NEW i, i = Now(p),
         Alive' = Alive \ {i}, \A q : Now(q)' = Now(q),
         DOMAIN evictions' = DOMAIN evictions \cup {i},
         \A e \in DOMAIN evictions : evictions'[e] = evictions[e],
         NEW e \in DOMAIN evictions \cup {i}
  PROVE  \E b \in 1..(e[1] - 1) :
           \/ /\ b \in akasha' /\ Together(parts', cost(e), backward_uf(Now(b)))
              /\ NoneLeft(e, b + 1)'
           \/ /\ \E j \in DOMAIN sources : Replaced(j)' /\ j[1] = b
              /\ NoneLeft(e, b)'
<1>1. /\ ProgramOK /\ PastOK /\ BeforeKnown /\ IsFull(p)
      /\ akasha' = akasha \ {p} /\ sources' = sources
  BY DEF AccInv, evict
<1>2. /\ Apart(parts') /\ i \in FullObjects /\ i \notin DOMAIN evictions
      /\ \A m, n : Together(parts, m, n) => Together(parts', m, n)
      /\ \A n \in Gathered(p) : Together(parts', cost(i), n)
  BY EvictCosts
<1>3. /\ i[1] = p /\ p \in Place /\ p \in Nat /\ i \in Alive
      /\ \A q \in akasha : q \in Nat /\ q \in Place
  BY <1>1, NowFacts
<1>4. PICK x : x = Before(p)  OBVIOUS
<1>5. /\ x \in akasha /\ x < p /\ x \in Nat \ {0} /\ x \in akasha'
      /\ \A q \in akasha : q < p => q =< x
  <2>1. x \in akasha /\ x < p /\ \A q \in akasha : q < p => q =< x
    BY <1>1, <1>3, <1>4, BeforeFacts
  <2>2. x \in Nat \ {0}  BY <1>1, <2>1, NowFacts
  <2>3. x # p  BY <1>3, <2>1, <2>2
  <2>4. x \in akasha'  BY <1>1, <2>1, <2>3
  <2> QED  BY <2>1, <2>2, <2>4
<1>6. /\ backward_uf(Now(x)) \in Gathered(p) /\ backward_uf(i) \in Gathered(p)
  BY <1>4 DEF Gathered
<1>7. ASSUME NEW d \in DOMAIN evictions, NEW b, NoneLeft(d, b)  PROVE NoneLeft(d, b)'
  <2> SUFFICES ASSUME NEW q \in akasha', b =< q, q < d[1]
               PROVE  Now(q)' \notin evictions'[d].alive
    BY DEF NoneLeft
  <2>1. q \in akasha /\ Now(q)' = Now(q) /\ evictions'[d] = evictions[d]  BY <1>1
  <2> QED  BY <1>7, <2>1 DEF NoneLeft
<1>8. CASE e = i
  <2>1. x \in 1..(e[1] - 1)  BY <1>3, <1>5, <1>8
  <2>2. Together(parts', cost(e), backward_uf(Now(x)))  BY <1>2, <1>6, <1>8
  <2>3. NoneLeft(e, x + 1)'
    <3> SUFFICES ASSUME NEW q \in akasha', x + 1 =< q, q < e[1]  PROVE FALSE
      BY DEF NoneLeft
    <3>1. q \in akasha /\ q \in Nat /\ q < p  BY <1>1, <1>3, <1>8
    <3>2. q =< x  BY <1>5, <3>1
    <3> QED  BY <1>5, <3>1, <3>2
  <2> QED  BY <1>5, <2>1, <2>2, <2>3
<1>9. CASE e # i
  <2>1. e \in DOMAIN evictions  BY <1>9
  <2>2. e[1] \in Nat
    <3>1. e[1] \in Place  BY <1>1, <2>1, ObjectFacts DEF PastOK, FullObjects
    <3> QED  BY <1>1, <3>1, NowFacts
  <2>3. PICK b \in 1..(e[1] - 1) :
          \/ /\ b \in akasha /\ Together(parts, cost(e), backward_uf(Now(b)))
             /\ NoneLeft(e, b + 1)
          \/ /\ \E j \in DOMAIN sources : Replaced(j) /\ j[1] = b
             /\ NoneLeft(e, b)
    BY <1>1, <2>1 DEF BeforeKnown
  <2>4. CASE /\ \E j \in DOMAIN sources : Replaced(j) /\ j[1] = b
             /\ NoneLeft(e, b)
    <3>1. PICK j \in DOMAIN sources : Replaced(j) /\ j[1] = b  BY <2>4
    <3>2. j \notin DOMAIN evictions' /\ j \notin Alive'
      BY <1>3, <3>1 DEF Replaced
    <3>3. Replaced(j)'  BY <1>1, <3>2 DEF Replaced
    <3>4. NoneLeft(e, b)'  BY <1>7, <2>1, <2>4
    <3> QED  BY <3>1, <3>3, <3>4
  <2>5. CASE /\ b \in akasha /\ Together(parts, cost(e), backward_uf(Now(b)))
             /\ NoneLeft(e, b + 1) /\ b # p
    <3>1. b \in akasha'  BY <1>1, <2>5
    <3>2. Together(parts', cost(e), backward_uf(Now(b)))  BY <1>2, <2>5
    <3>3. NoneLeft(e, b + 1)'  BY <1>7, <2>1, <2>5
    <3> QED  BY <3>1, <3>2, <3>3
  <2>6. CASE /\ Together(parts, cost(e), backward_uf(Now(p)))
             /\ NoneLeft(e, p + 1) /\ b = p
    <3>1. x \in 1..(e[1] - 1)  BY <1>3, <1>5, <2>2, <2>3, <2>6
    <3>2. Together(parts', cost(e), backward_uf(Now(x)))
      <4>1. Together(parts', cost(e), backward_uf(i))  BY <1>2, <2>6
      <4>2. Together(parts', backward_uf(i), cost(i))  BY <1>2, <1>6, TogetherFacts
      <4>3. Together(parts', cost(i), backward_uf(Now(x)))  BY <1>2, <1>6
      <4>4. Together(parts', cost(e), cost(i))  BY <1>2, <4>1, <4>2, TogetherFacts
      <4> QED  BY <1>2, <4>3, <4>4, TogetherFacts
    <3>3. NoneLeft(e, x + 1)'
      <4> SUFFICES ASSUME NEW q \in akasha', x + 1 =< q, q < e[1]
                   PROVE  Now(q)' \notin evictions'[e].alive
        BY DEF NoneLeft
      <4>1. q \in akasha /\ q \in Nat /\ q # p  BY <1>1, <1>3
      <4>2. ~(q < p)  BY <1>5, <4>1
      <4>3. p + 1 =< q  BY <1>3, <4>1, <4>2
      <4>4. Now(q)' = Now(q) /\ evictions'[e] = evictions[e]  BY <2>1
      <4> QED  BY <2>6, <4>1, <4>3, <4>4 DEF NoneLeft
    <3> QED  BY <1>5, <3>1, <3>2, <3>3
  <2> QED  BY <2>3, <2>4, <2>5, <2>6
<1> QED  BY <1>8, <1>9

\* A context is evicted.
LEMMA EvictOK ==
  ASSUME AccInv, NEW p \in akasha, evict(p)
  PROVE  AccInv'
<1>1. PICK i : i = Now(p)  OBVIOUS
<1>2. /\ ProgramOK /\ ReplaysOK /\ PastOK /\ EdgesOK /\ HoldersKnown /\ IsFull(p)
  BY DEF AccInv, evict
<1>3. /\ program' = program /\ lives' = lives /\ replays' = replays
      /\ sources' = sources /\ akasha' = akasha \ {p}
      /\ backedges' = [q \in Place |->
                         IF q = p THEN {} ELSE Closure(parts', backedges[q])]
      /\ evictions' = [e \in DOMAIN evictions \cup {i} |->
                         IF e = i
                         THEN [alive |-> {j \in Alive : j[1] < p},
                               held  |-> {Now(Holder(d)) : d \in Deps(p)}]
                         ELSE evictions[e]]
  BY <1>1 DEF evict
<1>4. /\ IsFiniteSet(parts') /\ Apart(parts')
      /\ Names(parts') = Ufs \cup {cost(i)}
      /\ Counts(parts', DOMAIN evictions \cup {i})
      /\ IsFiniteSet(DOMAIN evictions \cup {i})
      /\ i \in FullObjects /\ i \notin DOMAIN evictions
      /\ \A m, n : Together(parts, m, n) => Together(parts', m, n)
      /\ \A n \in Gathered(p) : Together(parts', cost(i), n)
  BY <1>1, EvictCosts
<1>5. /\ Place' = Place /\ \A q : IsFull(q)' = IsFull(q) /\ Deps(q)' = Deps(q)
      /\ \A q : Now(q)' = Now(q)
  BY <1>3 DEF Place, IsFull, Deps, Now
<1>6. Objects' = Objects /\ FullObjects' = FullObjects
  BY <1>3, <1>5 DEF Objects, FullObjects
<1>7. Alive' = Alive \ {i}
  <2>1. Alive' = {Now(q) : q \in akasha \ {p}}  BY <1>3, <1>5 DEF Alive
  <2>2. \A q : Now(q)[1] = q  BY <1>2, NowFacts
  <2>3. \A q : Now(q) = i => q = p  BY <1>1, <2>2
  <2>4. Alive = {Now(q) : q \in akasha}  BY DEF Alive
  <2> QED  BY <1>1, <2>1, <2>3, <2>4
<1>8. /\ DOMAIN evictions' = DOMAIN evictions \cup {i}
      /\ evictions'[i] = [alive |-> {j \in Alive : j[1] < p},
                          held  |-> {Now(Holder(d)) : d \in Deps(p)}]
      /\ \A e \in DOMAIN evictions : evictions'[e] = evictions[e]
  BY <1>3, <1>4
<1>9. Ufs' = Ufs \cup {cost(i)}
  <2>1. {cost(e) : e \in DOMAIN evictions \cup {i}}
          = {cost(e) : e \in DOMAIN evictions} \cup {cost(i)}
    OBVIOUS
  <2> QED  BY <1>6, <1>8, <2>1 DEF Ufs
<1>10. ProgramOK'
  <2>1. \A q \in Place : program[q].root => q # p  BY <1>2 DEF IsFull
  <2> QED  BY <1>2, <1>3, <1>5, <2>1 DEF ProgramOK
<1>11. ReplaysOK'  BY <1>2, <1>3, <1>5 DEF ReplaysOK
<1>12. CostsOK'  BY <1>4, <1>8, <1>9 DEF CostsOK
<1>13. EdgesOK'
  <2>1. \A q \in Place : backedges'[q] \in SUBSET Ufs'
    BY <1>3, <1>4, <1>9, ClosureNames
  <2>2. Place = 1..Len(program) /\ Len(program) \in Nat  BY <1>2, NowFacts DEF Place
  <2>3. backedges' \in [1..Len(program) -> SUBSET Ufs']  BY <1>3, <2>1, <2>2
  <2>4. backedges' \in Seq(SUBSET Ufs') /\ Len(backedges') = Len(program)
    BY <2>2, <2>3, FunctionSeq
  <2> QED  BY <1>3, <2>4 DEF EdgesOK
<1>14. ASSUME NEW d \in Deps(p)  PROVE Now(Holder(d)) \in Objects
  <2>1. p \in Place  BY <1>2, NowFacts
  <2>2. d \in 1..(p - 1) /\ program # <<>>  BY <1>2, <2>1, BeforeFacts DEF ProgramOK
  <2>3. Holder(d) \in akasha  BY <1>2, <2>2, HolderFacts
  <2> QED  BY <1>2, <2>3, NowFacts
<1>15. PastOK'
  <2>1. /\ evictions'[i].alive \subseteq Objects /\ evictions'[i].held \subseteq Objects
    BY <1>2, <1>8, <1>14, NowFacts
  <2>2. \A e \in DOMAIN evictions' :
          evictions'[e].alive \subseteq Objects /\ evictions'[e].held \subseteq Objects
    BY <1>2, <1>8, <2>1 DEF PastOK
  <2> QED  BY <1>2, <1>3, <1>4, <1>6, <1>7, <1>8, <2>2 DEF PastOK
<1>16. TakersKnown'
  <2>1. ASSUME NEW j \in DOMAIN sources, NEW s \in sources[j]
        PROVE  /\ s \in Alive' /\ IsFull(s[1])' =>
                    \/ forward_uf(j) \in backedges'[s[1]]
                    \/ Together(parts', forward_uf(j), forward_uf(s))
                    \/ Together(parts', forward_uf(j), backward_uf(s))
               /\ s \in DOMAIN evictions \cup {i} =>
                    Together(parts', cost(s), forward_uf(j))
    BY <1>1, <1>5, <1>7, EvictTakers
  <2> QED  BY <1>3, <1>8, <2>1 DEF TakersKnown
<1>17. HoldersKnown'
  <2>1. ASSUME NEW e \in DOMAIN evictions \cup {i}, NEW j \in evictions'[e].held
        PROVE  Together(parts', cost(e), backward_uf(j))
    <3>1. CASE e = i
      <4>1. PICK d \in Deps(p) : j = Now(Holder(d))  BY <1>8, <3>1
      <4>2. backward_uf(j) \in Gathered(p)  BY <4>1 DEF Gathered
      <4> QED  BY <1>4, <3>1, <4>2
    <3>2. CASE e # i  BY <1>2, <1>4, <1>8, <3>2 DEF HoldersKnown
    <3> QED  BY <3>1, <3>2
  <2> QED  BY <1>8, <2>1 DEF HoldersKnown
<1>18. BeforeKnown'
  <2>1. ASSUME NEW e \in DOMAIN evictions \cup {i}
        PROVE  \E b \in 1..(e[1] - 1) :
                 \/ /\ b \in akasha' /\ Together(parts', cost(e), backward_uf(Now(b)))
                    /\ NoneLeft(e, b + 1)'
                 \/ /\ \E j \in DOMAIN sources : Replaced(j)' /\ j[1] = b
                    /\ NoneLeft(e, b)'
    BY <1>1, <1>5, <1>7, <1>8, EvictBefore
  <2> QED  BY <1>3, <1>5, <1>8, <2>1 DEF BeforeKnown
<1> QED  BY <1>10, <1>11, <1>12, <1>13, <1>15, <1>16, <1>17, <1>18 DEF AccInv

\* Nothing has been made or evicted.
LEMMA InitOK == AccInit => AccInv
<1> SUFFICES ASSUME AccInit  PROVE AccInv
  OBVIOUS
<1>1. /\ program = <<>> /\ lives = <<>> /\ akasha = {} /\ backedges = <<>>
      /\ parts = {} /\ replays = <<>>
      /\ DOMAIN evictions = {} /\ DOMAIN sources = {}
  BY DEF AccInit
<1>2. Place = {}  BY <1>1 DEF Place
<1>3. Objects = {} /\ FullObjects = {} /\ Alive = {}
  BY <1>1, <1>2 DEF Objects, FullObjects, Alive
<1>4. Ufs = {}  BY <1>1, <1>3 DEF Ufs
<1>5. ProgramOK  BY <1>1, <1>2 DEF ProgramOK
<1>6. ReplaysOK  BY <1>1 DEF ReplaysOK
<1>7. PastOK  BY <1>1, <1>3, FS_EmptySet DEF PastOK
<1>8. CostsOK  BY <1>1, <1>4, FS_EmptySet DEF CostsOK, Names, Apart, Counts
<1>9. EdgesOK  BY <1>1 DEF EdgesOK
<1>10. TakersKnown /\ HoldersKnown /\ BeforeKnown
  BY <1>1 DEF TakersKnown, HoldersKnown, BeforeKnown
<1> QED  BY <1>5, <1>6, <1>7, <1>8, <1>9, <1>10 DEF AccInv

\* Every step keeps it.
LEMMA NextOK == AccInv /\ [AccNext]_accVars => AccInv'
<1> SUFFICES ASSUME AccInv, [AccNext]_accVars  PROVE AccInv'
  OBVIOUS
<1>1. CASE SuspendRoot  BY <1>1, SuspendRootOK
<1>2. CASE \E D \in SUBSET Place : Cardinality(D) =< MaxDeps /\ Complete(D)
  BY <1>2, CompleteOK
<1>3. CASE \E p \in Place : Demand(p)  BY <1>3, DemandOK
<1>4. CASE CompleteAgain  BY <1>4, CompleteAgainOK
<1>5. CASE \E p \in akasha : evict(p) \/ Weigh(p)  BY <1>5, EvictOK, WeighOK
<1>6. CASE UNCHANGED accVars
  <2>1. UNCHANGED <<program, lives, akasha, costVars, pastVars>> /\ replays' = replays
    BY <1>6 DEF accVars, progVars
  <2>2. ReplaysOK'  BY <2>1 DEF AccInv, ReplaysOK, Place, IsFull
  <2> QED  BY <2>1, <2>2, SameOK
<1> QED  BY <1>1, <1>2, <1>3, <1>4, <1>5, <1>6 DEF AccNext

(***************************************************************************)
(* Theorems                                                                *)
(***************************************************************************)

\* In every reachable state the parts' totals count evictions, and every
\* eviction has reached those who took the context's values, those it took
\* values from, and one before it (evict, FullContextNode's constructor).
THEOREM AccInvAlways == AccSpec => []AccInv
<1>1. AccInit => AccInv  BY InitOK
<1>2. AccInv /\ [AccNext]_accVars => AccInv'  BY NextOK
<1> QED  BY <1>1, <1>2, PTL DEF AccSpec

\* Each context's time_cost is its own time and that of each eviction it knows
\* of, once, for any program and any order of merges (time_cost, counted).
THEOREM AlwaysCountedOnce == AccSpec => []CountedOnce
<1>1. AccSpec => []AccInv  BY AccInvAlways
<1>2. AccInv => CountedOnce  BY CountedNow
<1> QED  BY <1>1, <1>2, PTL

\* An eviction is charged to whoever took a value of the evicted context, and
\* to whoever held one of its dependencies, while they live, through any number
\* of compactions of their sets (evict, UFSet::sum).
THEOREM NeighboursAlwaysCharged == AccSpec => []NeighboursCharged
<1>1. AccSpec => []AccInv  BY AccInvAlways
<1>2. AccInv => NeighboursCharged  BY ChargedNow
<1> QED  BY <1>1, <1>2, PTL

\* The context a replay would start from knows of the evictions behind it that
\* it has seen, unless a context between was replaced while it lived (evict
\* merges with the list's parent).
THEOREM ReplayAlwaysCharged == AccSpec => []ReplayCharged
<1>1. AccSpec => []AccInv  BY AccInvAlways
<1>2. AccInv => ReplayCharged  BY ReplayNow
<1> QED  BY <1>1, <1>2, PTL

\* What all contexts together know of never exceeds what was evicted, and is
\* all of it until a context is replaced while it lives.
THEOREM NoCostEverLost == AccSpec => []NoCostLost
<1>1. AccSpec => []AccInv  BY AccInvAlways
<1>2. AccInv => NoCostLost  BY NoneLostNow
<1> QED  BY <1>1, <1>2, PTL
=============================================================================
