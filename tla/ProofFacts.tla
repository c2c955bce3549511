----------------------------- MODULE ProofFacts -----------------------------
(***************************************************************************)
(* Facts about natural numbers (least and greatest elements, counting up), *)
(* and about the ends of sequences (stacks in the code), that several      *)
(* proofs use.                                                             *)
(***************************************************************************)
EXTENDS Integers, Sequences, SequencesExt, SequenceTheorems,
        WellFoundedInduction, TLAPS

\* A set of naturals that is not empty has a least element.
LEMMA LeastElement ==
  ASSUME NEW T \in SUBSET Nat, T # {}
  PROVE  \E x \in T : \A y \in T : x =< y
<1>1. \E R : /\ IsWellFoundedOn(R, Nat)
             /\ \A x, y \in Nat : x < y => <<x, y>> \in R
  <2>1. IsWellFoundedOn(OpToRel(<, Nat), Nat)  BY NatLessThanWellFounded
  <2>2. \A x, y \in Nat : x < y => <<x, y>> \in OpToRel(<, Nat)  BY DEF OpToRel
  <2> QED  BY <2>1, <2>2
<1>2. PICK R : /\ IsWellFoundedOn(R, Nat)
               /\ \A x, y \in Nat : x < y => <<x, y>> \in R
  BY <1>1
<1>3. \E x \in T : \A y \in T : ~ (<<y, x>> \in R)
  <2>1. IsWellFoundedOn(R, Nat)  BY <1>2
  <2> HIDE <1>2
  <2> QED  BY <2>1, WFMin, Zenon
<1>4. PICK x \in T : \A y \in T : ~ (<<y, x>> \in R)  BY <1>3
<1>5. ASSUME NEW y \in T  PROVE x =< y
  <2>1. x \in Nat /\ y \in Nat  OBVIOUS
  <2>2. <<y, x>> \notin R  BY <1>4
  <2>3. ~(y < x)  BY <1>2, <2>1, <2>2
  <2> QED  BY <2>1, <2>3
<1> QED  BY <1>5

\* A set of naturals up to n that is not empty has a greatest one.
LEMMA MaxFacts ==
  ASSUME NEW n \in Nat, NEW S \in SUBSET (1..n), S # {}
  PROVE  Max(S) \in S /\ \A y \in S : y =< Max(S)
<1> DEFINE T == {m \in Nat : n - m \in S}
<1>1. PICK s \in S : TRUE  OBVIOUS
<1>2. n - s \in T
  <2>1. s \in 1..n  BY <1>1
  <2>2. n - s \in Nat /\ n - (n - s) = s  BY <2>1
  <2> QED  BY <1>1, <2>2
<1>3. PICK m \in T : \A x \in T : m =< x  BY <1>2, LeastElement
<1>4. n - m \in S  OBVIOUS
<1>5. ASSUME NEW y \in S  PROVE n - m >= y
  <2>1. y \in 1..n  OBVIOUS
  <2>2. n - y \in Nat /\ n - (n - y) = y  BY <2>1
  <2>3. n - y \in T  BY <2>2
  <2>4. m =< n - y  BY <1>3, <2>3
  <2>5. m \in Nat  BY <1>3
  <2> QED  BY <2>1, <2>4, <2>5
<1> HIDE DEF T
<1>6. \E x \in S : \A y \in S : x >= y  BY <1>4, <1>5
<1>7. Max(S) \in S /\ \A y \in S : Max(S) >= y  BY <1>6 DEF Max
<1>8. \A y \in S : y \in Int  OBVIOUS
<1> QED  BY <1>7, <1>8

\* What holds for 0, and for k if it does for k - 1, holds up to n.
LEMMA UpTo ==
  ASSUME NEW n \in Nat, NEW G \in SUBSET (0..n), 0 \in G,
         \A k \in 1..n : k - 1 \in G => k \in G
  PROVE  G = 0..n
<1> SUFFICES ASSUME G # 0..n  PROVE FALSE
  OBVIOUS
<1> DEFINE T == (0..n) \ G
<1>1. T \in SUBSET Nat /\ T # {}
  <2>1. 0..n \subseteq Nat  OBVIOUS
  <2>2. T \subseteq 0..n  OBVIOUS
  <2>3. T # {}
    <3> HIDE DEF T
    <3>1. T = (0..n) \ G  BY DEF T
    <3> QED  BY <3>1
  <2> QED  BY <2>1, <2>2, <2>3
<1> HIDE DEF T
<1>2. PICK k \in T : \A j \in T : k =< j  BY <1>1, LeastElement
<1>3. k \in 1..n /\ k \notin G
  <2>1. k \in 0..n /\ k \notin G  BY <1>2 DEF T
  <2>2. k # 0  BY <2>1
  <2> QED  BY <2>1, <2>2
<1>4. k - 1 \in 0..n /\ ~(k =< k - 1)  BY <1>3
<1>5. k - 1 \in G  BY <1>2, <1>4 DEF T
<1> QED  BY <1>3, <1>5

\* A place that is not the last is before it.
LEMMA NotLast ==
  ASSUME NEW n \in Nat, NEW i \in 1..n, i # n
  PROVE  i \in 1..(n - 1)
OBVIOUS

\* A function on 1..n is a sequence.
LEMMA FunctionSeq ==
  ASSUME NEW n \in Nat, NEW S, NEW f \in [1..n -> S]
  PROVE  f \in Seq(S) /\ Len(f) = n
<1>1. f \in Seq(S)  BY SeqDef
<1>2. Len(f) \in Nat /\ 1..Len(f) = 1..n
  <2>1. Len(f) \in Nat /\ DOMAIN f = 1..Len(f)  BY <1>1, LenProperties
  <2>2. DOMAIN f = 1..n  OBVIOUS
  <2> QED  BY <2>1, <2>2
<1>3. \A l, m \in Nat : 1..l = 1..m => l = m
  <2> SUFFICES ASSUME NEW l \in Nat, NEW m \in Nat, 1..l = 1..m, l # m  PROVE FALSE
    OBVIOUS
  <2>1. CASE l < m
    <3>1. m \in 1..m /\ m \notin 1..l  BY <2>1
    <3> QED  BY <3>1
  <2>2. CASE m < l
    <3>1. l \in 1..l /\ l \notin 1..m  BY <2>2
    <3> QED  BY <3>1
  <2> QED  BY <2>1, <2>2
<1> QED  BY <1>1, <1>2, <1>3

\* Front drops the last element and keeps the others.
LEMMA FrontFacts ==
  ASSUME NEW S, NEW s \in Seq(S), s # <<>>
  PROVE  /\ Front(s) \in Seq(S)
         /\ Len(Front(s)) = Len(s) - 1
         /\ \A i \in 1..(Len(s) - 1) : Front(s)[i] = s[i]
<1> DEFINE n == Len(s) - 1
           f == SubSeq(s, 1, n)
<1>1. n \in Nat  BY LenProperties
<1>2. \A i \in 1..n : s[i] \in S  OBVIOUS
<1>3. /\ f \in Seq(S)
      /\ Len(f) = IF 1 <= n THEN n - 1 + 1 ELSE 0
      /\ \A i \in 1 .. n - 1 + 1 : f[i] = s[1 + i - 1]
  <2> HIDE DEF n
  <2> QED  BY <1>1, <1>2, SubSeqProperties
<1>4. Front(s) = f  BY DEF Front
<1>5. f \in Seq(S) /\ Len(f) = n /\ \A i \in 1..n : f[i] = s[i]
  <2> HIDE DEF n, f
  <2> QED  BY <1>1, <1>3
<1> QED  BY <1>4, <1>5

\* Last is an element.
LEMMA LastFacts ==
  ASSUME NEW S, NEW s \in Seq(S), s # <<>>
  PROVE  Last(s) \in S /\ Last(s) = s[Len(s)] /\ Len(s) \in Nat \ {0}
BY DEF Last

\* Replacing the last element of a sequence keeps the others.
LEMMA ExceptFacts ==
  ASSUME NEW S, NEW s \in Seq(S), s # <<>>, NEW x \in S,
         NEW t, t = [s EXCEPT ![Len(s)] = x]
  PROVE  /\ t \in Seq(S)
         /\ Len(t) = Len(s)
         /\ t # <<>>
         /\ t[Len(s)] = x
         /\ \A i \in 1..(Len(s) - 1) : t[i] = s[i]
OBVIOUS

\* Appending an element keeps the others.
LEMMA AppendFacts ==
  ASSUME NEW S, NEW s \in Seq(S), NEW x \in S
  PROVE  /\ Append(s, x) \in Seq(S)
         /\ Len(Append(s, x)) = Len(s) + 1
         /\ Append(s, x) # <<>>
         /\ Append(s, x)[Len(s) + 1] = x
         /\ \A i \in 1..Len(s) : Append(s, x)[i] = s[i]
OBVIOUS
=============================================================================
