----------------------------- MODULE CostParts -----------------------------
(***************************************************************************)
(* Costs that have been thrown together.  A part is a set of names (the UF *)
(* objects that lead to one root) with the one cost they share.  Names     *)
(* never part again, so a set of parts is all a union-find can tell.       *)
(***************************************************************************)
EXTENDS Naturals, FiniteSetsExt

\* The part of a name.
Part(P, n) == CHOOSE p \in P : n \in p.ufs

Same(P, m, n) == Part(P, m) = Part(P, n)

Names(P) == UNION {p.ufs : p \in P}

\* The parts that the names of S meet: each once, however many names meet it.
Meets(P, S) == {p \in P : p.ufs \cap S # {}}

Total(P) == MapThenSumSet(LAMBDA p : p.total, P)

\* All that is in one part with a name of S.
Closure(P, S) == UNION {p.ufs : p \in Meets(P, S)}

\* The names of S are thrown together.
Joined(P, S) ==
  (P \ Meets(P, S)) \cup
    {[ufs |-> Closure(P, S), total |-> Total(Meets(P, S))]}
=============================================================================
