--------------------------- MODULE CostPartition ---------------------------
(***************************************************************************)
(* What UF and UFSet promise.  Costs are made, thrown together and read;   *)
(* one set of them can be added to, summed and thrown together as a whole. *)
(* There are no nodes here, no parents and no vector.                      *)
(***************************************************************************)
EXTENDS CostParts

CONSTANTS Name,         \* names of UF objects
          Price(_)      \* what a UF object is made with

VARIABLES parts,        \* the costs there are
          members,      \* what is in the set, with all that is one with it
          answer        \* what the last call has answered, or 0

costVars == <<parts, members, answer>>

PartitionInit == parts = {} /\ members = {} /\ answer = 0

Create(n) ==
  /\ n \notin Names(parts)
  /\ parts' = parts \cup {[ufs |-> {n}, total |-> Price(n)]}
  /\ answer' = 0
  /\ UNCHANGED members

\* What is thrown together with a member becomes one.
Join(S) ==
  /\ parts' = Joined(parts, S)
  /\ members' = Closure(parts', members)
  /\ answer' = 0

Read(n) ==
  /\ UNCHANGED <<parts, members>>
  /\ answer' = Part(parts, n).total

Add(n) ==
  /\ UNCHANGED parts
  /\ members' = members \cup Part(parts, n).ufs
  /\ answer' = 0

\* Each member once, and not at all if it has been counted elsewhere: such a
\* member leaves the set.
SumUp(counted) ==
  /\ UNCHANGED parts
  /\ members' = members \ Closure(parts, counted)
  /\ answer' = Total(Meets(parts, members'))

\* The set's costs and n become one, and n all that is in the set.
Gather(n) ==
  /\ parts' = Joined(parts, members \cup {n})
  /\ members' = Part(parts', n).ufs
  /\ answer' = 0

PartitionNext ==
  \/ \E n \in Name : Create(n)
  \/ \E n \in Names(parts) : Read(n) \/ Add(n)
  \/ \E m, n \in Names(parts) : m # n /\ Join({m, n})
  \/ \E n \in Names(parts) : Gather(n)
  \/ \E C \in SUBSET Names(parts) : SumUp(C)

PartitionSpec == PartitionInit /\ [][PartitionNext]_costVars
=============================================================================
