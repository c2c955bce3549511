----------------------------- MODULE Accounting -----------------------------
(***************************************************************************)
(* What a context would cost to make again.  Evicting a context throws its *)
(* time_taken together with what its neighbours already know of: the       *)
(* contexts that took its values, those it took values from, and the one   *)
(* before it, where a replay would start.  time_cost adds up what a        *)
(* context's neighbourhood has lost.                                       *)
(*                                                                         *)
(* Contexts are numbered in the order of their tocks.  A context made      *)
(* again is a new object with costs of its own: an incarnation is <<p, k>>,*)
(* the k-th object at place p.  Costs are thrown together, and sets of     *)
(* them kept, as CostPartition says, which UnionFind implements: a UFSet   *)
(* is all that is one with a member.                                       *)
(***************************************************************************)
EXTENDS Integers, Sequences, FiniteSets, SequencesExt, CostParts

CONSTANTS MaxPlaces,   \* bound: contexts the program makes
          MaxDeps,     \* bound: contexts it takes values from, for one of them
          MaxAgain     \* bound: how often contexts are made again

VARIABLES
  program,    \* place -> is it a root context, and its dependencies
  lives,      \* place -> how many objects it has had
  akasha,     \* places with a context now
  backedges,  \* place -> UFSet of the context there, or {}
  parts,      \* what the UF objects lead to
  replays     \* replays that run: the place to be made next, and the last one

\* Kept for the properties: what was evicted and in whose presence, and who
\* held the dependencies of a context when it was made.
VARIABLES evictions, sources

progVars == <<program, lives, akasha, replays>>
costVars == <<backedges, parts>>
pastVars == <<evictions, sources>>
accVars  == <<progVars, costVars, pastVars>>

\* time_taken of every context, as use_measured_time is false.
plank_time == 1

Place == 1..Len(program)
Again     == FoldLeft(+, 0, lives) - Len(lives)
IsFull(p) == ~program[p].root
Deps(p)   == program[p].deps
Now(p)    == <<p, lives[p]>>
Alive     == {Now(p) : p \in akasha}

\* UF objects: two that a context has, and the one evict makes.
forward_uf(i)  == [uf |-> "forward", of |-> i]
backward_uf(i) == [uf |-> "backward", of |-> i]
cost(i)        == [uf |-> "cost", of |-> i]

New(n) == [ufs |-> {n}, total |-> 0]

\* find_le_node, and the node before a node.
Holder(d) == Max({q \in akasha : q =< d})
Before(p) == Max({q \in akasha : q < p})

AccInit ==
  /\ program = <<>>
  /\ lives = <<>>
  /\ akasha = {}
  /\ backedges = <<>>
  /\ parts = {}
  /\ replays = <<>>
  /\ evictions = [i \in {} |-> {}]
  /\ sources = [i \in {} |-> {}]

(***************************************************************************)
(* Contexts are made                                                       *)
(***************************************************************************)

\* RootRecordNode::suspended: a bind at the root puts a root context in front.
SuspendRoot ==
  /\ replays = <<>>
  /\ Len(program) < MaxPlaces
  /\ program # <<>> => ~Last(program).root
  /\ LET p == Len(program) + 1
     IN  /\ program' = Append(program, [root |-> TRUE, deps |-> {}])
         /\ lives' = Append(lives, 1)
         /\ akasha' = akasha \cup {p}
         /\ backedges' = Append(backedges, {})
         /\ parts' = parts \cup {New(backward_uf(<<p, 1>>))}
  /\ UNCHANGED <<replays, pastVars>>

\* FullContextNode's constructor, and what HeadRecordNode::completed does with
\* the result: object i at place p, which takes values from D.
Construct(i, D) ==
  LET p     == i[1]
      hold  == {Holder(d) : d \in D}
      grown == [q \in 1..Len(lives') |->
                 IF q = p THEN {}
                 ELSE IF q \in hold /\ IsFull(q)
                 THEN backedges[q] \cup {forward_uf(i)}
                 ELSE backedges[q]]
  IN  /\ akasha' = akasha \cup {p}
      /\ parts' = parts \cup {New(forward_uf(i)), New(backward_uf(i))}
      /\ backedges' = grown
      /\ sources' = [j \in DOMAIN sources \cup {i} |->
                       IF j = i THEN {Now(q) : q \in hold} ELSE sources[j]]
      /\ UNCHANGED evictions

\* A record completes for the first time.
Complete(D) ==
  /\ replays = <<>>
  /\ program # <<>>
  /\ Len(program) < MaxPlaces
  /\ program' = Append(program, [root |-> FALSE, deps |-> D])
  /\ lives' = Append(lives, 1)
  /\ Construct(<<Len(program) + 1, 1>>, D)
  /\ UNCHANGED replays

\* shared_ptr of a value that was made at p and is not in memory, because its
\* context was evicted or it was evicted alone: by the root's code, or as an
\* input of what a replay makes next.  The replay starts from the last context
\* before it.
Demand(p) ==
  /\ IsFull(p)
  /\ replays # <<>> => p \in Deps(Last(replays).at)
  /\ Again + p - Before(p) =< MaxAgain
  /\ replays' = Append(replays, [at |-> Before(p) + 1, to |-> p])
  /\ UNCHANGED <<program, lives, akasha, costVars, pastVars>>

\* A record of a replay completes.  It may replace a context that lives and
\* had one of its values evicted.
CompleteAgain ==
  /\ replays # <<>>
  /\ LET top == Last(replays)
         p   == top.at
     IN  /\ Again < MaxAgain
         /\ lives' = [lives EXCEPT ![p] = @ + 1]
         /\ Construct(<<p, lives[p] + 1>>, Deps(p))
         /\ replays' = IF p = top.to THEN Front(replays)
                       ELSE Append(Front(replays), [top EXCEPT !.at = p + 1])
  /\ UNCHANGED program

(***************************************************************************)
(* Contexts are evicted and weighed                                        *)
(***************************************************************************)

\* Mutant of Gathered: what was lost behind the context is forgotten.
GatheredNoBackward(p) ==
  {forward_uf(Now(p)), cost(Now(p))}
    \cup backedges[p]
    \cup {backward_uf(Now(Holder(d))) : d \in Deps(p)}
    \cup {backward_uf(Now(Before(p)))}

\* Mutant of Gathered: the context before is not told.
GatheredNoBefore(p) ==
  {forward_uf(Now(p)), backward_uf(Now(p)), cost(Now(p))}
    \cup backedges[p]
    \cup {backward_uf(Now(Holder(d))) : d \in Deps(p)}

\* What evict merges cost with.
Gathered(p) ==
  {forward_uf(Now(p)), backward_uf(Now(p)), cost(Now(p))}
    \cup backedges[p]
    \cup {backward_uf(Now(Holder(d))) : d \in Deps(p)}
    \cup {backward_uf(Now(Before(p)))}

\* FullContextNode::evict.
evict(p) ==
  /\ IsFull(p)
  /\ parts' = Joined(parts \cup {[ufs |-> {cost(Now(p))}, total |-> plank_time]},
                     Gathered(p))
  /\ backedges' = [q \in Place |->
                     IF q = p THEN {} ELSE Closure(parts', backedges[q])]
  /\ akasha' = akasha \ {p}
  /\ evictions' = [i \in DOMAIN evictions \cup {Now(p)} |->
                     IF i = Now(p)
                     THEN [alive |-> {j \in Alive : j[1] < p},
                           held  |-> {Now(Holder(d)) : d \in Deps(p)}]
                     ELSE evictions[i]]
  /\ UNCHANGED <<program, lives, replays, sources>>

Own(p) == {forward_uf(Now(p)), backward_uf(Now(p))}

\* The UF objects that time_cost looks at.
Around(p) ==
  Own(p)
    \cup backedges[p]
    \cup {backward_uf(Now(Holder(d))) : d \in Deps(p)}
    \cup {backward_uf(Now(Before(p)))}

\* Mutant of time_cost: counted is not asked for the context before.
TimeCostTwice(p) ==
  plank_time
    + Total(Meets(parts, Around(p)))
    + Part(parts, backward_uf(Now(Before(p)))).total

\* FullContextNode::time_cost: counted lets every part in once.
time_cost(p) == plank_time + Total(Meets(parts, Around(p)))

\* Mutant of Compacted: the set is summed last.
CompactedLast(p) ==
  backedges[p] \ Closure(parts, Own(p)
                           \cup {backward_uf(Now(Holder(d))) : d \in Deps(p)}
                           \cup {backward_uf(Now(Before(p)))})

\* UFSet::sum leaves in the set what was not counted before it.
Compacted(p) == backedges[p] \ Closure(parts, Own(p))

\* The book asks for the cost of a context, which compacts its set.
Weigh(p) ==
  /\ IsFull(p)
  /\ backedges' = [backedges EXCEPT ![p] = Compacted(p)]
  /\ UNCHANGED <<progVars, parts, pastVars>>

AccNext ==
  \/ SuspendRoot
  \/ \E D \in SUBSET Place : Cardinality(D) =< MaxDeps /\ Complete(D)
  \/ \E p \in Place : Demand(p)
  \/ CompleteAgain
  \/ \E p \in akasha : evict(p) \/ Weigh(p)

AccSpec == AccInit /\ [][AccNext]_accVars

(***************************************************************************)
(* Properties                                                              *)
(***************************************************************************)

\* Each context's time_cost is its own time and that of each eviction it knows
\* of, once, whatever was merged before (time_cost, counted).
CountedOnce ==
  \A p \in akasha : IsFull(p) =>
    LET known == Closure(parts, Around(p))
    IN  time_cost(p) = plank_time *
          (1 + Cardinality({i \in DOMAIN evictions : cost(i) \in known}))

\* An eviction is charged to who would have to pay for it and still lives:
\* whoever took a value of the evicted context, and whoever held one of its
\* dependencies (FullContextNode's constructor and evict, through any number
\* of compactions of backedges).
NeighboursCharged ==
  \A i \in DOMAIN evictions :
    /\ \A j \in Alive : j \in DOMAIN sources /\ i \in sources[j] =>
         Same(parts, cost(i), forward_uf(j))
    /\ \A j \in Alive \cap evictions[i].held :
         Same(parts, cost(i), backward_uf(j))

\* A context that was replaced while it lived.
Replaced(i) == i \in DOMAIN sources /\ i \notin DOMAIN evictions \cup Alive

\* The context a replay would start from knows of the evictions behind it that
\* it has seen, unless one between was replaced while it lived (evict merges
\* into the list's parent).
ReplayCharged ==
  \A i \in DOMAIN evictions :
    LET b == Before(i[1])
    IN  \/ Now(b) \notin evictions[i].alive
        \/ \E j \in DOMAIN sources : Replaced(j) /\ b < j[1] /\ j[1] < i[1]
        \/ Same(parts, cost(i), backward_uf(Now(b)))

\* What replays from any context would take, as replay() reports it.
InSight == Total(Meets(parts, {backward_uf(i) : i \in Alive}))

\* What is in sight is the time of every eviction, each once, until a context
\* is replaced while it lives: that takes with it what it alone knew, and never
\* makes anything count twice (evict; ContextNode::backward_uf starts at 0).
NoCostLost ==
  LET spent == plank_time * Cardinality(DOMAIN evictions)
  IN  /\ InSight =< spent
      /\ (\A j \in DOMAIN sources : ~Replaced(j)) => InSight = spent
=============================================================================
