# A TLA+ model of zombie

zombie is a C++20 header library for evict-and-recompute: a `Zombie<T>` is a
value that may be in memory or may have been thrown away, and is recomputed when
somebody asks for it. One thread runs everything. What is hard is not
interleaving of threads but re-entrancy: asking for a value may run the program
again from some earlier point, bodies and callbacks that run then may evict
anything, and a replay may have to start further replays. The invariants relate
two stacks (records, replays), a clock that is turned back and forth, and a
store of contexts that has holes wherever the reaper has been.

Paths below are relative to `include/zombie/` unless they say otherwise.

## Inventory

| part | state | operations | talks to |
|---|---|---|---|
| Engine (`zombie_impl.hpp`, `record.hpp`, `context.hpp`, `trailokya.hpp`) | `current_tock`, the stack `records`, the stack `replays`, the store `akasha` | `construct`, `bindZombie`, `bindZombieTC`, `TailCall`, `finish`, `play`, `shared_ptr`, `replay`, `evict` | asks the store for contexts, puts completed steps in the book, is called back by bodies and `each_step` |
| SplayList (`tock/splay_list.hpp`) | a splay tree whose nodes are also a list | `insert`, `find_le_node`, `find_precise_node`, `remove_precise`, the node before | holds the contexts for the engine |
| Book (`heap/gd_heap.hpp`) | `heap`, `waiting` | `push`, `touch`, `adjust_pop`, `readjust` | asks contexts for their cost, tells them their slot |
| MinHeap (`heap/heap.hpp`) | `arr` | `push`, `pop`, `remove`, `rebalance` | tells each element the slot it is in |
| Reaper (`trailokya.hpp`) | none | `have_soul`, `murder` | pops the book, evicts from the store |
| UF and UFSet (`uf.hpp`) | a forest of nodes with costs at the roots; a vector of pointers into it that stands for a set | `merge`, `value`, `UFSet::insert`, `sum`, `UFSet::merge` | keeps the costs for the accounting |
| Cost accounting (`zombie_impl.hpp` 53-122, 380-424) | per context `forward_uf`, `backward_uf`, `backedges`, `dependencies` | the constructor of `FullContextNode`, `evict`, `time_cost` | looks for neighbours in the store; read by `cost()` while the book weighs an entry |
| ZombieMeter (`meter.hpp`) | a stack of nodes, `forwarded`; `recompute_time` of Trailokya | `measured`, `block`, `fast_forward` | wraps replays so that their time is not counted |
| Bindings, `b_heap.hpp`, `trampoline.hpp` | | | called by nothing in the library |
| `debug.cpp`, logging | | | output |

### What makes each part correct, and what is hard about it

*Engine.* A handle must give the value the program made at its tock, whatever was
evicted and made again. The running record asserts that the next zombie goes
into the next slot (`tock_to_index(created_time, t) == ez.size()`), which depends
on the clock being restored for a record that a replay interrupted in the middle
of its body. `shared_ptr` dereferences what the store returns without a test, so
there must always be a context to start from, with a replayer. The replay loop
must end, although `each_step` may evict what it has just made. A replay within a
replay must ask for something older, or the C++ stack grows without end. All of
this is out of reach of tests: it takes a particular eviction between two steps of
a particular replay.

*MinHeap.* The heap order, and that the slot an element was last told is its
slot, when calls return: notifications are made on the way back out of recursive
calls, after elements have moved on.

*Book and Reaper.* Entries outlive their contexts, `pool_index` is never reset,
the stored cost is out of date as a matter of course, and new entries wait in a
vector. Every live context must have exactly one entry, `touch` must reach its
own, the assertion of `murder` (something is in the book) must imply that of
`adjust_pop` (something is in the heap), and the `while (true)` must end.

*SplayList.* Finds are writes: each one rotates the tree, whose parent pointers are
kept up by hand, and `remove` splays inside a subtree that hangs from the node it is
about to delete. The search of an absent key must end next to it, and the list
must stay the order of the tree, because the engine takes a node's `parent` in the
list for the context before it.

*UF and UFSet.* Two UF objects may be one already when they are merged, and reading a
UF object rewrites the forest. The vector of a UFSet is not told of merges: what was
distinct when it was inserted may be a double when `fixup` meets it, which then
drops an element by exchanging it with the last one. Costs must be neither counted
twice nor lost, and both fixups must end.

*Cost accounting.* A context's cost is its own time and, over distinct roots, what was
evicted around it. `evict` spreads the cost over objects that may have been thrown
together before; `time_cost` drops from `backedges` what it has counted elsewhere;
and a context made again starts from costs of 0, while what it cost is still in its
neighbours. An eviction must reach the neighbours that live, count once, and stay in
sight of some live context.

*ZombieMeter.* `block` nests in `measured` and in itself; time spent in it must be taken
out of each measurement around it exactly once, and out of the ones within it not
at all. `recompute_time` must count nested replays once.

## Modules

| module | is about | extends |
|---|---|---|
| `Zombie` | the engine | |
| `Memo` | what the engine promises: a table that is only extended | |
| `ZombieMemo` | `Zombie` implements `Memo` | `Zombie` |
| `ZombieNested` | `bindZombie` inside a body | `Zombie` |
| `ZombieProof` | proofs about `Zombie`: types and stacks | `Zombie`, `ProofFacts` |
| `EngineProof` | proofs about what the engine computes, and the refinement | `ZombieMemo`, `ZombieProof` |
| `MinHeap` | the heap of `heap.hpp` | |
| `PriorityQueue` | what a heap promises: a set, and pop returns a least one | |
| `MinHeapQueue` | `MinHeap` implements `PriorityQueue` | `MinHeap` |
| `Book` | `GDHeap` and `Reaper`, on the heap | `MinHeap` |
| `BookProof` | proofs about `MinHeap`, its refinement, and `Book` | `Book`, `MinHeapQueue`, `ProofFacts` |
| `BookClaims` | what docs and tests say of the book and the code does not do | `Book` |
| `SplayList` | the tree and list of `tock/splay_list.hpp` | |
| `OrderedMap` | what a SplayList promises: a map that finds the greatest key below | |
| `SplayListMap` | `SplayList` implements `OrderedMap` | `SplayList` |
| `SplayProof` | proofs about `SplayList` and the refinement | `SplayListMap`, `ProofFacts` |
| `CostParts` | costs thrown together: names, parts and their totals | |
| `CostPartition` | what UF and UFSet promise: a partition, and a set in it | `CostParts` |
| `UnionFind` | `UFNode`, `UF` and `UFSet` of `uf.hpp` | |
| `UnionFindParts` | `UnionFind` implements `CostPartition` | `UnionFind` |
| `UnionFindProof` | proofs about `UnionFind` and the refinement | `UnionFindParts`, `ProofFacts` |
| `Accounting` | costs of contexts, on `CostParts` | `CostParts` |
| `AccountingProof` | proofs about `Accounting` and the operators of `CostParts` | `Accounting`, `ProofFacts` |
| `Stopwatch` | what the meter promises: nested measurements that stand still in a block | |
| `Meter` | `meter.hpp` and `shared_ptr`'s use of it | |
| `MeterStopwatch` | `Meter` implements `Stopwatch` | `Meter` |
| `MeterProof` | proofs about `Meter` and the refinement | `MeterStopwatch`, `ProofFacts` |
| `ProofFacts` | lemmas on stacks, least elements and counting up that several proofs use | |
| `MCMinHeap`, `MCBook` | symmetry sets for model checking | |
| `MCUnionFind` | prices for model checking | `UnionFindParts` |

### Zombie

The five variables are Trailokya's members and `log`, the program itself. The
model runs *every* pure program up to its bound: a body that runs for the first
time may do anything and appends it to `log`; a body that runs again does what
`log` says it did. The value of a zombie is the position in `log` of the event
that made it, so two zombies have the same value only if they are the same.

One step is one call of the code between two points where user code can run or
where the engine looks at its state again:

| action | code |
|---|---|
| `Construct` | `Zombie::construct`, with the hand-over to a replay whose target is this tock |
| `BindZombie` | `bindZombie` or `bindZombieTC` up to the first `play()`: root context inserted, head pushed |
| `UnrolledTailCall`, `TailCall` | the two branches of `TailCall`; `Orders` is every order the arguments can be locked in |
| `Finish` | `RecordNode::finish` |
| `Play` | one turn of the loops of `bindZombieTC` and `ContextNode::replay` |
| `Lock` | `EZombie::shared_ptr` that finds a node |
| `StartReplay`, `EndReplay` | `EZombie::shared_ptr` and `ContextNode::replay` up to their loop, and after it |
| `PopValue` | the end of `bindZombie` |
| `GetValue`, `Release` | the root code asks for a value, and drops one |
| `Murder`, `EvictIndividual` | `FullContextNode::evict`, `EZombie::evict`, at any point where user code runs |

A record's `todo` are the inputs `play()` has still to lock and `held` what it
keeps alive. Which context `Murder` takes is left open here, so that every
policy of the book is covered. A handle may also find a node through its
`ptr_cache`; `Lock` allows any node that something still keeps alive, and
`MustHit` says when the code is bound to find one.

### MinHeap, Book

One step of `MinHeap` is one call of `flow` or `sink` (`Flow`, `Sink`), and one for
the notifications made while a chain of calls returns (`FlowDone`, `SinkDone`):
nothing moves between them. `Rekey` is a caller that has set a key and calls
`rebalance`, `HeapPush`, `Pop`, `Withdraw` are the operations. Slots count from 0 as
in the code.

`Book` adds what waits, who lives, and what a context would answer if asked for its
cost now. `Complete` is the end of `HeadRecordNode::completed` (a context made
again replaces the one at its tock, whose entry stays behind, expired), `Reprice`
any change of a neighbour, `Touch` is `FullContextNode::accessed`, and `Murder`,
`TakeRoot`, `Refile`, `Settle`, `Fill`, `EvictVictim` are `murder` and `adjust_pop`
cut where the heap is called. `L` is always 0 because `staleness` is false.

### SplayList

A node is named by its key (keys are unique) and a pointer is a key or `nullptr`.
One step is one turn of the loop of the search (`Descend`), of `max_node`, of
`min_node`, or one rotation: a turn of `splay`'s loop is `SplayTurn` and, where there is
a grandparent, `SplaySecond`. `InsertFirst`, `InsertLeaf`, `InsertOver` are the three ends of
`insert`; note that `insert` splays the node the new leaf hangs from, not the leaf.
`RemoveTwoSided` cuts the right subtree off, and while `victim` is set the rotations
work on it, through the victim's own child pointer, until `Join`. `Insert`, `Without`,
`FindLE` and `Parent` of `Zombie` are the operations of `OrderedMap`, which `SplayList`
implements: each call takes effect in one step, in the order they are made, and
answers right.

### UnionFind

A node is its address; which of two nodes has the lower address, and so becomes the
parent, is open, because a program may make its nodes in any order of addresses. A
UF object is named after the node it was made with; `ptr` is where it points now.
`Price(n)` is what it is made with; for TLC that is a power of two, so that a sum says
which costs are in it.

| action | code |
|---|---|
| `Make` | the constructors of `UF` and `UFNode` |
| `merge`, `value` | `UF::merge`, `UF::value`, with the compression on the way |
| `insert` | `UFSet::insert` up to the first `fixup` |
| `FixUp`, `FixSame`, `FixDone` | one turn of `fixup`'s loop in each of its branches; `FixDone` also when the loop is not entered, and it begins the second fixup |
| `sum` | `UFSet::sum` after the UF objects of `C` have been counted |
| `mergeAll` | `UFSet::merge` |

The second fixup of `insert` takes any place: the code makes a new
`default_random_engine` at each call, so a build always draws the same number, but
which one is the library's affair. A comparison in `fixup` compresses the paths of both
sides and moves both pointers. `CostPartition` has no nodes and no vector: a part is
the set of UF objects that lead to one root, the set of UFSet is the union of the parts
its vector meets, and what a call answers must be what the partition says.

### Accounting

Contexts are numbered in the order of their tocks, a context made again is a new
object `<<place, k>>` with UF objects of its own, and what the UF objects lead to is a
set of parts, which `UnionFind` implements; `backedges` is a set as in `CostPartition`, with
all that is one with a member.

| action | code |
|---|---|
| `SuspendRoot` | `RootRecordNode::suspended` |
| `Complete` | `HeadRecordNode::completed` and the constructor of `FullContextNode`, first time, with any dependencies |
| `Demand` | `EZombie::shared_ptr` of a value not in memory: by the root or as an input of what a replay makes next |
| `CompleteAgain` | the same in a replay: over a hole, or over a context that lives, when one of its values was evicted alone |
| `evict` | `FullContextNode::evict`, at any time |
| `Weigh` | `cost()`, and with it `UFSet::sum`, which drops what was counted before it |

`plank_time` is 1: `use_measured_time` is false, so every context has taken the same.
`evictions` and `sources` are kept for the properties only. What the model shows
beside the invariants is where the code forgets: evicting one value of a context and
asking for it again replaces the context, and its `backward_uf` begins at 0; what only
the old one knew is out of sight for good. `ReplayCharged` and `NoCostLost` say that this
is the only way. In the other direction nothing is ever taken back: making a context
again leaves its cost with its neighbours (the "subtraction code. does not work" in
the constructor), so costs are of all evictions, not of what is missing now.

### Meter

`calls` is the C++ stack as far as it concerns the meter: open calls of `measured` and of
`shared_ptr` that replays, with their local `time_before` or `begin_time`. Any of them may
begin while another is open, and any time may pass, down to none that the clock
shows. `Abort` is the assertion of `block` that time has passed in it which was not
skipped: a replay that spends all its time, as the clock tells it, in replays within
it ends the program.

## Runs

| run | question | bounds |
|---|---|---|
| `core` | values, clocks, stacks, contexts under every eviction | programs of 6 events, functions of at most 1 zombie, budget 2, 1 reference kept |
| `promise` | implements `Memo`; every call returns; several arguments, locked in any order, and longer records | 5 events, functions of 2, budget 3, 2 references |
| `nested` | `bindZombie` inside a body (a violation) | 4 events |
| `heap` | order, indices, priority queue | 6 elements, 2 keys |
| `book` | the reaper's assertions, entries, touch, cheapest first | 5 contexts, 3 costs |
| `book_live` | `murder` returns | 3 contexts, 3 costs |
| `splay` | tree order, links and list through every rotation; an ordered map; every call ends | 5 keys, 2 values |
| `uf` | a partition of costs; parents have lower addresses; both fixups end | 3 addresses, a vector of 5, 2 counted elsewhere |
| `cost` | each eviction counts once, reaches who lives, stays in sight | 4 contexts, one of them a root context at least, 2 dependencies each, 2 made again |
| `meter` | nested measurements answer their own time | 4 calls open at once, 5 units of time, 1 or 2 at once |
| `soul_loop` | the loop of `test/uf_test.cc` (a violation) | 2 contexts |
| `approx` | the comment on `approx_factor` (a violation) | 2 contexts |

Why the bounds are enough: six events are a root zombie, a bind, its zombie, a tail
call beyond the budget, another zombie and a return, or two binds one of which
takes what the other made: enough for a replay within a replay, for a context
evicted while a replay runs that started from it, and for two contexts of one
call with a hole between them. A budget of 2 has both branches of `TailCall`. Six
heap slots are three levels with an only child; five contexts make `waiting` move
to the heap when it holds one, two and three entries. Five keys give every tree
shape with both kinds of double rotation, and a right subtree of four to be joined.
Three addresses give the path 3, 2, 1 that compression shortens, and a vector of five
has doubles two levels below each other, where dropping one exchanges it with the
place above. A root context and three others are a context, one that uses it and
one before it, in every order of being evicted and made again; contexts made
again twice are a replay over a hole of two, or of one and again of one that lives,
which is what it takes for a context to have forgotten what another knew. Four
open calls are a replay in a replay, with a measurement around and between them. Each property is shown to
bite by a mutation of the model that a slip in the code would correspond to
(`ConstructEvery`, `BaseNotStepped`, `ShrinkShift`, `FillKeep` and so on, each beside the
definition it changes): the run fails with it.

`CHECK_DEADLOCK FALSE` stands where the system may stop: in `book`, `book_live` and
the claims when every context is gone, in `nested` and `meter` when the process has
aborted, in `cost` and `meter` when the bounds on objects and on time are reached.
`Zombie` itself has a `Done` step instead, enabled only at the root with the
program at its bound, so that deadlock checking finds a stuck engine.

### What the violations show

- `nested`: `HeadRecordNode::suspended` is `assert(false)`, so a `bindZombie` inside a
  body aborts, which tests in `test/zombie_test.cc` do.
- `soul_loop`: `have_soul()` returns `book.empty()`. The loop
  `while (have_soul()) murder()` ends with entries left or calls `murder` on nothing.
- `approx`: `approx_factor` is documented as a tolerance, but `adjust_pop` compares for
  equality.

## Fairness

`FairSpec` is weak fairness of what the engine and the bodies do next: once user
code has called the library, the one thread runs that call and the bodies in it
to their end. Evictions and root code get no fairness; an eviction may happen
whenever user code runs, for ever. `FairBookSpec`, `FairSplaySpec` and `FairUFSpec` are weak fairness
of the library's own steps for the same reason. Bodies that do not return are excluded by it, as
they are by any statement about the library.

## Proofs

Checked by TLAPS, for every value of the constants.

*ZombieProof.* `Sound` is type correctness with the shape of the stacks: `StackOK`, `Dense`
and what relates a suspended record to the replay above it (the clock to
restore, the input it waits for). `Dense` is not inductive alone: when a replay
ends, the clock restored must fit a record that has not moved since, which is
a statement about the whole stack. `TypeCorrect`, `StacksMatch`, `SlotsMatch`.

*EngineProof.* Everything the engine promises is said of `log`, so the proof begins with
what a history looks like, whatever the program (`History`): each event is where the one
before left the clock and the record (`HistSteps`), which only go forward
(`HistOrder`); functions take what was made before (`HistInputs`); outside of calls
the root's record runs (`HistCalls`). From these follow the facts the properties live
on: a tock is made once, a record ends once, and no tock is that of a zombie and of a
record (`MadeOnce`, `EndsOnce`, `TocksApart`). `EngineInv` adds where everything is in the
history:

- `Places`: a function's record is at a place of `log` whose clock and beginning are the
  record's own, the last place if no replay runs it. This is what makes a replay
  repeat the program (`ReplaysRepeat`) and the values it makes right (`ValuesFaithful`).
- `Aims`: while a replay has not got its target, the record that runs for it lies
  before the target and in the same call of `bindZombie`, with no bind or return
  between; so it cannot run past it (`TargetsReached`). `TargetsDecrease` is needed with it: a replay
  that starts within another aims below it because inputs are older than the
  record that asks for them (`NestedTargetsDecrease`).
- `Contexts`: a stored context is a record that ended, with as many values as
  there are tocks before its end, and its `end_rep` is where the program went on.
  Two such records cannot overlap (`RangesDisjoint`).
- `Kept`: what the root made stays in its contexts or its record. Without it nothing says
  that a search below a tock ends in the right call: the root context of that call
  is always there to end it (`AlwaysRecoverable`).

`ContextsMatchProgram` says, besides, what a context depends on, and nothing in `EngineInv` speaks of
dependencies. `DepsInv` adds it: at each moment a function's record depends on the older
inputs of the tail calls made so far in it (`Taken`), and was called with the inputs of the event
that began it (`RecDeps`); a context has both of its whole record (`CtxDeps`). A replayed record
builds its dependencies anew, call by call, so the invariant has to speak of
records half way through. How many values a context has is the clock's business:
`ClockCounts` (the clock of a history is its record's beginning and the zombies made since)
gives their number. `ContextsFaithful`.

`PromiseKept` is the safety part of `KeepsPromise`: `Construct`, for the first time, extends the
memo table; `BindZombie`, `GetValue` and the end of a call are its other steps; and
evictions, replays and all they make again are hidden. `ReplayOnlyRepeats` is used for
the last of these, and `Faithful` for the values handed out.

*SplayProof.* That a tree is a search tree is usually said by recursion over the
tree. Here it is said with bounds: there are numbers `lo[n]` and `hi[n]` for each node,
between which the keys of its subtree lie (`InOrder`). A node's children divide
its interval, every node in it hangs below, and the bounds are themselves nodes above it or the
ends of all keys. A rotation changes one bound of each of the two nodes
(`TurnRight`, `TurnLeft`), a new leaf takes one of the gaps (`LeafOrder`), a root that goes
gives its bounds away (`RootDropped`, `RootJoined`). `SplayInv` joins to this the links
(`LinksAgree`, and `Fresh`: a key that is no node has none), the list, which loop may run for
which call (`CallOK`), the node being removed (`VictimOK`: it is still the root, and what is sought on its
right is the least there), that a search stays within the bounds of the nodes it
passes, and that no node lies between the one being splayed and the key
asked for (`Closest`), which is all that `find_le_node`'s answer rests on.
`SearchesAlwaysFind` is about the search that could be made at any moment, `SearchesFind`
about the one the code makes: each step down leaves a node out of the subtree
(`SearchNears`), so as many steps as there are nodes reach the key (`SearchReaches`).
`SplayTypeCorrect`, `ListAlwaysInOrder`, `LinksAlwaysAgree`, and `ListIsMap`: the list
implements `OrderedMap`.

*BookProof, the heap.* `HeapInv` adds to `HeapOrder` and `IndexRight` which slots are still to
be notified (`DirtyOK`). `HeapOrder` says exactly where the order may be broken
during a flow or a sink; the second conjunct (what is above the moving element is
no bigger than what is below it) is what makes it inductive. That the root is
least is a statement about paths in a tree; it is proved without induction over
data, by the least slot that would contradict it. `HeapAlwaysOrdered`,
`IndexAlwaysRight`, `HeapTypeCorrect`, and `HeapIsQueue`: the heap implements
`PriorityQueue`.

*BookProof, the book.* `BookInv` is `HeapInv` with what is in the reaper's hand in each phase, and
`FreshIndex`: a context that has not been in the heap has no index. Every step of
the book is a step of the heap or leaves it alone (`BookUsesHeap`), which brings
`HeapInv` over; the rest moves entries between three disjoint sets. `NeverEmptyAlways`,
`OneEntryAlways`, `TouchAlwaysHits`, `CheapestAlwaysTaken`, `BookTypeCorrect`.

*AccountingProof.* The first lemmas are about parts: throwing some together keeps all names,
keeps parts apart, and keeps each total the number of evictions whose cost is in the part
(`JoinedFacts`, `MeetsCounts`). `Total` is a fold; that it adds up to a count is shown by the
smallest set of parts for which it would not (`TotalCounts`). With `CostsOK` (the totals count)
`CountedOnce` follows for any set of names. None of the other three properties is inductive, and
`AccInv` says for each what holds before the eviction happens:

- `TakersKnown`: while a context lives, who took a value of it is in its `backedges` or in one
  part with its UF objects. The second case is what a compaction leaves behind, and both are
  merged with the cost when the context goes. `NeighboursCharged`.
- `BeforeKnown`: behind an evicted context there is one that knows the cost, with nothing left
  between them of what was there; or a context was replaced there. When the one that knows is
  evicted, its own merge passes the cost on to the one before it. `ReplayCharged`, `NoCostLost`.
- `ReplaysOK`: a replay makes no root context, which rests on root contexts never being
  evicted. Without it, nothing says that the object a replay makes belongs to a full context.

`AlwaysCountedOnce`, `NeighboursAlwaysCharged`, `ReplayAlwaysCharged`, `NoCostEverLost`.

*MeterProof.* `MeterInv` is the types with `NodesFit`, which is inductive: when a
replay ends, the node below takes over the time since the lost one was made, and
the lost one's own skipping lies within it (`NodesAlwaysFit`). `MeterIsStopwatch` is the
refinement. No variable holds what a measurement has counted so far; it is read
off the node it was made under (`Under`, by counting the replays around it), at the
clock or, if a replay has begun since, at the time that replay's node was
made. That this number stays the same through a replay of any depth is where the
subtractions in `measured` and `block` have to cancel.

*UnionFindProof.* `UFInv` says that parents have the lower address (`Up`), that only nodes that
were made have parents or are parents (`Within`), that a UF object points to a node below the root of the
node it was made with (`LeadsOn`), and what the vector points to. `get_root` and the path it passes are
recursive functions. Because parents are lower, such a function exists (`WalkExists`) and is
the only one (`RootsFacts`), and what is said of all nodes is shown by the least node for
which it would not hold (`AddrInduct`). Path compression then changes no root (`CompressedFacts`), and a
merge moves exactly the nodes under the two roots (`MergedFacts`). `UFInvAlways`,
`ParentsAlwaysBelow`.

`UFIsPartition` is the refinement, call by call. The loops over the vector in `sum` and in
the set's `merge` are folds; each is unfolded into the run of its loop (`MergeFold`, `FirstFold`,
`SumFold`) and followed place by place, from `FoldExists` and `UpTo`. What the loop of `merge` has
come to after some places is one root that has the costs of all roots met so far, each once
(`Gathers`, `GatherStep`); `GatherJoins` makes `Joined` of it. A turn of fixup keeps the set of
roots in the vector (`FixupRoots`), which is all that a set is, so it is not seen.

Assumptions: `UnrollFactor` and the bounds are natural numbers, `MaxKey` is one.
`MaxEvents`, `MaxIn`, `MaxHeld`, `MaxDepth` are bounds of the model and arbitrary in the
theorems, as `MaxAddr`, `MaxData` and `MaxCounted` are; addresses are numbers from 1 on, and
prices natural numbers. Time passes in natural amounts.

Only model-checked: the liveness properties (`EngineReturns`, `MurderReturns`,
`CallsReturn`, `FixupEnds`, the fair half of `KeepsPromise`), which are beyond the prover.
Every other property of the passing runs is a theorem.

## Not modelled

`get_value` called inside a body (`GetValue` is the root's; a body takes its values as
arguments). Exceptions thrown by bodies (nothing says what should happen). The write of
`played` by `play()` into a record its body has destroyed: nothing reads it again.
Space and the metrics: `default_config` weighs a context by `time_cost` alone, and
`Book` takes the result as a number that changes. Measured time as a context's
`time_taken` (`use_measured_time` is false). `update` of `UF` and `UFNode`: called by
nothing; the counters and the destructor of `UFNode`: for the log. `heapify`, `remap`,
`remove_if`, `fix`: called by nothing. The SplayList's destructor, which runs when the
process ends (and leaks the root). Logging, bindings,
`b_heap.hpp`, `trampoline.hpp`.

## Plan

Done, in this order: `Zombie`, `Memo`/`ZombieMemo`, `ZombieProof`, `MinHeap`,
`PriorityQueue`, `Book` with the proofs of the heap and the book, `SplayList` and
`OrderedMap`, `UnionFind` and `CostPartition`, `Accounting`, `Meter` and `Stopwatch` with
their proofs, `EngineProof`, `SplayProof`, `AccountingProof`, `UnionFindProof`.

What is left, most important first:

1. Engine with the Book: `Zombie` driven by the reaper's choice rather than any,
   with `touch` on access; `waiting` and the store agree on who is alive. `Murder`
   covers every choice already, so this adds the interplay, not new evictions.
2. Exceptions thrown by bodies, if the code ever says what they should leave.
