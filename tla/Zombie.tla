------------------------------- MODULE Zombie -------------------------------
(***************************************************************************)
(* The evict-and-recompute engine of the zombie library: Trailokya's       *)
(* clock, its stack of records, its stack of replays and its store of      *)
(* contexts (akasha), driven by one thread.                                *)
(*                                                                         *)
(* A program makes zombies (Construct) and calls functions of zombies      *)
(* (BindZombie), whose bodies make zombies, call on (TailCall) and return  *)
(* (Finish).  The library may throw any finished step of a function away   *)
(* (Murder) and recomputes a value that is asked for by running the        *)
(* program again from the last step it still knows (StartReplay).          *)
(*                                                                         *)
(* The program is any pure program.  log is what it has done so far, in    *)
(* order; a body that runs for the first time appends to log, and a body   *)
(* that runs again does what log says it did.  The value of a zombie is    *)
(* the position in log of the event that made it.                          *)
(***************************************************************************)
EXTENDS Integers, FiniteSets, SequencesExt

CONSTANTS
  UnrollFactor,   \* tocks a record may cover before a tail call ends it
  MaxEvents,      \* bound: events of the program, besides the last return
  MaxIn,          \* bound: zombies one function takes
  MaxHeld         \* bound: strong references the root code keeps

ASSUME UnrollAssumption == UnrollFactor \in Nat
ASSUME BoundsAssumption == /\ MaxEvents \in Nat
                           /\ MaxIn \in Nat
                           /\ MaxHeld \in Nat

VARIABLES
  current_tock,   \* the clock: the tock the next zombie or record takes
  akasha,         \* start tock -> context
  records,        \* the stack of records; the last one is running
  replays,        \* the stack of replays; the first one is a sentinel
  log             \* the program's own history (see above)

vars == <<current_tock, akasha, records, replays, log>>

(***************************************************************************)
(* Data                                                                    *)
(***************************************************************************)
Null  == 0      \* no node in a slot (nullptr)
Never == -1     \* numeric_limits<Tock>::max()

\* A replayer: the inputs to lock and where in log its body begins.
NoRep == [in |-> <<>>, pos |-> 0]

Replayer == [in : Seq(Nat), pos : Nat]

Node == [tock : Nat, val : Nat]

Context ==
  [kind : {"root", "full"}, end_t : Nat, ez : Seq(Nat),
   end_rep : Replayer, deps : SUBSET Nat]

Record ==
  [kind : {"root", "head", "value"}, t : Nat, ez : Seq(Nat),
   rep : Replayer, deps : SUBSET Nat,
   playing : BOOLEAN,        \* play() has been entered
   todo : Seq(Nat),          \* inputs it has still to lock
   held : SUBSET Node,       \* strong references: storage, shared_ptr results
   pos : Nat]                \* its body's next event in log

Replay == [at : Nat \cup {Never}, got : Nat,
           tock : Nat]       \* the clock to restore

Event == [op : {"make", "bind", "tail", "ret"}, in : Seq(Nat),
          tock : Nat, head : Nat]

RootRecord(t) ==
  [kind |-> "root", t |-> t, ez |-> <<>>, rep |-> NoRep, deps |-> {},
   playing |-> FALSE, todo |-> <<>>, held |-> {}, pos |-> 0]

HeadRecord(t, rep) ==
  [kind |-> "head", t |-> t, ez |-> <<>>, rep |-> rep, deps |-> {},
   playing |-> FALSE, todo |-> <<>>, held |-> {}, pos |-> rep.pos]

ValueRecord(t) == [RootRecord(t) EXCEPT !.kind = "value"]

\* A head whose play() has just begun to lock its inputs.
PlayedHead(t, rep) ==
  [HeadRecord(t, rep) EXCEPT !.playing = TRUE, !.todo = rep.in]

(***************************************************************************)
(* Reading the state                                                       *)
(***************************************************************************)
Top    == Last(records)
Target == Last(replays)

WithTop(r) == [records EXCEPT ![Len(records)] = r]

\* User code runs: the root program, a body, or an each_step callback.
UserCode == Top.todo = <<>>

AtRoot  == Top.kind = "root" /\ UserCode
InBody  == Top.kind = "head" /\ Top.playing /\ UserCode
\* Between two plays of the loops of bindZombieTC and ContextNode::replay.
StepEnd == Top.kind = "value" \/ (Top.kind = "head" /\ ~Top.playing)

\* Is the top record the one ContextNode::replay pushed, or its successor?
Replaying == Len(replays) > 1

\* The position in log of the event that runs now.
Here == IF Top.kind = "root" THEN Len(log) + 1 ELSE Top.pos

Made == {log[p].tock : p \in {q \in DOMAIN log : log[q].op = "make"}}
Args == UNION {[1..n -> Made] : n \in 0..MaxIn}

\* The program does op(in): something new, or again what it did before.
Does(op, in) ==
  \/ /\ Here = Len(log) + 1
     /\ op = "ret" \/ Len(log) < MaxEvents
     /\ log' = Append(log, [op |-> op, in |-> in,
                            tock |-> current_tock, head |-> Top.t])
  \/ /\ Here \in DOMAIN log
     /\ log[Here].op = op
     /\ log[Here].in = in
     /\ UNCHANGED log

(***************************************************************************)
(* The store of contexts                                                   *)
(***************************************************************************)
Insert(start, ctx) ==
  [s \in DOMAIN akasha \cup {start} |-> IF s = start THEN ctx ELSE akasha[s]]

Without(start) == [s \in DOMAIN akasha \ {start} |-> akasha[s]]

\* find_le_node
IsLE(s, k) == /\ s \in DOMAIN akasha
              /\ s =< k
              /\ \A u \in DOMAIN akasha : u =< k => u =< s
HasLE(k)   == \E s \in DOMAIN akasha : IsLE(s, k)
FindLE(k)  == CHOOSE s \in DOMAIN akasha : IsLE(s, k)

\* A node's parent in the list: the context before it.
HasParent(s) == \E u \in DOMAIN akasha : IsLE(u, s - 1)
Parent(s)    == FindLE(s - 1)

\* The context a replay towards k starts from, if there is one.
HasBase(k) == HasLE(k) /\ (akasha[FindLE(k)].end_t < k \/ HasParent(FindLE(k)))
\* Mutant of Base: a context that reaches past k is not stepped back from.
BaseNotStepped(k) == FindLE(k)

Base(k) ==
  IF akasha[FindLE(k)].end_t < k THEN FindLE(k) ELSE Parent(FindLE(k))

\* k's slot in the store is full, so that ptr() finds it.
Stored(k) ==
  /\ HasLE(k)
  /\ LET s == FindLE(k)
     IN  k - s \in DOMAIN akasha[s].ez /\ akasha[s].ez[k - s] # Null

NodesOf(start, ez) ==
  {[tock |-> start + i, val |-> ez[i]] : i \in {j \in DOMAIN ez : ez[j] # Null}}

\* Every node some strong reference keeps alive: a context in the store, a
\* record's own zombies and locked inputs, or a replay that has its value.
StoreNodes  == UNION {NodesOf(s, akasha[s].ez) : s \in DOMAIN akasha}
RecordNodes == UNION {NodesOf(records[i].t, records[i].ez) \cup records[i].held :
                        i \in DOMAIN records}
ReplayNodes == {[tock |-> replays[j].at, val |-> replays[j].got] :
                  j \in {l \in DOMAIN replays : replays[l].got # Null}}
Nodes == StoreNodes \cup RecordNodes \cup ReplayNodes

\* A handle of k finds a node for certain: in the store, or because the
\* running record made it and the handle is that one.
MustHit(k) == Stored(k) \/ k - Top.t \in DOMAIN Top.ez

(***************************************************************************)
(* Initial state: Trailokya's member initialisers                          *)
(***************************************************************************)
Init ==
  /\ current_tock = 1
  /\ akasha = [s \in {} |-> 0]
  /\ records = <<RootRecord(0)>>
  /\ replays = <<[at |-> Never, got |-> Null, tock |-> 0]>>
  /\ log = <<>>

(***************************************************************************)
(* The program's operations                                                *)
(***************************************************************************)

\* Mutant of Construct: the target is taken to be one tock later.
ConstructLate ==
  /\ AtRoot \/ InBody
  /\ Does("make", <<>>)
  /\ current_tock' = current_tock + 1
  /\ records' = WithTop([Top EXCEPT !.ez = Append(@, Here), !.pos = Here + 1])
  /\ replays' = IF current_tock + 1 = Target.at
                THEN [replays EXCEPT ![Len(replays)].got = Here]
                ELSE replays
  /\ UNCHANGED akasha

\* Mutant of Construct: every zombie from the target on is handed over.
ConstructEvery ==
  /\ AtRoot \/ InBody
  /\ Does("make", <<>>)
  /\ current_tock' = current_tock + 1
  /\ records' = WithTop([Top EXCEPT !.ez = Append(@, Here), !.pos = Here + 1])
  /\ replays' = IF Replaying /\ current_tock >= Target.at
                THEN [replays EXCEPT ![Len(replays)].got = Here]
                ELSE replays
  /\ UNCHANGED akasha

\* Zombie::construct, from the root code or from a body.
Construct ==
  /\ AtRoot \/ InBody
  /\ Does("make", <<>>)
  /\ current_tock' = current_tock + 1
  /\ records' = WithTop([Top EXCEPT !.ez = Append(@, Here), !.pos = Here + 1])
  /\ replays' = IF current_tock = Target.at
                THEN [replays EXCEPT ![Len(replays)].got = Here]
                ELSE replays
  /\ UNCHANGED akasha

\* Mutant of BindZombie: the root's zombies are copied, not moved, into the
\* root context.
BindZombieCopying(in) ==
  /\ AtRoot
  /\ Does("bind", in)
  /\ LET rep == [in |-> in, pos |-> Here + 1]
     IN  /\ akasha' = Insert(Top.t,
                        [kind |-> "root", end_t |-> current_tock, ez |-> Top.ez,
                         end_rep |-> rep, deps |-> {}])
         /\ records' = Append(records, PlayedHead(current_tock, rep))
  /\ current_tock' = current_tock + 1
  /\ UNCHANGED replays

\* bindZombie and bindZombieTC up to the first play(): the root record is
\* suspended into a root context and the function's head pushed.
BindZombie(in) ==
  /\ AtRoot
  /\ Does("bind", in)
  /\ LET rep == [in |-> in, pos |-> Here + 1]
     IN  /\ akasha' = Insert(Top.t,
                        [kind |-> "root", end_t |-> current_tock, ez |-> Top.ez,
                         end_rep |-> rep, deps |-> {}])
         /\ records' = Append(WithTop([Top EXCEPT !.ez = <<>>]),
                              PlayedHead(current_tock, rep))
  /\ current_tock' = current_tock + 1
  /\ UNCHANGED replays

\* The root code asks for a value: get_value, shared_ptr, recompute.
GetValue(k) ==
  /\ AtRoot
  /\ Cardinality(Top.held) < MaxHeld
  /\ records' = WithTop([Top EXCEPT !.todo = <<k>>])
  /\ UNCHANGED <<current_tock, akasha, replays, log>>

\* The root code drops a shared_ptr it was given.
Release(n) ==
  /\ AtRoot
  /\ records' = WithTop([Top EXCEPT !.held = @ \ {n}])
  /\ UNCHANGED <<current_tock, akasha, replays, log>>

\* The orders in which the arguments of one call are locked: C++ leaves them open.
Orders(in) ==
  {[i \in DOMAIN in |-> in[p[i]]] : p \in Bijection(DOMAIN in, DOMAIN in)}

\* TailCall within the unroll budget: the callee runs in the caller's record.
UnrolledTailCall(in) ==
  /\ InBody
  /\ current_tock - Top.t < UnrollFactor
  /\ Does("tail", in)
  /\ \E order \in Orders(in) :
       records' = WithTop([Top EXCEPT
                    !.deps = @ \cup {k \in ToSet(in) : k < Top.t},
                    !.todo = order, !.pos = Here + 1])
  /\ UNCHANGED <<current_tock, akasha, replays>>

\* Mutant of Completed: the tock of the next record is taken too early.
CompletedLate(rep) ==
  akasha' = Insert(Top.t,
              [kind |-> "full", end_t |-> current_tock + 1, ez |-> Top.ez,
               end_rep |-> rep, deps |-> Top.deps \cup ToSet(Top.rep.in)])

\* Mutant of Completed: what unrolled calls took is forgotten.
CompletedForgetful(rep) ==
  akasha' = Insert(Top.t,
              [kind |-> "full", end_t |-> current_tock, ez |-> Top.ez,
               end_rep |-> rep, deps |-> ToSet(Top.rep.in)])

\* HeadRecordNode::completed: the step the top record did becomes a context.
Completed(rep) ==
  akasha' = Insert(Top.t,
              [kind |-> "full", end_t |-> current_tock, ez |-> Top.ez,
               end_rep |-> rep, deps |-> Top.deps \cup ToSet(Top.rep.in)])

\* TailCall beyond the budget: the record is completed and replaced.
TailCall(in) ==
  /\ InBody
  /\ current_tock - Top.t >= UnrollFactor
  /\ Does("tail", in)
  /\ LET rep == [in |-> in, pos |-> Here + 1]
     IN  /\ Completed(rep)
         /\ records' = WithTop(HeadRecord(current_tock, rep))
  /\ current_tock' = current_tock + 1
  /\ UNCHANGED replays

\* RecordNode::finish: the body returns.
Finish ==
  /\ InBody
  /\ Does("ret", <<>>)
  /\ Completed(NoRep)
  /\ records' = WithTop(ValueRecord(current_tock))
  /\ current_tock' = current_tock + 1
  /\ UNCHANGED replays

(***************************************************************************)
(* The engine                                                              *)
(***************************************************************************)

\* Mutant of Play: the replay goes on when it has its value.
PlayOn ==
  /\ Top.kind = "head"
  /\ ~Top.playing
  /\ records' = WithTop([Top EXCEPT !.playing = TRUE, !.todo = Top.rep.in])
  /\ UNCHANGED <<current_tock, akasha, replays, log>>

\* HeadRecordNode::play on a record a tail call left behind.
Play ==
  /\ Top.kind = "head"
  /\ ~Top.playing
  /\ Replaying => Target.got = Null
  /\ records' = WithTop([Top EXCEPT !.playing = TRUE, !.todo = Top.rep.in])
  /\ UNCHANGED <<current_tock, akasha, replays, log>>

\* EZombie::shared_ptr finds a node.
Lock(n) ==
  /\ ~UserCode
  /\ n.tock = Head(Top.todo)
  /\ records' = WithTop([Top EXCEPT !.todo = Tail(@), !.held = @ \cup {n}])
  /\ UNCHANGED <<current_tock, akasha, replays, log>>

\* EZombie::shared_ptr finds none: the program is run again from the last
\* context that ended before the value was made.
StartReplay ==
  /\ ~UserCode
  /\ LET k == Head(Top.todo)
     IN  /\ ~MustHit(k)
         /\ HasBase(k)
         /\ LET base == akasha[Base(k)]
            IN  /\ base.end_rep # NoRep
                /\ replays' = Append(replays,
                     [at |-> k, got |-> Null, tock |-> current_tock])
                /\ records' = Append(records,
                     PlayedHead(base.end_t, base.end_rep))
                /\ current_tock' = base.end_t + 1
  /\ UNCHANGED <<akasha, log>>

\* Mutant of EndReplay: the clock is not restored.
EndReplayLate ==
  /\ Replaying
  /\ StepEnd
  /\ Target.got # Null
  /\ replays' = Front(replays)
  /\ records' =
       LET rest == Front(records)
       IN  [rest EXCEPT ![Len(rest)].todo = Tail(@),
                        ![Len(rest)].held =
                           @ \cup {[tock |-> Target.at, val |-> Target.got]}]
  /\ UNCHANGED <<current_tock, akasha, log>>

\* Mutant of EndReplay: the value is not handed over but looked up again.
EndReplayRetry ==
  /\ Replaying
  /\ StepEnd
  /\ Target.got # Null
  /\ current_tock' = Target.tock
  /\ replays' = Front(replays)
  /\ records' = Front(records)
  /\ UNCHANGED <<akasha, log>>

\* The replay has its value: both stacks are popped, the clock restored, and
\* shared_ptr returns the node to the record beneath.
EndReplay ==
  /\ Replaying
  /\ StepEnd
  /\ Target.got # Null
  /\ current_tock' = Target.tock
  /\ replays' = Front(replays)
  /\ records' =
       LET rest == Front(records)
       IN  [rest EXCEPT ![Len(rest)].todo = Tail(@),
                        ![Len(rest)].held =
                           @ \cup {[tock |-> Target.at, val |-> Target.got]}]
  /\ UNCHANGED <<akasha, log>>

\* Mutant of PopValue: the replay stack is popped with the record.
PopValueAndReplay ==
  /\ ~Replaying
  /\ Top.kind = "value"
  /\ records' = LET rest == Front(records)
                IN  [rest EXCEPT ![Len(rest)].t = current_tock]
  /\ current_tock' = current_tock + 1
  /\ replays' = Front(replays)
  /\ UNCHANGED <<akasha, log>>

\* The end of bindZombie and bindZombieTC: the root goes on in a new record.
PopValue ==
  /\ ~Replaying
  /\ Top.kind = "value"
  /\ records' = LET rest == Front(records)
                IN  [rest EXCEPT ![Len(rest)].t = current_tock]
  /\ current_tock' = current_tock + 1
  /\ UNCHANGED <<akasha, replays, log>>

(***************************************************************************)
(* Eviction, from user code at any time                                    *)
(***************************************************************************)

\* Mutant of Murder: root contexts are evicted like any other.
MurderAny(s) ==
  /\ UserCode
  /\ akasha' = Without(s)
  /\ UNCHANGED <<current_tock, records, replays, log>>

\* Reaper::murder, whichever context the book picks.
Murder(s) ==
  /\ UserCode
  /\ akasha[s].kind = "full"
  /\ akasha' = Without(s)
  /\ UNCHANGED <<current_tock, records, replays, log>>

\* EZombie::evict
EvictIndividual(k) ==
  /\ UserCode
  /\ Stored(k)
  /\ akasha[FindLE(k)].kind = "full"
  /\ akasha' = [akasha EXCEPT ![FindLE(k)].ez[k - FindLE(k)] = Null]
  /\ UNCHANGED <<current_tock, records, replays, log>>

\* The program is at its bound and back at the root.
Done ==
  /\ AtRoot
  /\ Len(log) >= MaxEvents
  /\ UNCHANGED vars

(***************************************************************************)
(* Specification                                                           *)
(***************************************************************************)
RootStep ==
  \/ AtRoot /\ Construct
  \/ \E in \in Args : BindZombie(in)
  \/ \E k \in Made : GetValue(k)
  \/ \E n \in Top.held : Release(n)

BodyStep ==
  \/ InBody /\ Construct
  \/ \E in \in Args : UnrolledTailCall(in) \/ TailCall(in)
  \/ Finish

EngineStep ==
  \/ Play
  \/ \E n \in Nodes : Lock(n)
  \/ StartReplay
  \/ EndReplay
  \/ PopValue

Evict ==
  \/ \E s \in DOMAIN akasha : Murder(s)
  \/ \E k \in Made : EvictIndividual(k)

Next == RootStep \/ BodyStep \/ EngineStep \/ Evict \/ Done

Spec == Init /\ [][Next]_vars

\* One thread runs bodies and engine, bodies and callbacks return: once a
\* call into the library has begun, its next step is not put off for ever.
FairSpec == Spec /\ WF_vars(BodyStep \/ EngineStep)

(***************************************************************************)
(* Safety                                                                  *)
(***************************************************************************)

\* Every variable has its type: the clock and the stacks of trailokya.hpp,
\* the contexts of context.hpp, the records of record.hpp.
TypeOK ==
  /\ current_tock \in Nat
  /\ DOMAIN akasha \subseteq Nat
  /\ akasha \in [DOMAIN akasha -> Context]
  /\ records \in Seq(Record) /\ records # <<>>
  /\ replays \in Seq(Replay) /\ replays # <<>>
  /\ log \in Seq(Event)

\* A node kept under a tock is the one the program made at that tock, however
\* often it was thrown away and made again: get_value never returns another
\* zombie's value (EZombie::shared_ptr, Zombie::construct).
Faithful ==
  \A n \in Nodes : /\ n.val \in DOMAIN log
                   /\ log[n.val].op = "make"
                   /\ log[n.val].tock = n.tock

\* The record at depth i runs or waits at this tock: ContextNode::replay saves
\* the clock of the record it interrupts and gives it back.
Depth(i)   == Len(replays) - Len(records) + i
ClockOf(i) == IF i = Len(records) THEN current_tock ELSE replays[Depth(i) + 1].tock

\* The root record has handed its zombies to a root context and waits for a
\* bind to return.
RootSuspended == Len(records) > Len(replays)

\* Every replay but the sentinel was started by the record beneath the one it
\* pushed, for the input that record still waits for, and the root is at the
\* bottom only, empty while a bind runs (RootRecordNode::resumed asserts it): a
\* value found is handed to whoever asked for it
\* (EZombie::shared_ptr, ContextNode::replay).
StackOK ==
  /\ Len(records) \in {Len(replays), Len(replays) + 1}
  /\ \A i \in DOMAIN records : records[i].kind = "root" <=> i = 1
  /\ \A i \in DOMAIN records :
       Depth(i) \in 1..(Len(replays) - 1) =>
         /\ records[i].todo # <<>>
         /\ replays[Depth(i) + 1].at = Head(records[i].todo)
  /\ RootSuspended => records[1].todo = <<>> /\ records[1].ez = <<>>
  /\ \A j \in DOMAIN replays : replays[j].at = Never <=> j = 1
  /\ replays[1].got = Null

\* The code's assertion tock_to_index(created_time, t) == ez.size() for every
\* record on the stack, those a replay has interrupted too: the next zombie
\* each one makes still goes in its own slot.
Dense ==
  \A i \in DOMAIN records :
    (i = 1 /\ RootSuspended) \/ ClockOf(i) = records[i].t + Len(records[i].ez) + 1

\* The assertions of ContextNode::replay, HeadRecordNode::completed and
\* RecordNode::play: as long as a replay has not met its target, the clock has
\* not passed it and there is a head to play.
ReplayInReach ==
  Replaying /\ Target.got = Null =>
    /\ Top.kind = "head"
    /\ Top.t < Target.at
    /\ current_tock =< Target.at

\* A replay asks only for values older than its own target, so replays within
\* replays end (EZombie::shared_ptr, TailCall).
TargetsDecrease ==
  \A i, j \in 2..Len(replays) : i < j => replays[j].at < replays[i].at

\* Contexts are half-open ranges of tocks that do not overlap
\* (tock/common.hpp), each as wide as its zombies.
ContextsDisjoint ==
  \A s, u \in DOMAIN akasha :
    /\ akasha[s].end_t = s + Len(akasha[s].ez) + 1
    /\ s < u => akasha[s].end_t =< u

\* The events of the record that began at tock t.
EventsOf(t) == {p \in DOMAIN log : log[p].head = t}

\* A stored context, stored by the first run or by a replay, is what the
\* program did in that record: as many zombies, the same dependencies, and it
\* goes on where the program went on (HeadRecordNode::completed,
\* RootRecordNode::suspended).
ContextsMatchProgram ==
  \A s \in DOMAIN akasha :
    LET c     == akasha[s]
        last  == CHOOSE p \in EventsOf(s) : \A q \in EventsOf(s) : q =< p
        first == CHOOSE p \in EventsOf(s) : \A q \in EventsOf(s) : p =< q
        calls == {p \in EventsOf(s) : log[p].op = "tail" /\ p # last}
                   \cup (IF c.kind = "full" THEN {first - 1} ELSE {})
    IN  /\ EventsOf(s) # {}
        /\ Len(c.ez) = Cardinality({p \in EventsOf(s) : log[p].op = "make"})
        /\ c.end_t = log[last].tock
        /\ c.end_rep = IF log[last].op = "ret" THEN NoRep
                       ELSE [in |-> log[last].in, pos |-> last + 1]
        /\ c.deps = {k \in UNION {ToSet(log[p].in) : p \in calls} : k < s}

\* k was made by a record of the first run that is not completed yet.
InProgress(k) ==
  \E i \in DOMAIN records :
    k - records[i].t \in DOMAIN records[i].ez /\ Depth(i) =< 1

\* Whatever was evicted, every value the program ever made can be made again:
\* it is stored, or there is a context to run from, which ended before it in
\* the same call of bindZombie and knows how to go on (EZombie::shared_ptr
\* dereferences find_le_node and end_rep unchecked).
Recoverable ==
  \A k \in Made :
    \/ Stored(k)
    \/ InProgress(k)
    \/ /\ HasBase(k)
       /\ akasha[Base(k)].end_rep # NoRep
       /\ akasha[Base(k)].end_t < k
       /\ \A p \in DOMAIN log :
            akasha[Base(k)].end_t < log[p].tock /\ log[p].tock < k =>
              log[p].op \notin {"bind", "ret"}

\* A replay only repeats the program's past: the next event of every body
\* that runs again is one that has happened.
ReplayOnlyRepeats ==
  \A i \in DOMAIN records :
    Depth(i) > 1 /\ records[i].playing => records[i].pos \in DOMAIN log

(***************************************************************************)
(* Liveness                                                                *)
(***************************************************************************)

\* Every call into the library returns to the root code, though each_step and
\* the bodies evict whatever they like whenever they run: play() holds the
\* inputs it has locked, so no two replays undo one another's work for ever.
EngineReturns == []<>AtRoot
=============================================================================
