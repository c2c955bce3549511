---------------------------- MODULE ZombieProof ----------------------------
(***************************************************************************)
(* Proofs about the engine, for every program, every unroll budget and     *)
(* every order of evictions.                                               *)
(***************************************************************************)
EXTENDS Zombie, ProofFacts

(***************************************************************************)
(* Sequences                                                               *)
(***************************************************************************)

\* In any order, the arguments are a sequence of the same elements.
LEMMA OrdersFacts ==
  ASSUME NEW S, NEW in \in Seq(S), NEW order \in Orders(in)
  PROVE  order \in Seq(S) /\ ToSet(order) \subseteq ToSet(in)
<1>1. Len(in) \in Nat /\ DOMAIN in = 1..Len(in) /\ in \in [1..Len(in) -> S]
  OBVIOUS
<1>2. PICK p \in Bijection(DOMAIN in, DOMAIN in) :
        order = [i \in DOMAIN in |-> in[p[i]]]
  BY DEF Orders
<1>3. p \in [DOMAIN in -> DOMAIN in]  BY <1>2 DEF Bijection, Injection
<1>4. DOMAIN order = DOMAIN in /\ \A i \in DOMAIN in : order[i] = in[p[i]]
  BY <1>2
<1>5. order \in [1..Len(in) -> S]  BY <1>1, <1>2, <1>3
<1>6. order \in Seq(S)  BY <1>1, <1>5, FunctionSeq
<1>7. ToSet(order) \subseteq ToSet(in)  BY <1>3, <1>4 DEF ToSet
<1> QED  BY <1>6, <1>7

\* The elements of a sequence are in its base set.
LEMMA ToSetType ==
  ASSUME NEW S, NEW s \in Seq(S)
  PROVE  ToSet(s) \subseteq S
BY DEF ToSet

(***************************************************************************)
(* Types                                                                   *)
(***************************************************************************)

\* The record on top and the target are well-typed.
LEMMA TopFacts ==
  ASSUME TypeOK
  PROVE  /\ Top \in Record /\ Top = records[Len(records)]
         /\ Len(records) \in Nat \ {0}
         /\ Target \in Replay /\ Target = replays[Len(replays)]
         /\ Len(replays) \in Nat \ {0}
BY LastFacts DEF TypeOK, Top, Target

\* The program's zombies are tocks, and so are a function's inputs.
LEMMA ArgsType ==
  ASSUME TypeOK
  PROVE  /\ Made \subseteq Nat
         /\ \A in \in Args : in \in Seq(Nat)
<1>1. \A p \in DOMAIN log : log[p] \in Event  BY DEF TypeOK
<1>2. Made \subseteq Nat  BY <1>1 DEF Made, Event
<1>3. ASSUME NEW in \in Args  PROVE in \in Seq(Nat)
  <2>1. PICK n \in 0..MaxIn : in \in [1..n -> Made]  BY <1>3 DEF Args
  <2>2. n \in Nat  BY BoundsAssumption
  <2>3. in \in [1..n -> Nat]  BY <1>2, <2>1
  <2> QED  BY <2>2, <2>3, SeqDef
<1> QED  BY <1>2, <1>3

\* The position of the running event is a position.
LEMMA HereType == ASSUME TypeOK PROVE Here \in Nat
BY TopFacts, SMTT(30) DEF Here, TypeOK, Record

\* Whether the program does something new or something again, its history
\* stays well-typed.
LEMMA DoesType ==
  ASSUME TypeOK, NEW op \in {"make", "bind", "tail", "ret"},
         NEW in \in Seq(Nat), Does(op, in)
  PROVE  log' \in Seq(Event)
<1>1. CASE UNCHANGED log  BY <1>1 DEF TypeOK
<1>2. CASE log' = Append(log, [op |-> op, in |-> in,
                               tock |-> current_tock, head |-> Top.t])
  <2>1. Top.t \in Nat  BY TopFacts DEF Record
  <2>2. [op |-> op, in |-> in, tock |-> current_tock, head |-> Top.t] \in Event
    BY <2>1 DEF Event, TypeOK
  <2> QED  BY <1>2, <2>2, AppendFacts DEF TypeOK
<1> QED  BY <1>1, <1>2 DEF Does

\* A context inserted in the store keeps it well-typed.
LEMMA InsertType ==
  ASSUME TypeOK, NEW start \in Nat, NEW ctx \in Context
  PROVE  /\ DOMAIN Insert(start, ctx) \subseteq Nat
         /\ Insert(start, ctx) \in [DOMAIN Insert(start, ctx) -> Context]
BY DEF TypeOK, Insert

\* The context a replay starts from is one in the store.
LEMMA FindType ==
  ASSUME TypeOK, NEW k \in Nat
  PROVE  /\ HasLE(k) => FindLE(k) \in DOMAIN akasha
         /\ HasBase(k) => Base(k) \in DOMAIN akasha
<1>1. ASSUME NEW j \in Int, HasLE(j)  PROVE FindLE(j) \in DOMAIN akasha
  BY <1>1 DEF HasLE, FindLE, IsLE
<1>2. ASSUME HasBase(k)  PROVE Base(k) \in DOMAIN akasha
  <2>1. FindLE(k) \in DOMAIN akasha  BY <1>1, <1>2 DEF HasBase
  <2>2. CASE akasha[FindLE(k)].end_t < k  BY <2>1, <2>2 DEF Base
  <2>3. CASE ~(akasha[FindLE(k)].end_t < k)
    <3>1. FindLE(k) - 1 \in Int  BY <2>1 DEF TypeOK
    <3>2. HasLE(FindLE(k) - 1)
      BY <1>2, <2>3 DEF HasBase, HasParent, HasLE
    <3>3. FindLE(FindLE(k) - 1) \in DOMAIN akasha  BY <1>1, <3>1, <3>2
    <3> QED  BY <2>3, <3>3 DEF Base, Parent
  <2> QED  BY <2>2, <2>3
<1> QED  BY <1>1, <1>2

\* Every live node has a tock and a value.
LEMMA NodesType ==
  ASSUME TypeOK, StackOK
  PROVE  Nodes \subseteq Node
<1>1. ASSUME NEW start \in Nat, NEW ez \in Seq(Nat)
      PROVE  NodesOf(start, ez) \subseteq Node
  BY DEF NodesOf, Node
<1>2. \A s \in DOMAIN akasha : s \in Nat /\ akasha[s].ez \in Seq(Nat)
  BY DEF TypeOK, Context
<1>3. \A i \in DOMAIN records : records[i] \in Record
  BY DEF TypeOK
<1>4. \A i \in DOMAIN records :
        /\ records[i].t \in Nat
        /\ records[i].ez \in Seq(Nat)
        /\ records[i].held \subseteq Node
  BY <1>3 DEF Record
<1>5. \A j \in DOMAIN replays :
        replays[j].got # Null => [tock |-> replays[j].at, val |-> replays[j].got] \in Node
  <2>1. \A j \in DOMAIN replays : replays[j] \in Replay  BY DEF TypeOK
  <2> QED  BY <2>1 DEF StackOK, Replay, Node
<1>6. ASSUME NEW n \in StoreNodes  PROVE n \in Node
  <2>1. PICK s \in DOMAIN akasha : n \in NodesOf(s, akasha[s].ez)
    BY <1>6 DEF StoreNodes
  <2>2. NodesOf(s, akasha[s].ez) \subseteq Node  BY <1>1, <1>2
  <2> QED  BY <2>1, <2>2
<1>7. ASSUME NEW n \in RecordNodes  PROVE n \in Node
  <2>1. PICK i \in DOMAIN records :
          n \in NodesOf(records[i].t, records[i].ez) \cup records[i].held
    BY <1>7 DEF RecordNodes
  <2>2. NodesOf(records[i].t, records[i].ez) \subseteq Node  BY <1>1, <1>4
  <2> QED  BY <1>4, <2>1, <2>2
<1>8. ReplayNodes \subseteq Node  BY <1>5 DEF ReplayNodes
<1> QED  BY <1>6, <1>7, <1>8 DEF Nodes

\* A new record on top leaves the rest of the stack alone.
LEMMA WithTopFacts ==
  ASSUME TypeOK, NEW r \in Record
  PROVE  /\ WithTop(r) \in Seq(Record)
         /\ WithTop(r) # <<>>
         /\ Len(WithTop(r)) = Len(records)
         /\ WithTop(r)[Len(records)] = r
         /\ \A i \in 1..(Len(records) - 1) : WithTop(r)[i] = records[i]
BY ExceptFacts DEF WithTop, TypeOK

\* What a pop of a stack of at least two leaves.
LEMMA PopFacts ==
  ASSUME NEW S, NEW s \in Seq(S), Len(s) > 1
  PROVE  /\ Front(s) \in Seq(S) /\ Front(s) # <<>>
         /\ Len(Front(s)) = Len(s) - 1
         /\ Len(Front(s)) \in Nat \ {0}
         /\ \A i \in 1..(Len(s) - 1) : Front(s)[i] = s[i]
         /\ Front(s)[Len(Front(s))] = s[Len(s) - 1]
<1> DEFINE f == Front(s)
<1>1. s # <<>> /\ Len(s) \in Nat  OBVIOUS
<1>2. f \in Seq(S) /\ Len(f) = Len(s) - 1 /\ \A i \in 1..(Len(s) - 1) : f[i] = s[i]
  BY <1>1, FrontFacts
<1> HIDE DEF f
<1>3. Len(f) \in Nat \ {0} /\ f # <<>> /\ f[Len(f)] = s[Len(s) - 1]
  BY <1>1, <1>2
<1> QED  BY <1>2, <1>3 DEF f

\* The records the code constructs.
LEMMA RecordTypes ==
  ASSUME NEW t \in Nat, NEW rep \in Replayer
  PROVE  /\ HeadRecord(t, rep) \in Record
         /\ PlayedHead(t, rep) \in Record
         /\ ValueRecord(t) \in Record
<1>1. RootRecord(t) \in Record
  BY DEF RootRecord, Record, Replayer, NoRep
<1>2. ValueRecord(t) \in Record
  BY <1>1 DEF ValueRecord, Record
<1>3. HeadRecord(t, rep) \in Record
  BY DEF HeadRecord, Record, Replayer
<1>4. PlayedHead(t, rep) \in Record
  BY <1>3 DEF PlayedHead, Record, Replayer
<1> QED  BY <1>2, <1>3, <1>4

\* The replayer of a record that has none is typed.
LEMMA NoRepType == NoRep \in Replayer
BY DEF NoRep, Replayer

\* The changes the code makes to a record.
LEMMA RecordUpdates ==
  ASSUME NEW r \in Record, NEW s \in Seq(Nat), NEW p \in Nat,
         NEW D \in SUBSET Nat, NEW N \in SUBSET Node
  PROVE  /\ [r EXCEPT !.t = p] \in Record
         /\ [r EXCEPT !.ez = s] \in Record
         /\ [r EXCEPT !.ez = s, !.pos = p] \in Record
         /\ [r EXCEPT !.todo = s] \in Record
         /\ [r EXCEPT !.held = N] \in Record
         /\ [r EXCEPT !.todo = s, !.held = N] \in Record
         /\ [r EXCEPT !.deps = D, !.todo = s, !.pos = p] \in Record
<1>1. /\ [r EXCEPT !.t = p] \in Record
      /\ [r EXCEPT !.ez = s] \in Record
  BY DEF Record
<1>2. [r EXCEPT !.ez = s, !.pos = p] \in Record  BY DEF Record
<1>3. [r EXCEPT !.todo = s] \in Record  BY DEF Record
<1>4. [r EXCEPT !.held = N] \in Record  BY DEF Record
<1>5. [r EXCEPT !.todo = s, !.held = N] \in Record  BY DEF Record
<1>6. [r EXCEPT !.deps = D, !.todo = s, !.pos = p] \in Record  BY DEF Record
<1> QED  BY <1>1, <1>2, <1>3, <1>4, <1>5, <1>6

\* play() leaves a record a record.
LEMMA PlayUpdate ==
  ASSUME NEW r \in Record, NEW s \in Seq(Nat)
  PROVE  [r EXCEPT !.playing = TRUE, !.todo = s] \in Record
BY DEF Record

(***************************************************************************)
(* Every step keeps the types                                              *)
(***************************************************************************)

\* Initially the types hold and the one record fits its stack.
LEMMA InitType == Init => TypeOK /\ StackOK /\ Dense
<1> SUFFICES ASSUME Init  PROVE TypeOK /\ StackOK /\ Dense
  OBVIOUS
<1>1. /\ RootRecord(0) \in Record /\ RootRecord(0).kind = "root"
      /\ RootRecord(0).t = 0 /\ RootRecord(0).ez = <<>> /\ RootRecord(0).todo = <<>>
  BY DEF RootRecord, Record, NoRep, Replayer
<1>2. TypeOK  BY <1>1 DEF Init, TypeOK, Replay, Null, Never
<1>3. Len(records) = 1 /\ Len(replays) = 1 /\ records[1] = RootRecord(0)
  BY DEF Init
<1>4. StackOK
  BY <1>1, <1>3 DEF Init, StackOK, Depth, RootSuspended, Never, Null
<1>5. Dense
  BY <1>1, <1>3 DEF Init, Dense, ClockOf, RootSuspended
<1> QED  BY <1>2, <1>4, <1>5

\* A step of the root program or of a body.
LEMMA ProgramType ==
  ASSUME TypeOK, RootStep \/ BodyStep
  PROVE  TypeOK'
<1>1. /\ Top \in Record /\ Here \in Nat /\ current_tock \in Nat
      /\ Top.ez \in Seq(Nat) /\ Top.t \in Nat /\ Top.held \subseteq Node
      /\ Top.deps \subseteq Nat /\ Top.rep \in Replayer
  BY TopFacts, HereType DEF Record, TypeOK
<1>2. CASE Construct
  <2>1. records' \in Seq(Record) /\ records' # <<>>
    <3>1. [Top EXCEPT !.ez = Append(@, Here), !.pos = Here + 1] \in Record
      <4>1. Append(Top.ez, Here) \in Seq(Nat) /\ Here + 1 \in Nat  BY <1>1
      <4> QED  BY <1>1, <4>1, RecordUpdates
    <3> QED  BY <1>2, <3>1, WithTopFacts DEF Construct
  <2>2. replays' \in Seq(Replay) /\ replays' # <<>>
    <3>1. [Target EXCEPT !.got = Here] \in Replay  BY <1>1, TopFacts DEF Replay
    <3>2. [replays EXCEPT ![Len(replays)].got = Here]
            = [replays EXCEPT ![Len(replays)] = [Target EXCEPT !.got = Here]]
      BY TopFacts DEF TypeOK
    <3>3. replays \in Seq(Replay) /\ replays # <<>>  BY DEF TypeOK
    <3>4. CASE replays' = replays  BY <3>3, <3>4
    <3>5. CASE replays' = [replays EXCEPT ![Len(replays)] = [Target EXCEPT !.got = Here]]
      BY <3>1, <3>3, <3>5, ExceptFacts
    <3> QED  BY <1>2, <3>2, <3>4, <3>5 DEF Construct
  <2>3. log' \in Seq(Event)
    <3>1. <<>> \in Seq(Nat)  OBVIOUS
    <3> QED  BY <1>2, <3>1, DoesType DEF Construct
  <2> QED  BY <1>2, <2>1, <2>2, <2>3 DEF Construct, TypeOK
<1>3. ASSUME NEW in \in Args, BindZombie(in)  PROVE TypeOK'
  <2> DEFINE rep == [in |-> in, pos |-> Here + 1]
             ctx == [kind |-> "root", end_t |-> current_tock, ez |-> Top.ez,
                     end_rep |-> rep, deps |-> {}]
             top == [Top EXCEPT !.ez = <<>>]
  <2>1. in \in Seq(Nat) /\ rep \in Replayer  BY <1>1, ArgsType DEF Replayer
  <2>2. ctx \in Context  BY <1>1, <2>1 DEF Context
  <2>3. top \in Record
    <3>1. <<>> \in Seq(Nat)  OBVIOUS
    <3> QED  BY <1>1, <3>1, RecordUpdates
  <2>4. records' \in Seq(Record) /\ records' # <<>>
    <3>1. PlayedHead(current_tock, rep) \in Record  BY <1>1, <2>1, RecordTypes
    <3>2. records' = Append(WithTop(top), PlayedHead(current_tock, rep))
      BY <1>3 DEF BindZombie
    <3> HIDE DEF top, rep
    <3> QED  BY <2>3, <3>1, <3>2, WithTopFacts, AppendFacts
  <2>5. log' \in Seq(Event)  BY <1>3, <2>1, DoesType DEF BindZombie
  <2>6. akasha' = Insert(Top.t, ctx)  BY <1>3 DEF BindZombie
  <2>7. current_tock' \in Nat /\ replays' = replays  BY <1>1, <1>3 DEF BindZombie
  <2> HIDE DEF ctx
  <2>8. DOMAIN akasha' \subseteq Nat /\ akasha' \in [DOMAIN akasha' -> Context]
    BY <1>1, <2>2, <2>6, InsertType
  <2> QED  BY <2>4, <2>5, <2>7, <2>8 DEF TypeOK
<1>4. ASSUME NEW k \in Made, GetValue(k)  PROVE TypeOK'
  <2>1. [Top EXCEPT !.todo = <<k>>] \in Record
    <3>1. <<k>> \in Seq(Nat)  BY ArgsType
    <3> QED  BY <1>1, <3>1, RecordUpdates
  <2> QED  BY <1>4, <2>1, WithTopFacts DEF GetValue, TypeOK
<1>5. ASSUME NEW n \in Top.held, Release(n)  PROVE TypeOK'
  <2>1. [Top EXCEPT !.held = @ \ {n}] \in Record
    <3>1. Top.held \ {n} \in SUBSET Node  BY <1>1
    <3> QED  BY <1>1, <3>1, RecordUpdates
  <2> QED  BY <1>5, <2>1, WithTopFacts DEF Release, TypeOK
<1>6. ASSUME NEW in \in Args, UnrolledTailCall(in)  PROVE TypeOK'
  <2>1. in \in Seq(Nat) /\ ToSet(in) \subseteq Nat  BY ArgsType, ToSetType
  <2>2. PICK order \in Orders(in) :
          records' = WithTop([Top EXCEPT
                       !.deps = @ \cup {k \in ToSet(in) : k < Top.t},
                       !.todo = order, !.pos = Here + 1])
    BY <1>6 DEF UnrolledTailCall
  <2>3. [Top EXCEPT !.deps = @ \cup {k \in ToSet(in) : k < Top.t},
                    !.todo = order, !.pos = Here + 1] \in Record
    <3>1. /\ Top.deps \cup {k \in ToSet(in) : k < Top.t} \in SUBSET Nat
          /\ order \in Seq(Nat)
          /\ Here + 1 \in Nat
      BY <1>1, <2>1, OrdersFacts
    <3> QED  BY <1>1, <3>1, RecordUpdates
  <2>4. log' \in Seq(Event)  BY <1>6, <2>1, DoesType DEF UnrolledTailCall
  <2> QED  BY <1>6, <2>2, <2>3, <2>4, WithTopFacts DEF UnrolledTailCall, TypeOK
<1>7. ASSUME NEW rep \in Replayer, Completed(rep)
      PROVE  DOMAIN akasha' \subseteq Nat /\ akasha' \in [DOMAIN akasha' -> Context]
  <2>1. Top.deps \cup ToSet(Top.rep.in) \subseteq Nat
    BY <1>1, ToSetType DEF Replayer
  <2>2. [kind |-> "full", end_t |-> current_tock, ez |-> Top.ez,
         end_rep |-> rep, deps |-> Top.deps \cup ToSet(Top.rep.in)] \in Context
    BY <1>1, <2>1 DEF Context
  <2> QED  BY <1>1, <1>7, <2>2, InsertType DEF Completed
<1>8. ASSUME NEW in \in Args, TailCall(in)  PROVE TypeOK'
  <2> DEFINE rep == [in |-> in, pos |-> Here + 1]
  <2>1. in \in Seq(Nat) /\ rep \in Replayer  BY <1>1, ArgsType DEF Replayer
  <2>2. log' \in Seq(Event)  BY <1>8, <2>1, DoesType DEF TailCall
  <2>3. Completed(rep) /\ records' = WithTop(HeadRecord(current_tock, rep))
    BY <1>8 DEF TailCall
  <2> HIDE DEF rep
  <2>4. HeadRecord(current_tock, rep) \in Record  BY <1>1, <2>1, RecordTypes
  <2> QED  BY <1>1, <1>7, <1>8, <2>1, <2>2, <2>3, <2>4, WithTopFacts, SMTT(30)
           DEF TailCall, TypeOK
<1>9. CASE Finish
  <2>1. NoRep \in Replayer /\ ValueRecord(current_tock) \in Record
    BY <1>1, RecordTypes, NoRepType
  <2>2. <<>> \in Seq(Nat)  OBVIOUS
  <2>3. log' \in Seq(Event)  BY <1>9, <2>2, DoesType DEF Finish
  <2> QED  BY <1>1, <1>7, <1>9, <2>1, <2>3, WithTopFacts DEF Finish, TypeOK
<1> QED  BY <1>2, <1>3, <1>4, <1>5, <1>6, <1>8, <1>9 DEF RootStep, BodyStep

\* A step of the engine.
LEMMA EngineType ==
  ASSUME TypeOK, StackOK, EngineStep
  PROVE  TypeOK'
<1>1. /\ Top \in Record /\ current_tock \in Nat
      /\ Top.t \in Nat /\ Top.held \subseteq Node /\ Top.rep \in Replayer
      /\ Top.todo \in Seq(Nat)
  BY TopFacts DEF Record, TypeOK
<1>2. CASE Play
  <2>1. [Top EXCEPT !.playing = TRUE, !.todo = Top.rep.in] \in Record
    <3>1. Top.rep.in \in Seq(Nat)  BY <1>1 DEF Replayer
    <3> QED  BY <1>1, <3>1, PlayUpdate
  <2> QED  BY <1>2, <2>1, WithTopFacts DEF Play, TypeOK
<1>3. ASSUME NEW n \in Nodes, Lock(n)  PROVE TypeOK'
  <2>1. [Top EXCEPT !.todo = Tail(Top.todo), !.held = Top.held \cup {n}] \in Record
    <3>1. Top.todo # <<>>  BY <1>3 DEF Lock, UserCode
    <3>2. Tail(Top.todo) \in Seq(Nat)  BY <1>1, <3>1
    <3>3. Top.held \cup {n} \in SUBSET Node  BY <1>1, NodesType
    <3> QED  BY <1>1, <3>2, <3>3, RecordUpdates
  <2> QED  BY <1>3, <2>1, WithTopFacts DEF Lock, TypeOK
<1>4. CASE StartReplay
  <2> DEFINE k == Head(Top.todo)
             base == akasha[Base(k)]
             replay == [at |-> k, got |-> Null, tock |-> current_tock]
  <2>1. k \in Nat
    <3>1. Top.todo # <<>>  BY <1>4 DEF StartReplay, UserCode
    <3> QED  BY <1>1, <3>1
  <2>2. base \in Context
    <3>1. HasBase(k)  BY <1>4 DEF StartReplay
    <3> QED  BY <2>1, <3>1, FindType DEF TypeOK
  <2>3. base.end_t \in Nat /\ base.end_rep \in Replayer
    <3> HIDE DEF base
    <3> QED  BY <2>2 DEF Context
  <2>4. replay \in Replay  BY <1>1, <2>1 DEF Replay, Null
  <2>5. PlayedHead(base.end_t, base.end_rep) \in Record  BY <2>3, RecordTypes
  <2>6. /\ replays' = Append(replays, replay)
        /\ records' = Append(records, PlayedHead(base.end_t, base.end_rep))
        /\ current_tock' = base.end_t + 1
        /\ UNCHANGED <<akasha, log>>
    BY <1>4 DEF StartReplay
  <2> HIDE DEF base, replay
  <2>7. replays' \in Seq(Replay) /\ replays' # <<>>
    BY <2>4, <2>6, AppendFacts DEF TypeOK
  <2>8. records' \in Seq(Record) /\ records' # <<>>
    BY <2>5, <2>6, AppendFacts DEF TypeOK
  <2> QED  BY <2>3, <2>6, <2>7, <2>8 DEF TypeOK
<1>5. CASE EndReplay
  <2> DEFINE rest == Front(records)
             last == rest[Len(rest)]
             node == [tock |-> Target.at, val |-> Target.got]
  <2>1. Len(replays) > 1 /\ Len(records) > 1
    BY <1>5, TopFacts DEF EndReplay, Replaying, StackOK
  <2>2. rest \in Seq(Record) /\ rest # <<>> /\ Len(rest) = Len(records) - 1
        /\ last = records[Len(records) - 1]
    BY <2>1, PopFacts DEF TypeOK
  <2>3. last \in Record /\ last.todo # <<>>
    <3>1. Depth(Len(records) - 1) = Len(replays) - 1  BY TopFacts DEF Depth
    <3>2. Depth(Len(records) - 1) \in 1..(Len(replays) - 1)  BY <2>1, <3>1, TopFacts
    <3>3. Len(records) - 1 \in DOMAIN records  BY <2>1, TopFacts
    <3> QED  BY <2>2, <3>2, <3>3 DEF StackOK, TypeOK
  <2>4. node \in Node
    <3>1. Target.at # Never  BY <2>1, TopFacts DEF StackOK
    <3> QED  BY <3>1, TopFacts DEF Replay, Node
  <2>5. [last EXCEPT !.todo = Tail(last.todo), !.held = last.held \cup {node}] \in Record
    <3> HIDE DEF last, node
    <3>1. last.todo \in Seq(Nat) /\ last.held \subseteq Node  BY <2>3 DEF Record
    <3>2. Tail(last.todo) \in Seq(Nat) /\ last.held \cup {node} \in SUBSET Node
      BY <2>3, <2>4, <3>1
    <3> QED  BY <2>3, <3>2, RecordUpdates
  <2>6. records' = [rest EXCEPT ![Len(rest)] =
                      [last EXCEPT !.todo = Tail(last.todo),
                                   !.held = last.held \cup {node}]]
    BY <1>5, <2>2 DEF EndReplay
  <2>7. records' \in Seq(Record) /\ records' # <<>>
    <3> HIDE DEF rest, last, node
    <3> QED  BY <2>2, <2>5, <2>6, ExceptFacts
  <2>8. replays' \in Seq(Replay) /\ replays' # <<>>
    BY <1>5, <2>1, PopFacts DEF EndReplay, TypeOK
  <2>9. current_tock' \in Nat  BY <1>5, TopFacts DEF EndReplay, Replay
  <2> QED  BY <1>5, <2>7, <2>8, <2>9 DEF EndReplay, TypeOK
<1>6. CASE PopValue
  <2> DEFINE rest == Front(records)
             last == rest[Len(rest)]
  <2>1. Len(records) > 1
    <3>1. Top.kind # "root"  BY <1>6 DEF PopValue
    <3> QED  BY <3>1, TopFacts DEF StackOK
  <2>2. rest \in Seq(Record) /\ rest # <<>> /\ Len(rest) = Len(records) - 1
        /\ Len(rest) \in Nat \ {0}
    BY <2>1, PopFacts DEF TypeOK
  <2>3. last \in Record  BY <2>2
  <2>4. [last EXCEPT !.t = current_tock] \in Record
    <3>1. /\ <<>> \in Seq(Nat) /\ {} \in SUBSET Nat /\ {} \in SUBSET Node  OBVIOUS
    <3> HIDE DEF last
    <3> QED  BY <1>1, <2>3, <3>1, RecordUpdates
  <2>5. records' = [rest EXCEPT ![Len(rest)] = [last EXCEPT !.t = current_tock]]
    BY <1>6, <2>2 DEF PopValue
  <2>6. records' \in Seq(Record) /\ records' # <<>>
    <3> HIDE DEF rest, last
    <3> QED  BY <2>2, <2>4, <2>5, ExceptFacts
  <2> QED  BY <1>1, <1>6, <2>6 DEF PopValue, TypeOK
<1> QED  BY <1>2, <1>3, <1>4, <1>5, <1>6 DEF EngineStep

\* An eviction.
LEMMA EvictType ==
  ASSUME TypeOK, Evict
  PROVE  TypeOK'
<1>1. ASSUME NEW s \in DOMAIN akasha, Murder(s)  PROVE TypeOK'
  BY <1>1 DEF Murder, Without, TypeOK
<1>2. ASSUME NEW k \in Made, EvictIndividual(k)  PROVE TypeOK'
  <2> DEFINE s == FindLE(k)
             c == akasha[s]
             i == k - s
  <2>1. k \in Nat /\ s \in DOMAIN akasha /\ i \in DOMAIN c.ez
    BY <1>2, ArgsType, FindType DEF EvictIndividual, Stored
  <2>2. c \in Context  BY <2>1 DEF TypeOK
  <2>3. akasha' = [akasha EXCEPT ![s] = [c EXCEPT !.ez = [c.ez EXCEPT ![i] = Null]]]
    BY <1>2, <2>1 DEF EvictIndividual
  <2>4. [c EXCEPT !.ez = [c.ez EXCEPT ![i] = Null]] \in Context
    <3> HIDE DEF c, i
    <3>1. [c.ez EXCEPT ![i] = Null] \in Seq(Nat)  BY <2>1, <2>2 DEF Context, Null
    <3> QED  BY <2>2, <3>1 DEF Context
  <2> HIDE DEF s, c, i
  <2>5. DOMAIN akasha' = DOMAIN akasha /\ akasha' \in [DOMAIN akasha -> Context]
    BY <2>1, <2>3, <2>4 DEF TypeOK
  <2> QED  BY <1>2, <2>5 DEF EvictIndividual, TypeOK
<1> QED  BY <1>1, <1>2 DEF Evict

(***************************************************************************)
(* Every step keeps the stacks and the clocks                              *)
(***************************************************************************)

\* A step that changes no more than the record on top and what the target's
\* replay has got, and moves the clock as that record needs.
LEMMA TopStep ==
  ASSUME TypeOK, StackOK, Dense, TypeOK',
         NEW r \in Record, records' = WithTop(r),
         r.kind = "root" <=> Top.kind = "root",
         current_tock' = r.t + Len(r.ez) + 1,
         Len(replays') = Len(replays),
         \A j \in 1..Len(replays) : /\ replays'[j].at = replays[j].at
                                   /\ replays'[j].tock = replays[j].tock,
         replays'[1].got = Null
  PROVE  StackOK' /\ Dense'
<1>1. /\ Len(records') = Len(records)
      /\ records'[Len(records)] = r
      /\ \A i \in 1..(Len(records) - 1) : records'[i] = records[i]
  BY WithTopFacts
<1>2. /\ Len(records) \in Nat \ {0} /\ Top = records[Len(records)]
      /\ Len(replays) \in Nat \ {0}
  BY TopFacts
<1>3. \A i \in 1..Len(records) : Depth(i)' = Depth(i) /\ Depth(i) \in Int
  BY <1>1, <1>2 DEF Depth
<1>4. DOMAIN records = 1..Len(records) /\ DOMAIN records' = 1..Len(records)
      /\ DOMAIN replays = 1..Len(replays) /\ DOMAIN replays' = 1..Len(replays)
  BY <1>1 DEF TypeOK
<1>5. StackOK'
  <2>1. Len(records') \in {Len(replays'), Len(replays') + 1}  BY <1>1 DEF StackOK
  <2>2. \A i \in DOMAIN records' : records'[i].kind = "root" <=> i = 1
    <3>1. \A i \in 1..Len(records) : records[i].kind = "root" <=> i = 1
      BY <1>4 DEF StackOK
    <3>2. (Top.kind = "root") <=> (Len(records) = 1)
      <4>1. Len(records) \in 1..Len(records)  BY <1>2
      <4>2. (records[Len(records)].kind = "root") <=> (Len(records) = 1)  BY <3>1, <4>1
      <4> QED  BY <1>2, <4>2
    <3>3. (r.kind = "root") <=> (Len(records) = 1)  BY <3>2
    <3>4. ASSUME NEW i \in DOMAIN records'
          PROVE  (records'[i].kind = "root") <=> (i = 1)
      <4>1. CASE i = Len(records)  BY <1>1, <3>3, <4>1
      <4>2. CASE i # Len(records)  BY <1>1, <1>2, <1>4, <3>1, <4>2
      <4> QED  BY <4>1, <4>2
    <3> QED  BY <3>4
  <2>3. ASSUME NEW i \in DOMAIN records', Depth(i)' \in 1..(Len(replays') - 1)
        PROVE  /\ records'[i].todo # <<>>
               /\ replays'[Depth(i)' + 1].at = Head(records'[i].todo)
    <3>1. i # Len(records)  BY <1>1, <1>2, <2>3 DEF Depth
    <3>2. records'[i] = records[i] /\ i \in DOMAIN records  BY <1>1, <1>2, <1>4, <3>1
    <3>3. Depth(i) \in 1..(Len(replays) - 1)  BY <1>3, <1>4, <2>3
    <3>4. replays'[Depth(i) + 1].at = replays[Depth(i) + 1].at  BY <1>2, <3>3
    <3>5. /\ records[i].todo # <<>>
          /\ replays[Depth(i) + 1].at = Head(records[i].todo)
      BY <3>2, <3>3 DEF StackOK
    <3>6. Depth(i)' = Depth(i)  BY <1>3, <1>4, <3>2
    <3> QED  BY <3>2, <3>4, <3>5, <3>6
  <2>4. RootSuspended' => records'[1].todo = <<>> /\ records'[1].ez = <<>>
    <3> SUFFICES ASSUME RootSuspended'
                 PROVE  records'[1].todo = <<>> /\ records'[1].ez = <<>>
      OBVIOUS
    <3>1. Len(records) > Len(replays)  BY <1>1 DEF RootSuspended
    <3>2. records'[1] = records[1]  BY <1>1, <1>2, <3>1
    <3> QED  BY <3>1, <3>2 DEF StackOK, RootSuspended
  <2>5. \A j \in DOMAIN replays' : replays'[j].at = Never <=> j = 1
    BY <1>4 DEF StackOK
  <2> QED  BY <2>1, <2>2, <2>3, <2>4, <2>5 DEF StackOK
<1>6. Dense'
  <2> SUFFICES ASSUME NEW i \in DOMAIN records', ~(i = 1 /\ RootSuspended')
               PROVE  ClockOf(i)' = records'[i].t + Len(records'[i].ez) + 1
    BY DEF Dense
  <2>1. CASE i = Len(records)  BY <1>1, <2>1 DEF ClockOf
  <2>2. CASE i # Len(records)
    <3>1. i \in 1..(Len(records) - 1)  BY <1>2, <1>4, <2>2
    <3>2. ClockOf(i)' = replays'[Depth(i) + 1].tock
      BY <1>1, <1>3, <1>4, <2>2 DEF ClockOf
    <3>3. Depth(i) + 1 \in 1..Len(replays)
      <4>1. ~(i = 1 /\ Len(records) > Len(replays))  BY <1>1 DEF RootSuspended
      <4> QED  BY <1>2, <3>1, <4>1 DEF Depth, StackOK
    <3>4. ClockOf(i)' = ClockOf(i)  BY <2>2, <3>2, <3>3 DEF ClockOf
    <3>5. RootSuspended' = RootSuspended  BY <1>1 DEF RootSuspended
    <3> QED  BY <1>1, <1>4, <3>1, <3>4, <3>5 DEF Dense
  <2> QED  BY <2>1, <2>2
<1> QED  BY <1>5, <1>6

\* The record on top is where its clock says.
LEMMA TopDense ==
  ASSUME TypeOK, StackOK, Dense
  PROVE  current_tock = Top.t + Len(Top.ez) + 1
<1>1. /\ Len(records) \in Nat \ {0} /\ Top = records[Len(records)]
      /\ Len(replays) \in Nat \ {0}
  BY TopFacts
<1>2. Len(records) \in DOMAIN records  BY <1>1 DEF TypeOK
<1>3. ~(Len(records) = 1 /\ RootSuspended)  BY <1>1 DEF RootSuspended
<1>4. ClockOf(Len(records)) = current_tock  BY DEF ClockOf
<1>5. ClockOf(Len(records)) = records[Len(records)].t + Len(records[Len(records)].ez) + 1
  BY <1>2, <1>3 DEF Dense
<1> QED  BY <1>1, <1>4, <1>5

\* As TopStep, for a step that leaves the replays alone.
LEMMA TopOnly ==
  ASSUME TypeOK, StackOK, Dense, TypeOK',
         NEW r \in Record, records' = WithTop(r), replays' = replays,
         r.kind = "root" <=> Top.kind = "root",
         current_tock' = r.t + Len(r.ez) + 1
  PROVE  StackOK' /\ Dense'
<1>1. /\ Len(replays') = Len(replays)
      /\ \A j \in 1..Len(replays) : /\ replays'[j].at = replays[j].at
                                    /\ replays'[j].tock = replays[j].tock
      /\ replays'[1].got = Null
  BY DEF StackOK
<1> QED  BY <1>1, TopStep

\* Where the kind of the record on top tells how high the stacks are.
LEMMA RootHeight ==
  ASSUME TypeOK, StackOK
  PROVE  /\ Top.kind = "root" => Len(records) = 1 /\ Len(replays) = 1
         /\ Top.kind # "root" => Len(records) > 1
<1>1. Len(records) \in Nat \ {0} /\ Top = records[Len(records)]
      /\ Len(replays) \in Nat \ {0}
  BY TopFacts
<1>2. Len(records) \in DOMAIN records  BY <1>1 DEF TypeOK
<1>3. (records[Len(records)].kind = "root") <=> (Len(records) = 1)
  BY <1>2 DEF StackOK
<1>4. (Top.kind = "root") <=> (Len(records) = 1)  BY <1>1, <1>3
<1>5. Len(records) \in {Len(replays), Len(replays) + 1}  BY DEF StackOK
<1>6. Len(records) = 1 => Len(replays) = 1  BY <1>1, <1>5
<1>7. Len(records) # 1 => Len(records) > 1
  <2> DEFINE n == Len(records)
  <2>1. n \in Nat /\ n # 0  BY <1>1
  <2> HIDE DEF n
  <2>2. n # 1 => n > 1  BY <2>1
  <2> QED  BY <2>2 DEF n
<1> QED  BY <1>4, <1>6, <1>7

\* What bodies and root code do keeps the stacks matched and the slots filled.
LEMMA ProgramStack ==
  ASSUME TypeOK, StackOK, Dense, TypeOK', RootStep \/ BodyStep
  PROVE  StackOK' /\ Dense'
<1>1. /\ Top \in Record /\ Here \in Nat /\ current_tock \in Nat
      /\ Top.ez \in Seq(Nat) /\ Top.t \in Nat /\ Top.held \subseteq Node
      /\ Top.deps \subseteq Nat /\ Top.rep \in Replayer /\ Top.todo \in Seq(Nat)
  BY TopFacts, HereType DEF Record, TypeOK
<1>2. current_tock = Top.t + Len(Top.ez) + 1  BY TopDense
<1>3. CASE Construct
  <2> DEFINE r == [Top EXCEPT !.ez = Append(@, Here), !.pos = Here + 1]
  <2>1. r \in Record
    <3>1. Append(Top.ez, Here) \in Seq(Nat) /\ Here + 1 \in Nat  BY <1>1
    <3> QED  BY <1>1, <3>1, RecordUpdates
  <2>2. r.kind = Top.kind /\ r.t = Top.t /\ r.ez = Append(Top.ez, Here)
    BY <1>1, SMTT(30) DEF Record
  <2>3. current_tock' = r.t + Len(r.ez) + 1
    <3>1. Len(Append(Top.ez, Here)) = Len(Top.ez) + 1 /\ Len(Top.ez) \in Nat
      BY <1>1, AppendFacts
    <3> QED  BY <1>1, <1>2, <1>3, <2>2, <3>1 DEF Construct
  <2>4. records' = WithTop(r)  BY <1>3 DEF Construct
  <2>5. CASE replays' = replays
    <3> HIDE DEF r
    <3> QED  BY <2>1, <2>2, <2>3, <2>4, <2>5, TopOnly
  <2>6. CASE /\ current_tock = Target.at
             /\ replays' = [replays EXCEPT ![Len(replays)].got = Here]
    <3>1. Len(replays) # 1
      <4>1. Target.at # Never  BY <1>1, <2>6 DEF Never
      <4>2. 1 \in DOMAIN replays /\ replays[1].at = Never
        BY TopFacts DEF StackOK, TypeOK
      <4> QED  BY <4>1, <4>2, TopFacts
    <3>2. /\ Len(replays') = Len(replays)
          /\ \A j \in 1..Len(replays) : /\ replays'[j].at = replays[j].at
                                        /\ replays'[j].tock = replays[j].tock
      <4> DEFINE x == [Target EXCEPT !.got = Here]
      <4>1. x \in Replay /\ x.at = Target.at /\ x.tock = Target.tock
        BY <1>1, TopFacts DEF Replay
      <4>2. replays' = [replays EXCEPT ![Len(replays)] = x]
        BY <2>6, TopFacts DEF TypeOK
      <4> HIDE DEF x
      <4>3. replays \in Seq(Replay) /\ replays # <<>>  BY DEF TypeOK
      <4>4. /\ Len(replays') = Len(replays) /\ replays'[Len(replays)] = x
            /\ \A j \in 1..(Len(replays) - 1) : replays'[j] = replays[j]
        BY <4>1, <4>2, <4>3, ExceptFacts
      <4>5. ASSUME NEW j \in 1..Len(replays)
            PROVE  /\ replays'[j].at = replays[j].at
                   /\ replays'[j].tock = replays[j].tock
        <5>1. CASE j = Len(replays)  BY <4>1, <4>4, <5>1, TopFacts
        <5>2. CASE j # Len(replays)  BY <4>4, <5>2, TopFacts
        <5> QED  BY <5>1, <5>2
      <4> QED  BY <4>4, <4>5
    <3>3. replays'[1].got = Null
      <4>1. replays'[1] = replays[1]  BY <2>6, <3>1, TopFacts DEF TypeOK
      <4> QED  BY <4>1 DEF StackOK
    <3> HIDE DEF r
    <3> QED  BY <2>1, <2>2, <2>3, <2>4, <3>2, <3>3, TopStep
  <2> QED  BY <1>3, <2>5, <2>6 DEF Construct
<1>4. ASSUME NEW k \in Made, GetValue(k)  PROVE StackOK' /\ Dense'
  <2> DEFINE r == [Top EXCEPT !.todo = <<k>>]
  <2>1. r \in Record
    <3>1. <<k>> \in Seq(Nat)  BY ArgsType
    <3> QED  BY <1>1, <3>1, RecordUpdates
  <2>2. r.kind = Top.kind /\ r.t = Top.t /\ r.ez = Top.ez  BY <1>1 DEF Record
  <2>3. /\ records' = WithTop(r) /\ replays' = replays
        /\ current_tock' = r.t + Len(r.ez) + 1
    BY <1>2, <1>4, <2>2 DEF GetValue
  <2> HIDE DEF r
  <2> QED  BY <2>1, <2>2, <2>3, TopOnly
<1>5. ASSUME NEW n \in Top.held, Release(n)  PROVE StackOK' /\ Dense'
  <2> DEFINE r == [Top EXCEPT !.held = @ \ {n}]
  <2>1. r \in Record
    <3>1. Top.held \ {n} \in SUBSET Node  BY <1>1
    <3> QED  BY <1>1, <3>1, RecordUpdates
  <2>2. r.kind = Top.kind /\ r.t = Top.t /\ r.ez = Top.ez  BY <1>1 DEF Record
  <2>3. /\ records' = WithTop(r) /\ replays' = replays
        /\ current_tock' = r.t + Len(r.ez) + 1
    BY <1>2, <1>5, <2>2 DEF Release
  <2> HIDE DEF r
  <2> QED  BY <2>1, <2>2, <2>3, TopOnly
<1>6. ASSUME NEW in \in Args, UnrolledTailCall(in)  PROVE StackOK' /\ Dense'
  <2>1. in \in Seq(Nat) /\ ToSet(in) \subseteq Nat  BY ArgsType, ToSetType
  <2>2. PICK order \in Orders(in) :
          records' = WithTop([Top EXCEPT
                       !.deps = @ \cup {k \in ToSet(in) : k < Top.t},
                       !.todo = order, !.pos = Here + 1])
    BY <1>6 DEF UnrolledTailCall
  <2> DEFINE r == [Top EXCEPT !.deps = @ \cup {k \in ToSet(in) : k < Top.t},
                              !.todo = order, !.pos = Here + 1]
  <2>3. r \in Record
    <3>1. /\ Top.deps \cup {k \in ToSet(in) : k < Top.t} \in SUBSET Nat
          /\ order \in Seq(Nat)
          /\ Here + 1 \in Nat
      BY <1>1, <2>1, OrdersFacts
    <3> QED  BY <1>1, <3>1, RecordUpdates
  <2>4. r.kind = Top.kind /\ r.t = Top.t /\ r.ez = Top.ez  BY <1>1 DEF Record
  <2>5. /\ records' = WithTop(r) /\ replays' = replays
        /\ current_tock' = r.t + Len(r.ez) + 1
    BY <1>2, <1>6, <2>2, <2>4 DEF UnrolledTailCall
  <2> HIDE DEF r
  <2> QED  BY <2>3, <2>4, <2>5, TopOnly
<1>7. ASSUME NEW in \in Args, TailCall(in)  PROVE StackOK' /\ Dense'
  <2> DEFINE rep == [in |-> in, pos |-> Here + 1]
             r == HeadRecord(current_tock, rep)
  <2>1. rep \in Replayer  BY <1>1, ArgsType DEF Replayer
  <2>2. r \in Record  BY <1>1, <2>1, RecordTypes
  <2>3. r.kind = "head" /\ r.t = current_tock /\ r.ez = <<>>  BY DEF HeadRecord
  <2>4. Top.kind = "head"  BY <1>7 DEF TailCall, InBody
  <2>5. records' = WithTop(r) /\ replays' = replays /\ current_tock' = current_tock + 1
    BY <1>7 DEF TailCall
  <2> HIDE DEF r
  <2>6. current_tock' = r.t + Len(r.ez) + 1  BY <1>1, <2>3, <2>5
  <2> QED  BY <2>2, <2>3, <2>4, <2>5, <2>6, TopOnly
<1>8. CASE Finish
  <2> DEFINE r == ValueRecord(current_tock)
  <2>1. r \in Record  BY <1>1, NoRepType, RecordTypes
  <2>2. r.kind = "value" /\ r.t = current_tock /\ r.ez = <<>>
    BY DEF ValueRecord, RootRecord
  <2>3. Top.kind = "head"  BY <1>8 DEF Finish, InBody
  <2>4. records' = WithTop(r) /\ replays' = replays /\ current_tock' = current_tock + 1
    BY <1>8 DEF Finish
  <2> HIDE DEF r
  <2>5. current_tock' = r.t + Len(r.ez) + 1  BY <1>1, <2>2, <2>4
  <2> QED  BY <2>1, <2>2, <2>3, <2>4, <2>5, TopOnly
<1>9. ASSUME NEW in \in Args, BindZombie(in)  PROVE StackOK' /\ Dense'
  <2> DEFINE rep == [in |-> in, pos |-> Here + 1]
             top == [Top EXCEPT !.ez = <<>>]
             new == PlayedHead(current_tock, rep)
  <2>1. rep \in Replayer  BY <1>1, ArgsType DEF Replayer
  <2>2. top \in Record
    <3>1. <<>> \in Seq(Nat)  OBVIOUS
    <3> QED  BY <1>1, <3>1, RecordUpdates
  <2>3. new \in Record  BY <1>1, <2>1, RecordTypes
  <2>4. top.kind = "root" /\ top.todo = <<>> /\ top.ez = <<>> /\ UserCode
    BY <1>1, <1>9 DEF BindZombie, AtRoot, UserCode, Record
  <2>5. new.kind = "head" /\ new.t = current_tock /\ new.ez = <<>>
    BY DEF PlayedHead, HeadRecord
  <2>6. Len(records) = 1 /\ Len(replays) = 1
    BY <1>9, RootHeight DEF BindZombie, AtRoot
  <2>7. /\ records' = Append(WithTop(top), new)
        /\ replays' = replays /\ current_tock' = current_tock + 1
    BY <1>9 DEF BindZombie
  <2> DEFINE w == WithTop(top)
  <2> HIDE DEF top, new
  <2>8. Len(records') = 2 /\ records'[1] = top /\ records'[2] = new
    <3>1. w \in Seq(Record) /\ Len(w) = 1 /\ w[1] = top
      BY <2>2, <2>6, WithTopFacts
    <3>2. records' = Append(w, new)  BY <2>7
    <3> HIDE DEF w
    <3>3. /\ Len(Append(w, new)) = Len(w) + 1
          /\ Append(w, new)[Len(w) + 1] = new
          /\ \A i \in 1..Len(w) : Append(w, new)[i] = w[i]
      <4>1. w \in Seq(Record) /\ new \in Record  BY <2>3, <3>1
      <4> QED  BY <4>1, AppendFacts
    <3>4. Len(w) + 1 = 2 /\ 1 \in 1..Len(w)  BY <3>1
    <3> QED  BY <3>1, <3>2, <3>3, <3>4
  <2>9. DOMAIN records' = {1, 2}  BY <2>8 DEF TypeOK
  <2>10. Len(replays') = 1 /\ replays' = replays /\ DOMAIN replays = {1}
    BY <2>6, <2>7 DEF TypeOK
  <2>11. StackOK'
    <3>1. replays[1].at = Never /\ replays[1].got = Null  BY <2>10 DEF StackOK
    <3>2. Len(records') \in {Len(replays'), Len(replays') + 1}  BY <2>8, <2>10
    <3>3. \A i \in DOMAIN records' : (records'[i].kind = "root") <=> (i = 1)
      BY <2>4, <2>5, <2>8, <2>9
    <3>4. \A i \in DOMAIN records' : Depth(i)' \notin 1..(Len(replays') - 1)
      BY <2>10
    <3>5. records'[1].todo = <<>> /\ records'[1].ez = <<>>  BY <2>4, <2>8
    <3>6. \A j \in DOMAIN replays' : (replays'[j].at = Never) <=> (j = 1)
      BY <2>10, <3>1
    <3> QED  BY <2>10, <3>1, <3>2, <3>3, <3>4, <3>5, <3>6 DEF StackOK
  <2>12. Dense'
    <3>1. RootSuspended'  BY <2>8, <2>10 DEF RootSuspended
    <3>2. ClockOf(2)' = current_tock + 1  BY <2>7, <2>8 DEF ClockOf
    <3>3. ClockOf(2)' = records'[2].t + Len(records'[2].ez) + 1
      BY <1>1, <2>5, <2>8, <3>2
    <3> QED  BY <2>9, <3>1, <3>3 DEF Dense
  <2> QED  BY <2>11, <2>12
<1> QED  BY <1>3, <1>4, <1>5, <1>6, <1>7, <1>8, <1>9 DEF RootStep, BodyStep

\* What the engine does between bodies keeps the stacks matched and the slots
\* filled.
LEMMA EngineStack ==
  ASSUME TypeOK, StackOK, Dense, TypeOK', EngineStep
  PROVE  StackOK' /\ Dense'
<1> DEFINE n == Len(records)
           m == Len(replays)
<1>1. /\ Top \in Record /\ current_tock \in Nat
      /\ Top.ez \in Seq(Nat) /\ Top.t \in Nat /\ Top.held \subseteq Node
      /\ Top.rep \in Replayer /\ Top.todo \in Seq(Nat)
  BY TopFacts DEF Record, TypeOK
<1>2. current_tock = Top.t + Len(Top.ez) + 1  BY TopDense
<1>3. /\ n \in Nat \ {0} /\ m \in Nat \ {0} /\ n \in {m, m + 1}
      /\ Top = records[n] /\ Target = replays[m]
      /\ DOMAIN records = 1..n /\ DOMAIN replays = 1..m
      /\ records \in Seq(Record) /\ replays \in Seq(Replay)
  BY TopFacts DEF StackOK, TypeOK
<1>4. \A i \in 1..n : (records[i].kind = "root") <=> (i = 1)
  BY <1>3 DEF StackOK
<1>5. \A j \in 1..m : (replays[j].at = Never) <=> (j = 1)
  BY <1>3 DEF StackOK
<1>6. \A i \in 1..n : Depth(i) \in 1..(m - 1) =>
        records[i].todo # <<>> /\ replays[Depth(i) + 1].at = Head(records[i].todo)
  BY <1>3 DEF StackOK
<1>7. replays[1].got = Null  BY DEF StackOK
<1>8. n > m => records[1].todo = <<>> /\ records[1].ez = <<>>
  BY DEF StackOK, RootSuspended
<1>9. \A i \in 1..n : ~(i = 1 /\ n > m) =>
        ClockOf(i) = records[i].t + Len(records[i].ez) + 1
  BY <1>3 DEF Dense, RootSuspended
<1>10. CASE Play
  <2> DEFINE r == [Top EXCEPT !.playing = TRUE, !.todo = Top.rep.in]
  <2>1. r \in Record
    <3>1. Top.rep.in \in Seq(Nat)  BY <1>1 DEF Replayer
    <3> QED  BY <1>1, <3>1, PlayUpdate
  <2>2. r.kind = Top.kind /\ r.t = Top.t /\ r.ez = Top.ez  BY <1>1 DEF Record
  <2>3. /\ records' = WithTop(r) /\ replays' = replays
        /\ current_tock' = r.t + Len(r.ez) + 1
    BY <1>2, <1>10, <2>2 DEF Play
  <2> HIDE DEF r
  <2> QED  BY <2>1, <2>2, <2>3, TopOnly
<1>11. ASSUME NEW x \in Nodes, Lock(x)  PROVE StackOK' /\ Dense'
  <2> DEFINE r == [Top EXCEPT !.todo = Tail(Top.todo), !.held = Top.held \cup {x}]
  <2>1. r \in Record
    <3>1. Top.todo # <<>>  BY <1>11 DEF Lock, UserCode
    <3>2. Tail(Top.todo) \in Seq(Nat)  BY <1>1, <3>1
    <3>3. Top.held \cup {x} \in SUBSET Node  BY <1>1, NodesType
    <3> QED  BY <1>1, <3>2, <3>3, RecordUpdates
  <2>2. r.kind = Top.kind /\ r.t = Top.t /\ r.ez = Top.ez  BY <1>1 DEF Record
  <2>3. /\ records' = WithTop(r) /\ replays' = replays
        /\ current_tock' = r.t + Len(r.ez) + 1
    BY <1>2, <1>11, <2>2 DEF Lock
  <2> HIDE DEF r
  <2> QED  BY <2>1, <2>2, <2>3, TopOnly
<1>12. CASE StartReplay
  <2> DEFINE k == Head(Top.todo)
             base == akasha[Base(k)]
             replay == [at |-> k, got |-> Null, tock |-> current_tock]
             new == PlayedHead(base.end_t, base.end_rep)
  <2>1. Top.todo # <<>> /\ k \in Nat
    <3>1. Top.todo # <<>>  BY <1>12 DEF StartReplay, UserCode
    <3> QED  BY <1>1, <3>1
  <2>2. base.end_t \in Nat /\ base.end_rep \in Replayer
    <3>1. HasBase(k)  BY <1>12 DEF StartReplay
    <3>2. base \in Context  BY <2>1, <3>1, FindType DEF TypeOK
    <3> HIDE DEF base
    <3> QED  BY <3>2 DEF Context
  <2>3. replay \in Replay /\ new \in Record
    <3>1. replay \in Replay  BY <1>1, <2>1 DEF Replay, Null
    <3> QED  BY <2>2, <3>1, RecordTypes
  <2>4. /\ new.kind = "head" /\ new.t = base.end_t /\ new.ez = <<>>
        /\ replay.at = k /\ replay.got = Null /\ replay.tock = current_tock
        /\ k # Never
    BY <2>1 DEF PlayedHead, HeadRecord, Never
  <2>5. /\ replays' = Append(replays, replay)
        /\ records' = Append(records, new)
        /\ current_tock' = base.end_t + 1
    BY <1>12 DEF StartReplay
  <2> HIDE DEF k, base, replay, new
  <2>6. /\ Len(records') = n + 1 /\ records'[n + 1] = new
        /\ \A i \in 1..n : records'[i] = records[i]
    <3>1. records \in Seq(Record) /\ new \in Record  BY <1>3, <2>3
    <3>2. records' = Append(records, new)  BY <2>5
    <3> QED  BY <3>1, <3>2, AppendFacts
  <2>7. /\ Len(replays') = m + 1 /\ replays'[m + 1] = replay
        /\ \A j \in 1..m : replays'[j] = replays[j]
    <3>1. replays \in Seq(Replay) /\ replay \in Replay  BY <1>3, <2>3
    <3>2. replays' = Append(replays, replay)  BY <2>5
    <3> QED  BY <3>1, <3>2, AppendFacts
  <2>8. DOMAIN records' = 1..(n + 1) /\ DOMAIN replays' = 1..(m + 1)
    BY <2>6, <2>7 DEF TypeOK
  <2>9. \A i \in 1..(n + 1) : Depth(i)' = Depth(i) /\ Depth(i) = m - n + i
    <3>1. n \in Nat /\ m \in Nat /\ Len(records') = n + 1 /\ Len(replays') = m + 1
      BY <1>3, <2>6, <2>7
    <3>2. \A i \in 1..(n + 1) : Depth(i) = m - n + i  BY DEF Depth
    <3>3. \A i \in 1..(n + 1) : Depth(i)' = (m + 1) - (n + 1) + i
      BY <3>1 DEF Depth
    <3> HIDE DEF n, m
    <3> QED  BY <3>1, <3>2, <3>3
  <2> HIDE DEF n, m
  <2>10. StackOK'
    <3>1. Len(records') \in {Len(replays'), Len(replays') + 1}
      BY <1>3, <2>6, <2>7
    <3>2. \A i \in DOMAIN records' : (records'[i].kind = "root") <=> (i = 1)
      BY <1>3, <1>4, <2>4, <2>6, <2>8
    <3>3. ASSUME NEW i \in DOMAIN records', Depth(i)' \in 1..(Len(replays') - 1)
          PROVE  /\ records'[i].todo # <<>>
                 /\ replays'[Depth(i)' + 1].at = Head(records'[i].todo)
      <4>1. i \in 1..(n + 1) /\ Depth(i)' = m - n + i /\ Depth(i) = m - n + i
        BY <2>8, <2>9
      <4>2. m - n + i \in 1..m  BY <1>3, <2>7, <3>3, <4>1
      <4>3. CASE i = n
        <5>1. Depth(i)' + 1 = m + 1  BY <1>3, <4>1, <4>3
        <5>2. n \in 1..n  BY <1>3
        <5>3. records'[i] = Top  BY <1>3, <2>6, <4>3, <5>2
        <5> QED  BY <2>1, <2>4, <2>7, <5>1, <5>3 DEF k
      <4>4. CASE i # n
        <5>1. i \in 1..n /\ m - n + i \in 1..(m - 1)  BY <1>3, <4>1, <4>2, <4>4
        <5>2. records'[i] = records[i]  BY <2>6, <5>1
        <5>3. Depth(i) + 1 \in 1..m  BY <1>3, <4>1, <5>1
        <5>4. replays'[Depth(i) + 1] = replays[Depth(i) + 1]  BY <2>7, <5>3
        <5>5. /\ records[i].todo # <<>>
              /\ replays[Depth(i) + 1].at = Head(records[i].todo)
          BY <1>6, <4>1, <5>1
        <5> QED  BY <4>1, <5>2, <5>4, <5>5
      <4> QED  BY <4>3, <4>4
    <3>4. RootSuspended' => records'[1].todo = <<>> /\ records'[1].ez = <<>>
      BY <1>3, <1>8, <2>6, <2>7 DEF RootSuspended
    <3>5. \A j \in DOMAIN replays' : (replays'[j].at = Never) <=> (j = 1)
      BY <1>3, <1>5, <2>4, <2>7, <2>8
    <3>6. replays'[1].got = Null  BY <1>3, <1>7, <2>7
    <3> QED  BY <3>1, <3>2, <3>3, <3>4, <3>5, <3>6 DEF StackOK
  <2>11. Dense'
    <3> SUFFICES ASSUME NEW i \in 1..(n + 1), ~(i = 1 /\ RootSuspended')
                 PROVE  ClockOf(i)' = records'[i].t + Len(records'[i].ez) + 1
      BY <2>8 DEF Dense
    <3>1. CASE i = n + 1
      <4>1. ClockOf(i)' = current_tock'  BY <2>6, <3>1 DEF ClockOf
      <4> QED  BY <2>2, <2>4, <2>5, <2>6, <3>1, <4>1
    <3>2. CASE i # n + 1
      <4>1. i \in 1..n /\ records'[i] = records[i]  BY <1>3, <2>6, <3>2
      <4>2. ClockOf(i)' = replays'[Depth(i)' + 1].tock  BY <2>6, <3>2 DEF ClockOf
      <4>3. Depth(i)' = m - n + i  BY <2>9
      <4>4. ~(i = 1 /\ n > m)  BY <1>3, <2>6, <2>7 DEF RootSuspended
      <4>5. CASE i = n
        <5>1. Depth(i)' + 1 = m + 1  BY <1>3, <4>3, <4>5
        <5> QED  BY <1>2, <1>3, <2>4, <2>7, <4>1, <4>2, <4>5, <5>1
      <4>6. CASE i # n
        <5>1. m - n + i + 1 \in 1..m  BY <1>3, <4>1, <4>4, <4>6
        <5>2. ClockOf(i)' = replays[m - n + i + 1].tock  BY <2>7, <4>2, <4>3, <5>1
        <5>3. ClockOf(i) = replays[m - n + i + 1].tock
          BY <2>9, <4>6 DEF ClockOf, n
        <5> QED  BY <1>9, <4>1, <4>4, <5>2, <5>3
      <4> QED  BY <4>5, <4>6
    <3> QED  BY <3>1, <3>2
  <2> QED  BY <2>10, <2>11
<1>13. CASE EndReplay
  <2> DEFINE rest == Front(records)
             left == Front(replays)
             node == [tock |-> Target.at, val |-> Target.got]
             r == [rest[n - 1] EXCEPT !.todo = Tail(rest[n - 1].todo),
                                      !.held = rest[n - 1].held \cup {node}]
  <2>1. n > 1 /\ m > 1
    <3>1. m > 1  BY <1>13 DEF EndReplay, Replaying
    <3>2. m \in Nat /\ n \in {m, m + 1}  BY <1>3
    <3> HIDE DEF n, m
    <3> QED  BY <3>1, <3>2
  <2>2. /\ rest \in Seq(Record) /\ rest # <<>> /\ Len(rest) = n - 1
        /\ \A i \in 1..(n - 1) : rest[i] = records[i]
    <3>1. records \in Seq(Record) /\ Len(records) > 1  BY <1>3, <2>1
    <3> QED  BY <3>1, PopFacts
  <2>3. /\ left \in Seq(Replay) /\ left # <<>> /\ Len(left) = m - 1
        /\ \A j \in 1..(m - 1) : left[j] = replays[j]
    <3>1. replays \in Seq(Replay) /\ Len(replays) > 1  BY <1>3, <2>1
    <3> QED  BY <3>1, PopFacts
  <2>4. /\ records' = [rest EXCEPT ![n - 1] = r]
        /\ replays' = left /\ current_tock' = replays[m].tock
    <3>1. records' = [rest EXCEPT ![Len(rest)].todo = Tail(@),
                                  ![Len(rest)].held = @ \cup {node}]
      BY <1>13 DEF EndReplay
    <3>2. Len(rest) \in DOMAIN rest  BY <2>2
    <3>3. replays' = left /\ current_tock' = replays[m].tock
      BY <1>3, <1>13 DEF EndReplay
    <3> HIDE DEF rest, node, left, n
    <3> QED  BY <2>2, <3>1, <3>2, <3>3 DEF r
  <2>5. r.kind = records[n - 1].kind /\ r.t = records[n - 1].t /\ r.ez = records[n - 1].ez
    <3>1. n - 1 \in 1..(n - 1) /\ n - 1 \in 1..n
      <4>1. n \in Nat  BY <1>3
      <4> HIDE DEF n
      <4> QED  BY <2>1, <4>1
    <3>2. rest[n - 1] = records[n - 1]
      <4> HIDE DEF rest, n
      <4> QED  BY <2>2, <3>1
    <3>3. records[n - 1] \in Record
      <4>1. records \in Seq(Record) /\ n - 1 \in 1..Len(records)  BY <1>3, <3>1
      <4> HIDE DEF n
      <4> QED  BY <4>1
    <3> HIDE DEF rest, node, n
    <3> QED  BY <3>2, <3>3 DEF r, Record
  <2> HIDE DEF r, rest, left, node
  <2>6. /\ Len(records') = n - 1
        /\ records'[n - 1] = r
        /\ \A i \in 1..(n - 2) : records'[i] = records[i]
    <3> HIDE DEF n, m
    <3>1. n - 1 \in DOMAIN rest  BY <1>3, <2>1, <2>2
    <3>2. Len(records') = n - 1 /\ records'[n - 1] = r  BY <2>2, <2>4, <3>1
    <3>3. ASSUME NEW i \in 1..(n - 2)  PROVE records'[i] = records[i]
      <4>1. i \in 1..(n - 1) /\ i # n - 1  BY <1>3, <3>3
      <4>2. rest[i] = records[i]  BY <2>2, <4>1
      <4>3. i \in DOMAIN rest  BY <2>2, <4>1
      <4> QED  BY <2>4, <4>1, <4>2, <4>3
    <3> QED  BY <3>2, <3>3
  <2>7. /\ Len(replays') = m - 1
        /\ \A j \in 1..(m - 1) : replays'[j] = replays[j]
    BY <2>3, <2>4
  <2>8. DOMAIN records' = 1..(n - 1) /\ DOMAIN replays' = 1..(m - 1)
    BY <2>6, <2>7 DEF TypeOK
  <2>9. \A i \in 1..n : Depth(i)' = m - n + i /\ Depth(i) = m - n + i
    <3>1. Len(records') = n - 1 /\ Len(replays') = m - 1  BY <2>6, <2>7
    <3>2. \A i \in 1..n : Depth(i) = m - n + i  BY DEF Depth
    <3>3. \A i \in 1..n : Depth(i)' = (m - 1) - (n - 1) + i  BY <3>1 DEF Depth
    <3> HIDE DEF n, m
    <3> QED  BY <1>3, <3>2, <3>3
  <2>10. \A i \in 1..n : i # n => ClockOf(i) = replays[m - n + i + 1].tock
    BY <2>9 DEF ClockOf
  <2>11. \A i \in 1..(n - 1) : ClockOf(i)' =
           IF i = n - 1 THEN replays[m].tock ELSE replays'[Depth(i)' + 1].tock
    BY <2>4, <2>6 DEF ClockOf
  <2>12. (RootSuspended <=> n > m) /\ (RootSuspended' <=> n > m)
    <3>1. RootSuspended <=> n > m  BY DEF RootSuspended
    <3>2. RootSuspended' <=> n - 1 > m - 1  BY <2>6, <2>7 DEF RootSuspended
    <3> HIDE DEF n, m
    <3> QED  BY <1>3, <3>1, <3>2
  <2> HIDE DEF n, m
  <2>13. \A i \in 1..(n - 1) :
           /\ records'[i].kind = records[i].kind
           /\ records'[i].t = records[i].t
           /\ records'[i].ez = records[i].ez
    <3> SUFFICES ASSUME NEW i \in 1..(n - 1)
                 PROVE  /\ records'[i].kind = records[i].kind
                        /\ records'[i].t = records[i].t
                        /\ records'[i].ez = records[i].ez
      OBVIOUS
    <3>1. CASE i = n - 1  BY <2>5, <2>6, <3>1
    <3>2. CASE i # n - 1
      <4>1. i \in 1..(n - 2)  BY <1>3, <3>2
      <4> QED  BY <2>6, <4>1
    <3> QED  BY <3>1, <3>2
  <2>14. StackOK'
    <3>1. Len(records') \in {Len(replays'), Len(replays') + 1}
      BY <1>3, <2>6, <2>7
    <3>2. \A i \in DOMAIN records' : (records'[i].kind = "root") <=> (i = 1)
      <4>1. \A i \in 1..(n - 1) : i \in 1..n  BY <1>3
      <4> QED  BY <1>4, <2>8, <2>13, <4>1
    <3>3. ASSUME NEW i \in DOMAIN records', Depth(i)' \in 1..(Len(replays') - 1)
          PROVE  /\ records'[i].todo # <<>>
                 /\ replays'[Depth(i)' + 1].at = Head(records'[i].todo)
      <4>1. i \in 1..(n - 1) /\ i \in 1..n  BY <1>3, <2>8
      <4>2. Depth(i)' = m - n + i /\ Depth(i) = m - n + i  BY <2>9, <4>1
      <4>3. m - n + i \in 1..(m - 2)  BY <1>3, <2>7, <3>3, <4>2
      <4>4. i \in 1..(n - 2)  BY <1>3, <4>1, <4>3
      <4>5. records'[i] = records[i]  BY <2>6, <4>4
      <4>6. Depth(i) \in 1..(m - 1) /\ Depth(i) + 1 \in 1..(m - 1)
        BY <1>3, <4>2, <4>3
      <4>7. replays'[Depth(i) + 1] = replays[Depth(i) + 1]  BY <2>7, <4>6
      <4>8. /\ records[i].todo # <<>>
            /\ replays[Depth(i) + 1].at = Head(records[i].todo)
        BY <1>6, <4>1, <4>6
      <4> QED  BY <4>2, <4>5, <4>7, <4>8
    <3>4. RootSuspended' => records'[1].todo = <<>> /\ records'[1].ez = <<>>
      <4> SUFFICES ASSUME n > m  PROVE records'[1].todo = <<>> /\ records'[1].ez = <<>>
        BY <2>12
      <4>1. 1 \in 1..(n - 2)  BY <1>3, <2>1
      <4>2. records'[1] = records[1]  BY <2>6, <4>1
      <4> QED  BY <1>8, <4>2
    <3>5. \A j \in DOMAIN replays' : (replays'[j].at = Never) <=> (j = 1)
      <4>1. \A j \in 1..(m - 1) : j \in 1..m  BY <1>3
      <4> QED  BY <1>5, <2>7, <2>8, <4>1
    <3>6. replays'[1].got = Null
      <4>1. 1 \in 1..(m - 1)  BY <1>3, <2>1
      <4> QED  BY <1>7, <2>7, <4>1
    <3> QED  BY <3>1, <3>2, <3>3, <3>4, <3>5, <3>6 DEF StackOK
  <2>15. Dense'
    <3> SUFFICES ASSUME NEW i \in 1..(n - 1), ~(i = 1 /\ n > m)
                 PROVE  ClockOf(i)' = records'[i].t + Len(records'[i].ez) + 1
      BY <2>8, <2>12 DEF Dense
    <3>1. i \in 1..n /\ i # n  BY <1>3
    <3>2. ClockOf(i) = records'[i].t + Len(records'[i].ez) + 1
      BY <1>9, <2>13, <3>1
    <3>3. ClockOf(i) = replays[m - n + i + 1].tock  BY <2>10, <3>1
    <3>4. CASE i = n - 1
      <4>1. m - n + i + 1 = m  BY <1>3, <3>4
      <4>2. ClockOf(i)' = replays[m].tock  BY <2>11, <3>4
      <4> QED  BY <3>2, <3>3, <4>1, <4>2
    <3>5. CASE i # n - 1
      <4>1. ClockOf(i)' = replays'[Depth(i)' + 1].tock  BY <2>11, <3>5
      <4>2. Depth(i)' = m - n + i  BY <2>9, <3>1
      <4>3. m - n + i + 1 \in 1..(m - 1)  BY <1>3, <3>1, <3>5
      <4>4. ClockOf(i)' = replays[m - n + i + 1].tock  BY <2>7, <4>1, <4>2, <4>3
      <4> QED  BY <3>2, <3>3, <4>4
    <3> QED  BY <3>4, <3>5
  <2> QED  BY <2>14, <2>15
<1>14. CASE PopValue
  <2> DEFINE rest == Front(records)
             r == [rest[1] EXCEPT !.t = current_tock]
  <2>1. m = 1 /\ n = 2
    <3>1. ~(m > 1)  BY <1>14 DEF PopValue, Replaying
    <3>2. Top.kind # "root"  BY <1>14 DEF PopValue
    <3>3. n > 1  BY <3>2, RootHeight
    <3> HIDE DEF n, m
    <3> QED  BY <1>3, <3>1, <3>3
  <2>2. rest \in Seq(Record) /\ rest # <<>> /\ Len(rest) = 1 /\ rest[1] = records[1]
    <3>1. records \in Seq(Record) /\ Len(records) > 1  BY <1>3, <2>1
    <3>2. Len(Front(records)) = Len(records) - 1  BY <3>1, PopFacts
    <3>3. 1 \in 1..(Len(records) - 1) /\ Len(records) - 1 = 1  BY <2>1
    <3> QED  BY <3>1, <3>2, <3>3, PopFacts
  <2>3. /\ records' = [rest EXCEPT ![1] = r]
        /\ replays' = replays /\ current_tock' = current_tock + 1
    <3>1. records' = [rest EXCEPT ![Len(rest)].t = current_tock]
      BY <1>14 DEF PopValue
    <3>2. 1 \in DOMAIN rest /\ Len(rest) = 1  BY <2>2
    <3>3. replays' = replays /\ current_tock' = current_tock + 1
      BY <1>14 DEF PopValue
    <3> HIDE DEF rest
    <3> QED  BY <3>1, <3>2, <3>3 DEF r
  <2>4. r.kind = records[1].kind /\ r.t = current_tock
        /\ r.ez = records[1].ez /\ r.todo = records[1].todo
    <3>1. 1 \in 1..n  BY <2>1
    <3>2. rest[1] = records[1]  BY <2>2
    <3>3. records[1] \in Record
      <4>1. records \in Seq(Record) /\ 1 \in 1..Len(records)  BY <1>3, <3>1
      <4> QED  BY <4>1
    <3> HIDE DEF rest
    <3> QED  BY <3>2, <3>3 DEF r, Record
  <2>5. records[1].kind = "root" /\ records[1].todo = <<>> /\ records[1].ez = <<>>
    BY <1>4, <1>8, <2>1
  <2> HIDE DEF rest, r
  <2>6. Len(records') = 1 /\ records'[1] = r
    <3>1. 1 \in DOMAIN rest  BY <2>2
    <3> QED  BY <2>2, <2>3, <3>1
  <2>7. DOMAIN records' = {1} /\ DOMAIN replays' = {1} /\ Len(replays') = 1
    BY <1>3, <2>1, <2>3, <2>6 DEF TypeOK
  <2>8. replays'[1].at = Never /\ replays'[1].got = Null
    BY <1>5, <1>7, <2>1, <2>3
  <2>9. StackOK'
    <3>1. \A i \in DOMAIN records' : (records'[i].kind = "root") <=> (i = 1)
      BY <2>4, <2>5, <2>6, <2>7
    <3>2. Depth(1)' \notin 1..(Len(replays') - 1)  BY <2>7
    <3>3. ~RootSuspended'  BY <2>6, <2>7 DEF RootSuspended
    <3> QED  BY <2>6, <2>7, <2>8, <3>1, <3>2, <3>3 DEF StackOK
  <2>10. Dense'
    <3>1. ClockOf(1)' = current_tock + 1  BY <2>3, <2>6 DEF ClockOf
    <3>2. Len(records'[1].ez) = 0 /\ records'[1].t = current_tock
      BY <2>4, <2>5, <2>6
    <3>3. ClockOf(1)' = records'[1].t + Len(records'[1].ez) + 1
      BY <1>1, <3>1, <3>2
    <3> QED  BY <2>7, <3>3 DEF Dense
  <2> QED  BY <2>9, <2>10
<1> QED  BY <1>10, <1>11, <1>12, <1>13, <1>14 DEF EngineStep

\* What leaves the stacks and the clock alone leaves their order alone.
LEMMA QuietStack ==
  ASSUME StackOK, Dense, UNCHANGED <<records, replays, current_tock>>
  PROVE  StackOK' /\ Dense'
<1>1. StackOK'  BY DEF StackOK, RootSuspended, Depth
<1>2. Dense'  BY DEF Dense, RootSuspended, ClockOf, Depth
<1> QED  BY <1>1, <1>2

\* Types, stacks and slots, as one inductive invariant.
Sound == TypeOK /\ StackOK /\ Dense

\* Every step keeps types, stacks and slots.
LEMMA StepSound ==
  ASSUME Sound, [Next]_vars
  PROVE  Sound'
<1>1. TypeOK /\ StackOK /\ Dense  BY DEF Sound
<1>2. CASE RootStep \/ BodyStep
  BY <1>1, <1>2, ProgramType, ProgramStack DEF Sound
<1>3. CASE EngineStep  BY <1>1, <1>3, EngineType, EngineStack DEF Sound
<1>4. CASE Evict
  <2>1. UNCHANGED <<records, replays, current_tock>>
    BY <1>4 DEF Evict, Murder, EvictIndividual
  <2> QED  BY <1>1, <1>4, <2>1, EvictType, QuietStack DEF Sound
<1>5. CASE UNCHANGED vars
  <2>1. UNCHANGED <<records, replays, current_tock>>  BY <1>5 DEF vars
  <2>2. TypeOK'  BY <1>1, <1>5 DEF TypeOK, vars
  <2> QED  BY <1>1, <2>1, <2>2, QuietStack DEF Sound
<1> QED  BY <1>2, <1>3, <1>4, <1>5 DEF Next, Done

(***************************************************************************)
(* Theorems                                                                *)
(***************************************************************************)

\* The invariant holds in every behaviour.
THEOREM SoundAlways == Spec => []Sound
<1>1. Init => Sound  BY InitType DEF Sound
<1>2. Sound /\ [Next]_vars => Sound'  BY StepSound
<1> QED  BY <1>1, <1>2, PTL DEF Spec

\* Every variable of the engine keeps its type, for every program, unroll
\* budget and order of evictions (trailokya.hpp, context.hpp, record.hpp).
THEOREM TypeCorrect == Spec => []TypeOK
<1>1. Sound => TypeOK  BY DEF Sound
<1> QED  BY <1>1, SoundAlways, PTL

\* Every value a replay finds goes to the record that asked for it, and a
\* root record that has been suspended is resumed empty
\* (EZombie::shared_ptr, ContextNode::replay, RootRecordNode::resumed).
THEOREM StacksMatch == Spec => []StackOK
<1>1. Sound => StackOK  BY DEF Sound
<1> QED  BY <1>1, SoundAlways, PTL

\* The assertion of RecordNode, tock_to_index(created_time, t) == ez.size(),
\* never fails, on records a replay has interrupted either: a zombie
\* recomputed goes into the slot it had the first time.
THEOREM SlotsMatch == Spec => []Dense
<1>1. Sound => Dense  BY DEF Sound
<1> QED  BY <1>1, SoundAlways, PTL
=============================================================================
