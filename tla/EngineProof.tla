----------------------------- MODULE EngineProof -----------------------------
(***************************************************************************)
(* Proofs about what the engine computes, for every program, every unroll  *)
(* budget and every order of evictions: a value made again is the value    *)
(* that was made, every value can be made again, and replays only repeat   *)
(* what the program did.                                                   *)
(***************************************************************************)
EXTENDS ZombieMemo, ZombieProof, FiniteSetTheorems

(***************************************************************************)
(* The program's history                                                   *)
(*                                                                         *)
(* h is what the program did so far.  The clock and the record's beginning *)
(* at any place of it follow from the event before.                        *)
(***************************************************************************)

\* The event ends the record it happens in.
Ends(e) == \/ e.op \in {"bind", "ret"}
           \/ e.op = "tail" /\ e.tock - e.head >= UnrollFactor

\* The clock after the event; a return ticks twice (Finish, PopValue).
NextTock(e) ==
  IF e.op = "ret" THEN e.tock + 2
  ELSE IF e.op = "make" \/ Ends(e) THEN e.tock + 1 ELSE e.tock

\* Where the record begins that goes on after the event.
NextHead(e) ==
  IF e.op = "ret" THEN e.tock + 1 ELSE IF Ends(e) THEN e.tock ELSE e.head

TockAt(h, q) == IF q = 1 THEN 1 ELSE NextTock(h[q - 1])
HeadAt(h, q) == IF q = 1 THEN 0 ELSE NextHead(h[q - 1])

\* The tocks at which zombies were made, and at which records began: the
\* root's, and those of functions.
MadeIn(h)    == {h[p].tock : p \in {q \in DOMAIN h : h[q].op = "make"}}
RootHeads(h) == {0} \cup {h[p].tock + 1 : p \in {q \in DOMAIN h : h[q].op = "ret"}}
BodyHeads(h) == {h[p].tock : p \in {q \in DOMAIN h : Ends(h[q]) /\ h[q].op # "ret"}}

\* Place q lies within a call of bindZombie.
InCall(h, q) ==
  \E b \in 1..(q - 1) :
    /\ h[b].op = "bind"
    /\ \A p \in (b + 1)..(q - 1) : h[p].op \notin {"bind", "ret"}

\* Each event happened where the one before it left off.
HistSteps(h) ==
  \A p \in DOMAIN h : /\ h[p].tock = TockAt(h, p)
                      /\ h[p].head = HeadAt(h, p)
                      /\ h[p].head < h[p].tock

\* Clock and records only go forward.
HistOrder(h) ==
  \A p \in DOMAIN h : \A q \in (p + 1)..(Len(h) + 1) :
    NextTock(h[p]) =< TockAt(h, q) /\ NextHead(h[p]) =< HeadAt(h, q)

\* Functions take zombies that were made before.
HistInputs(h) ==
  \A p \in DOMAIN h : \A k \in ToSet(h[p].in) :
    \E q \in 1..(p - 1) : h[q].op = "make" /\ h[q].tock = k

\* Outside of calls, the root's record runs.
HistCalls(h) ==
  \A q \in 1..(Len(h) + 1) : InCall(h, q) \/ HeadAt(h, q) \in RootHeads(h)

History(h) == HistSteps(h) /\ HistOrder(h) /\ HistInputs(h) /\ HistCalls(h)

\* What an event does to the clock.
LEMMA EventFacts ==
  ASSUME NEW e \in Event
  PROVE  /\ NextTock(e) \in Nat /\ NextHead(e) \in Nat
         /\ e.tock =< NextTock(e)
         /\ e.op = "make" \/ Ends(e) => e.tock < NextTock(e)
         /\ e.head < e.tock => NextHead(e) < NextTock(e) /\ e.head =< NextHead(e)
         /\ Ends(e) => e.tock =< NextHead(e)
         /\ ~Ends(e) => NextHead(e) = e.head
         /\ e.op \in {"make", "bind", "tail", "ret"}
         /\ e.op = "make" => ~Ends(e)
         /\ e.tock \in Nat /\ e.head \in Nat /\ e.in \in Seq(Nat)
<1>1. /\ e.tock \in Nat /\ e.head \in Nat /\ e.in \in Seq(Nat)
      /\ e.op \in {"make", "bind", "tail", "ret"}
  BY DEF Event
<1>2. CASE e.op = "ret"  BY <1>1, <1>2 DEF NextTock, NextHead, Ends
<1>3. CASE e.op # "ret" /\ Ends(e)  BY <1>1, <1>3 DEF NextTock, NextHead, Ends
<1>4. CASE ~Ends(e)  BY <1>1, <1>4 DEF NextTock, NextHead, Ends
<1> QED  BY <1>2, <1>3, <1>4

\* Places in a history.
LEMMA PlaceFacts ==
  ASSUME NEW h \in Seq(Event)
  PROVE  /\ Len(h) \in Nat /\ DOMAIN h = 1..Len(h)
         /\ \A p \in 1..Len(h) : h[p] \in Event
         /\ \A q \in 1..(Len(h) + 1) : TockAt(h, q) \in Nat /\ HeadAt(h, q) \in Nat
         /\ HistSteps(h) => \A q \in 1..(Len(h) + 1) : HeadAt(h, q) < TockAt(h, q)
<1>1. Len(h) \in Nat /\ DOMAIN h = 1..Len(h)  BY LenProperties
<1>2. \A p \in 1..Len(h) : h[p] \in Event  BY ElementOfSeq
<1>3. ASSUME NEW q \in 1..(Len(h) + 1)
      PROVE  /\ TockAt(h, q) \in Nat /\ HeadAt(h, q) \in Nat
             /\ HistSteps(h) => HeadAt(h, q) < TockAt(h, q)
  <2>1. CASE q = 1  BY <2>1 DEF TockAt, HeadAt
  <2>2. CASE q # 1
    <3>1. q - 1 \in 1..Len(h)  BY <1>1, <2>2
    <3>2. h[q - 1] \in Event  BY <1>2, <3>1
    <3>3. HistSteps(h) => h[q - 1].head < h[q - 1].tock
      BY <1>1, <3>1 DEF HistSteps
    <3> QED  BY <2>2, <3>2, <3>3, EventFacts DEF TockAt, HeadAt
  <2> QED  BY <2>1, <2>2
<1> QED  BY <1>1, <1>2, <1>3

\* Two events, in order.
LEMMA TwoEvents ==
  ASSUME NEW h \in Seq(Event), History(h),
         NEW p \in 1..Len(h), NEW q \in 1..Len(h), p < q
  PROVE  /\ h[p].tock =< h[q].tock /\ h[p].head =< h[q].head
         /\ NextTock(h[p]) =< h[q].tock /\ NextHead(h[p]) =< h[q].head
         /\ h[p].op = "make" \/ Ends(h[p]) => h[p].tock < h[q].tock
         /\ Ends(h[p]) => h[p].tock =< h[q].head
<1>1. h[p] \in Event /\ h[q] \in Event /\ p \in DOMAIN h /\ q \in DOMAIN h
      /\ Len(h) \in Nat
  BY PlaceFacts
<1>2. q \in (p + 1)..(Len(h) + 1)  BY <1>1
<1>3. NextTock(h[p]) =< h[q].tock /\ NextHead(h[p]) =< h[q].head
  BY <1>1, <1>2 DEF History, HistOrder, HistSteps
<1>4. h[p].head < h[p].tock  BY <1>1 DEF History, HistSteps
<1>5. /\ h[p].tock \in Nat /\ h[q].tock \in Nat /\ h[p].head \in Nat
      /\ h[q].head \in Nat /\ NextTock(h[p]) \in Nat /\ NextHead(h[p]) \in Nat
      /\ h[p].tock =< NextTock(h[p]) /\ h[p].head =< NextHead(h[p])
      /\ h[p].op = "make" \/ Ends(h[p]) => h[p].tock < NextTock(h[p])
      /\ Ends(h[p]) => h[p].tock =< NextHead(h[p])
  BY <1>1, <1>4, EventFacts
<1> QED  BY <1>3, <1>5

\* No two zombies are made at one tock.
LEMMA MadeOnce ==
  ASSUME NEW h \in Seq(Event), History(h),
         NEW p \in 1..Len(h), NEW q \in 1..Len(h),
         h[p].op = "make", h[q].op = "make", h[p].tock = h[q].tock
  PROVE  p = q
<1>1. h[p].tock \in Nat /\ h[q].tock \in Nat /\ p \in Int /\ q \in Int
  BY PlaceFacts, EventFacts
<1>2. CASE p < q
  <2>1. h[p].tock < h[q].tock  BY <1>2, TwoEvents
  <2> QED  BY <1>1, <2>1
<1>3. CASE q < p
  <2>1. h[q].tock < h[p].tock  BY <1>3, TwoEvents
  <2> QED  BY <1>1, <2>1
<1> QED  BY <1>1, <1>2, <1>3

\* No record ends twice.
LEMMA EndsOnce ==
  ASSUME NEW h \in Seq(Event), History(h),
         NEW p \in 1..Len(h), NEW q \in 1..Len(h),
         Ends(h[p]), Ends(h[q]), h[p].head = h[q].head
  PROVE  p = q
<1>1. /\ h[p].tock \in Nat /\ h[q].tock \in Nat /\ p \in Int /\ q \in Int
      /\ h[p].head \in Nat /\ h[q].head \in Nat
  BY PlaceFacts, EventFacts
<1>2. h[p].head < h[p].tock /\ h[q].head < h[q].tock
  BY PlaceFacts DEF History, HistSteps
<1>3. CASE p < q
  <2>1. h[p].tock =< h[q].head  BY <1>3, TwoEvents
  <2> QED  BY <1>1, <1>2, <2>1
<1>4. CASE q < p
  <2>1. h[q].tock =< h[p].head  BY <1>4, TwoEvents
  <2> QED  BY <1>1, <1>2, <2>1
<1> QED  BY <1>1, <1>3, <1>4

\* Zombies, the root's records and functions' records begin at different tocks.
LEMMA TocksApart ==
  ASSUME NEW h \in Seq(Event), History(h)
  PROVE  /\ RootHeads(h) \cap BodyHeads(h) = {}
         /\ MadeIn(h) \cap (RootHeads(h) \cup BodyHeads(h)) = {}
         /\ MadeIn(h) \cup RootHeads(h) \cup BodyHeads(h) \subseteq Nat
<1>1. /\ DOMAIN h = 1..Len(h)
      /\ \A p \in 1..Len(h) : h[p] \in Event /\ h[p].tock \in Nat /\ h[p].head \in Nat
  BY PlaceFacts, EventFacts
<1>2. MadeIn(h) \cup RootHeads(h) \cup BodyHeads(h) \subseteq Nat
  BY <1>1 DEF MadeIn, RootHeads, BodyHeads
<1>3. \A p \in 1..Len(h) : h[p].tock # 0
  BY <1>1 DEF History, HistSteps
<1>4. ASSUME NEW p \in 1..Len(h), NEW q \in 1..Len(h), h[p].op = "ret",
             h[q].op = "make" \/ Ends(h[q]), h[q].tock = h[p].tock + 1
      PROVE  FALSE
  <2>1. p \in Int /\ q \in Int /\ h[p].tock \in Nat /\ h[q].tock \in Nat  BY <1>1
  <2>2. CASE p < q
    <3>1. NextTock(h[p]) =< h[q].tock  BY <2>2, TwoEvents
    <3>2. NextTock(h[p]) = h[p].tock + 2  BY <1>4 DEF NextTock
    <3> QED  BY <1>4, <2>1, <3>1, <3>2
  <2>3. CASE q < p
    <3>1. h[q].tock < h[p].tock  BY <1>4, <2>3, TwoEvents
    <3> QED  BY <1>4, <2>1, <3>1
  <2>4. CASE p = q  BY <1>4, <2>1, <2>4
  <2> QED  BY <2>1, <2>2, <2>3, <2>4
<1>5. ASSUME NEW p \in 1..Len(h), NEW q \in 1..Len(h), Ends(h[p]),
             h[q].op = "make", h[q].tock = h[p].tock
      PROVE  FALSE
  <2>1. p \in Int /\ q \in Int /\ h[p].tock \in Nat /\ h[q].tock \in Nat  BY <1>1
  <2>2. CASE p < q
    <3>1. h[p].tock < h[q].tock  BY <1>5, <2>2, TwoEvents
    <3> QED  BY <1>5, <2>1, <3>1
  <2>3. CASE q < p
    <3>1. h[q].tock < h[p].tock  BY <1>5, <2>3, TwoEvents
    <3> QED  BY <1>5, <2>1, <3>1
  <2>4. CASE p = q
    <3>1. h[q] \in Event  BY <1>1
    <3> QED  BY <1>5, <2>4, <3>1, EventFacts
  <2> QED  BY <2>1, <2>2, <2>3, <2>4
<1>6. RootHeads(h) \cap BodyHeads(h) = {}
  <2> SUFFICES ASSUME NEW t \in RootHeads(h), t \in BodyHeads(h)  PROVE FALSE
    OBVIOUS
  <2>1. PICK q \in 1..Len(h) : Ends(h[q]) /\ t = h[q].tock
    BY <1>1 DEF BodyHeads
  <2>2. t = 0 \/ \E p \in 1..Len(h) : h[p].op = "ret" /\ t = h[p].tock + 1
    BY <1>1 DEF RootHeads
  <2> QED  BY <1>3, <1>4, <2>1, <2>2
<1>7. MadeIn(h) \cap (RootHeads(h) \cup BodyHeads(h)) = {}
  <2> SUFFICES ASSUME NEW t \in MadeIn(h), t \in RootHeads(h) \cup BodyHeads(h)
               PROVE  FALSE
    OBVIOUS
  <2>1. PICK q \in 1..Len(h) : h[q].op = "make" /\ t = h[q].tock
    BY <1>1 DEF MadeIn
  <2>2. \/ t = 0
        \/ \E p \in 1..Len(h) : h[p].op = "ret" /\ t = h[p].tock + 1
        \/ \E p \in 1..Len(h) : Ends(h[p]) /\ t = h[p].tock
    BY <1>1 DEF RootHeads, BodyHeads
  <2> QED  BY <1>3, <1>4, <1>5, <2>1, <2>2
<1> QED  BY <1>2, <1>6, <1>7

(***************************************************************************)
(* The history grows                                                       *)
(***************************************************************************)

\* g goes on where h ends.
Extends(h, g) == /\ Len(h) =< Len(g)
                 /\ \A p \in 1..Len(h) : g[p] = h[p]

\* What was so in a history stays so in a longer one.
LEMMA ExtendsFacts ==
  ASSUME NEW h \in Seq(Event), NEW g \in Seq(Event), Extends(h, g)
  PROVE  /\ \A q \in 1..(Len(h) + 1) : /\ TockAt(g, q) = TockAt(h, q)
                                       /\ HeadAt(g, q) = HeadAt(h, q)
         /\ MadeIn(h) \subseteq MadeIn(g)
         /\ RootHeads(h) \subseteq RootHeads(g)
         /\ BodyHeads(h) \subseteq BodyHeads(g)
<1>1. /\ Len(h) \in Nat /\ Len(g) \in Nat
      /\ DOMAIN h = 1..Len(h) /\ DOMAIN g = 1..Len(g)
  BY PlaceFacts
<1>2. \A p \in DOMAIN h : p \in DOMAIN g /\ g[p] = h[p]
  BY <1>1 DEF Extends
<1>3. ASSUME NEW q \in 1..(Len(h) + 1)
      PROVE  TockAt(g, q) = TockAt(h, q) /\ HeadAt(g, q) = HeadAt(h, q)
  <2>1. CASE q = 1  BY <2>1 DEF TockAt, HeadAt
  <2>2. CASE q # 1
    <3>1. q - 1 \in DOMAIN h  BY <1>1, <2>2
    <3> QED  BY <1>2, <2>2, <3>1 DEF TockAt, HeadAt
  <2> QED  BY <2>1, <2>2
<1>4. MadeIn(h) \subseteq MadeIn(g)  BY <1>2 DEF MadeIn
<1>5. RootHeads(h) \subseteq RootHeads(g)  BY <1>2 DEF RootHeads
<1>6. BodyHeads(h) \subseteq BodyHeads(g)  BY <1>2 DEF BodyHeads
<1> QED  BY <1>3, <1>4, <1>5, <1>6

\* One more event.
LEMMA AppendEvent ==
  ASSUME NEW h \in Seq(Event), NEW e \in Event, NEW g, g = Append(h, e)
  PROVE  /\ g \in Seq(Event) /\ Len(g) = Len(h) + 1
         /\ Extends(h, g) /\ g[Len(h) + 1] = e
         /\ TockAt(g, Len(h) + 2) = NextTock(e)
         /\ HeadAt(g, Len(h) + 2) = NextHead(e)
         /\ e.op = "make" => e.tock \in MadeIn(g)
         /\ e.op = "ret" => e.tock + 1 \in RootHeads(g)
         /\ e.op # "ret" => RootHeads(g) = RootHeads(h)
         /\ Ends(e) /\ e.op # "ret" => e.tock \in BodyHeads(g)
<1>1. Len(h) \in Nat /\ DOMAIN h = 1..Len(h)  BY PlaceFacts
<1>2. /\ g \in Seq(Event) /\ Len(g) = Len(h) + 1 /\ g[Len(h) + 1] = e
      /\ \A p \in 1..Len(h) : g[p] = h[p]
  BY AppendFacts
<1>3. Extends(h, g)  BY <1>1, <1>2 DEF Extends
<1>4. DOMAIN g = 1..(Len(h) + 1)  BY <1>2, PlaceFacts
<1>5. /\ TockAt(g, Len(h) + 2) = NextTock(e)
      /\ HeadAt(g, Len(h) + 2) = NextHead(e)
  <2>1. Len(h) + 2 # 1 /\ Len(h) + 2 - 1 = Len(h) + 1  BY <1>1
  <2> QED  BY <1>2, <2>1 DEF TockAt, HeadAt
<1>6. Len(h) + 1 \in DOMAIN g  BY <1>1, <1>4
<1>7. e.op = "make" => e.tock \in MadeIn(g)  BY <1>2, <1>6 DEF MadeIn
<1>8. e.op = "ret" => e.tock + 1 \in RootHeads(g)  BY <1>2, <1>6 DEF RootHeads
<1>9. Ends(e) /\ e.op # "ret" => e.tock \in BodyHeads(g)
  BY <1>2, <1>6 DEF BodyHeads
<1>10. ASSUME e.op # "ret"  PROVE RootHeads(g) = RootHeads(h)
  <2>1. \A p \in DOMAIN g : g[p].op = "ret" => p \in DOMAIN h /\ g[p] = h[p]
    BY <1>1, <1>2, <1>4, <1>10
  <2>2. \A p \in DOMAIN h : p \in DOMAIN g /\ g[p] = h[p]
    BY <1>1, <1>2, <1>4
  <2> QED  BY <2>1, <2>2 DEF RootHeads
<1> QED  BY <1>2, <1>3, <1>5, <1>7, <1>8, <1>9, <1>10

\* Only a return lets the root begin a new record.
LEMMA AppendRoots ==
  ASSUME NEW h \in Seq(Event), NEW e \in Event, e.op # "ret",
         NEW g, g = Append(h, e)
  PROVE  RootHeads(g) = RootHeads(h)
BY AppendEvent

\* The program goes on: a history with one more event is a history.
LEMMA HistoryAppend ==
  ASSUME NEW h \in Seq(Event), History(h), NEW e \in Event,
         e.tock = TockAt(h, Len(h) + 1), e.head = HeadAt(h, Len(h) + 1),
         \A k \in ToSet(e.in) : k \in MadeIn(h),
         e.op = "tail" => e.head \in BodyHeads(h),
         NEW g, g = Append(h, e)
  PROVE  History(g)
<1> DEFINE n == Len(h)
<1>1. n \in Nat /\ DOMAIN h = 1..n  BY PlaceFacts
<1>2. /\ g \in Seq(Event) /\ Len(g) = n + 1 /\ g[n + 1] = e
      /\ Extends(h, g)
      /\ TockAt(g, n + 2) = NextTock(e) /\ HeadAt(g, n + 2) = NextHead(e)
      /\ e.op = "ret" => e.tock + 1 \in RootHeads(g)
  BY AppendEvent
<1>3. DOMAIN g = 1..(n + 1)  BY <1>2, PlaceFacts
<1>4. /\ \A p \in 1..n : g[p] = h[p]
      /\ \A q \in 1..(n + 1) : TockAt(g, q) = TockAt(h, q) /\ HeadAt(g, q) = HeadAt(h, q)
      /\ RootHeads(h) \subseteq RootHeads(g)
  BY <1>2, ExtendsFacts DEF Extends
<1>5. \A p \in 1..n : h[p] \in Event  BY PlaceFacts
<1>6. \A q \in 1..(n + 1) : TockAt(h, q) \in Nat /\ HeadAt(h, q) \in Nat
  BY PlaceFacts
<1>7. n + 1 \in 1..(n + 1)  BY <1>1
<1>8. e.head < e.tock
  <2>1. \A q \in 1..(n + 1) : HeadAt(h, q) < TockAt(h, q)
    BY PlaceFacts DEF History
  <2> QED  BY <1>7, <2>1
<1>9. /\ NextTock(e) \in Nat /\ NextHead(e) \in Nat
      /\ e.tock =< NextTock(e) /\ e.head =< NextHead(e)
      /\ e.tock \in Nat /\ e.head \in Nat
      /\ e.op \in {"make", "bind", "tail", "ret"}
  BY <1>8, EventFacts
<1>10. HistSteps(h) /\ HistOrder(h) /\ HistInputs(h) /\ HistCalls(h)
  BY DEF History
<1> HIDE DEF n
<1>11. HistSteps(g)
  <2> SUFFICES ASSUME NEW p \in 1..(n + 1)
               PROVE  /\ g[p].tock = TockAt(g, p) /\ g[p].head = HeadAt(g, p)
                      /\ g[p].head < g[p].tock
    BY <1>3 DEF HistSteps
  <2>1. CASE p = n + 1  BY <1>2, <1>4, <1>7, <1>8, <2>1 DEF n
  <2>2. CASE p # n + 1
    <3>1. p \in 1..n  BY <1>1, <2>2
    <3> QED  BY <1>1, <1>4, <1>10, <3>1 DEF HistSteps
  <2> QED  BY <2>1, <2>2
<1>12. HistOrder(g)
  <2> SUFFICES ASSUME NEW p \in 1..(n + 1), NEW q \in (p + 1)..(n + 2)
               PROVE  NextTock(g[p]) =< TockAt(g, q) /\ NextHead(g[p]) =< HeadAt(g, q)
    <3>1. n + 1 + 1 = n + 2  BY <1>1
    <3> QED  BY <1>2, <1>3, <3>1 DEF HistOrder
  <2>1. CASE p = n + 1
    <3>1. q = n + 2  BY <1>1, <2>1
    <3> QED  BY <1>2, <1>9, <2>1, <3>1
  <2>2. CASE p # n + 1 /\ q # n + 2
    <3>1. p \in 1..n /\ q \in (p + 1)..(n + 1) /\ q \in 1..(n + 1)  BY <1>1, <2>2
    <3>2. NextTock(h[p]) =< TockAt(h, q) /\ NextHead(h[p]) =< HeadAt(h, q)
      BY <1>1, <1>10, <3>1 DEF HistOrder, n
    <3> QED  BY <1>4, <3>1, <3>2
  <2>3. CASE p # n + 1 /\ q = n + 2
    <3>1. p \in 1..n /\ n + 1 \in (p + 1)..(n + 1)  BY <1>1, <2>3
    <3>2. NextTock(h[p]) =< e.tock /\ NextHead(h[p]) =< e.head
      BY <1>1, <1>10, <3>1 DEF HistOrder, n
    <3>3. NextTock(h[p]) \in Nat /\ NextHead(h[p]) \in Nat
      BY <1>5, <3>1, EventFacts
    <3>4. NextTock(h[p]) =< NextTock(e) /\ NextHead(h[p]) =< NextHead(e)
      BY <1>9, <3>2, <3>3
    <3> QED  BY <1>2, <1>4, <2>3, <3>1, <3>4
  <2> QED  BY <2>1, <2>2, <2>3
<1>13. HistInputs(g)
  <2> SUFFICES ASSUME NEW p \in 1..(n + 1), NEW k \in ToSet(g[p].in)
               PROVE  \E q \in 1..(p - 1) : g[q].op = "make" /\ g[q].tock = k
    BY <1>3 DEF HistInputs
  <2>1. CASE p = n + 1
    <3>1. k \in MadeIn(h)  BY <1>2, <2>1
    <3>2. PICK q \in 1..n : h[q].op = "make" /\ h[q].tock = k
      BY <1>1, <3>1 DEF MadeIn
    <3>3. q \in 1..(p - 1)  BY <1>1, <2>1
    <3> QED  BY <1>4, <3>2, <3>3
  <2>2. CASE p # n + 1
    <3>1. p \in 1..n  BY <1>1, <2>2
    <3>2. PICK q \in 1..(p - 1) : h[q].op = "make" /\ h[q].tock = k
      BY <1>1, <1>4, <1>10, <3>1 DEF HistInputs
    <3>3. q \in 1..n  BY <1>1, <3>1
    <3> QED  BY <1>4, <3>2, <3>3
  <2> QED  BY <2>1, <2>2
<1>14. \A q \in 1..(n + 1) : InCall(h, q) => InCall(g, q)
  <2> SUFFICES ASSUME NEW q \in 1..(n + 1), InCall(h, q)  PROVE InCall(g, q)
    OBVIOUS
  <2>1. PICK b \in 1..(q - 1) :
          /\ h[b].op = "bind"
          /\ \A p \in (b + 1)..(q - 1) : h[p].op \notin {"bind", "ret"}
    BY DEF InCall
  <2>2. b \in 1..n /\ \A p \in (b + 1)..(q - 1) : p \in 1..n  BY <1>1
  <2> QED  BY <1>4, <2>1, <2>2 DEF InCall
<1>15. HistCalls(g)
  <2> SUFFICES ASSUME NEW q \in 1..(n + 2)
               PROVE  InCall(g, q) \/ HeadAt(g, q) \in RootHeads(g)
    <3>1. n + 1 + 1 = n + 2  BY <1>1
    <3> QED  BY <1>2, <3>1 DEF HistCalls
  <2>1. CASE q # n + 2
    <3>1. q \in 1..(n + 1)  BY <1>1, <2>1
    <3>2. InCall(h, q) \/ HeadAt(h, q) \in RootHeads(h)
      BY <1>10, <3>1 DEF HistCalls, n
    <3> QED  BY <1>4, <1>14, <3>1, <3>2
  <2>2. CASE q = n + 2
    <3>1. q - 1 = n + 1 /\ n + 1 \in 1..(q - 1)  BY <1>1, <2>2
    <3>2. CASE e.op = "bind"
      <4>1. ~ \E p \in ((n + 1) + 1)..(q - 1) : TRUE  BY <1>1, <3>1
      <4> QED  BY <1>2, <3>1, <3>2, <4>1 DEF InCall
    <3>3. CASE e.op = "ret"
      <4>1. HeadAt(g, q) = e.tock + 1  BY <1>2, <2>2, <3>3 DEF NextHead
      <4> QED  BY <1>2, <3>3, <4>1
    <3>4. CASE e.op \notin {"bind", "ret"} /\ InCall(h, n + 1)
      <4>1. PICK b \in 1..n :
              /\ h[b].op = "bind"
              /\ \A p \in (b + 1)..n : h[p].op \notin {"bind", "ret"}
        <5>1. (n + 1) - 1 = n  BY <1>1
        <5> QED  BY <3>4, <5>1 DEF InCall
      <4>2. b \in 1..(q - 1)  BY <1>1, <3>1
      <4>3. ASSUME NEW p \in (b + 1)..(q - 1)
            PROVE  g[p].op \notin {"bind", "ret"}
        <5>1. CASE p = n + 1  BY <1>2, <3>4, <5>1
        <5>2. CASE p # n + 1
          <6>1. p \in (b + 1)..n /\ p \in 1..n  BY <1>1, <3>1, <5>2
          <6> QED  BY <1>4, <4>1, <6>1
        <5> QED  BY <5>1, <5>2
      <4>4. g[b].op = "bind"  BY <1>4, <4>1
      <4> QED  BY <4>2, <4>3, <4>4 DEF InCall
    <3>5. CASE e.op \notin {"bind", "ret"} /\ ~InCall(h, n + 1)
      <4>1. e.head \in RootHeads(h)
        BY <1>7, <1>10, <3>5 DEF HistCalls, n
      <4>2. e.op = "make"
        <5>1. e.op # "tail"  BY <4>1, TocksApart
        <5> QED  BY <1>9, <3>5, <5>1
      <4>3. HeadAt(g, q) = e.head
        BY <1>2, <2>2, <4>2 DEF NextHead, Ends
      <4> QED  BY <1>4, <4>1, <4>3
    <3> QED  BY <3>2, <3>3, <3>4, <3>5
  <2> QED  BY <2>1, <2>2
<1> QED  BY <1>11, <1>12, <1>13, <1>15 DEF History

(***************************************************************************)
(* The invariant                                                           *)
(***************************************************************************)

\* The node is what the program made at its tock.
NodeOK(n, h) == /\ n.val \in DOMAIN h
                /\ h[n.val].op = "make"
                /\ h[n.val].tock = n.tock

\* So are the zombies in the slots that follow tock t.
EzOK(t, ez, h) ==
  \A j \in DOMAIN ez : ez[j] # Null => NodeOK([tock |-> t + j, val |-> ez[j]], h)

Holds(r, h) == EzOK(r.t, r.ez, h) /\ \A n \in r.held : NodeOK(n, h)

\* A function's record is at a place of the history, the last one if no
\* replay runs it (~deep), and the function's inputs are older than it.
HeadOK(r, clock, deep, h) ==
  /\ r.pos \in 2..(Len(h) + 1)
  /\ clock = TockAt(h, r.pos) /\ r.t = HeadAt(h, r.pos) /\ r.t \in BodyHeads(h)
  /\ ~deep => r.pos = Len(h) + 1
  /\ \A k \in ToSet(r.rep.in) : k \in MadeIn(h) /\ k < r.t

\* The record that stands for a returned value, before the root goes on.
ValueOK(r, clock, deep, h) ==
  ~deep => /\ h # <<>> /\ h[Len(h)].op = "ret"
           /\ r.t = h[Len(h)].tock /\ clock = r.t + 1

RootOK(r, clock, h) ==
  /\ clock = TockAt(h, Len(h) + 1) /\ r.t = HeadAt(h, Len(h) + 1)
  /\ r.t \in RootHeads(h)

\* What a record waits for was made before its clock.
TodoOK(r, clock, h) ==
  /\ \A k \in ToSet(r.todo) : k \in MadeIn(h) /\ k < clock
  /\ r.todo # <<>> => r.kind = "root" \/ (r.kind = "head" /\ r.playing)

RecOK(r, clock, deep, h) ==
  /\ r.kind = "head" => HeadOK(r, clock, deep, h)
  /\ r.kind = "value" => ValueOK(r, clock, deep, h)
  /\ r.kind = "root" => RootOK(r, clock, h)
  /\ TodoOK(r, clock, h)
  /\ r.playing => r.kind # "value"
  /\ \A j \in DOMAIN r.ez : r.ez[j] # Null

\* Every record is at its place in the history, except for a root record that
\* waits in its context for a bind to return.
Places ==
  \A i \in DOMAIN records :
    /\ Holds(records[i], log)
    /\ (i = 1 /\ RootSuspended) \/ RecOK(records[i], ClockOf(i), Depth(i) > 1, log)

\* A replay's target was made before the last record began, and as long as it
\* is not met, the record that runs for it is before it in the same call.
AimOK(rp, r, clock, h) ==
  /\ rp.at \in MadeIn(h) /\ rp.at < HeadAt(h, Len(h) + 1)
  /\ r.playing => r.t < rp.at
  /\ rp.got # Null => NodeOK([tock |-> rp.at, val |-> rp.got], h)
  /\ rp.got = Null =>
       /\ r.kind = "head" /\ r.t < rp.at /\ clock =< rp.at
       /\ \A p \in DOMAIN h :
            r.t < h[p].tock /\ h[p].tock < rp.at => h[p].op \notin {"bind", "ret"}

\* The record that runs, or waits, for replay j.
Runner(j) == j + Len(records) - Len(replays)

Aims ==
  \A j \in 2..Len(replays) :
    AimOK(replays[j], records[Runner(j)], ClockOf(Runner(j)), log)

\* A context is a record of the history that ended, and knows what came next.
CtxOK(s, c, h) ==
  /\ \E p \in DOMAIN h :
       /\ Ends(h[p]) /\ h[p].head = s /\ h[p].tock = c.end_t
       /\ c.end_rep = IF h[p].op = "ret" THEN NoRep
                      ELSE [in |-> h[p].in, pos |-> p + 1]
       /\ c.kind = "root" <=> h[p].op = "bind"
  /\ c.end_t = s + Len(c.ez) + 1
  /\ s \in IF c.kind = "root" THEN RootHeads(h) ELSE BodyHeads(h)
  /\ EzOK(s, c.ez, h)

Contexts == \A s \in DOMAIN akasha : CtxOK(s, akasha[s], log)

\* What the root made at place q is in its context, or in the root record.
RootKeeps(q) ==
  LET s == log[q].head
      d == log[q].tock - s
  IN  \/ /\ s \in DOMAIN akasha
         /\ d \in DOMAIN akasha[s].ez /\ akasha[s].ez[d] # Null
      \/ ~RootSuspended /\ s = records[1].t

\* Nothing of the root's is ever evicted.
Kept ==
  /\ \A b \in DOMAIN log : log[b].op = "bind" =>
       log[b].head \in RootHeads(log) \cap DOMAIN akasha
  /\ \A q \in DOMAIN log :
       log[q].op = "make" /\ log[q].head \in RootHeads(log) => RootKeeps(q)

\* The inductive invariant.
EngineInv ==
  Sound /\ History(log) /\ Places /\ Aims /\ TargetsDecrease /\ Contexts /\ Kept

(***************************************************************************)
(* What the invariant says about the record and the replay on top          *)
(***************************************************************************)

\* The record on top runs at the clock's place.
LEMMA TopOK ==
  ASSUME Sound, Places
  PROVE  RecOK(Top, current_tock, Replaying, log) /\ Holds(Top, log)
<1> DEFINE n == Len(records)
<1>1. /\ n \in Nat \ {0} /\ Top = records[n] /\ Len(replays) \in Nat \ {0}
      /\ n \in DOMAIN records
  BY TopFacts DEF Sound, TypeOK
<1>2. ~(n = 1 /\ RootSuspended)  BY <1>1 DEF RootSuspended
<1>3. ClockOf(n) = current_tock  BY DEF ClockOf
<1>4. (Depth(n) > 1) = Replaying  BY <1>1 DEF Depth, Replaying
<1>5. /\ Holds(records[n], log)
      /\ (n = 1 /\ RootSuspended) \/ RecOK(records[n], ClockOf(n), Depth(n) > 1, log)
  <2> HIDE DEF n
  <2> QED  BY <1>1 DEF Places
<1> QED  BY <1>1, <1>2, <1>3, <1>4, <1>5

\* The record on top runs for the replay on top.
LEMMA TargetOK ==
  ASSUME Sound, Aims, Replaying
  PROVE  AimOK(Target, Top, current_tock, log)
<1> DEFINE n == Len(records)
           m == Len(replays)
<1>1. /\ n \in Nat \ {0} /\ Top = records[n] /\ m \in Nat \ {0}
      /\ Target = replays[m]
  BY TopFacts DEF Sound
<1>2. m \in 2..m /\ Runner(m) = n  BY <1>1 DEF Replaying, Runner
<1>3. AimOK(replays[m], records[Runner(m)], ClockOf(Runner(m)), log)
  <2> HIDE DEF m
  <2> QED  BY <1>2 DEF Aims, m
<1>4. ClockOf(n) = current_tock  BY DEF ClockOf
<1> QED  BY <1>1, <1>2, <1>3, <1>4

\* What a history's growth leaves true.
LEMMA NodeGrows ==
  ASSUME NEW h \in Seq(Event), NEW g \in Seq(Event), Extends(h, g)
  PROVE  /\ \A n : NodeOK(n, h) => NodeOK(n, g)
         /\ \A t, ez : EzOK(t, ez, h) => EzOK(t, ez, g)
         /\ \A r : Holds(r, h) => Holds(r, g)
<1>1. /\ Len(h) \in Nat /\ Len(g) \in Nat
      /\ DOMAIN h = 1..Len(h) /\ DOMAIN g = 1..Len(g)
  BY PlaceFacts
<1>2. \A p \in DOMAIN h : p \in DOMAIN g /\ g[p] = h[p]
  BY <1>1 DEF Extends
<1>3. \A n : NodeOK(n, h) => NodeOK(n, g)  BY <1>2 DEF NodeOK
<1>4. \A t, ez : EzOK(t, ez, h) => EzOK(t, ez, g)  BY <1>3 DEF EzOK
<1> QED  BY <1>3, <1>4 DEF Holds

\* What the store says of a context stays true of a longer history.
LEMMA ContextGrows ==
  ASSUME NEW h \in Seq(Event), NEW g \in Seq(Event), Extends(h, g),
         NEW s, NEW c, CtxOK(s, c, h)
  PROVE  CtxOK(s, c, g)
<1>1. /\ Len(h) \in Nat /\ Len(g) \in Nat
      /\ DOMAIN h = 1..Len(h) /\ DOMAIN g = 1..Len(g)
  BY PlaceFacts
<1>2. \A p \in DOMAIN h : p \in DOMAIN g /\ g[p] = h[p]
  BY <1>1 DEF Extends
<1>3. EzOK(s, c.ez, g)  BY NodeGrows DEF CtxOK
<1>4. RootHeads(h) \subseteq RootHeads(g) /\ BodyHeads(h) \subseteq BodyHeads(g)
  BY ExtendsFacts
<1>5. PICK p \in DOMAIN h :
       /\ Ends(h[p]) /\ h[p].head = s /\ h[p].tock = c.end_t
       /\ c.end_rep = IF h[p].op = "ret" THEN NoRep
                      ELSE [in |-> h[p].in, pos |-> p + 1]
       /\ c.kind = "root" <=> h[p].op = "bind"
  BY DEF CtxOK
<1>6. p \in DOMAIN g /\ g[p] = h[p]  BY <1>2
<1>7. \E q \in DOMAIN g :
       /\ Ends(g[q]) /\ g[q].head = s /\ g[q].tock = c.end_t
       /\ c.end_rep = IF g[q].op = "ret" THEN NoRep
                      ELSE [in |-> g[q].in, pos |-> q + 1]
       /\ c.kind = "root" <=> g[q].op = "bind"
  BY <1>5, <1>6
<1> QED  BY <1>3, <1>4, <1>7 DEF CtxOK

(***************************************************************************)
(* What follows from the invariant                                         *)
(***************************************************************************)

\* A replay that has not met its target runs a head below it, and the clock has
\* not passed it.
LEMMA Reach == Sound /\ Aims => ReplayInReach
<1> SUFFICES ASSUME Sound, Aims, Replaying, Target.got = Null
             PROVE  /\ Top.kind = "head" /\ Top.t < Target.at
                    /\ current_tock =< Target.at
  BY DEF ReplayInReach
<1> QED  BY TargetOK DEF AimOK

\* The record that runs for a replay, and its place.
LEMMA RunnerOK ==
  ASSUME Sound, Places, Aims, NEW i \in DOMAIN records, Depth(i) > 1
  PROVE  /\ RecOK(records[i], ClockOf(i), TRUE, log)
         /\ Depth(i) \in 2..Len(replays)
         /\ AimOK(replays[Depth(i)], records[i], ClockOf(i), log)
<1>1. /\ Len(records) \in Nat \ {0} /\ Len(replays) \in Nat \ {0}
      /\ DOMAIN records = 1..Len(records)
  BY TopFacts DEF Sound, TypeOK
<1>2. Depth(i) \in 2..Len(replays) /\ Runner(Depth(i)) = i
  BY <1>1 DEF Depth, Runner
<1>3. ~(i = 1 /\ RootSuspended)  BY <1>1 DEF Depth, RootSuspended
<1>4. RecOK(records[i], ClockOf(i), Depth(i) > 1, log)  BY <1>3 DEF Places
<1>5. (Depth(i) > 1) = TRUE  OBVIOUS
<1>6. AimOK(replays[Depth(i)], records[i], ClockOf(i), log)  BY <1>2 DEF Aims
<1> QED  BY <1>2, <1>4, <1>5, <1>6

\* Every record that plays for a replay stands at an event the history has: a
\* replay only repeats.
LEMMA Repeats == Sound /\ Places /\ Aims => ReplayOnlyRepeats
<1> SUFFICES ASSUME Sound, Places, Aims,
                    NEW i \in DOMAIN records, Depth(i) > 1, records[i].playing
             PROVE  records[i].pos \in DOMAIN log
  BY DEF ReplayOnlyRepeats
<1> DEFINE r == records[i]
           rp == replays[Depth(i)]
<1>1. RecOK(r, ClockOf(i), TRUE, log) /\ AimOK(rp, r, ClockOf(i), log)
  BY RunnerOK
<1>2. log \in Seq(Event)  BY DEF Sound, TypeOK
<1> r.kind = "head"
  <2>1. i # 1
    <3>1. 1 \in DOMAIN records => (Depth(1) > 1 => FALSE)
      BY TopFacts DEF Sound, StackOK, Depth
    <3> QED  BY <3>1
  <2>2. records[i].kind # "root"  BY <2>1 DEF Sound, StackOK
  <2>3. records[i] \in Record  BY DEF Sound, TypeOK
  <2> QED  BY <1>1, <2>2, <2>3 DEF RecOK, Record
<1>3. /\ r.pos \in 2..(Len(log) + 1) /\ r.t = HeadAt(log, r.pos)
      /\ r.t < rp.at /\ rp.at < HeadAt(log, Len(log) + 1)
      /\ rp.at \in MadeIn(log)
  BY <1>1 DEF RecOK, HeadOK, AimOK
<1>4. /\ Len(log) \in Nat /\ DOMAIN log = 1..Len(log)
      /\ HeadAt(log, Len(log) + 1) \in Nat
      /\ \A p \in DOMAIN log : log[p].tock \in Nat
  BY <1>2, PlaceFacts, EventFacts
<1>5. rp.at \in Nat  BY <1>3, <1>4 DEF MadeIn
<1> HIDE DEF r, rp
<1>6. r.pos # Len(log) + 1
  <2> SUFFICES ASSUME r.pos = Len(log) + 1  PROVE FALSE
    OBVIOUS
  <2>1. r.t = HeadAt(log, Len(log) + 1)  BY <1>3
  <2> QED  BY <1>3, <1>4, <1>5, <2>1
<1> QED  BY <1>3, <1>4, <1>6 DEF r

\* Every node anyone holds, in a record, in a context or handed over, is the
\* one the history made at its tock.
LEMMA FaithfulNow ==
  Sound /\ Places /\ Aims /\ Contexts => Faithful
<1> SUFFICES ASSUME Sound, Places, Aims, Contexts, NEW n \in Nodes
             PROVE  NodeOK(n, log)
  BY DEF Faithful, NodeOK
<1>1. ASSUME NEW t, NEW ez, EzOK(t, ez, log), n \in NodesOf(t, ez)
      PROVE  NodeOK(n, log)
  BY <1>1 DEF EzOK, NodesOf
<1>2. CASE n \in StoreNodes
  <2>1. PICK s \in DOMAIN akasha : n \in NodesOf(s, akasha[s].ez)
    BY <1>2 DEF StoreNodes
  <2>2. EzOK(s, akasha[s].ez, log)  BY DEF Contexts, CtxOK
  <2> QED  BY <1>1, <2>1, <2>2
<1>3. CASE n \in RecordNodes
  <2>1. PICK i \in DOMAIN records :
          n \in NodesOf(records[i].t, records[i].ez) \cup records[i].held
    BY <1>3 DEF RecordNodes
  <2>2. Holds(records[i], log)  BY DEF Places
  <2> QED  BY <1>1, <2>1, <2>2 DEF Holds
<1>4. CASE n \in ReplayNodes
  <2>1. PICK j \in DOMAIN replays :
          /\ replays[j].got # Null
          /\ n = [tock |-> replays[j].at, val |-> replays[j].got]
    BY <1>4 DEF ReplayNodes
  <2>2. DOMAIN replays = 1..Len(replays) /\ Len(replays) \in Nat
    BY DEF Sound, TypeOK
  <2>3. j # 1  BY <2>1 DEF Sound, StackOK
  <2>4. j \in 2..Len(replays)  BY <2>2, <2>3
  <2>5. AimOK(replays[j], records[Runner(j)], ClockOf(Runner(j)), log)
    BY <2>4 DEF Aims
  <2> QED  BY <2>1, <2>5 DEF AimOK
<1> QED  BY <1>2, <1>3, <1>4 DEF Nodes

\* An event that ends a record is not one that makes a zombie at the same tock.
LEMMA EndsApart ==
  ASSUME NEW h \in Seq(Event), History(h),
         NEW p \in 1..Len(h), NEW q \in 1..Len(h), Ends(h[p]), h[q].op = "make"
  PROVE  h[p].tock # h[q].tock /\ (p < q <=> h[p].tock < h[q].tock)
<1>1. h[p].tock \in Nat /\ h[q].tock \in Nat /\ p \in Int /\ q \in Int
      /\ h[p] \in Event /\ h[q] \in Event
  BY PlaceFacts, EventFacts
<1>2. p # q
  <2>1. ~Ends(h[q])  BY <1>1, EventFacts
  <2> QED  BY <2>1
<1>3. CASE p < q
  <2>1. h[p].tock < h[q].tock  BY <1>3, TwoEvents
  <2> QED  BY <1>1, <1>3, <2>1
<1>4. CASE q < p
  <2>1. h[q].tock < h[p].tock  BY <1>4, TwoEvents
  <2> QED  BY <1>1, <1>4, <2>1
<1> QED  BY <1>1, <1>2, <1>3, <1>4

\* Records end in the order they begin.
LEMMA EndsInOrder ==
  ASSUME NEW h \in Seq(Event), History(h),
         NEW p \in 1..Len(h), NEW q \in 1..Len(h), Ends(h[p]), Ends(h[q]),
         h[p].head < h[q].head
  PROVE  p < q /\ h[p].tock =< h[q].head
<1>1. /\ h[p].tock \in Nat /\ h[q].tock \in Nat /\ p \in Int /\ q \in Int
      /\ h[p].head \in Nat /\ h[q].head \in Nat
  BY PlaceFacts, EventFacts
<1>2. h[p].head < h[p].tock /\ h[q].head < h[q].tock
  BY PlaceFacts DEF History, HistSteps
<1>3. ~(q < p)
  <2> SUFFICES ASSUME q < p  PROVE FALSE
    OBVIOUS
  <2>1. h[q].head =< h[p].head  BY TwoEvents
  <2> QED  BY <1>1, <2>1
<1>4. p # q  BY <1>1
<1>5. p < q  BY <1>1, <1>3, <1>4
<1>6. h[p].tock =< h[q].head  BY <1>5, TwoEvents
<1> QED  BY <1>5, <1>6

\* A stored context: its type and the event that ended its record.
LEMMA ContextEnd ==
  ASSUME Sound, History(log), Contexts, NEW s \in DOMAIN akasha
  PROVE  /\ s \in Nat /\ akasha[s] \in Context
         /\ akasha[s].end_t \in Nat /\ akasha[s].ez \in Seq(Nat)
         /\ akasha[s].end_t = s + Len(akasha[s].ez) + 1
         /\ \E p \in 1..Len(log) :
              /\ Ends(log[p]) /\ log[p].head = s /\ log[p].tock = akasha[s].end_t
              /\ akasha[s].end_rep = IF log[p].op = "ret" THEN NoRep
                                     ELSE [in |-> log[p].in, pos |-> p + 1]
              /\ akasha[s].kind = "root" <=> log[p].op = "bind"
<1>1. s \in Nat /\ akasha[s] \in Context  BY DEF Sound, TypeOK
<1>2. CtxOK(s, akasha[s], log)  BY DEF Contexts
<1>3. log \in Seq(Event)  BY DEF Sound, TypeOK
<1>4. DOMAIN log = 1..Len(log)  BY <1>3
<1> QED  BY <1>1, <1>2, <1>4 DEF CtxOK, Context

\* The event that ended a stored context's record, alone.
LEMMA ContextEvent ==
  ASSUME Sound, History(log), Contexts, NEW s \in DOMAIN akasha
  PROVE  \E p \in 1..Len(log) :
           /\ Ends(log[p]) /\ log[p].head = s /\ log[p].tock = akasha[s].end_t
           /\ akasha[s].end_rep = IF log[p].op = "ret" THEN NoRep
                                  ELSE [in |-> log[p].in, pos |-> p + 1]
           /\ akasha[s].kind = "root" <=> log[p].op = "bind"
BY ContextEnd

\* A context ends one past its nodes, and before the next context starts.
LEMMA Disjoint == Sound /\ History(log) /\ Contexts => ContextsDisjoint
<1> SUFFICES ASSUME Sound, History(log), Contexts,
                    NEW s \in DOMAIN akasha, NEW u \in DOMAIN akasha
             PROVE  /\ akasha[s].end_t = s + Len(akasha[s].ez) + 1
                    /\ s < u => akasha[s].end_t =< u
  BY DEF ContextsDisjoint
<1>1. akasha[s].end_t = s + Len(akasha[s].ez) + 1  BY ContextEnd
<1>2. ASSUME s < u  PROVE akasha[s].end_t =< u
  <2>1. log \in Seq(Event)  BY DEF Sound, TypeOK
  <2>2. PICK p \in 1..Len(log) :
          Ends(log[p]) /\ log[p].head = s /\ log[p].tock = akasha[s].end_t
    BY ContextEnd
  <2>3. PICK q \in 1..Len(log) : Ends(log[q]) /\ log[q].head = u
    BY ContextEnd
  <2>4. log[p].head < log[q].head  BY <1>2, <2>2, <2>3
  <2>5. log[p].tock =< log[q].head  BY <2>1, <2>2, <2>3, <2>4, EndsInOrder
  <2> QED  BY <2>2, <2>3, <2>5
<1> QED  BY <1>1, <1>2

(***************************************************************************)
(* Finding contexts                                                        *)
(***************************************************************************)

\* There is at most one last context at or before k.
LEMMA LEUnique ==
  ASSUME TypeOK, NEW k \in Int, NEW s \in DOMAIN akasha, IsLE(s, k)
  PROVE  HasLE(k) /\ FindLE(k) = s
<1>1. HasLE(k)  BY DEF HasLE
<1>2. FindLE(k) \in DOMAIN akasha /\ IsLE(FindLE(k), k)  BY <1>1 DEF HasLE, FindLE
<1>3. \A u \in DOMAIN akasha : u \in Nat  BY DEF TypeOK
<1>4. FindLE(k) =< s /\ s =< FindLE(k)  BY <1>2 DEF IsLE
<1>5. FindLE(k) \in Nat /\ s \in Nat  BY <1>2, <1>3
<1> QED  BY <1>1, <1>4, <1>5

\* If there is a context at or before k, there is a last one.
LEMMA LEExists ==
  ASSUME TypeOK, NEW k \in Int, NEW s \in DOMAIN akasha, s =< k
  PROVE  /\ HasLE(k) /\ FindLE(k) \in DOMAIN akasha
         /\ IsLE(FindLE(k), k) /\ s =< FindLE(k)
<1> DEFINE T == {d \in Nat : k - d \in DOMAIN akasha}
<1>1. \A u \in DOMAIN akasha : u \in Nat  BY DEF TypeOK
<1>2. k - s \in T
  <2>1. s \in Nat /\ k - s \in Nat /\ k - (k - s) = s  BY <1>1
  <2> QED  BY <2>1
<1>3. PICK d \in T : \A e \in T : d =< e  BY <1>2, LeastElement
<1>4. d \in Nat /\ k - d \in DOMAIN akasha  BY <1>3
<1>5. ASSUME NEW u \in DOMAIN akasha, u =< k  PROVE u =< k - d
  <2>1. u \in Nat /\ k - u \in Nat /\ k - (k - u) = u  BY <1>1, <1>5
  <2>2. k - u \in T  BY <2>1
  <2>3. d =< k - u  BY <1>3, <2>2
  <2> QED  BY <1>4, <2>1, <2>3
<1>6. IsLE(k - d, k)
  <2>1. k - d =< k  BY <1>4
  <2> QED  BY <1>4, <1>5, <2>1 DEF IsLE
<1>7. HasLE(k) /\ FindLE(k) = k - d  BY <1>4, <1>6, LEUnique
<1> QED  BY <1>4, <1>5, <1>6, <1>7

(***************************************************************************)
(* Every value can be made again                                           *)
(***************************************************************************)

\* The third way of Recoverable: there is a context to run from.
FromBase(k) ==
  /\ HasBase(k)
  /\ akasha[Base(k)].end_rep # NoRep
  /\ akasha[Base(k)].end_t < k
  /\ \A p \in DOMAIN log :
       akasha[Base(k)].end_t < log[p].tock /\ log[p].tock < k =>
         log[p].op \notin {"bind", "ret"}

\* A context that starts in the call a zombie was made in and ends before the
\* zombie is one to run from.
LEMMA InSameCall ==
  ASSUME Sound, History(log), Contexts,
         NEW q \in 1..Len(log), log[q].op = "make",
         NEW b \in 1..(q - 1), log[b].op = "bind",
         \A p \in (b + 1)..(q - 1) : log[p].op \notin {"bind", "ret"},
         NEW s \in DOMAIN akasha, log[b].head =< s, akasha[s].end_t < log[q].tock
  PROVE  /\ akasha[s].end_rep # NoRep
         /\ \A p \in DOMAIN log :
              akasha[s].end_t < log[p].tock /\ log[p].tock < log[q].tock =>
                log[p].op \notin {"bind", "ret"}
<1>1. /\ log \in Seq(Event) /\ Len(log) \in Nat /\ DOMAIN log = 1..Len(log)
      /\ \A p \in 1..Len(log) : log[p] \in Event
  BY PlaceFacts DEF Sound, TypeOK
<1>2. \A p \in 1..Len(log) : log[p].tock \in Nat /\ log[p].head \in Nat
  BY <1>1, EventFacts
<1>3. \A p \in 1..Len(log) : log[p].head < log[p].tock
  BY <1>1 DEF History, HistSteps
<1>4. b \in 1..Len(log) /\ b \in Int /\ q \in Int  BY <1>1
<1>5. PICK e \in 1..Len(log) :
        /\ Ends(log[e]) /\ log[e].head = s /\ log[e].tock = akasha[s].end_t
        /\ akasha[s].end_rep = IF log[e].op = "ret" THEN NoRep
                               ELSE [in |-> log[e].in, pos |-> e + 1]
  BY ContextEnd
<1>6. e \in Int /\ s \in Nat /\ akasha[s].end_t \in Nat  BY <1>5, ContextEnd
<1>7. e < q
  <2>1. log[e].tock < log[q].tock  BY <1>5
  <2> QED  BY <1>1, <1>5, <2>1, EndsApart
<1>8. ~(e < b)
  <2> SUFFICES ASSUME e < b  PROVE FALSE
    OBVIOUS
  <2>1. log[e].tock =< log[b].head  BY <1>1, <1>4, <1>5, TwoEvents
  <2>2. log[e].head < log[e].tock  BY <1>3
  <2> QED  BY <1>2, <1>4, <1>5, <1>6, <2>1, <2>2
<1>9. log[e].op # "ret"
  <2>1. CASE e = b  BY <2>1
  <2>2. CASE e # b
    <3>1. e \in (b + 1)..(q - 1)  BY <1>4, <1>6, <1>7, <1>8, <2>2
    <3> QED  BY <3>1
  <2> QED  BY <2>1, <2>2
<1>10. akasha[s].end_rep # NoRep
  <2>1. akasha[s].end_rep = [in |-> log[e].in, pos |-> e + 1]  BY <1>5, <1>9
  <2>2. akasha[s].end_rep.pos = e + 1  BY <2>1
  <2>3. e + 1 # 0  BY <1>5
  <2>4. NoRep.pos = 0  BY DEF NoRep
  <2> QED  BY <2>2, <2>3, <2>4
<1>11. ASSUME NEW p \in DOMAIN log,
              akasha[s].end_t < log[p].tock, log[p].tock < log[q].tock
       PROVE  log[p].op \notin {"bind", "ret"}
  <2>1. p \in 1..Len(log) /\ p \in Int  BY <1>1
  <2>2. e < p
    <3> SUFFICES ASSUME p < e \/ p = e  PROVE FALSE
      BY <1>6, <2>1
    <3>1. CASE p < e
      <4>1. log[p].tock =< log[e].tock  BY <1>1, <1>5, <2>1, <3>1, TwoEvents
      <4> QED  BY <1>2, <1>5, <1>11, <2>1, <4>1
    <3>2. CASE p = e  BY <1>2, <1>5, <1>11, <2>1, <3>2
    <3> QED  BY <3>1, <3>2
  <2>3. p < q
    <3> SUFFICES ASSUME q < p \/ p = q  PROVE FALSE
      BY <1>4, <2>1
    <3>1. CASE q < p
      <4>1. log[q].tock =< log[p].tock  BY <1>1, <2>1, <3>1, TwoEvents
      <4> QED  BY <1>2, <1>11, <2>1, <4>1
    <3>2. CASE p = q  BY <1>2, <1>11, <2>1, <3>2
    <3> QED  BY <3>1, <3>2
  <2>4. p \in (b + 1)..(q - 1)  BY <1>4, <1>6, <1>8, <2>1, <2>2, <2>3
  <2> QED  BY <2>4
<1> QED  BY <1>10, <1>11

\* A zombie a function made is stored, or there is a context to run from.
LEMMA CallRecoverable ==
  ASSUME Sound, History(log), Contexts, Kept,
         NEW q \in 1..Len(log), log[q].op = "make", InCall(log, q)
  PROVE  Stored(log[q].tock) \/ FromBase(log[q].tock)
<1> DEFINE k == log[q].tock
<1>1. /\ log \in Seq(Event) /\ Len(log) \in Nat /\ DOMAIN log = 1..Len(log)
      /\ \A p \in 1..Len(log) : log[p] \in Event
  BY PlaceFacts DEF Sound, TypeOK
<1>2. \A p \in 1..Len(log) : log[p].tock \in Nat /\ log[p].head \in Nat
  BY <1>1, EventFacts
<1>3. \A p \in 1..Len(log) : log[p].head < log[p].tock
  BY <1>1 DEF History, HistSteps
<1>4. PICK b \in 1..(q - 1) :
        /\ log[b].op = "bind"
        /\ \A p \in (b + 1)..(q - 1) : log[p].op \notin {"bind", "ret"}
  BY DEF InCall
<1>5. b \in 1..Len(log) /\ b < q /\ q \in Int /\ b \in Int  BY <1>1
<1> DEFINE R == log[b].head
<1>6. R \in DOMAIN akasha /\ R \in Nat  BY <1>1, <1>2, <1>4, <1>5 DEF Kept
<1>7. Ends(log[b])  BY <1>4 DEF Ends
<1>8. R < k /\ k \in Nat
  <2>1. log[b].tock < log[q].tock  BY <1>1, <1>5, <1>7, TwoEvents
  <2>2. R < log[b].tock  BY <1>3, <1>5
  <2> QED  BY <1>2, <1>5, <2>1, <2>2
<1>9. TypeOK /\ ContextsDisjoint  BY Disjoint DEF Sound
<1> DEFINE f == FindLE(k)
<1> HIDE DEF R
<1>10. HasLE(k) /\ f \in DOMAIN akasha /\ IsLE(f, k) /\ R =< f
  <2> HIDE DEF k
  <2>1. R =< k /\ k \in Int  BY <1>6, <1>8
  <2> QED  BY <1>6, <1>9, <2>1, LEExists
<1>11. /\ f \in Nat /\ akasha[f].end_t \in Nat /\ akasha[f].ez \in Seq(Nat)
       /\ akasha[f].end_t = f + Len(akasha[f].ez) + 1
  <2> HIDE DEF f
  <2> QED  BY <1>10, ContextEnd
<1>12. PICK e \in 1..Len(log) :
         Ends(log[e]) /\ log[e].head = f /\ log[e].tock = akasha[f].end_t
  <2> HIDE DEF f
  <2> QED  BY <1>10, ContextEnd
<1>13. CASE akasha[f].end_t < k
  <2>1. HasBase(k) /\ Base(k) = f  BY <1>10, <1>13 DEF HasBase, Base
  <2>2. /\ akasha[f].end_rep # NoRep
        /\ \A p \in DOMAIN log :
             akasha[f].end_t < log[p].tock /\ log[p].tock < k =>
               log[p].op \notin {"bind", "ret"}
    <3> HIDE DEF f
    <3> QED  BY <1>4, <1>10, <1>13, InSameCall DEF R
  <2> QED  BY <1>13, <2>1, <2>2 DEF FromBase
<1>14. CASE ~(akasha[f].end_t < k)
  <2>1. f # R
    <3> SUFFICES ASSUME f = R  PROVE FALSE
      OBVIOUS
    <3>1. log[e].head = log[b].head  BY <1>12 DEF R
    <3>2. e = b
      <4> HIDE DEF f
      <4> QED  BY <1>1, <1>5, <1>7, <1>12, <3>1, EndsOnce
    <3>3. log[b].tock < k  BY <1>1, <1>5, <1>7, TwoEvents
    <3>4. akasha[f].end_t < k  BY <1>12, <3>2, <3>3
    <3> QED  BY <1>14, <3>4
  <2>2. log[e].tock # k  BY <1>1, <1>12, EndsApart
  <2>3. k < akasha[f].end_t  BY <1>2, <1>8, <1>11, <1>12, <1>14, <2>2
  <2>4. f # k
    <3>1. f \in RootHeads(log) \cup BodyHeads(log)
      BY <1>10 DEF Contexts, CtxOK
    <3>2. k \in MadeIn(log)  BY <1>1 DEF MadeIn
    <3> QED  BY <1>1, <3>1, <3>2, TocksApart
  <2>5. f < k  BY <1>8, <1>10, <1>11, <2>4 DEF IsLE
  <2>6. k - f \in DOMAIN akasha[f].ez
    <3> HIDE DEF k, f
    <3>1. k - f \in 1..Len(akasha[f].ez)  BY <1>8, <1>11, <2>3, <2>5
    <3> QED  BY <1>11, <3>1
  <2>7. CASE akasha[f].ez[k - f] # Null
    BY <1>10, <2>6, <2>7 DEF Stored
  <2>8. CASE akasha[f].ez[k - f] = Null
    <3> DEFINE u == FindLE(f - 1)
    <3> HIDE DEF k, f
    <3>1. R =< f - 1 /\ f - 1 \in Int  BY <1>6, <1>10, <1>11, <2>1
    <3>2. u \in DOMAIN akasha /\ IsLE(u, f - 1) /\ R =< u
      BY <1>6, <1>9, <3>1, LEExists
    <3>3. HasBase(k) /\ Base(k) = u
      BY <1>10, <1>14, <3>2 DEF HasBase, HasParent, Base, Parent, f
    <3> HIDE DEF u
    <3>4. u \in Nat /\ akasha[u].end_t \in Nat  BY <3>2, ContextEnd
    <3>5. u < f  BY <1>11, <3>2, <3>4 DEF IsLE
    <3>6. akasha[u].end_t =< f  BY <1>9, <1>10, <3>2, <3>5 DEF ContextsDisjoint
    <3>7. akasha[u].end_t < k  BY <1>8, <1>11, <2>5, <3>4, <3>6
    <3>8. /\ akasha[u].end_rep # NoRep
          /\ \A p \in DOMAIN log :
               akasha[u].end_t < log[p].tock /\ log[p].tock < k =>
                 log[p].op \notin {"bind", "ret"}
      BY <1>4, <3>2, <3>7, InSameCall DEF R, k
    <3>9. FromBase(k)  BY <3>3, <3>7, <3>8 DEF FromBase
    <3> QED  BY <3>9 DEF k
  <2> QED  BY <2>7, <2>8
<1> QED  BY <1>13, <1>14

\* A zombie the root made is stored, or in the root record.
LEMMA RootRecoverable ==
  ASSUME Sound, History(log), Contexts, Kept, Places,
         NEW q \in 1..Len(log), log[q].op = "make", log[q].head \in RootHeads(log)
  PROVE  \/ Stored(log[q].tock)
         \/ /\ ~RootSuspended /\ records[1].t = log[q].head
            /\ log[q].tock - records[1].t \in DOMAIN records[1].ez
<1> DEFINE k == log[q].tock
           s == log[q].head
<1>1. /\ log \in Seq(Event) /\ Len(log) \in Nat /\ DOMAIN log = 1..Len(log)
      /\ k \in Nat /\ s \in Nat /\ log[q] \in Event
  BY PlaceFacts, EventFacts DEF Sound, TypeOK
<1>2. s < k  BY <1>1 DEF History, HistSteps
<1>3. RootKeeps(q)  BY <1>1 DEF Kept
<1>4. TypeOK /\ ContextsDisjoint  BY Disjoint DEF Sound
<1>5. CASE /\ s \in DOMAIN akasha
           /\ k - s \in DOMAIN akasha[s].ez /\ akasha[s].ez[k - s] # Null
  <2> HIDE DEF k, s
  <2>1. akasha[s].ez \in Seq(Nat) /\ akasha[s].end_t = s + Len(akasha[s].ez) + 1
    BY <1>5, ContextEnd
  <2>2. k - s =< Len(akasha[s].ez)  BY <1>5, <2>1
  <2>3. k < akasha[s].end_t  BY <1>1, <2>1, <2>2
  <2>4. ASSUME NEW u \in DOMAIN akasha, u =< k  PROVE u =< s
    <3>1. u \in Nat  BY ContextEnd
    <3>2. s < u => akasha[s].end_t =< u  BY <1>4, <1>5 DEF ContextsDisjoint
    <3>3. akasha[s].end_t \in Nat  BY <1>5, ContextEnd
    <3> QED  BY <1>1, <2>3, <2>4, <3>1, <3>2, <3>3
  <2>5. IsLE(s, k)  BY <1>1, <1>2, <1>5, <2>4 DEF IsLE
  <2>6. HasLE(k) /\ FindLE(k) = s  BY <1>1, <1>4, <1>5, <2>5, LEUnique
  <2>7. Stored(k)  BY <1>5, <2>6 DEF Stored
  <2> QED  BY <2>7 DEF k
<1>6. CASE ~RootSuspended /\ s = records[1].t
  <2>1. 1 \in DOMAIN records /\ Len(records) \in Nat \ {0} /\ Len(replays) \in Nat \ {0}
    BY TopFacts DEF Sound, TypeOK
  <2>2. records[1].kind = "root" /\ records[1].ez \in Seq(Nat)
    <3>1. records[1] \in Record  BY <2>1 DEF Sound, TypeOK
    <3>2. records[1].kind = "root"  BY <2>1 DEF Sound, StackOK
    <3> QED  BY <3>1, <3>2 DEF Record
  <2>3. RecOK(records[1], ClockOf(1), Depth(1) > 1, log)  BY <1>6, <2>1 DEF Places
  <2>4. ClockOf(1) = TockAt(log, Len(log) + 1)  BY <2>2, <2>3 DEF RecOK, RootOK
  <2>5. ClockOf(1) = s + Len(records[1].ez) + 1
    BY <1>6, <2>1 DEF Sound, Dense
  <2>6. NextTock(log[q]) =< TockAt(log, Len(log) + 1) /\ k < NextTock(log[q])
    <3>1. Len(log) + 1 \in (q + 1)..(Len(log) + 1)  BY <1>1
    <3>2. NextTock(log[q]) =< TockAt(log, Len(log) + 1)
      BY <1>1, <3>1 DEF History, HistOrder
    <3> QED  BY <1>1, <3>2, EventFacts
  <2>7. NextTock(log[q]) \in Nat  BY <1>1, EventFacts
  <2> HIDE DEF k, s
  <2>8. k - s \in 1..Len(records[1].ez)
    BY <1>1, <1>2, <2>2, <2>4, <2>5, <2>6, <2>7
  <2>9. k - s \in DOMAIN records[1].ez  BY <2>2, <2>8
  <2> QED  BY <1>6, <2>9 DEF k, s
<1>7. \/ /\ s \in DOMAIN akasha
         /\ k - s \in DOMAIN akasha[s].ez /\ akasha[s].ez[k - s] # Null
      \/ ~RootSuspended /\ s = records[1].t
  BY <1>3 DEF RootKeeps
<1> QED  BY <1>5, <1>6, <1>7

\* Together: whatever the program made.
LEMMA RecoverableCases ==
  ASSUME Sound, History(log), Contexts, Kept, Places, NEW k \in MadeIn(log)
  PROVE  \/ Stored(k)
         \/ /\ ~RootSuspended /\ records[1].t < k
            /\ k - records[1].t \in DOMAIN records[1].ez
         \/ FromBase(k)
<1>1. log \in Seq(Event) /\ Len(log) \in Nat /\ DOMAIN log = 1..Len(log)
  BY DEF Sound, TypeOK
<1>2. PICK q \in 1..Len(log) : log[q].op = "make" /\ k = log[q].tock
  BY <1>1 DEF MadeIn
<1>3. q \in 1..(Len(log) + 1) /\ HeadAt(log, q) = log[q].head
      /\ log[q].head < log[q].tock
  BY <1>1 DEF History, HistSteps
<1>4. InCall(log, q) \/ log[q].head \in RootHeads(log)
  BY <1>3 DEF History, HistCalls
<1> QED  BY <1>2, <1>3, <1>4, CallRecoverable, RootRecoverable

\* Every zombie the history made can be had: it is in the store, being made, or
\* made by a call whose root context is kept.
LEMMA RecoverableNow ==
  Sound /\ History(log) /\ Contexts /\ Kept /\ Places => Recoverable
<1> SUFFICES ASSUME Sound, History(log), Contexts, Kept, Places, NEW k \in Made
             PROVE  Stored(k) \/ InProgress(k) \/ FromBase(k)
  BY DEF Recoverable, FromBase
<1>1. k \in MadeIn(log)  BY DEF Made, MadeIn
<1>2. CASE ~RootSuspended /\ k - records[1].t \in DOMAIN records[1].ez
  <2>1. 1 \in DOMAIN records /\ Len(records) \in Nat \ {0} /\ Len(replays) \in Nat \ {0}
    BY TopFacts DEF Sound, TypeOK
  <2>2. Depth(1) =< 1
    <3>1. Len(records) \in {Len(replays), Len(replays) + 1}
      BY DEF Sound, StackOK
    <3> QED  BY <2>1, <3>1 DEF Depth
  <2> QED  BY <1>2, <2>1, <2>2 DEF InProgress
<1> QED  BY <1>1, <1>2, RecoverableCases

(***************************************************************************)
(* What the program does                                                   *)
(***************************************************************************)

\* The event of the operation that runs now.
Now(op, in) == [op |-> op, in |-> in, tock |-> current_tock, head |-> Top.t]

\* A function's inputs were made before it was called.
LEMMA InputsBefore ==
  ASSUME NEW h \in Seq(Event), History(h), NEW p \in 1..Len(h),
         NEW k \in ToSet(h[p].in)
  PROVE  k \in MadeIn(h) /\ k < h[p].tock
<1>1. Len(h) \in Nat /\ DOMAIN h = 1..Len(h)  BY PlaceFacts
<1>2. PICK q \in 1..(p - 1) : h[q].op = "make" /\ h[q].tock = k
  BY <1>1 DEF History, HistInputs
<1>3. q \in 1..Len(h) /\ q < p  BY <1>1
<1>4. k \in MadeIn(h)  BY <1>1, <1>2, <1>3 DEF MadeIn
<1>5. h[q].tock < h[p].tock  BY <1>2, <1>3, TwoEvents
<1> QED  BY <1>2, <1>4, <1>5

\* The zombies a program may pass on.
LEMMA ArgsMade ==
  ASSUME Sound, NEW in \in Args
  PROVE  in \in Seq(Nat) /\ \A k \in ToSet(in) : k \in MadeIn(log)
<1>1. in \in Seq(Nat)  BY ArgsType DEF Sound
<1>2. PICK n \in 0..MaxIn : in \in [1..n -> Made]  BY DEF Args
<1>3. \A k \in ToSet(in) : k \in Made  BY <1>2 DEF ToSet
<1>4. Made = MadeIn(log)  BY DEF Made, MadeIn
<1> QED  BY <1>1, <1>3, <1>4

\* The types of what runs now.
LEMMA TopTyped ==
  ASSUME Sound
  PROVE  /\ Top \in Record /\ Here \in Nat /\ current_tock \in Nat
         /\ Top.ez \in Seq(Nat) /\ Len(Top.ez) \in Nat /\ Top.t \in Nat
         /\ Top.held \subseteq Node /\ Top.deps \subseteq Nat
         /\ Top.rep \in Replayer /\ Top.rep.in \in Seq(Nat)
         /\ Top.todo \in Seq(Nat) /\ Top.pos \in Nat /\ Top.playing \in BOOLEAN
         /\ Top.kind \in {"root", "head", "value"}
         /\ log \in Seq(Event) /\ Len(log) \in Nat /\ DOMAIN log = 1..Len(log)
         /\ Len(records) \in Nat \ {0} /\ DOMAIN records = 1..Len(records)
         /\ Len(replays) \in Nat \ {0} /\ DOMAIN replays = 1..Len(replays)
         /\ current_tock = Top.t + Len(Top.ez) + 1
<1>1. TypeOK /\ StackOK /\ Dense  BY DEF Sound
<1>2. /\ Top \in Record /\ Here \in Nat
      /\ Len(records) \in Nat \ {0} /\ Len(replays) \in Nat \ {0}
  BY <1>1, TopFacts, HereType
<1>3. /\ Top.ez \in Seq(Nat) /\ Top.t \in Nat
      /\ Top.held \subseteq Node /\ Top.deps \subseteq Nat
      /\ Top.rep \in Replayer /\ Top.todo \in Seq(Nat) /\ Top.pos \in Nat
      /\ Top.playing \in BOOLEAN /\ Top.kind \in {"root", "head", "value"}
  BY <1>2 DEF Record
<1>4. Top.rep.in \in Seq(Nat)  BY <1>3 DEF Replayer
<1>5. Len(Top.ez) \in Nat  BY <1>3
<1>6. /\ current_tock \in Nat /\ log \in Seq(Event) /\ Len(log) \in Nat
      /\ DOMAIN log = 1..Len(log) /\ DOMAIN records = 1..Len(records)
      /\ DOMAIN replays = 1..Len(replays)
  BY <1>1 DEF TypeOK
<1>7. current_tock = Top.t + Len(Top.ez) + 1  BY <1>1, TopDense
<1> QED  BY <1>2, <1>3, <1>4, <1>5, <1>6, <1>7

\* Where the program is: the place of its next event.
LEMMA HereOK ==
  ASSUME Sound, Places, Aims, AtRoot \/ InBody
  PROVE  /\ Here \in 1..(Len(log) + 1)
         /\ current_tock = TockAt(log, Here) /\ Top.t = HeadAt(log, Here)
         /\ ~Replaying => Here = Len(log) + 1
         /\ Replaying => Here \in 1..Len(log) /\ InBody
         /\ AtRoot => Top.t \in RootHeads(log)
         /\ InBody => Top.t \in BodyHeads(log) /\ Here = Top.pos
<1>1. RecOK(Top, current_tock, Replaying, log)  BY TopOK
<1>2. /\ log \in Seq(Event) /\ Len(log) \in Nat
      /\ DOMAIN log = 1..Len(log) /\ Len(records) \in Nat \ {0}
      /\ Len(replays) \in Nat \ {0}
  BY TopFacts DEF Sound, TypeOK
<1>3. CASE AtRoot
  <2>1. Top.kind = "root"  BY <1>3 DEF AtRoot
  <2>2. Here = Len(log) + 1 /\ ~InBody  BY <2>1 DEF Here, InBody
  <2>3. RootOK(Top, current_tock, log)  BY <1>1, <2>1 DEF RecOK
  <2>4. ~Replaying
    <3>1. Len(replays) = 1  BY <2>1, RootHeight DEF Sound
    <3> QED  BY <3>1 DEF Replaying
  <2> QED  BY <1>2, <2>2, <2>3, <2>4 DEF RootOK
<1>4. CASE InBody
  <2>1. Top.kind = "head" /\ Top.playing  BY <1>4 DEF InBody
  <2>2. Here = Top.pos /\ ~AtRoot  BY <2>1 DEF Here, AtRoot
  <2>3. HeadOK(Top, current_tock, Replaying, log)  BY <1>1, <2>1 DEF RecOK
  <2>4. /\ Here \in 2..(Len(log) + 1) /\ current_tock = TockAt(log, Here)
        /\ Top.t = HeadAt(log, Here) /\ Top.t \in BodyHeads(log)
        /\ ~Replaying => Here = Len(log) + 1
    BY <2>2, <2>3 DEF HeadOK
  <2>5. Replaying => Here \in 1..Len(log)
    <3> SUFFICES ASSUME Replaying  PROVE Here \in 1..Len(log)
      OBVIOUS
    <3>1. Len(records) \in DOMAIN records /\ Depth(Len(records)) > 1
          /\ Top = records[Len(records)]
      BY <1>2, TopFacts DEF Sound, TypeOK, Depth, Replaying
    <3>2. ReplayOnlyRepeats  BY Repeats
    <3>3. Top.pos \in DOMAIN log  BY <2>1, <3>1, <3>2 DEF ReplayOnlyRepeats
    <3> QED  BY <1>2, <2>2, <3>3
  <2> QED  BY <1>2, <1>4, <2>2, <2>4, <2>5
<1> QED  BY <1>3, <1>4

\* What the program does is in its history: new if no replay runs, what it
\* was if one does.
LEMMA DoesOK ==
  ASSUME Sound, History(log), Places, Aims, AtRoot \/ InBody,
         NEW op \in {"make", "bind", "tail", "ret"}, NEW in \in Seq(Nat),
         \A k \in ToSet(in) : k \in MadeIn(log),
         op = "tail" => InBody, Does(op, in)
  PROVE  /\ log' \in Seq(Event) /\ History(log') /\ Extends(log, log')
         /\ Here \in 1..Len(log') /\ log'[Here] = Now(op, in)
         /\ Replaying => log' = log
         /\ ~Replaying => Len(log') = Here /\ Here = Len(log) + 1
         /\ op # "ret" => RootHeads(log') = RootHeads(log)
         /\ Now(op, in) \in Event
<1>1. /\ log \in Seq(Event) /\ Len(log) \in Nat
      /\ DOMAIN log = 1..Len(log) /\ Top.t \in Nat /\ current_tock \in Nat
  BY TopTyped
<1>2. Now(op, in) \in Event  BY <1>1 DEF Now, Event
<1>3. CASE Here = Len(log) + 1
  <2>1. log' = Append(log, Now(op, in))
    <3>1. Here \notin DOMAIN log  BY <1>1, <1>3
    <3> QED  BY <3>1 DEF Does, Now
  <2> DEFINE e == Now(op, in)
  <2>2. /\ e.op = op /\ e.in = in /\ e.tock = current_tock /\ e.head = Top.t
    BY DEF Now
  <2> HIDE DEF e
  <2>3. History(log')
    <3>1. e.tock = TockAt(log, Len(log) + 1) /\ e.head = HeadAt(log, Len(log) + 1)
      BY <1>3, <2>2, HereOK
    <3>2. e.op = "tail" => e.head \in BodyHeads(log)  BY <2>2, HereOK
    <3>3. \A k \in ToSet(e.in) : k \in MadeIn(log)  BY <2>2
    <3>4. e \in Event /\ log' = Append(log, e)  BY <1>2, <2>1 DEF e
    <3> QED  BY <1>1, <3>1, <3>2, <3>3, <3>4, HistoryAppend
  <2>4. /\ log' \in Seq(Event) /\ Len(log') = Len(log) + 1
        /\ Extends(log, log') /\ log'[Len(log) + 1] = e
        /\ e.op # "ret" => RootHeads(log') = RootHeads(log)
    <3>1. e \in Event /\ log' = Append(log, e)  BY <1>2, <2>1 DEF e
    <3>2. log \in Seq(Event)  BY <1>1
    <3>3. log' \in Seq(Event) /\ Len(log') = Len(log) + 1
      BY <3>1, <3>2, AppendFacts
    <3>4. Extends(log, log')  BY <3>1, <3>2, AppendEvent
    <3>5. log'[Len(log) + 1] = e  BY <3>1, <3>2, AppendFacts
    <3>6. ASSUME e.op # "ret"  PROVE RootHeads(log') = RootHeads(log)
      BY <3>1, <3>2, <3>6, AppendRoots
    <3> QED  BY <3>3, <3>4, <3>5, <3>6
  <2>5. ~Replaying
    <3> SUFFICES ASSUME Replaying  PROVE FALSE
      OBVIOUS
    <3>1. Here \in 1..Len(log)  BY HereOK
    <3> QED  BY <1>1, <1>3, <3>1
  <2>6. log'[Here] = e /\ Here \in 1..Len(log') /\ Len(log') = Here
    BY <1>1, <1>3, <2>4
  <2> QED  BY <1>2, <1>3, <2>2, <2>3, <2>4, <2>5, <2>6 DEF e
<1>4. CASE Here # Len(log) + 1
  <2>1. Here \in 1..Len(log) /\ Replaying  BY <1>4, HereOK
  <2>2. log' = log /\ log[Here].op = op /\ log[Here].in = in
    BY <1>4 DEF Does
  <2>3. log[Here] \in Event /\ log[Here].tock = current_tock /\ log[Here].head = Top.t
    <3>1. log[Here] \in Event  BY <1>1, <2>1
    <3>2. log[Here].tock = TockAt(log, Here) /\ log[Here].head = HeadAt(log, Here)
      BY <1>1, <2>1 DEF History, HistSteps
    <3> QED  BY <3>1, <3>2, HereOK
  <2>4. log[Here] = Now(op, in)  BY <2>2, <2>3 DEF Event, Now
  <2>5. Extends(log, log)  BY <1>1 DEF Extends
  <2> QED  BY <1>1, <1>2, <2>1, <2>2, <2>4, <2>5
<1> QED  BY <1>3, <1>4

\* The place after the event, and what the event leaves to find.
LEMMA AfterEvent ==
  ASSUME NEW h \in Seq(Event), NEW p \in 1..Len(h)
  PROVE  /\ p + 1 \in 2..(Len(h) + 1)
         /\ TockAt(h, p + 1) = NextTock(h[p]) /\ HeadAt(h, p + 1) = NextHead(h[p])
         /\ h[p].op = "make" => h[p].tock \in MadeIn(h)
         /\ h[p].op = "ret" => h[p].tock + 1 \in RootHeads(h)
         /\ Ends(h[p]) /\ h[p].op # "ret" => h[p].tock \in BodyHeads(h)
<1>1. Len(h) \in Nat /\ DOMAIN h = 1..Len(h)  BY PlaceFacts
<1>2. p + 1 # 1 /\ p + 1 - 1 = p /\ p + 1 \in 2..(Len(h) + 1)  BY <1>1
<1>3. p \in DOMAIN h  BY <1>1
<1> QED  BY <1>2, <1>3 DEF TockAt, HeadAt, MadeIn, RootHeads, BodyHeads

(***************************************************************************)
(* Steps of the stacks                                                     *)
(***************************************************************************)

\* Depth and clock of each record, and who runs for which replay.
LEMMA StackFacts ==
  ASSUME Sound
  PROVE  /\ \A i \in 1..Len(records) :
              /\ Depth(i) = Len(replays) - Len(records) + i
              /\ ~(i = 1 /\ RootSuspended) => Depth(i) \in 1..Len(replays)
         /\ \A i \in 1..(Len(records) - 1) : ClockOf(i) = replays[Depth(i) + 1].tock
         /\ ClockOf(Len(records)) = current_tock
         /\ \A j \in 2..Len(replays) :
              Runner(j) \in 1..Len(records) /\ Depth(Runner(j)) = j
         /\ Len(records) \in {Len(replays), Len(replays) + 1}
<1>1. Len(records) \in Nat \ {0} /\ Len(replays) \in Nat \ {0}  BY TopTyped
<1>2. Len(records) \in {Len(replays), Len(replays) + 1}  BY DEF Sound, StackOK
<1>3. ASSUME NEW i \in 1..Len(records)
      PROVE  /\ Depth(i) = Len(replays) - Len(records) + i
             /\ ~(i = 1 /\ RootSuspended) => Depth(i) \in 1..Len(replays)
  BY <1>1, <1>2 DEF Depth, RootSuspended
<1>4. ASSUME NEW i \in 1..(Len(records) - 1)
      PROVE  ClockOf(i) = replays[Depth(i) + 1].tock
  <2>1. i # Len(records)  BY <1>1
  <2> QED  BY <2>1 DEF ClockOf
<1>5. ASSUME NEW j \in 2..Len(replays)
      PROVE  Runner(j) \in 1..Len(records) /\ Depth(Runner(j)) = j
  BY <1>1, <1>2 DEF Runner, Depth
<1> QED  BY <1>2, <1>3, <1>4, <1>5 DEF ClockOf

\* A step that changes no more than the record on top, what the target's
\* replay has got, and, if no replay runs, the history.
LEMMA TopPlaces ==
  ASSUME Sound, Places, NEW r \in Record, records' = WithTop(r),
         Len(replays') = Len(replays),
         \A j \in 1..Len(replays) : replays'[j].tock = replays[j].tock,
         log' \in Seq(Event), Extends(log, log'), Replaying => log' = log,
         RecOK(r, current_tock', Replaying, log'), Holds(r, log')
  PROVE  Places'
<1> DEFINE n == Len(records)
           m == Len(replays)
<1>1. /\ Len(records') = n /\ records'[n] = r
      /\ \A i \in 1..(n - 1) : records'[i] = records[i]
      /\ records' \in Seq(Record)
  BY WithTopFacts DEF Sound
<1>2. /\ n \in Nat \ {0} /\ m \in Nat \ {0} /\ DOMAIN records = 1..n
      /\ log \in Seq(Event)
  BY TopTyped
<1>3. DOMAIN records' = 1..n  BY <1>1
<1>4. Len(replays') = m  OBVIOUS
<1>5. \A i \in 1..n : Depth(i)' = Depth(i)  BY <1>1, <1>4 DEF Depth
<1>6. RootSuspended' = RootSuspended  BY <1>1, <1>4 DEF RootSuspended
<1>9. SUFFICES ASSUME NEW i \in 1..n
               PROVE  /\ Holds(records'[i], log')
                      /\ \/ i = 1 /\ RootSuspended'
                         \/ RecOK(records'[i], ClockOf(i)', Depth(i)' > 1, log')
  BY <1>3 DEF Places
<1>10. CASE i = n
  <2>1. ClockOf(i)' = current_tock'  BY <1>1, <1>10 DEF ClockOf
  <2>2. Depth(i)' = m  BY <1>1, <1>2, <1>4, <1>10 DEF Depth
  <2>3. (Depth(i)' > 1) = Replaying  BY <2>2 DEF Replaying
  <2>4. RecOK(r, ClockOf(i)', Depth(i)' > 1, log')  BY <2>1, <2>3
  <2> QED  BY <1>1, <1>10, <2>4
<1>11. CASE i # n
  <2>1. i \in 1..(n - 1)
    <3> HIDE DEF n
    <3> QED  BY <1>2, <1>11
  <2>2. records'[i] = records[i]  BY <1>1, <2>1
  <2>3. /\ Holds(records[i], log)
        /\ (i = 1 /\ RootSuspended) \/ RecOK(records[i], ClockOf(i), Depth(i) > 1, log)
    BY <1>2 DEF Places
  <2>4. Holds(records[i], log')  BY <1>2, <2>3, NodeGrows
  <2>5. CASE i = 1 /\ RootSuspended  BY <1>6, <2>2, <2>4, <2>5
  <2>6. CASE ~(i = 1 /\ RootSuspended)
    <3>1. Depth(i) \in 1..m /\ Depth(i) = m - n + i /\ ClockOf(i) = replays[Depth(i) + 1].tock
      BY <2>1, <2>6, StackFacts
    <3>2. Depth(i) + 1 \in 1..m /\ m > 1
      <4> HIDE DEF n, m
      <4> QED  BY <1>2, <2>1, <3>1
    <3>3. ClockOf(i)' = replays'[Depth(i) + 1].tock
      <4>1. ClockOf(i)' = replays'[Depth(i)' + 1].tock  BY <1>1, <1>11 DEF ClockOf
      <4> QED  BY <1>5, <4>1
    <3>4. ClockOf(i)' = ClockOf(i)  BY <3>1, <3>2, <3>3
    <3>5. log' = log  BY <3>2 DEF Replaying
    <3>6. RecOK(records[i], ClockOf(i), Depth(i) > 1, log)  BY <2>3, <2>6
    <3>7. Depth(i)' = Depth(i)  BY <1>5
    <3> QED  BY <2>2, <2>4, <3>4, <3>5, <3>6, <3>7
  <2> QED  BY <2>5, <2>6
<1> QED  BY <1>10, <1>11

\* A step of the top record that keeps its replay's target keeps every replay
\* on its way.
LEMMA TopAims ==
  ASSUME Sound, Aims, TargetsDecrease, NEW r \in Record, records' = WithTop(r),
         Len(replays') = Len(replays),
         \A j \in 1..(Len(replays) - 1) : replays'[j] = replays[j],
         replays'[Len(replays)].at = Target.at,
         replays'[Len(replays)].tock = Target.tock,
         Replaying => log' = log,
         Replaying => AimOK(replays'[Len(replays)], r, current_tock', log')
  PROVE  Aims' /\ TargetsDecrease'
<1> DEFINE n == Len(records)
           m == Len(replays)
<1>1. /\ Len(records') = n /\ records'[n] = r
      /\ \A i \in 1..(n - 1) : records'[i] = records[i]
  BY WithTopFacts DEF Sound
<1>2. /\ n \in Nat \ {0} /\ m \in Nat \ {0} /\ Target = replays[m]
  BY TopTyped, TopFacts DEF Sound
<1>3. Len(replays') = m  OBVIOUS
<1>4. \A j \in 1..m : replays'[j].at = replays[j].at /\ replays'[j].tock = replays[j].tock
  <2> SUFFICES ASSUME NEW j \in 1..m
               PROVE  replays'[j].at = replays[j].at /\ replays'[j].tock = replays[j].tock
    OBVIOUS
  <2>1. CASE j = m  BY <1>2, <2>1
  <2>2. CASE j # m
    <3>1. j \in 1..(m - 1)  BY <1>2, <2>2
    <3> QED  BY <3>1
  <2> QED  BY <2>1, <2>2
<1>5. TargetsDecrease'
  <2> SUFFICES ASSUME NEW i \in 2..m, NEW j \in 2..m, i < j
               PROVE  replays'[j].at < replays'[i].at
    BY <1>3 DEF TargetsDecrease
  <2>1. i \in 1..m /\ j \in 1..m  BY <1>2
  <2> QED  BY <1>4, <2>1 DEF TargetsDecrease
<1>6. ASSUME NEW j \in 2..m
      PROVE  AimOK(replays'[j], records'[Runner(j)'], ClockOf(Runner(j))', log')
  <2>1. Runner(j)' = Runner(j) /\ Runner(j) \in 1..n /\ Depth(Runner(j)) = j
        /\ Runner(j) = j + n - m
    <3>1. Runner(j)' = Runner(j) /\ Runner(j) = j + n - m  BY <1>1, <1>3 DEF Runner
    <3> QED  BY <3>1, StackFacts
  <2>2. log' = log
    <3>1. m > 1  BY <1>2
    <3> QED  BY <3>1 DEF Replaying
  <2>3. CASE j = m
    <3>1. Runner(j) = n  BY <1>2, <2>1, <2>3
    <3>2. ClockOf(n)' = current_tock'  BY <1>1 DEF ClockOf
    <3>3. Replaying  BY <1>2 DEF Replaying
    <3>4. AimOK(replays'[m], r, current_tock', log')  BY <3>3
    <3>5. ClockOf(Runner(j))' = current_tock'  BY <1>1, <2>1, <3>1 DEF ClockOf
    <3> QED  BY <1>1, <2>1, <2>3, <3>1, <3>4, <3>5
  <2>4. CASE j # m
    <3> DEFINE i == Runner(j)
    <3>1. i \in 1..(n - 1) /\ j \in 1..(m - 1) /\ j + 1 \in 1..m
      <4> HIDE DEF n, m
      <4> QED  BY <1>2, <2>1, <2>4
    <3>2. records'[i] = records[i] /\ replays'[j] = replays[j]  BY <1>1, <3>1
    <3>3. ClockOf(i) = replays[j + 1].tock  BY <2>1, <3>1, StackFacts
    <3>4. ClockOf(Runner(j))' = replays'[j + 1].tock
      <4>1. i # n  BY <1>2, <3>1
      <4>2. Depth(Runner(j))' = j
        <5>1. Depth(Runner(j))' = m - n + i  BY <1>1, <1>3, <2>1 DEF Depth
        <5> QED  BY <1>2, <2>1, <5>1
      <4> QED  BY <1>1, <2>1, <4>1, <4>2 DEF ClockOf
    <3>5. ClockOf(Runner(j))' = ClockOf(i)  BY <1>4, <3>1, <3>3, <3>4
    <3>6. AimOK(replays[j], records[i], ClockOf(i), log)  BY DEF Aims
    <3> QED  BY <2>1, <2>2, <3>2, <3>5, <3>6
  <2> QED  BY <2>3, <2>4
<1>7. Aims'  BY <1>3, <1>6 DEF Aims
<1> QED  BY <1>5, <1>7

(***************************************************************************)
(* Steps of the store                                                      *)
(***************************************************************************)

\* The store stays right when only the history grows.
LEMMA QuietContexts ==
  ASSUME Sound, Contexts, log' \in Seq(Event), Extends(log, log'),
         akasha' = akasha
  PROVE  Contexts'
<1>1. \A s \in DOMAIN akasha : CtxOK(s, akasha[s], log')
  <2>1. log \in Seq(Event)  BY TopTyped
  <2>2. ASSUME NEW s \in DOMAIN akasha  PROVE CtxOK(s, akasha[s], log')
    <3>1. CtxOK(s, akasha[s], log)  BY DEF Contexts
    <3> QED  BY <2>1, <3>1, ContextGrows
  <2> QED  BY <2>2
<1> QED  BY <1>1 DEF Contexts

\* The store stays right when a right context is inserted.
LEMMA InsertContexts ==
  ASSUME Sound, Contexts, log' \in Seq(Event), Extends(log, log'),
         NEW start, NEW ctx, akasha' = Insert(start, ctx), CtxOK(start, ctx, log')
  PROVE  Contexts'
<1>1. /\ DOMAIN akasha' = DOMAIN akasha \cup {start}
      /\ \A s \in DOMAIN akasha' : akasha'[s] = IF s = start THEN ctx ELSE akasha[s]
  BY DEF Insert
<1>2. ASSUME NEW s \in DOMAIN akasha'  PROVE CtxOK(s, akasha'[s], log')
  <2>1. CASE s = start  BY <1>1, <2>1
  <2>2. CASE s # start
    <3>1. s \in DOMAIN akasha /\ akasha'[s] = akasha[s]  BY <1>1, <2>2
    <3>2. CtxOK(s, akasha[s], log) /\ log \in Seq(Event)
      BY <3>1, TopTyped DEF Contexts
    <3>3. CtxOK(s, akasha[s], log')  BY <3>2, ContextGrows
    <3> QED  BY <3>1, <3>3
  <2> QED  BY <2>1, <2>2
<1> QED  BY <1>2 DEF Contexts

\* What the root made is kept by a step that keeps the root's record and its
\* contexts, unless the root makes a new zombie or calls a function.
LEMMA KeptStep ==
  ASSUME Sound, History(log), Kept,
         log' \in Seq(Event), History(log'), Extends(log, log'),
         RootSuspended' = RootSuspended, records'[1].t = records[1].t,
         \A s \in DOMAIN akasha : s \in RootHeads(log) =>
           s \in DOMAIN akasha' /\ akasha'[s] = akasha[s],
         \A p \in 1..Len(log') : p \notin 1..Len(log) =>
           /\ log'[p].op # "bind"
           /\ log'[p].op = "make" => \/ log'[p].head \notin RootHeads(log')
                                     \/ ~RootSuspended /\ log'[p].head = records[1].t
  PROVE  Kept'
<1>1. /\ log \in Seq(Event) /\ Len(log) \in Nat /\ DOMAIN log = 1..Len(log)
      /\ Len(log') \in Nat /\ DOMAIN log' = 1..Len(log')
  BY TopTyped, PlaceFacts
<1>2. \A p \in 1..Len(log) : p \in 1..Len(log') /\ log'[p] = log[p]
  BY <1>1 DEF Extends
<1>3. RootHeads(log) \subseteq RootHeads(log')  BY <1>1, ExtendsFacts
<1>4. \A p \in 1..Len(log') : /\ log'[p] \in Event /\ log'[p].tock \in Nat
                              /\ log'[p].head \in Nat
                              /\ log'[p].head < log'[p].tock
  <2>1. \A p \in 1..Len(log') : log'[p].head < log'[p].tock
    BY <1>1 DEF History, HistSteps
  <2> QED  BY <1>1, <2>1, PlaceFacts, EventFacts
<1>5. ASSUME NEW b \in DOMAIN log', log'[b].op = "bind"
      PROVE  log'[b].head \in RootHeads(log') \cap DOMAIN akasha'
  <2>1. b \in 1..Len(log) /\ log'[b] = log[b]  BY <1>1, <1>2, <1>5
  <2>2. log[b].head \in RootHeads(log) \cap DOMAIN akasha
    BY <1>1, <1>5, <2>1 DEF Kept
  <2> QED  BY <1>3, <2>1, <2>2
<1>6. ASSUME NEW q \in DOMAIN log', log'[q].op = "make", log'[q].head \in RootHeads(log')
      PROVE  RootKeeps(q)'
  <2>1. CASE q \notin 1..Len(log)
    <3>1. ~RootSuspended /\ log'[q].head = records[1].t  BY <1>1, <1>6, <2>1
    <3> QED  BY <3>1 DEF RootKeeps
  <2>2. CASE q \in 1..Len(log)
    <3>1. log'[q] = log[q] /\ q \in 1..Len(log')  BY <1>2, <2>2
    <3>2. log[q].head \in RootHeads(log)
      <4> SUFFICES ASSUME log[q].head \notin RootHeads(log)  PROVE FALSE
        OBVIOUS
      <4>1. log[q].head # 0  BY DEF RootHeads
      <4>2. PICK p \in 1..Len(log') :
              log'[p].op = "ret" /\ log'[q].head = log'[p].tock + 1
        BY <1>1, <1>6, <3>1, <4>1 DEF RootHeads
      <4>3. p \notin 1..Len(log)
        <5> SUFFICES ASSUME p \in 1..Len(log)  PROVE FALSE
          OBVIOUS
        <5>1. log'[p] = log[p]  BY <1>2
        <5> QED  BY <1>1, <3>1, <4>2, <5>1 DEF RootHeads
      <4>4. q < p  BY <1>1, <2>2, <4>3
      <4>5. log'[q].head =< log'[p].head  BY <3>1, <4>4, TwoEvents
      <4> QED  BY <1>4, <3>1, <4>2, <4>5
    <3>3. RootKeeps(q)  BY <1>1, <1>6, <2>2, <3>1, <3>2 DEF Kept
    <3> DEFINE s == log[q].head
               d == log[q].tock - s
    <3>4. CASE ~RootSuspended /\ s = records[1].t
      BY <3>1, <3>4 DEF RootKeeps
    <3>5. CASE /\ s \in DOMAIN akasha
               /\ d \in DOMAIN akasha[s].ez /\ akasha[s].ez[d] # Null
      <4>1. s \in DOMAIN akasha' /\ akasha'[s] = akasha[s]  BY <3>2, <3>5
      <4> QED  BY <3>1, <3>5, <4>1 DEF RootKeeps
    <3> QED  BY <3>3, <3>4, <3>5 DEF RootKeeps
  <2> QED  BY <2>1, <2>2
<1> QED  BY <1>5, <1>6 DEF Kept

(***************************************************************************)
(* The invariant holds at first                                            *)
(***************************************************************************)

\* Initially nothing is made, stored or replayed.
LEMMA InitEngine == Init => EngineInv
<1> SUFFICES ASSUME Init  PROVE EngineInv
  OBVIOUS
<1>1. Sound  BY InitType DEF Sound
<1>2. /\ log = <<>> /\ current_tock = 1 /\ DOMAIN akasha = {}
      /\ Len(records) = 1 /\ Len(replays) = 1 /\ records[1] = RootRecord(0)
      /\ DOMAIN records = {1} /\ Len(log) = 0 /\ DOMAIN log = {}
  BY DEF Init
<1>3. TockAt(log, 1) = 1 /\ HeadAt(log, 1) = 0 /\ 0 \in RootHeads(log)
  BY DEF TockAt, HeadAt, RootHeads
<1>4. History(log)
  <2>1. HistSteps(log) /\ HistOrder(log) /\ HistInputs(log)
    BY <1>2 DEF HistSteps, HistOrder, HistInputs
  <2>2. HistCalls(log)
    <3>1. \A q \in 1..(Len(log) + 1) : q = 1  BY <1>2
    <3> QED  BY <1>3, <3>1 DEF HistCalls
  <2> QED  BY <2>1, <2>2 DEF History
<1>5. Places
  <2> DEFINE r == records[1]
  <2>1. /\ r.kind = "root" /\ r.t = 0 /\ r.ez = <<>> /\ r.held = {}
        /\ r.todo = <<>> /\ r.playing = FALSE
    BY <1>2 DEF RootRecord
  <2> HIDE DEF r
  <2>2. Holds(r, log)  BY <2>1 DEF Holds, EzOK
  <2>3. RootOK(r, 1, log)  BY <1>2, <1>3, <2>1 DEF RootOK
  <2>4. TodoOK(r, 1, log)  BY <2>1 DEF TodoOK, ToSet
  <2>5. RecOK(r, 1, Depth(1) > 1, log)  BY <2>1, <2>3, <2>4 DEF RecOK
  <2>6. ClockOf(1) = 1  BY <1>2 DEF ClockOf
  <2> QED  BY <1>2, <2>2, <2>5, <2>6 DEF Places, r
<1>6. Aims /\ TargetsDecrease  BY <1>2 DEF Aims, TargetsDecrease
<1>7. Contexts /\ Kept  BY <1>2 DEF Contexts, Kept
<1> QED  BY <1>1, <1>4, <1>5, <1>6, <1>7 DEF EngineInv

(***************************************************************************)
(* Steps that leave the history alone                                      *)
(***************************************************************************)

\* The first element of a sequence, and the others.
LEMMA HeadTail ==
  ASSUME NEW S, NEW s \in Seq(S), s # <<>>
  PROVE  /\ Head(s) \in ToSet(s)
         /\ ToSet(Tail(s)) \subseteq ToSet(s)
<1>1. Len(s) \in Nat \ {0} /\ DOMAIN s = 1..Len(s)  OBVIOUS
<1>2. Head(s) = s[1] /\ 1 \in DOMAIN s  BY <1>1
<1>3. Head(s) \in ToSet(s)  BY <1>2 DEF ToSet
<1>4. /\ Tail(s) \in Seq(S) /\ Len(Tail(s)) = Len(s) - 1
      /\ \A i \in 1..Len(Tail(s)) : Tail(s)[i] = s[i + 1]
  BY HeadTailProperties
<1>5. ASSUME NEW i \in DOMAIN Tail(s)  PROVE Tail(s)[i] \in ToSet(s)
  <2>1. i \in 1..Len(Tail(s))  BY <1>4
  <2>2. Tail(s)[i] = s[i + 1] /\ i + 1 \in DOMAIN s  BY <1>1, <1>4, <2>1
  <2> QED  BY <2>2 DEF ToSet
<1>6. ToSet(Tail(s)) \subseteq ToSet(s)  BY <1>5 DEF ToSet
<1> QED  BY <1>3, <1>6

\* Every zombie was made before the clock of the history's end.
LEMMA MadeBefore ==
  ASSUME NEW h \in Seq(Event), History(h), NEW k \in MadeIn(h)
  PROVE  k \in Nat /\ k < TockAt(h, Len(h) + 1)
<1>1. Len(h) \in Nat /\ DOMAIN h = 1..Len(h)  BY PlaceFacts
<1>2. PICK q \in 1..Len(h) : h[q].op = "make" /\ h[q].tock = k
  BY <1>1 DEF MadeIn
<1>3. h[q] \in Event  BY PlaceFacts
<1>4. /\ k \in Nat /\ NextTock(h[q]) \in Nat /\ k < NextTock(h[q])
  BY <1>2, <1>3, EventFacts
<1>5. Len(h) + 1 \in (q + 1)..(Len(h) + 1) /\ Len(h) + 1 \in 1..(Len(h) + 1)
  BY <1>1
<1>6. NextTock(h[q]) =< TockAt(h, Len(h) + 1)
  BY <1>1, <1>5 DEF History, HistOrder
<1>7. TockAt(h, Len(h) + 1) \in Nat  BY <1>5, PlaceFacts
<1> QED  BY <1>4, <1>6, <1>7

\* A new record on top leaves the root's beginning alone.
LEMMA TopRoot ==
  ASSUME Sound, NEW r \in Record, records' = WithTop(r),
         Len(replays') = Len(replays), r.t = Top.t \/ Len(records) > 1
  PROVE  RootSuspended' = RootSuspended /\ records'[1].t = records[1].t
<1>1. /\ Len(records') = Len(records)
      /\ records'[Len(records)] = r
      /\ \A i \in 1..(Len(records) - 1) : records'[i] = records[i]
  BY WithTopFacts DEF Sound
<1>2. RootSuspended' = RootSuspended  BY <1>1 DEF RootSuspended
<1>3. Len(records) \in Nat \ {0} /\ Top = records[Len(records)]
  BY TopFacts DEF Sound
<1>4. CASE Len(records) > 1
  <2>1. 1 \in 1..(Len(records) - 1)  BY <1>3, <1>4
  <2> QED  BY <1>1, <1>2, <2>1
<1>5. CASE ~(Len(records) > 1)
  <2>1. Len(records) = 1
    <3> DEFINE n == Len(records)
    <3>1. n \in Nat /\ n # 0 /\ ~(n > 1)  BY <1>3, <1>5
    <3> HIDE DEF n
    <3>2. n = 1  BY <3>1
    <3> QED  BY <3>2 DEF n
  <2>2. r.t = Top.t  BY <1>5
  <2> QED  BY <1>1, <1>2, <1>3, <2>1, <2>2
<1> QED  BY <1>4, <1>5

\* A step that changes what the record on top waits for, holds and plays.
LEMMA QuietTop ==
  ASSUME EngineInv, Sound', NEW r \in Record, records' = WithTop(r),
         UNCHANGED <<current_tock, akasha, replays, log>>,
         r.kind = Top.kind, r.t = Top.t, r.ez = Top.ez, r.rep = Top.rep,
         r.pos = Top.pos, TodoOK(r, current_tock, log),
         \A n \in r.held : NodeOK(n, log),
         r.playing => r.kind # "value",
         Replaying /\ r.playing => r.t < Target.at
  PROVE  EngineInv'
<1>1. Sound /\ History(log) /\ Places /\ Aims /\ TargetsDecrease /\ Contexts /\ Kept
  BY DEF EngineInv
<1>2. log \in Seq(Event) /\ Extends(log, log)  BY <1>1, TopTyped DEF Extends
<1>3. RecOK(Top, current_tock, Replaying, log) /\ Holds(Top, log)
  BY <1>1, TopOK
<1>4. RecOK(r, current_tock, Replaying, log) /\ Holds(r, log)
  <2>1. RecOK(r, current_tock, Replaying, log)
    BY <1>3 DEF RecOK, HeadOK, ValueOK, RootOK
  <2> QED  BY <1>3, <2>1 DEF Holds
<1>5. Places'  BY <1>1, <1>2, <1>4, TopPlaces
<1>6. Aims' /\ TargetsDecrease'
  <2>1. Replaying => AimOK(Target, r, current_tock, log)
    <3> SUFFICES ASSUME Replaying  PROVE AimOK(Target, r, current_tock, log)
      OBVIOUS
    <3>1. AimOK(Target, Top, current_tock, log)  BY <1>1, TargetOK
    <3> QED  BY <3>1 DEF AimOK
  <2>2. replays[Len(replays)] = Target  BY <1>1, TopFacts DEF Sound
  <2> QED  BY <1>1, <2>1, <2>2, TopAims
<1>7. Contexts'  BY <1>1, <1>2, QuietContexts
<1>8. Kept'
  <2>1. RootSuspended' = RootSuspended /\ records'[1].t = records[1].t
    BY <1>1, TopRoot
  <2> QED  BY <1>1, <1>2, <2>1, KeptStep
<1> QED  BY <1>1, <1>5, <1>6, <1>7, <1>8 DEF EngineInv

\* What user code asks for, drops, or what a play and a lock change.
LEMMA GetValueStep ==
  ASSUME EngineInv, Sound', NEW k \in Made, GetValue(k)  PROVE EngineInv'
<1> DEFINE r == [Top EXCEPT !.todo = <<k>>]
<1>1. Sound /\ History(log) /\ Places /\ Aims /\ Faithful /\ log \in Seq(Event)
  BY FaithfulNow, TopTyped DEF EngineInv
<1>2. Top \in Record /\ k \in MadeIn(log) /\ k \in Nat /\ k < TockAt(log, Len(log) + 1)
  <2>1. k \in MadeIn(log)  BY DEF Made, MadeIn
  <2> QED  BY <1>1, <2>1, TopTyped, MadeBefore
<1>3. <<k>> \in Seq(Nat)  BY <1>2
<1>4. r \in Record  BY <1>2, <1>3, RecordUpdates
<1>5. /\ r.kind = Top.kind /\ r.t = Top.t /\ r.ez = Top.ez /\ r.rep = Top.rep
      /\ r.pos = Top.pos /\ r.playing = Top.playing /\ r.held = Top.held
      /\ r.todo = <<k>>
  BY <1>2 DEF Record
<1>6. records' = WithTop(r) /\ UNCHANGED <<current_tock, akasha, replays, log>>
      /\ AtRoot
  BY DEF GetValue
<1> HIDE DEF r
<1>7. Top.kind = "root" /\ ~Replaying
  <2>1. Top.kind = "root"  BY <1>6 DEF AtRoot
  <2>2. Len(replays) = 1  BY <1>1, <2>1, RootHeight DEF Sound
  <2> QED  BY <2>1, <2>2 DEF Replaying
<1>8. RecOK(Top, current_tock, Replaying, log) /\ Holds(Top, log)
  BY <1>1, TopOK
<1>9. TodoOK(r, current_tock, log)
  <2>1. current_tock = TockAt(log, Len(log) + 1)  BY <1>7, <1>8 DEF RecOK, RootOK
  <2>2. \A x \in ToSet(<<k>>) : x = k  BY DEF ToSet
  <2> QED  BY <1>2, <1>5, <1>7, <2>1, <2>2 DEF TodoOK
<1>10. r.playing => r.kind # "value"  BY <1>5, <1>8 DEF RecOK
<1>11. \A n \in r.held : NodeOK(n, log)  BY <1>5, <1>8 DEF Holds
<1> QED  BY <1>4, <1>5, <1>6, <1>7, <1>9, <1>10, <1>11, QuietTop

\* Root code drops a zombie it holds.
LEMMA ReleaseStep ==
  ASSUME EngineInv, Sound', NEW n \in Top.held, Release(n)  PROVE EngineInv'
<1> DEFINE r == [Top EXCEPT !.held = @ \ {n}]
<1>1. Sound /\ Places /\ Aims  BY DEF EngineInv
<1>2. /\ Top \in Record /\ Top.held \subseteq Node /\ Top.deps \subseteq Nat
      /\ Top.todo \in Seq(Nat) /\ Top.pos \in Nat
  BY <1>1, TopTyped
<1>3. r \in Record
  <2>1. Top.held \ {n} \in SUBSET Node  BY <1>2
  <2> QED  BY <1>2, <2>1, RecordUpdates
<1>4. /\ r.kind = Top.kind /\ r.t = Top.t /\ r.ez = Top.ez /\ r.rep = Top.rep
      /\ r.pos = Top.pos /\ r.playing = Top.playing /\ r.held \subseteq Top.held
      /\ r.todo = Top.todo
  BY <1>2 DEF Record
<1>5. records' = WithTop(r) /\ UNCHANGED <<current_tock, akasha, replays, log>>
  BY DEF Release
<1> HIDE DEF r
<1>6. RecOK(Top, current_tock, Replaying, log) /\ Holds(Top, log)
  BY <1>1, TopOK
<1>7. TodoOK(r, current_tock, log)  BY <1>4, <1>6 DEF RecOK, TodoOK
<1>8. r.playing => r.kind # "value"  BY <1>4, <1>6 DEF RecOK
<1>9. \A x \in r.held : NodeOK(x, log)  BY <1>4, <1>6 DEF Holds
<1>10. Replaying /\ r.playing => r.t < Target.at
  BY <1>1, <1>4, TargetOK DEF AimOK
<1> QED  BY <1>3, <1>4, <1>5, <1>7, <1>8, <1>9, <1>10, QuietTop

\* play() starts the body of the top record, its inputs still to lock.
LEMMA PlayStep ==
  ASSUME EngineInv, Sound', Play  PROVE EngineInv'
<1> DEFINE r == [Top EXCEPT !.playing = TRUE, !.todo = Top.rep.in]
<1>1. Sound /\ Places /\ Aims  BY DEF EngineInv
<1>2. /\ Top \in Record /\ Top.rep.in \in Seq(Nat) /\ Top.t \in Nat
      /\ Len(Top.ez) \in Nat /\ current_tock = Top.t + Len(Top.ez) + 1
  BY <1>1, TopTyped
<1>3. r \in Record  BY <1>2, PlayUpdate
<1>4. /\ r.kind = Top.kind /\ r.t = Top.t /\ r.ez = Top.ez /\ r.rep = Top.rep
      /\ r.pos = Top.pos /\ r.playing /\ r.held = Top.held
      /\ r.todo = Top.rep.in
  BY <1>2 DEF Record
<1>5. records' = WithTop(r) /\ UNCHANGED <<current_tock, akasha, replays, log>>
      /\ Top.kind = "head" /\ (Replaying => Target.got = Null)
  BY DEF Play
<1> HIDE DEF r
<1>6. RecOK(Top, current_tock, Replaying, log) /\ Holds(Top, log)
  BY <1>1, TopOK
<1>7. TodoOK(r, current_tock, log)
  <2>1. \A k \in ToSet(Top.rep.in) : k \in MadeIn(log) /\ k < Top.t
    BY <1>5, <1>6 DEF RecOK, HeadOK
  <2>2. ToSet(Top.rep.in) \subseteq Nat  BY <1>2, ToSetType
  <2>3. Top.t < current_tock  BY <1>2
  <2>4. \A k \in ToSet(Top.rep.in) : k < current_tock  BY <1>2, <2>1, <2>2
  <2> QED  BY <1>4, <1>5, <2>1, <2>4 DEF TodoOK
<1>8. \A x \in r.held : NodeOK(x, log)  BY <1>4, <1>6 DEF Holds
<1>9. Replaying /\ r.playing => r.t < Target.at
  BY <1>1, <1>4, <1>5, TargetOK DEF AimOK
<1> QED  BY <1>3, <1>4, <1>5, <1>7, <1>8, <1>9, QuietTop

\* shared_ptr finds the node, and the body or the root code holds it.
LEMMA LockStep ==
  ASSUME EngineInv, Sound', NEW n \in Nodes, Lock(n)  PROVE EngineInv'
<1> DEFINE r == [Top EXCEPT !.todo = Tail(@), !.held = @ \cup {n}]
<1>1. Sound /\ Places /\ Aims /\ Contexts  BY DEF EngineInv
<1>2. Top \in Record /\ Top.todo \in Seq(Nat) /\ Top.held \subseteq Node
  BY <1>1, TopTyped
<1>3. Top.todo # <<>>  BY DEF Lock, UserCode
<1>4. /\ Tail(Top.todo) \in Seq(Nat)
      /\ ToSet(Tail(Top.todo)) \subseteq ToSet(Top.todo)
  BY <1>2, <1>3, HeadTail, HeadTailProperties
<1>5. r \in Record
  <2>1. Top.held \cup {n} \in SUBSET Node  BY <1>1, <1>2, NodesType DEF Sound
  <2> QED  BY <1>2, <1>4, <2>1, RecordUpdates
<1>6. /\ r.kind = Top.kind /\ r.t = Top.t /\ r.ez = Top.ez /\ r.rep = Top.rep
      /\ r.pos = Top.pos /\ r.playing = Top.playing /\ r.held = Top.held \cup {n}
      /\ r.todo = Tail(Top.todo)
  BY <1>2 DEF Record
<1>7. records' = WithTop(r) /\ UNCHANGED <<current_tock, akasha, replays, log>>
  BY DEF Lock
<1> HIDE DEF r
<1>8. RecOK(Top, current_tock, Replaying, log) /\ Holds(Top, log)
  BY <1>1, TopOK
<1>9. TodoOK(r, current_tock, log)  BY <1>3, <1>4, <1>6, <1>8 DEF RecOK, TodoOK
<1>10. r.playing => r.kind # "value"  BY <1>6, <1>8 DEF RecOK
<1>11. NodeOK(n, log)  BY <1>1, FaithfulNow DEF Faithful, NodeOK
<1>12. \A x \in r.held : NodeOK(x, log)  BY <1>6, <1>8, <1>11 DEF Holds
<1>13. Replaying /\ r.playing => r.t < Target.at
  BY <1>1, <1>6, TargetOK DEF AimOK
<1> QED  BY <1>5, <1>6, <1>7, <1>9, <1>10, <1>12, <1>13, QuietTop

(***************************************************************************)
(* Evictions                                                               *)
(***************************************************************************)

\* What a step leaves alone that changes the store only.
LEMMA StoreOnly ==
  ASSUME EngineInv, Sound', UNCHANGED <<current_tock, records, replays, log>>,
         Contexts',
         \A s \in DOMAIN akasha : s \in RootHeads(log) =>
           s \in DOMAIN akasha' /\ akasha'[s] = akasha[s]
  PROVE  EngineInv'
<1>1. Sound /\ History(log) /\ Places /\ Aims /\ TargetsDecrease /\ Contexts /\ Kept
  BY DEF EngineInv
<1>2. Places'
  BY <1>1 DEF Places, RootSuspended, ClockOf, Depth
<1>3. Aims' /\ TargetsDecrease'
  BY <1>1 DEF Aims, TargetsDecrease, Runner, ClockOf, Depth
<1>4. log' \in Seq(Event) /\ Extends(log, log') /\ History(log')
  BY <1>1, TopTyped DEF Extends
<1>5. RootSuspended' = RootSuspended /\ records'[1].t = records[1].t
  BY DEF RootSuspended
<1>6. \A p \in 1..Len(log') : p \in 1..Len(log)  OBVIOUS
<1>7. Kept'  BY <1>1, <1>4, <1>5, <1>6, KeptStep
<1> QED  BY <1>1, <1>2, <1>3, <1>4, <1>7 DEF EngineInv

\* Contexts that may be evicted are not the root's.
LEMMA FullApart ==
  ASSUME Sound, History(log), Contexts, NEW s \in DOMAIN akasha,
         akasha[s].kind = "full"
  PROVE  s \notin RootHeads(log)
<1>1. s \in BodyHeads(log)  BY DEF Contexts, CtxOK
<1>2. log \in Seq(Event)  BY TopTyped
<1> QED  BY <1>1, <1>2, TocksApart

\* An eviction leaves every zombie recoverable: it removes no root context, and
\* the call it is under can be replayed.
LEMMA EvictStep ==
  ASSUME EngineInv, Sound', Evict  PROVE EngineInv'
<1>1. Sound /\ History(log) /\ Contexts  BY DEF EngineInv
<1>2. ASSUME NEW s \in DOMAIN akasha, Murder(s)  PROVE EngineInv'
  <2>1. /\ UNCHANGED <<current_tock, records, replays, log>>
        /\ akasha[s].kind = "full" /\ akasha' = Without(s)
    BY <1>2 DEF Murder
  <2>2. /\ DOMAIN akasha' = DOMAIN akasha \ {s}
        /\ \A u \in DOMAIN akasha' : akasha'[u] = akasha[u]
    BY <2>1 DEF Without
  <2>3. Contexts'  BY <1>1, <2>1, <2>2 DEF Contexts
  <2>4. s \notin RootHeads(log)  BY <1>1, <2>1, FullApart
  <2>5. \A u \in DOMAIN akasha : u \in RootHeads(log) =>
          u \in DOMAIN akasha' /\ akasha'[u] = akasha[u]
    BY <2>2, <2>4
  <2> QED  BY <2>1, <2>3, <2>5, StoreOnly
<1>3. ASSUME NEW k \in Made, EvictIndividual(k)  PROVE EngineInv'
  <2> DEFINE s == FindLE(k)
             d == k - s
             c == [akasha[s] EXCEPT !.ez = [akasha[s].ez EXCEPT ![d] = Null]]
  <2>1. /\ UNCHANGED <<current_tock, records, replays, log>>
        /\ Stored(k) /\ akasha[s].kind = "full"
        /\ akasha' = [akasha EXCEPT ![s].ez[d] = Null]
    BY <1>3 DEF EvictIndividual
  <2>2. s \in DOMAIN akasha /\ d \in DOMAIN akasha[s].ez
    <3>1. k \in Nat /\ HasLE(k)  BY <1>1, <2>1, ArgsType DEF Sound, Stored
    <3> QED  BY <1>1, <2>1, <3>1, FindType DEF Sound, Stored
  <2>3. akasha[s] \in Context /\ akasha[s].ez \in Seq(Nat)
    BY <1>1, <2>2, ContextEnd
  <2>4. akasha' = [akasha EXCEPT ![s] = c]  BY <2>1, <2>2, <2>3
  <2>5. /\ c.kind = akasha[s].kind /\ c.end_t = akasha[s].end_t
        /\ c.end_rep = akasha[s].end_rep
        /\ c.ez = [akasha[s].ez EXCEPT ![d] = Null]
    BY <2>3 DEF Context
  <2> HIDE DEF c, d, s
  <2>6. Len(c.ez) = Len(akasha[s].ez) /\ DOMAIN c.ez = DOMAIN akasha[s].ez
        /\ \A j \in DOMAIN c.ez : c.ez[j] # Null => c.ez[j] = akasha[s].ez[j]
    BY <2>2, <2>3, <2>5
  <2>7. CtxOK(s, akasha[s], log)  BY <1>1, <2>2 DEF Contexts
  <2>8. EzOK(s, c.ez, log)  BY <2>6, <2>7 DEF CtxOK, EzOK
  <2>9. CtxOK(s, c, log)  BY <2>5, <2>6, <2>7, <2>8 DEF CtxOK
  <2>10. /\ DOMAIN akasha' = DOMAIN akasha /\ akasha'[s] = c
         /\ \A u \in DOMAIN akasha : u # s => akasha'[u] = akasha[u]
    BY <2>2, <2>4
  <2>11. Contexts'
    <3>1. \A u \in DOMAIN akasha : CtxOK(u, akasha'[u], log)
      BY <1>1, <2>9, <2>10 DEF Contexts
    <3> QED  BY <2>1, <2>10, <3>1 DEF Contexts
  <2>12. s \notin RootHeads(log)  BY <1>1, <2>1, <2>2, FullApart
  <2>13. \A u \in DOMAIN akasha : u \in RootHeads(log) =>
           u \in DOMAIN akasha' /\ akasha'[u] = akasha[u]
    BY <2>10, <2>12
  <2> QED  BY <2>1, <2>11, <2>13, StoreOnly
<1> QED  BY <1>2, <1>3 DEF Evict

(***************************************************************************)
(* Steps of the program                                                    *)
(***************************************************************************)

\* Where the event that runs is the only one that can be new.
LEMMA OnlyHereNew ==
  ASSUME Sound, log' \in Seq(Event),
         Replaying => log' = log,
         ~Replaying => Len(log') = Here /\ Here = Len(log) + 1,
         NEW p \in 1..Len(log'), p \notin 1..Len(log)
  PROVE  p = Here /\ ~Replaying
<1>1. Len(log) \in Nat /\ Here \in Nat  BY TopTyped
<1>2. ~Replaying  OBVIOUS
<1>3. p \in 1..Here /\ Here = Len(log) + 1  BY <1>2
<1> QED  BY <1>1, <1>2, <1>3

\* A zombie is made: for the first time, at the end of the history, or again,
\* as the history has it, perhaps for a replay that waits for it.
LEMMA ConstructStep ==
  ASSUME EngineInv, Sound', AtRoot \/ InBody, Construct  PROVE EngineInv'
<1> DEFINE r == [Top EXCEPT !.ez = Append(@, Here), !.pos = Here + 1]
           e == Now("make", <<>>)
<1>1. Sound /\ History(log) /\ Places /\ Aims /\ TargetsDecrease /\ Contexts /\ Kept
  BY DEF EngineInv
<1>2. /\ Top \in Record /\ Here \in Nat /\ current_tock \in Nat
      /\ Top.ez \in Seq(Nat) /\ Len(Top.ez) \in Nat /\ Top.t \in Nat
      /\ Top.rep.in \in Seq(Nat)
      /\ log \in Seq(Event) /\ Len(log) \in Nat
      /\ Len(replays) \in Nat \ {0} /\ DOMAIN replays = 1..Len(replays)
      /\ current_tock = Top.t + Len(Top.ez) + 1
  BY <1>1, TopTyped
<1>3. /\ Does("make", <<>>) /\ current_tock' = current_tock + 1 /\ akasha' = akasha
      /\ records' = WithTop(r)
      /\ replays' = IF current_tock = Target.at
                    THEN [replays EXCEPT ![Len(replays)].got = Here]
                    ELSE replays
  BY DEF Construct
<1>4. /\ log' \in Seq(Event) /\ History(log') /\ Extends(log, log')
      /\ Here \in 1..Len(log') /\ log'[Here] = e
      /\ Replaying => log' = log
      /\ ~Replaying => Len(log') = Here /\ Here = Len(log) + 1
      /\ RootHeads(log') = RootHeads(log)
      /\ e \in Event
  <2>1. \A k \in ToSet(<<>>) : k \in MadeIn(log)  BY DEF ToSet
  <2>2. <<>> \in Seq(Nat)  OBVIOUS
  <2> QED  BY <1>1, <1>3, <2>1, <2>2, DoesOK
<1>5. e.op = "make" /\ e.tock = current_tock /\ e.head = Top.t  BY DEF Now
<1> HIDE DEF e
<1>6. NextTock(e) = current_tock + 1 /\ NextHead(e) = Top.t
  BY <1>5 DEF NextTock, NextHead, Ends
<1>7. /\ Here + 1 \in 2..(Len(log') + 1)
      /\ TockAt(log', Here + 1) = current_tock + 1 /\ HeadAt(log', Here + 1) = Top.t
  BY <1>4, <1>6, AfterEvent
<1>8. /\ r \in Record /\ r.ez = Append(Top.ez, Here) /\ r.pos = Here + 1
      /\ r.t = Top.t /\ r.kind = Top.kind /\ r.rep = Top.rep /\ r.todo = Top.todo
      /\ r.held = Top.held /\ r.playing = Top.playing
  <2>1. Append(Top.ez, Here) \in Seq(Nat) /\ Here + 1 \in Nat  BY <1>2
  <2> QED  BY <1>2, <2>1 DEF Record
<1> HIDE DEF r
<1>9. RecOK(Top, current_tock, Replaying, log) /\ Holds(Top, log) /\ Top.todo = <<>>
  <2>1. Top.todo = <<>>  BY DEF AtRoot, InBody, UserCode
  <2> QED  BY <1>1, <2>1, TopOK
<1>10. /\ MadeIn(log) \subseteq MadeIn(log') /\ RootHeads(log) \subseteq RootHeads(log')
       /\ BodyHeads(log) \subseteq BodyHeads(log')
  BY <1>2, <1>4, ExtendsFacts
<1>11. /\ Len(r.ez) = Len(Top.ez) + 1 /\ DOMAIN r.ez = 1..(Len(Top.ez) + 1)
       /\ r.ez[Len(Top.ez) + 1] = Here
       /\ \A j \in 1..Len(Top.ez) : r.ez[j] = Top.ez[j]
  BY <1>2, <1>8, AppendFacts
<1>12. DOMAIN Top.ez = 1..Len(Top.ez)  BY <1>2
<1>13. RecOK(r, current_tock', Replaying, log')
  <2>1. r.kind = "head" => HeadOK(r, current_tock', Replaying, log')
    <3> SUFFICES ASSUME Top.kind = "head"
                 PROVE  HeadOK(r, current_tock', Replaying, log')
      BY <1>8
    <3>1. /\ Top.t \in BodyHeads(log)
          /\ \A k \in ToSet(Top.rep.in) : k \in MadeIn(log) /\ k < Top.t
      BY <1>9 DEF RecOK, HeadOK
    <3>2. ~Replaying => Here + 1 = Len(log') + 1  BY <1>4
    <3> QED  BY <1>3, <1>7, <1>8, <1>10, <3>1, <3>2 DEF HeadOK
  <2>2. r.kind = "root" => RootOK(r, current_tock', log')
    <3> SUFFICES ASSUME Top.kind = "root"  PROVE RootOK(r, current_tock', log')
      BY <1>8
    <3>1. Top.t \in RootHeads(log)  BY <1>9 DEF RecOK, RootOK
    <3>2. ~Replaying
      <4>1. Len(replays) = 1  BY <1>1, RootHeight DEF Sound
      <4> QED  BY <4>1 DEF Replaying
    <3>3. Here + 1 = Len(log') + 1  BY <1>4, <3>2
    <3> QED  BY <1>3, <1>7, <1>8, <1>10, <3>1, <3>3 DEF RootOK
  <2>3. r.kind # "value"
    BY <1>8 DEF AtRoot, InBody
  <2>4. TodoOK(r, current_tock', log')  BY <1>8, <1>9 DEF TodoOK, ToSet
  <2>5. ASSUME NEW j \in DOMAIN r.ez  PROVE r.ez[j] # Null
    <3>1. CASE j = Len(Top.ez) + 1  BY <1>4, <1>11, <3>1 DEF Null
    <3>2. CASE j # Len(Top.ez) + 1
      <4>1. j \in 1..Len(Top.ez)  BY <1>2, <1>11, <3>2
      <4> QED  BY <1>9, <1>11, <1>12, <4>1 DEF RecOK
    <3> QED  BY <3>1, <3>2
  <2>6. r.playing => r.kind # "value"  BY <1>8, <1>9 DEF RecOK
  <2> QED  BY <2>1, <2>2, <2>3, <2>4, <2>5, <2>6 DEF RecOK
<1>14. NodeOK([tock |-> current_tock, val |-> Here], log')
  BY <1>4, <1>5 DEF NodeOK
<1>15. Holds(r, log')
  <2>1. Holds(Top, log')  BY <1>2, <1>4, <1>9, NodeGrows
  <2>2. ASSUME NEW j \in DOMAIN r.ez
        PROVE  NodeOK([tock |-> r.t + j, val |-> r.ez[j]], log')
    <3>1. CASE j = Len(Top.ez) + 1
      <4>1. r.t + j = Top.t + (Len(Top.ez) + 1)  BY <1>8, <3>1
      <4>2. Top.t + (Len(Top.ez) + 1) = current_tock
        <5> DEFINE l == Len(Top.ez)
        <5>1. l \in Nat /\ Top.t \in Nat /\ current_tock = Top.t + l + 1  BY <1>2
        <5> HIDE DEF l
        <5>2. Top.t + (l + 1) = current_tock  BY <5>1
        <5> QED  BY <5>2 DEF l
      <4>3. r.ez[j] = Here  BY <1>11, <3>1
      <4> QED  BY <1>14, <4>1, <4>2, <4>3
    <3>2. CASE j # Len(Top.ez) + 1
      <4>1. j \in 1..Len(Top.ez)  BY <1>2, <1>11, <3>2
      <4>2. r.ez[j] = Top.ez[j] /\ Top.ez[j] # Null
        BY <1>9, <1>11, <1>12, <4>1 DEF RecOK
      <4> QED  BY <1>8, <1>12, <2>1, <4>1, <4>2 DEF Holds, EzOK
    <3> QED  BY <3>1, <3>2
  <2> QED  BY <1>8, <2>1, <2>2 DEF Holds, EzOK
<1>16. /\ Len(replays') = Len(replays)
       /\ \A j \in 1..(Len(replays) - 1) : replays'[j] = replays[j]
       /\ replays'[Len(replays)].at = Target.at
       /\ replays'[Len(replays)].tock = Target.tock
       /\ replays'[Len(replays)].got =
            IF current_tock = Target.at THEN Here ELSE Target.got
       /\ \A j \in 1..Len(replays) : replays'[j].tock = replays[j].tock
  <2>1. /\ Target \in Replay /\ Target = replays[Len(replays)]
        /\ replays \in Seq(Replay) /\ replays # <<>>
    BY <1>1, TopFacts DEF Sound, TypeOK
  <2>2. CASE current_tock # Target.at  BY <1>3, <2>1, <2>2
  <2>3. CASE current_tock = Target.at
    <3> DEFINE x == [Target EXCEPT !.got = Here]
    <3>1. /\ x \in Replay /\ x.at = Target.at /\ x.tock = Target.tock /\ x.got = Here
      BY <1>2, <2>1 DEF Replay, Null
    <3>2. replays' = [replays EXCEPT ![Len(replays)] = x]
      BY <1>2, <1>3, <2>1, <2>3
    <3> HIDE DEF x
    <3>3. /\ Len(replays') = Len(replays) /\ replays'[Len(replays)] = x
          /\ \A j \in 1..(Len(replays) - 1) : replays'[j] = replays[j]
      BY <2>1, <3>1, <3>2, ExceptFacts
    <3>4. ASSUME NEW j \in 1..Len(replays)  PROVE replays'[j].tock = replays[j].tock
      <4>1. CASE j = Len(replays)  BY <2>1, <3>1, <3>3, <4>1
      <4>2. CASE j # Len(replays)
        <5>1. j \in 1..(Len(replays) - 1)  BY <1>2, <4>2, NotLast
        <5> QED  BY <3>3, <5>1
      <4> QED  BY <4>1, <4>2
    <3> QED  BY <2>3, <3>1, <3>3, <3>4
  <2> QED  BY <2>2, <2>3
<1>17. Places'
  BY <1>1, <1>3, <1>4, <1>8, <1>13, <1>15, <1>16, TopPlaces
<1>18. ASSUME Replaying
       PROVE  AimOK(replays'[Len(replays)], r, current_tock', log')
  <2> DEFINE rp == replays'[Len(replays)]
  <2>1. AimOK(Target, Top, current_tock, log) /\ log' = log
    BY <1>1, <1>4, <1>18, TargetOK
  <2>2. rp.at = Target.at /\ rp.got = IF current_tock = Target.at THEN Here ELSE Target.got
    BY <1>16
  <2> HIDE DEF rp
  <2>3. CASE current_tock = Target.at
    <3>1. rp.got # Null  BY <1>4, <2>2, <2>3 DEF Null
    <3>2. NodeOK([tock |-> rp.at, val |-> rp.got], log')  BY <1>14, <2>2, <2>3
    <3> QED  BY <1>8, <2>1, <2>2, <3>1, <3>2 DEF AimOK, rp
  <2>4. CASE current_tock # Target.at
    <3>1. Target.at \in Nat
      <4>1. Target.at \in MadeIn(log)  BY <2>1 DEF AimOK
      <4> QED  BY <1>1, <1>2, <4>1, MadeBefore
    <3>2. current_tock =< Target.at => current_tock' =< Target.at
      BY <1>2, <1>3, <2>4, <3>1
    <3> QED  BY <1>8, <2>1, <2>2, <2>4, <3>2 DEF AimOK, rp
  <2> QED  BY <2>3, <2>4
<1>19. Aims' /\ TargetsDecrease'
  BY <1>1, <1>3, <1>4, <1>8, <1>16, <1>18, TopAims
<1>20. Contexts'  BY <1>1, <1>3, <1>4, QuietContexts
<1>21. Kept'
  <2>1. RootSuspended' = RootSuspended /\ records'[1].t = records[1].t
    BY <1>1, <1>3, <1>8, <1>16, TopRoot
  <2>2. ASSUME NEW p \in 1..Len(log'), p \notin 1..Len(log)
        PROVE  /\ log'[p].op # "bind"
               /\ log'[p].op = "make" => \/ log'[p].head \notin RootHeads(log')
                                         \/ ~RootSuspended /\ log'[p].head = records[1].t
    <3>1. log'[p] = e  BY <1>1, <1>4, <2>2, OnlyHereNew
    <3>2. CASE AtRoot
      <4>5. Top.kind = "root"  BY <3>2 DEF AtRoot
      <4>1. Len(records) = 1 /\ Len(replays) = 1
        BY <1>1, <4>5, RootHeight DEF Sound
      <4>2. ~RootSuspended  BY <4>1 DEF RootSuspended
      <4>3. Top = records[1]  BY <1>1, <4>1, TopFacts DEF Sound
      <4> QED  BY <1>5, <3>1, <4>2, <4>3
    <3>3. CASE InBody
      <4>1. Top.t \in BodyHeads(log)  BY <1>1, <3>3, HereOK
      <4>2. Top.t \notin RootHeads(log')  BY <1>4, <1>10, <4>1, TocksApart
      <4> QED  BY <1>5, <3>1, <4>2
    <3> QED  BY <3>2, <3>3
  <2> QED  BY <1>1, <1>3, <1>4, <2>1, <2>2, KeptStep
<1> QED  BY <1>1, <1>4, <1>17, <1>19, <1>20, <1>21 DEF EngineInv

\* An operation of a body: what it does to the history, for all three.
LEMMA BodyEvent ==
  ASSUME EngineInv, InBody, NEW op \in {"tail", "ret"}, NEW in \in Seq(Nat),
         \A k \in ToSet(in) : k \in MadeIn(log), Does(op, in)
  PROVE  /\ log' \in Seq(Event) /\ History(log') /\ Extends(log, log')
         /\ Here \in 1..Len(log') /\ log'[Here] = Now(op, in)
         /\ Replaying => log' = log
         /\ ~Replaying => Len(log') = Here
         /\ Here + 1 \in 2..(Len(log') + 1)
         /\ TockAt(log', Here + 1) = NextTock(Now(op, in))
         /\ HeadAt(log', Here + 1) = NextHead(Now(op, in))
         /\ Ends(Now(op, in)) /\ op # "ret" => current_tock \in BodyHeads(log')
         /\ Top.t \in BodyHeads(log') /\ Top.t \notin RootHeads(log)
         /\ MadeIn(log) \subseteq MadeIn(log')
         /\ \A k \in ToSet(in) : k \in MadeIn(log') /\ k < current_tock
         /\ \A p \in 1..Len(log') : p \notin 1..Len(log) =>
              log'[p].op \notin {"bind", "make"}
<1>1. Sound /\ History(log) /\ Places /\ Aims  BY DEF EngineInv
<1>2. /\ log' \in Seq(Event) /\ History(log') /\ Extends(log, log')
      /\ Here \in 1..Len(log') /\ log'[Here] = Now(op, in)
      /\ Replaying => log' = log
      /\ ~Replaying => Len(log') = Here /\ Here = Len(log) + 1
  BY <1>1, DoesOK
<1> DEFINE e == Now(op, in)
<1>3. e.op = op /\ e.in = in /\ e.tock = current_tock /\ e.head = Top.t  BY DEF Now
<1> HIDE DEF e
<1>4. /\ Here + 1 \in 2..(Len(log') + 1)
      /\ TockAt(log', Here + 1) = NextTock(e) /\ HeadAt(log', Here + 1) = NextHead(e)
      /\ Ends(e) /\ op # "ret" => current_tock \in BodyHeads(log')
  BY <1>2, <1>3, AfterEvent DEF e
<1>5. log \in Seq(Event)  BY <1>1, TopTyped
<1>6. Top.t \in BodyHeads(log)  BY <1>1, HereOK
<1>7. /\ BodyHeads(log) \subseteq BodyHeads(log') /\ MadeIn(log) \subseteq MadeIn(log')
  BY <1>2, <1>5, ExtendsFacts
<1>8. Top.t \notin RootHeads(log)  BY <1>1, <1>5, <1>6, TocksApart
<1>9. \A k \in ToSet(in) : k \in MadeIn(log') /\ k < current_tock
  BY <1>2, <1>3, InputsBefore DEF e
<1>10. ASSUME NEW p \in 1..Len(log'), p \notin 1..Len(log)
       PROVE  log'[p].op \notin {"bind", "make"}
  <2>1. p = Here  BY <1>1, <1>2, <1>10, OnlyHereNew
  <2> QED  BY <1>2, <1>3, <2>1 DEF e
<1> QED  BY <1>2, <1>4, <1>6, <1>7, <1>8, <1>9, <1>10 DEF e

\* The root keeps what it has, whatever a body does.
LEMMA BodyKeeps ==
  ASSUME EngineInv, log' \in Seq(Event), History(log'), Extends(log, log'),
         NEW r \in Record, records' = WithTop(r), replays' = replays, InBody,
         \A s \in DOMAIN akasha : s # Top.t =>
           s \in DOMAIN akasha' /\ akasha'[s] = akasha[s],
         Top.t \notin RootHeads(log),
         \A p \in 1..Len(log') : p \notin 1..Len(log) =>
           log'[p].op \notin {"bind", "make"}
  PROVE  Kept'
<1>1. Sound /\ History(log) /\ Kept  BY DEF EngineInv
<1>2. RootSuspended' = RootSuspended /\ records'[1].t = records[1].t
  <2>1. Top.kind # "root"  BY DEF InBody
  <2>2. Len(records) > 1  BY <1>1, <2>1, RootHeight DEF Sound
  <2> QED  BY <1>1, <2>2, TopRoot
<1>3. \A s \in DOMAIN akasha : s \in RootHeads(log) =>
        s \in DOMAIN akasha' /\ akasha'[s] = akasha[s]
  OBVIOUS
<1> QED  BY <1>1, <1>2, <1>3, KeptStep

\* The replays, after a step of the record on top.
LEMMA BodyStacks ==
  ASSUME EngineInv, log' \in Seq(Event), Extends(log, log'),
         NEW r \in Record, records' = WithTop(r), replays' = replays,
         Replaying => log' = log,
         RecOK(r, current_tock', Replaying, log'), Holds(r, log'),
         Replaying => AimOK(Target, r, current_tock', log)
  PROVE  Places' /\ Aims' /\ TargetsDecrease'
<1>1. Sound /\ Places /\ Aims /\ TargetsDecrease  BY DEF EngineInv
<1>2. Places'  BY <1>1, TopPlaces
<1>3. replays'[Len(replays)] = Target  BY <1>1, TopFacts DEF Sound
<1>4. Aims' /\ TargetsDecrease'  BY <1>1, <1>3, TopAims
<1> QED  BY <1>2, <1>4

\* A tail call within the unroll budget goes on in the same record.
LEMMA UnrolledStep ==
  ASSUME EngineInv, Sound', NEW in \in Args, UnrolledTailCall(in)  PROVE EngineInv'
<1> DEFINE e == Now("tail", in)
<1>1. Sound /\ History(log) /\ Places /\ Aims /\ Contexts  BY DEF EngineInv
<1>2. in \in Seq(Nat) /\ \A k \in ToSet(in) : k \in MadeIn(log)
  BY <1>1, ArgsMade
<1>3. /\ Top \in Record /\ Here \in Nat /\ current_tock \in Nat /\ Top.t \in Nat
      /\ Top.deps \subseteq Nat
  BY <1>1, TopTyped
<1>4. /\ InBody /\ Does("tail", in) /\ current_tock - Top.t < UnrollFactor
      /\ current_tock' = current_tock /\ akasha' = akasha /\ replays' = replays
  BY DEF UnrolledTailCall
<1>5. PICK order \in Orders(in) :
        records' = WithTop([Top EXCEPT
                     !.deps = @ \cup {k \in ToSet(in) : k < Top.t},
                     !.todo = order, !.pos = Here + 1])
  BY DEF UnrolledTailCall
<1> DEFINE r == [Top EXCEPT !.deps = @ \cup {k \in ToSet(in) : k < Top.t},
                            !.todo = order, !.pos = Here + 1]
<1>6. order \in Seq(Nat) /\ ToSet(order) \subseteq ToSet(in)
  BY <1>2, OrdersFacts
<1>7. /\ r \in Record /\ r.kind = Top.kind /\ r.t = Top.t /\ r.ez = Top.ez
      /\ r.rep = Top.rep /\ r.playing = Top.playing /\ r.held = Top.held
      /\ r.todo = order /\ r.pos = Here + 1
  <2>1. /\ Top.deps \cup {k \in ToSet(in) : k < Top.t} \in SUBSET Nat
        /\ Here + 1 \in Nat
    BY <1>2, <1>3, ToSetType
  <2> QED  BY <1>3, <1>6, <2>1 DEF Record
<1>8. records' = WithTop(r)  BY <1>5
<1> HIDE DEF r
<1>9. /\ log' \in Seq(Event) /\ History(log') /\ Extends(log, log')
      /\ Here \in 1..Len(log')
      /\ Replaying => log' = log
      /\ ~Replaying => Len(log') = Here
      /\ Here + 1 \in 2..(Len(log') + 1)
      /\ TockAt(log', Here + 1) = NextTock(e) /\ HeadAt(log', Here + 1) = NextHead(e)
      /\ Top.t \in BodyHeads(log') /\ Top.t \notin RootHeads(log)
      /\ MadeIn(log) \subseteq MadeIn(log')
      /\ \A k \in ToSet(in) : k \in MadeIn(log') /\ k < current_tock
      /\ \A p \in 1..Len(log') : p \notin 1..Len(log) =>
           log'[p].op \notin {"bind", "make"}
  BY <1>2, <1>4, BodyEvent
<1>10. NextTock(e) = current_tock /\ NextHead(e) = Top.t
  <2>1. e.op = "tail" /\ e.tock = current_tock /\ e.head = Top.t  BY DEF Now
  <2>2. ~(current_tock - Top.t >= UnrollFactor)  BY <1>3, <1>4, UnrollAssumption
  <2> HIDE DEF e
  <2> QED  BY <2>1, <2>2 DEF NextTock, NextHead, Ends
<1> HIDE DEF e
<1>11. RecOK(Top, current_tock, Replaying, log) /\ Holds(Top, log)
       /\ Top.kind = "head" /\ Top.playing
  BY <1>1, <1>4, TopOK DEF InBody
<1>12. RecOK(r, current_tock', Replaying, log')
  <2>1. HeadOK(r, current_tock', Replaying, log')
    <3>1. \A k \in ToSet(Top.rep.in) : k \in MadeIn(log) /\ k < Top.t
      BY <1>11 DEF RecOK, HeadOK
    <3>2. ~Replaying => Here + 1 = Len(log') + 1  BY <1>9
    <3> QED  BY <1>4, <1>7, <1>9, <1>10, <3>1, <3>2 DEF HeadOK
  <2>2. TodoOK(r, current_tock', log')
    BY <1>4, <1>6, <1>7, <1>9, <1>11 DEF TodoOK
  <2>3. \A j \in DOMAIN r.ez : r.ez[j] # Null  BY <1>7, <1>11 DEF RecOK
  <2> QED  BY <1>7, <1>11, <2>1, <2>2, <2>3 DEF RecOK
<1>13. Holds(r, log')
  <2>1. log \in Seq(Event)  BY <1>1, TopTyped
  <2>2. Holds(Top, log')  BY <1>9, <1>11, <2>1, NodeGrows
  <2> QED  BY <1>7, <2>2 DEF Holds
<1>14. Replaying => AimOK(Target, r, current_tock', log)
  <2> SUFFICES ASSUME Replaying  PROVE AimOK(Target, r, current_tock', log)
    OBVIOUS
  <2>1. AimOK(Target, Top, current_tock, log)  BY <1>1, TargetOK
  <2> QED  BY <1>4, <1>7, <2>1 DEF AimOK
<1>15. Places' /\ Aims' /\ TargetsDecrease'
  <2>1. /\ log' \in Seq(Event) /\ Extends(log, log') /\ r \in Record
        /\ replays' = replays
        /\ Replaying => log' = log
    BY <1>4, <1>7, <1>9
  <2> QED  BY <1>8, <1>12, <1>13, <1>14, <2>1, BodyStacks
<1>16. Contexts'  BY <1>1, <1>4, <1>9, QuietContexts
<1>17. Kept'  BY <1>4, <1>7, <1>8, <1>9, BodyKeeps
<1> QED  BY <1>9, <1>15, <1>16, <1>17 DEF EngineInv

\* A completed step becomes a context of the history.
LEMMA CompletedOK ==
  ASSUME EngineInv, InBody, log' \in Seq(Event), Extends(log, log'),
         NEW op \in {"tail", "ret"}, NEW in,
         Here \in 1..Len(log'), log'[Here] = Now(op, in), Ends(Now(op, in)),
         Top.t \in BodyHeads(log'),
         NEW rep, rep = IF op = "ret" THEN NoRep ELSE [in |-> in, pos |-> Here + 1],
         Completed(rep)
  PROVE  /\ Contexts'
         /\ \A s \in DOMAIN akasha : s # Top.t =>
              s \in DOMAIN akasha' /\ akasha'[s] = akasha[s]
<1> DEFINE ctx == [kind |-> "full", end_t |-> current_tock, ez |-> Top.ez,
                   end_rep |-> rep, deps |-> Top.deps \cup ToSet(Top.rep.in)]
           e == Now(op, in)
<1>1. Sound /\ Places /\ Contexts  BY DEF EngineInv
<1>2. /\ ctx.kind = "full" /\ ctx.end_t = current_tock /\ ctx.ez = Top.ez
      /\ ctx.end_rep = rep
  OBVIOUS
<1>3. akasha' = Insert(Top.t, ctx)  BY DEF Completed
<1>4. e.op = op /\ e.in = in /\ e.tock = current_tock /\ e.head = Top.t  BY DEF Now
<1>5. Ends(e) /\ log'[Here] = e  OBVIOUS
<1> HIDE DEF ctx, e
<1>6. CtxOK(Top.t, ctx, log')
  <2>1. Here \in DOMAIN log'  BY PlaceFacts
  <2>2. \E p \in DOMAIN log' :
          /\ Ends(log'[p]) /\ log'[p].head = Top.t /\ log'[p].tock = ctx.end_t
          /\ ctx.end_rep = IF log'[p].op = "ret" THEN NoRep
                           ELSE [in |-> log'[p].in, pos |-> p + 1]
          /\ ctx.kind = "root" <=> log'[p].op = "bind"
    BY <1>2, <1>4, <1>5, <2>1
  <2>3. ctx.end_t = Top.t + Len(ctx.ez) + 1  BY <1>1, <1>2, TopTyped
  <2>4. EzOK(Top.t, ctx.ez, log')
    <3>1. Holds(Top, log) /\ log \in Seq(Event)  BY <1>1, TopOK, TopTyped
    <3>2. Holds(Top, log')  BY <3>1, NodeGrows
    <3> QED  BY <1>2, <3>2 DEF Holds
  <2> QED  BY <1>2, <2>2, <2>3, <2>4 DEF CtxOK
<1>7. Contexts'  BY <1>1, <1>3, <1>6, InsertContexts
<1>8. \A s \in DOMAIN akasha : s # Top.t =>
        s \in DOMAIN akasha' /\ akasha'[s] = akasha[s]
  BY <1>3 DEF Insert
<1> QED  BY <1>7, <1>8

\* A tail call past the budget stores the record as a context and starts a
\* record at the same tock.
LEMMA TailCallStep ==
  ASSUME EngineInv, Sound', NEW in \in Args, TailCall(in)  PROVE EngineInv'
<1> DEFINE e == Now("tail", in)
           rep == [in |-> in, pos |-> Here + 1]
           r == HeadRecord(current_tock, rep)
<1>1. Sound /\ History(log) /\ Places /\ Aims  BY DEF EngineInv
<1>2. in \in Seq(Nat) /\ \A k \in ToSet(in) : k \in MadeIn(log)
  BY <1>1, ArgsMade
<1>3. /\ Here \in Nat /\ current_tock \in Nat /\ Top.t \in Nat
      /\ Len(Top.ez) \in Nat /\ current_tock = Top.t + Len(Top.ez) + 1
      /\ log \in Seq(Event)
  BY <1>1, TopTyped
<1>4. /\ InBody /\ Does("tail", in) /\ current_tock - Top.t >= UnrollFactor
      /\ Completed(rep) /\ records' = WithTop(r)
      /\ current_tock' = current_tock + 1 /\ replays' = replays
  BY DEF TailCall
<1>5. /\ r \in Record /\ r.kind = "head" /\ r.t = current_tock /\ r.ez = <<>>
      /\ r.rep = rep /\ r.playing = FALSE /\ r.held = {} /\ r.todo = <<>>
      /\ r.pos = Here + 1
  <2>1. rep \in Replayer  BY <1>2, <1>3 DEF Replayer
  <2>2. r \in Record  BY <1>3, <2>1, RecordTypes
  <2> QED  BY <2>2 DEF HeadRecord
<1>6. rep.in = in /\ rep.pos = Here + 1  OBVIOUS
<1> HIDE DEF r
<1>7. /\ log' \in Seq(Event) /\ History(log') /\ Extends(log, log')
      /\ Here \in 1..Len(log') /\ log'[Here] = e
      /\ Replaying => log' = log
      /\ ~Replaying => Len(log') = Here
      /\ Here + 1 \in 2..(Len(log') + 1)
      /\ TockAt(log', Here + 1) = NextTock(e) /\ HeadAt(log', Here + 1) = NextHead(e)
      /\ Ends(e) => current_tock \in BodyHeads(log')
      /\ Top.t \in BodyHeads(log') /\ Top.t \notin RootHeads(log)
      /\ MadeIn(log) \subseteq MadeIn(log')
      /\ \A k \in ToSet(in) : k \in MadeIn(log') /\ k < current_tock
      /\ \A p \in 1..Len(log') : p \notin 1..Len(log) =>
           log'[p].op \notin {"bind", "make"}
  BY <1>2, <1>4, BodyEvent
<1>8. Ends(e) /\ NextTock(e) = current_tock + 1 /\ NextHead(e) = current_tock
  <2>1. e.op = "tail" /\ e.tock = current_tock /\ e.head = Top.t  BY DEF Now
  <2> HIDE DEF e
  <2> QED  BY <1>4, <2>1 DEF NextTock, NextHead, Ends
<1>9. Contexts' /\ \A s \in DOMAIN akasha : s # Top.t =>
                     s \in DOMAIN akasha' /\ akasha'[s] = akasha[s]
  <2>1. rep = IF "tail" = "ret" THEN NoRep ELSE [in |-> in, pos |-> Here + 1]
    OBVIOUS
  <2> HIDE DEF rep
  <2> QED  BY <1>4, <1>7, <1>8, <2>1, CompletedOK
<1> HIDE DEF e, rep
<1>10. RecOK(r, current_tock', Replaying, log')
  <2>1. HeadOK(r, current_tock', Replaying, log')
    <3>1. ~Replaying => Here + 1 = Len(log') + 1  BY <1>7
    <3> QED  BY <1>4, <1>5, <1>6, <1>7, <1>8, <3>1 DEF HeadOK
  <2>2. TodoOK(r, current_tock', log')  BY <1>5 DEF TodoOK, ToSet
  <2> QED  BY <1>5, <2>1, <2>2 DEF RecOK
<1>11. Holds(r, log')  BY <1>5 DEF Holds, EzOK
<1>12. Replaying => AimOK(Target, r, current_tock', log)
  <2> SUFFICES ASSUME Replaying  PROVE AimOK(Target, r, current_tock', log)
    OBVIOUS
  <2>1. AimOK(Target, Top, current_tock, log) /\ log' = log  BY <1>1, <1>7, TargetOK
  <2>2. Target.at \in MadeIn(log)  BY <2>1 DEF AimOK
  <2>3. Target.at \in Nat /\ current_tock # Target.at
    <3>1. Target.at \in Nat  BY <1>1, <1>3, <2>2, MadeBefore
    <3>2. current_tock \in BodyHeads(log)  BY <1>7, <1>8, <2>1
    <3> QED  BY <1>1, <1>3, <2>2, <3>1, <3>2, TocksApart
  <2>4. ASSUME Target.got = Null
        PROVE  /\ current_tock < Target.at /\ current_tock + 1 =< Target.at
               /\ \A p \in DOMAIN log :
                    current_tock < log[p].tock /\ log[p].tock < Target.at =>
                      log[p].op \notin {"bind", "ret"}
    <3>1. /\ current_tock =< Target.at
          /\ \A p \in DOMAIN log :
               Top.t < log[p].tock /\ log[p].tock < Target.at =>
                 log[p].op \notin {"bind", "ret"}
      BY <2>1, <2>4 DEF AimOK
    <3>2. Top.t < current_tock  BY <1>3
    <3>3. \A p \in DOMAIN log : log[p].tock \in Nat
      BY <1>3, PlaceFacts, EventFacts
    <3>4. current_tock < Target.at /\ current_tock + 1 =< Target.at
      BY <1>3, <2>3, <3>1
    <3>5. \A p \in DOMAIN log : current_tock < log[p].tock => Top.t < log[p].tock
      BY <1>3, <3>2, <3>3
    <3> QED  BY <3>1, <3>4, <3>5
  <2> QED  BY <1>4, <1>5, <2>1, <2>4 DEF AimOK
<1>13. Places' /\ Aims' /\ TargetsDecrease'
  <2>1. /\ log' \in Seq(Event) /\ Extends(log, log') /\ r \in Record
        /\ replays' = replays /\ records' = WithTop(r)
        /\ Replaying => log' = log
    BY <1>4, <1>5, <1>7
  <2> QED  BY <1>10, <1>11, <1>12, <2>1, BodyStacks
<1>14. Kept'  BY <1>4, <1>5, <1>7, <1>9, BodyKeeps
<1> QED  BY <1>7, <1>9, <1>13, <1>14 DEF EngineInv

\* A body returns: its record is stored and its value handed over in a record
\* of its own.
LEMMA FinishStep ==
  ASSUME EngineInv, Sound', Finish  PROVE EngineInv'
<1> DEFINE e == Now("ret", <<>>)
           r == ValueRecord(current_tock)
<1>1. Sound /\ History(log) /\ Places /\ Aims  BY DEF EngineInv
<1>2. <<>> \in Seq(Nat) /\ \A k \in ToSet(<<>>) : k \in MadeIn(log)  BY DEF ToSet
<1>3. /\ Here \in Nat /\ current_tock \in Nat /\ Top.t \in Nat
      /\ Len(Top.ez) \in Nat /\ current_tock = Top.t + Len(Top.ez) + 1
      /\ log \in Seq(Event)
  BY <1>1, TopTyped
<1>4. /\ InBody /\ Does("ret", <<>>) /\ Completed(NoRep) /\ records' = WithTop(r)
      /\ current_tock' = current_tock + 1 /\ replays' = replays
  BY DEF Finish
<1>5. /\ r \in Record /\ r.kind = "value" /\ r.t = current_tock /\ r.ez = <<>>
      /\ r.playing = FALSE /\ r.held = {} /\ r.todo = <<>>
  <2>1. r \in Record  BY <1>3, NoRepType, RecordTypes
  <2> QED  BY <2>1 DEF ValueRecord, RootRecord
<1> HIDE DEF r
<1>6. /\ log' \in Seq(Event) /\ History(log') /\ Extends(log, log')
      /\ Here \in 1..Len(log') /\ log'[Here] = e
      /\ Replaying => log' = log
      /\ ~Replaying => Len(log') = Here
      /\ Top.t \in BodyHeads(log') /\ Top.t \notin RootHeads(log)
      /\ \A p \in 1..Len(log') : p \notin 1..Len(log) =>
           log'[p].op \notin {"bind", "make"}
  BY <1>2, <1>4, BodyEvent
<1>7. e.op = "ret" /\ e.tock = current_tock /\ e.head = Top.t /\ Ends(e)
  BY DEF Now, Ends
<1>8. Contexts' /\ \A s \in DOMAIN akasha : s # Top.t =>
                     s \in DOMAIN akasha' /\ akasha'[s] = akasha[s]
  <2>1. NoRep = IF "ret" = "ret" THEN NoRep ELSE [in |-> <<>>, pos |-> Here + 1]
    OBVIOUS
  <2> QED  BY <1>4, <1>6, <1>7, <2>1, CompletedOK
<1> HIDE DEF e
<1>9. RecOK(r, current_tock', Replaying, log')
  <2>1. ValueOK(r, current_tock', Replaying, log')
    <3>1. log' # <<>>  BY <1>6
    <3> QED  BY <1>4, <1>5, <1>6, <1>7, <3>1 DEF ValueOK
  <2>2. TodoOK(r, current_tock', log')  BY <1>5 DEF TodoOK, ToSet
  <2> QED  BY <1>5, <2>1, <2>2 DEF RecOK
<1>10. Holds(r, log')  BY <1>5 DEF Holds, EzOK
<1>11. Replaying => AimOK(Target, r, current_tock', log)
  <2> SUFFICES ASSUME Replaying  PROVE AimOK(Target, r, current_tock', log)
    OBVIOUS
  <2>1. AimOK(Target, Top, current_tock, log) /\ log' = log  BY <1>1, <1>6, TargetOK
  <2>2. Target.at \in MadeIn(log)  BY <2>1 DEF AimOK
  <2>3. ASSUME Target.got = Null  PROVE FALSE
    <3>1. /\ current_tock =< Target.at
          /\ \A p \in DOMAIN log :
               Top.t < log[p].tock /\ log[p].tock < Target.at =>
                 log[p].op \notin {"bind", "ret"}
      BY <2>1, <2>3 DEF AimOK
    <3>2. PICK q \in 1..Len(log) : log[q].op = "make" /\ log[q].tock = Target.at
      <4>1. DOMAIN log = 1..Len(log)  BY <1>3
      <4> QED  BY <2>2, <4>1 DEF MadeIn
    <3>3. Here \in 1..Len(log) /\ log[Here] = e /\ Here \in DOMAIN log
      BY <1>3, <1>6, <2>1
    <3>4. log[Here].tock # log[q].tock
      BY <1>1, <1>3, <1>7, <3>2, <3>3, EndsApart
    <3>5. log[q].tock \in Nat  BY <1>3, PlaceFacts, EventFacts
    <3>6. current_tock < Target.at  BY <1>3, <1>7, <3>1, <3>2, <3>3, <3>4, <3>5
    <3>7. Top.t < current_tock  BY <1>3
    <3> QED  BY <1>7, <3>1, <3>3, <3>6, <3>7
  <2> QED  BY <1>5, <2>1, <2>3 DEF AimOK
<1>12. Places' /\ Aims' /\ TargetsDecrease'
  <2>1. /\ log' \in Seq(Event) /\ Extends(log, log') /\ r \in Record
        /\ replays' = replays /\ records' = WithTop(r)
        /\ Replaying => log' = log
    BY <1>4, <1>5, <1>6
  <2> QED  BY <1>9, <1>10, <1>11, <2>1, BodyStacks
<1>13. Kept'  BY <1>4, <1>5, <1>6, <1>8, BodyKeeps
<1> QED  BY <1>6, <1>8, <1>12, <1>13 DEF EngineInv

\* A stack of two.
LEMMA TwoRecords ==
  ASSUME NEW S, NEW s \in Seq(S), Len(s) = 1, NEW x \in S
  PROVE  /\ Len(Append(s, x)) = 2 /\ Append(s, x)[1] = s[1] /\ Append(s, x)[2] = x
         /\ DOMAIN Append(s, x) = {1, 2}
<1>1. Append(s, x) \in Seq(S) /\ Len(Append(s, x)) = 2
  <2>1. Append(s, x) \in Seq(S) /\ Len(Append(s, x)) = Len(s) + 1
    BY AppendProperties
  <2> QED  BY <2>1
<1>2. Append(s, x)[1] = s[1] /\ Append(s, x)[2] = x
  <2>1. \A i \in 1..Len(s) : Append(s, x)[i] = s[i]  BY AppendProperties
  <2>2. Append(s, x)[Len(s) + 1] = x  BY AppendProperties
  <2>3. 1 \in 1..Len(s) /\ Len(s) + 1 = 2  OBVIOUS
  <2> QED  BY <2>1, <2>2, <2>3
<1>3. DOMAIN Append(s, x) = 1..2  BY <1>1
<1>4. 1..2 = {1, 2}  OBVIOUS
<1> QED  BY <1>1, <1>2, <1>3, <1>4

\* bindZombie stores what the root code has made so far and plays a head.
LEMMA BindStep ==
  ASSUME EngineInv, Sound', NEW in \in Args, BindZombie(in)  PROVE EngineInv'
<1> DEFINE e == Now("bind", in)
           rep == [in |-> in, pos |-> Here + 1]
           top == [Top EXCEPT !.ez = <<>>]
           head == PlayedHead(current_tock, rep)
           ctx == [kind |-> "root", end_t |-> current_tock, ez |-> Top.ez,
                   end_rep |-> rep, deps |-> {}]
<1>1. Sound /\ History(log) /\ Places /\ Aims /\ Contexts /\ Kept
  BY DEF EngineInv
<1>2. in \in Seq(Nat) /\ \A k \in ToSet(in) : k \in MadeIn(log)
  BY <1>1, ArgsMade
<1>3. /\ Top \in Record /\ Here \in Nat /\ current_tock \in Nat /\ Top.t \in Nat
      /\ Top.ez \in Seq(Nat)
      /\ Len(Top.ez) \in Nat /\ current_tock = Top.t + Len(Top.ez) + 1
      /\ log \in Seq(Event) /\ Len(log) \in Nat /\ DOMAIN log = 1..Len(log)
  BY <1>1, TopTyped
<1>4. /\ AtRoot /\ Does("bind", in) /\ akasha' = Insert(Top.t, ctx)
      /\ records' = Append(WithTop(top), head)
      /\ current_tock' = current_tock + 1 /\ replays' = replays
  BY DEF BindZombie
<1>5. /\ Top.kind = "root" /\ Len(records) = 1 /\ Len(replays) = 1
      /\ Top = records[1] /\ ~Replaying
  <2>1. Top.kind = "root"  BY <1>4 DEF AtRoot
  <2>2. Len(records) = 1 /\ Len(replays) = 1  BY <1>1, <2>1, RootHeight DEF Sound
  <2>3. Top = records[1]  BY <1>1, <2>2, TopFacts DEF Sound
  <2> QED  BY <2>1, <2>2, <2>3 DEF Replaying
<1>6. /\ log' \in Seq(Event) /\ History(log') /\ Extends(log, log')
      /\ Here \in 1..Len(log') /\ log'[Here] = e
      /\ Len(log') = Here /\ Here = Len(log) + 1
      /\ RootHeads(log') = RootHeads(log)
  BY <1>1, <1>2, <1>4, <1>5, DoesOK
<1>7. e.op = "bind" /\ e.in = in /\ e.tock = current_tock /\ e.head = Top.t
      /\ Ends(e) /\ NextTock(e) = current_tock + 1 /\ NextHead(e) = current_tock
  BY DEF Now, Ends, NextTock, NextHead
<1>8. rep \in Replayer /\ rep.in = in /\ rep.pos = Here + 1
  BY <1>2, <1>3 DEF Replayer
<1> HIDE DEF e, rep
<1>9. /\ Here + 1 \in 2..(Len(log') + 1)
      /\ TockAt(log', Here + 1) = current_tock + 1
      /\ HeadAt(log', Here + 1) = current_tock
      /\ current_tock \in BodyHeads(log')
  BY <1>6, <1>7, AfterEvent
<1>10. /\ head \in Record /\ head.kind = "head" /\ head.t = current_tock
       /\ head.ez = <<>> /\ head.rep = rep /\ head.playing = TRUE
       /\ head.held = {} /\ head.todo = in /\ head.pos = Here + 1
  <2>1. head \in Record  BY <1>3, <1>8, RecordTypes
  <2> QED  BY <1>8, <2>1 DEF PlayedHead, HeadRecord
<1>11. /\ top \in Record /\ top.ez = <<>> /\ top.held = Top.held
  <2>1. <<>> \in Seq(Nat)  OBVIOUS
  <2> QED  BY <1>3, <2>1 DEF Record
<1>12. /\ ctx.kind = "root" /\ ctx.end_t = current_tock /\ ctx.ez = Top.ez
       /\ ctx.end_rep = rep
  OBVIOUS
<1> HIDE DEF head, top, ctx
<1>13. Len(records') = 2 /\ records'[1] = top /\ records'[2] = head
       /\ DOMAIN records' = {1, 2}
  <2> DEFINE w == WithTop(top)
  <2>1. w \in Seq(Record) /\ Len(w) = 1 /\ w[1] = top
    BY <1>1, <1>5, <1>11, WithTopFacts DEF Sound
  <2>2. records' = Append(w, head)  BY <1>4 DEF top, head
  <2> HIDE DEF w
  <2> QED  BY <1>10, <2>1, <2>2, TwoRecords
<1>14. \A k \in ToSet(in) : k \in MadeIn(log') /\ k < current_tock
  BY <1>6, <1>7, InputsBefore
<1>15. RecOK(Top, current_tock, Replaying, log) /\ Holds(Top, log) /\ Holds(Top, log')
  <2>1. RecOK(Top, current_tock, Replaying, log) /\ Holds(Top, log)  BY <1>1, TopOK
  <2> QED  BY <1>3, <1>6, <2>1, NodeGrows
<1>16. Places'
  <2>1. Holds(top, log')  BY <1>11, <1>15 DEF Holds, EzOK
  <2>2. Holds(head, log')  BY <1>10 DEF Holds, EzOK
  <2>3. RootSuspended'  BY <1>4, <1>5, <1>13 DEF RootSuspended
  <2>4. ClockOf(2)' = current_tock + 1  BY <1>4, <1>13 DEF ClockOf
  <2>5. ASSUME NEW deep \in BOOLEAN  PROVE RecOK(head, current_tock + 1, deep, log')
    <3>1. HeadOK(head, current_tock + 1, deep, log')
      <4>1. Here + 1 = Len(log') + 1  BY <1>6
      <4> QED  BY <1>8, <1>9, <1>10, <1>14, <4>1 DEF HeadOK
    <3>2. TodoOK(head, current_tock + 1, log')
      <4>1. ToSet(in) \subseteq Nat  BY <1>2, ToSetType
      <4>2. \A k \in ToSet(in) : k < current_tock + 1  BY <1>3, <1>14, <4>1
      <4> QED  BY <1>10, <1>14, <4>2 DEF TodoOK
    <3> QED  BY <1>10, <3>1, <3>2 DEF RecOK
  <2>6. RecOK(head, current_tock + 1, Depth(2)' > 1, log')
    <3>1. (Depth(2)' > 1) \in BOOLEAN  OBVIOUS
    <3> QED  BY <2>5, <3>1
  <2> QED  BY <1>13, <2>1, <2>2, <2>3, <2>4, <2>6 DEF Places
<1>17. Aims' /\ TargetsDecrease'
  <2>1. Len(replays') = 1  BY <1>4, <1>5
  <2> QED  BY <2>1 DEF Aims, TargetsDecrease
<1>18. CtxOK(Top.t, ctx, log')
  <2>1. Here \in DOMAIN log'  BY <1>6, PlaceFacts
  <2>2. \E p \in DOMAIN log' :
          /\ Ends(log'[p]) /\ log'[p].head = Top.t /\ log'[p].tock = ctx.end_t
          /\ ctx.end_rep = IF log'[p].op = "ret" THEN NoRep
                           ELSE [in |-> log'[p].in, pos |-> p + 1]
          /\ ctx.kind = "root" <=> log'[p].op = "bind"
    BY <1>6, <1>7, <1>12, <2>1 DEF rep
  <2>3. Top.t \in RootHeads(log')  BY <1>1, <1>4, <1>6, HereOK
  <2>4. EzOK(Top.t, ctx.ez, log')  BY <1>12, <1>15 DEF Holds
  <2> QED  BY <1>3, <1>12, <2>2, <2>3, <2>4 DEF CtxOK
<1>19. Contexts'  BY <1>1, <1>4, <1>6, <1>18, InsertContexts
<1>20. /\ DOMAIN akasha' = DOMAIN akasha \cup {Top.t} /\ akasha'[Top.t] = ctx
       /\ \A s \in DOMAIN akasha : s # Top.t => akasha'[s] = akasha[s]
  BY <1>4 DEF Insert
<1>21. DOMAIN log' = 1..(Len(log) + 1) /\ \A p \in 1..Len(log) : log'[p] = log[p]
  BY <1>6, PlaceFacts DEF Extends
<1>22. Kept'
  <2>1. ASSUME NEW b \in DOMAIN log', log'[b].op = "bind"
        PROVE  log'[b].head \in RootHeads(log') \cap DOMAIN akasha'
    <3>1. CASE b = Here
      <4>1. Top.t \in RootHeads(log)  BY <1>1, <1>4, HereOK
      <4> QED  BY <1>6, <1>7, <1>20, <3>1, <4>1
    <3>2. CASE b # Here
      <4>1. b \in DOMAIN log /\ log'[b] = log[b]  BY <1>3, <1>6, <1>21, <3>2
      <4> QED  BY <1>1, <1>6, <1>20, <2>1, <4>1 DEF Kept
    <3> QED  BY <3>1, <3>2
  <2>2. ASSUME NEW q \in DOMAIN log', log'[q].op = "make", log'[q].head \in RootHeads(log')
        PROVE  RootKeeps(q)'
    <3>1. q # Here  BY <1>6, <1>7, <2>2
    <3>2. q \in DOMAIN log /\ log'[q] = log[q]  BY <1>3, <1>6, <1>21, <3>1
    <3>3. RootKeeps(q)  BY <1>1, <1>6, <2>2, <3>2 DEF Kept
    <3> DEFINE s == log[q].head
               k == log[q].tock
    <3>4. CASE s = Top.t
      <4>1. k \in Nat /\ k < current_tock
        <5>1. k \in MadeIn(log)  BY <2>2, <3>2 DEF MadeIn
        <5>2. current_tock = TockAt(log, Len(log) + 1)  BY <1>1, <1>4, <1>6, HereOK
        <5> QED  BY <1>1, <1>3, <5>1, <5>2, MadeBefore
      <4>2. s < k  BY <1>1, <3>2 DEF History, HistSteps
      <4> HIDE DEF k, s
      <4>3. k - s \in 1..Len(Top.ez)
        <5> DEFINE l == Len(Top.ez)
        <5>1. l \in Nat /\ Top.t \in Nat /\ current_tock = Top.t + l + 1  BY <1>3
        <5> HIDE DEF l
        <5>2. k - s \in 1..l  BY <3>4, <4>1, <4>2, <5>1
        <5> QED  BY <5>2 DEF l
      <4>4. k - s \in DOMAIN Top.ez  BY <1>3, <4>3
      <4>5. Top.ez[k - s] # Null  BY <1>15, <4>4 DEF RecOK
      <4>6. /\ s \in DOMAIN akasha' /\ k - s \in DOMAIN akasha'[s].ez
            /\ akasha'[s].ez[k - s] # Null
        BY <1>12, <1>20, <3>4, <4>4, <4>5
      <4> QED  BY <3>2, <4>6 DEF RootKeeps, k, s
    <3>5. CASE s # Top.t
      <4>1. s # records[1].t  BY <1>5, <3>5
      <4>2. /\ s \in DOMAIN akasha
            /\ k - s \in DOMAIN akasha[s].ez /\ akasha[s].ez[k - s] # Null
        BY <3>3, <4>1 DEF RootKeeps
      <4>3. s \in DOMAIN akasha' /\ akasha'[s] = akasha[s]  BY <1>20, <3>5, <4>2
      <4> QED  BY <3>2, <4>2, <4>3 DEF RootKeeps
    <3> QED  BY <3>4, <3>5
  <2> QED  BY <2>1, <2>2 DEF Kept
<1> QED  BY <1>6, <1>16, <1>17, <1>19, <1>22 DEF EngineInv

(***************************************************************************)
(* Steps that pop and push                                                 *)
(***************************************************************************)

\* The root goes on where the function's last event left off.
LEMMA PopValueStep ==
  ASSUME EngineInv, Sound', PopValue  PROVE EngineInv'
<1> DEFINE r == [records[1] EXCEPT !.t = current_tock]
           l == Len(log)
<1>1. Sound /\ History(log) /\ Places /\ Aims /\ Contexts /\ Kept
  BY DEF EngineInv
<1>2. /\ current_tock \in Nat /\ log \in Seq(Event) /\ Len(log) \in Nat
      /\ DOMAIN log = 1..Len(log)
  BY <1>1, TopTyped
<1>3. /\ ~Replaying /\ Top.kind = "value" /\ current_tock' = current_tock + 1
      /\ akasha' = akasha /\ replays' = replays /\ log' = log
      /\ records' = LET rest == Front(records)
                    IN  [rest EXCEPT ![Len(rest)].t = current_tock]
  BY DEF PopValue
<1>4. Len(replays) = 1 /\ Len(records) = 2 /\ RootSuspended
  <2> DEFINE n == Len(records)
             m == Len(replays)
  <2>1. n \in Nat \ {0} /\ m \in Nat \ {0} /\ ~(m > 1) /\ n > 1 /\ n \in {m, m + 1}
    BY <1>1, <1>3, TopTyped, RootHeight DEF Sound, StackOK, Replaying
  <2> HIDE DEF n, m
  <2>2. m = 1 /\ n = 2  BY <2>1
  <2> QED  BY <2>2 DEF n, m, RootSuspended
<1>5. /\ Len(Front(records)) = 1 /\ Front(records)[1] = records[1]
      /\ Front(records) \in Seq(Record)
  <2>1. records \in Seq(Record)  BY <1>1 DEF Sound, TypeOK
  <2>2. Len(records) > 1 /\ Len(records) - 1 = 1 /\ 1 \in 1..1  BY <1>4
  <2>3. /\ Len(Front(records)) = Len(records) - 1
        /\ \A i \in 1..(Len(records) - 1) : Front(records)[i] = records[i]
        /\ Front(records) \in Seq(Record)
    BY <2>1, <2>2, PopFacts
  <2> QED  BY <2>2, <2>3
<1>6. Len(records') = 1 /\ records'[1] = r /\ DOMAIN records' = {1}
  <2> DEFINE w == Front(records)
  <2>1. records' = [w EXCEPT ![1].t = current_tock]  BY <1>3, <1>5
  <2>2. Len(w) = 1 /\ w[1] = records[1] /\ w \in Seq(Record)  BY <1>5
  <2> HIDE DEF w
  <2>3. DOMAIN w = {1}  BY <2>2
  <2>4. records'[1] = r /\ DOMAIN records' = {1}  BY <2>1, <2>2, <2>3
  <2>5. records' \in Seq(Record)  BY DEF Sound, TypeOK
  <2>6. Len(records') = 1
    <3>1. DOMAIN records' = 1..Len(records') /\ Len(records') \in Nat  BY <2>5
    <3> DEFINE k == Len(records')
    <3>2. k \in Nat /\ 1..k = {1}  BY <2>4, <3>1
    <3> HIDE DEF k
    <3>3. 1 \in 1..k /\ k \in 1..k  BY <3>2
    <3>4. k = 1  BY <3>2, <3>3
    <3> QED  BY <3>4 DEF k
  <2> QED  BY <2>4, <2>6
<1>7. /\ log # <<>> /\ log[l].op = "ret"
      /\ Top.t = log[l].tock /\ current_tock = Top.t + 1
  BY <1>1, <1>3, TopOK DEF RecOK, ValueOK
<1>8. l \in 1..Len(log) /\ log[l] \in Event /\ log[l].tock \in Nat
  <2>1. l \in 1..Len(log)  BY <1>2, <1>7
  <2> QED  BY <1>2, <2>1, PlaceFacts, EventFacts
<1>9. /\ TockAt(log, l + 1) = NextTock(log[l]) /\ HeadAt(log, l + 1) = NextHead(log[l])
      /\ log[l].tock + 1 \in RootHeads(log)
  BY <1>2, <1>7, <1>8, AfterEvent
<1>10. /\ TockAt(log, l + 1) = current_tock + 1 /\ HeadAt(log, l + 1) = current_tock
       /\ current_tock \in RootHeads(log)
  BY <1>7, <1>8, <1>9 DEF NextTock, NextHead
<1>11. /\ records[1] \in Record /\ records[1].kind = "root" /\ records[1].todo = <<>>
       /\ records[1].ez = <<>> /\ Holds(records[1], log)
  <2>1. 1 \in DOMAIN records /\ records \in Seq(Record)
    BY <1>1, <1>4 DEF Sound, TypeOK
  <2>2. records[1] \in Record  BY <2>1
  <2> QED  BY <1>1, <1>4, <2>1, <2>2 DEF Sound, StackOK, Places
<1>12. /\ r.kind = "root" /\ r.t = current_tock /\ r.todo = <<>> /\ r.ez = <<>>
       /\ r.held = records[1].held
  BY <1>11 DEF Record
<1> HIDE DEF r
<1>13. RecOK(r, current_tock + 1, FALSE, log) /\ Holds(r, log)
  <2>1. RootOK(r, current_tock + 1, log)  BY <1>10, <1>12 DEF RootOK
  <2>2. TodoOK(r, current_tock + 1, log)  BY <1>12 DEF TodoOK, ToSet
  <2>3. Holds(r, log)  BY <1>11, <1>12 DEF Holds, EzOK
  <2> QED  BY <1>12, <2>1, <2>2, <2>3 DEF RecOK
<1>14. Places'
  <2>1. ClockOf(1)' = current_tock + 1  BY <1>3, <1>6 DEF ClockOf
  <2>2. (Depth(1)' > 1) = FALSE  BY <1>3, <1>4, <1>6 DEF Depth
  <2> QED  BY <1>3, <1>6, <1>13, <2>1, <2>2 DEF Places
<1>15. Aims' /\ TargetsDecrease'
  <2>1. Len(replays') = 1  BY <1>3, <1>4
  <2> QED  BY <2>1 DEF Aims, TargetsDecrease
<1>16. Contexts'  BY <1>1, <1>3 DEF Contexts
<1>17. Kept'
  <2>1. \A q \in DOMAIN log : RootKeeps(q) => RootKeeps(q)'
    BY <1>3, <1>4 DEF RootKeeps
  <2> QED  BY <1>1, <1>3, <2>1 DEF Kept
<1>18. History(log')  BY <1>1, <1>3
<1> QED  BY <1>14, <1>15, <1>16, <1>17, <1>18 DEF EngineInv

\* The value goes to the record that asked for it, which goes on where and when
\* it was.
LEMMA EndReplayStep ==
  ASSUME EngineInv, Sound', EndReplay  PROVE EngineInv'
<1> DEFINE n == Len(records)
           m == Len(replays)
           b == n - 1
           node == [tock |-> Target.at, val |-> Target.got]
           r == [records[b] EXCEPT !.todo = Tail(@), !.held = @ \cup {node}]
<1>1. Sound /\ History(log) /\ Places /\ Aims /\ TargetsDecrease /\ Contexts /\ Kept
  BY DEF EngineInv
<1>2. /\ Replaying /\ Target.got # Null /\ current_tock' = Target.tock
      /\ replays' = Front(replays) /\ akasha' = akasha /\ log' = log
      /\ records' = LET rest == Front(records)
                    IN  [rest EXCEPT ![Len(rest)].todo = Tail(@),
                                     ![Len(rest)].held = @ \cup {node}]
  BY DEF EndReplay
<1>3. /\ n \in Nat /\ m \in Nat /\ m > 1 /\ n > 1 /\ n \in {m, m + 1}
      /\ DOMAIN records = 1..n /\ Target = replays[m]
      /\ records \in Seq(Record) /\ replays \in Seq(Replay)
  <2>1. /\ n \in Nat \ {0} /\ m \in Nat \ {0} /\ m > 1 /\ n \in {m, m + 1}
        /\ records \in Seq(Record) /\ replays \in Seq(Replay)
    BY <1>1, <1>2, TopTyped DEF Sound, TypeOK, StackOK, Replaying
  <2>2. DOMAIN records = 1..n  BY <1>1, TopTyped
  <2>3. Target = replays[m]  BY <1>1, TopFacts DEF Sound
  <2> HIDE DEF n, m
  <2> QED  BY <2>1, <2>2, <2>3
<1>3n. n \in Nat /\ m \in Nat /\ m > 1 /\ n > 1 /\ n \in {m, m + 1}
  BY <1>3
<1>4. /\ Len(replays') = m - 1 /\ \A j \in 1..(m - 1) : replays'[j] = replays[j]
  BY <1>2, <1>3, PopFacts
<1>5. /\ Len(Front(records)) = b /\ Front(records) \in Seq(Record)
      /\ \A i \in 1..b : Front(records)[i] = records[i]
  BY <1>3, PopFacts
<1>6. b \in 1..n /\ b \in Nat /\ b # n /\ b \in 1..b
  <2> HIDE DEF n, m
  <2> QED  BY <1>3n
<1>7. /\ Len(records') = b /\ records'[b] = r /\ DOMAIN records' = 1..b
      /\ \A i \in 1..b : i # b => records'[i] = records[i]
  <2> DEFINE w == Front(records)
  <2>1. records' = [w EXCEPT ![b] = [w[b] EXCEPT !.todo = Tail(@), !.held = @ \cup {node}]]
    BY <1>2, <1>5
  <2>2. Len(w) = b /\ w \in Seq(Record) /\ \A i \in 1..b : w[i] = records[i]  BY <1>5
  <2> HIDE DEF w, b, node
  <2>3. DOMAIN w = 1..b  BY <2>2
  <2>4. /\ records'[b] = [w[b] EXCEPT !.todo = Tail(@), !.held = @ \cup {node}]
        /\ DOMAIN records' = 1..b
        /\ \A i \in 1..b : i # b => records'[i] = w[i]
    BY <1>6, <2>1, <2>3
  <2>5. records' \in Seq(Record)  BY DEF Sound, TypeOK
  <2>6. Len(records') = b
    <3>1. DOMAIN records' = 1..Len(records') /\ Len(records') \in Nat  BY <2>5
    <3> DEFINE k == Len(records')
    <3>2. k \in Nat /\ 1..k = 1..b  BY <2>4, <3>1
    <3> HIDE DEF k
    <3>3. b \in 1..k /\ k \in 1..b  BY <1>6, <3>2
    <3>4. k = b  BY <1>6, <3>2, <3>3
    <3> QED  BY <3>4 DEF k
  <2>7. w[b] = records[b]  BY <1>6, <2>2
  <2> QED  BY <2>2, <2>4, <2>6, <2>7
<1>8. /\ Depth(b) = m - 1 /\ ClockOf(b) = Target.tock /\ ~(b = 1 /\ RootSuspended)
      /\ \A i \in 1..b : Depth(i) = m - n + i
  <2>1. \A i \in 1..b : Depth(i) = m - n + i  BY DEF Depth
  <2>2. Depth(b) = m - 1
    <3>1. Depth(b) = m - n + b  BY <1>6, <2>1
    <3> HIDE DEF n, m
    <3> QED  BY <1>3n, <3>1
  <2>3. ClockOf(b) = replays[m].tock
    <3>1. ClockOf(b) = replays[Depth(b) + 1].tock  BY <1>6 DEF ClockOf
    <3>2. m - 1 + 1 = m
      <4> HIDE DEF n, m
      <4> QED  BY <1>3n
    <3> QED  BY <2>2, <3>1, <3>2
  <2>4. ~(b = 1 /\ RootSuspended)
    <3>1. RootSuspended => n > m  BY DEF RootSuspended
    <3>2. b = 1 => n = 2
      <4> HIDE DEF n, m
      <4> QED  BY <1>3n
    <3>3. n = 2 => ~(n > m)
      <4> HIDE DEF n, m
      <4> QED  BY <1>3n
    <3> QED  BY <3>1, <3>2, <3>3
  <2> QED  BY <1>3, <2>1, <2>2, <2>3, <2>4
<1>9. /\ RecOK(records[b], Target.tock, Depth(b) > 1, log) /\ Holds(records[b], log)
  <2> HIDE DEF b
  <2> QED  BY <1>1, <1>3, <1>6, <1>8 DEF Places
<1>10. /\ records[b] \in Record /\ records[b].todo \in Seq(Nat)
       /\ records[b].todo # <<>> /\ records[b].held \subseteq Node
  <2>1. Depth(b) \in 1..(m - 1)
    <3> HIDE DEF n, m
    <3> QED  BY <1>3n, <1>8
  <2>2. records[b].todo # <<>>
    <3> HIDE DEF b
    <3> QED  BY <1>1, <1>3, <1>6, <2>1 DEF Sound, StackOK, m
  <2>3. records[b] \in Record
    <3>1. b \in DOMAIN records /\ records \in Seq(Record)  BY <1>3, <1>6
    <3> HIDE DEF b
    <3> QED  BY <3>1
  <2> QED  BY <2>2, <2>3 DEF Record
<1>11. /\ r.kind = records[b].kind /\ r.t = records[b].t /\ r.ez = records[b].ez
       /\ r.rep = records[b].rep /\ r.playing = records[b].playing
       /\ r.pos = records[b].pos /\ r.todo = Tail(records[b].todo)
       /\ r.held = records[b].held \cup {node}
  <2> HIDE DEF b, node
  <2> QED  BY <1>10 DEF Record
<1>12. NodeOK(node, log)
  <2>1. AimOK(Target, Top, current_tock, log)  BY <1>1, <1>2, TargetOK
  <2> QED  BY <1>2, <2>1 DEF AimOK
<1> HIDE DEF r, node
<1>13. RecOK(r, Target.tock, Depth(b) > 1, log) /\ Holds(r, log)
  <2> DEFINE d == Depth(b) > 1
             q == records[b]
  <2>1. RecOK(q, Target.tock, d, log) /\ Holds(q, log)  BY <1>9
  <2>2. /\ r.kind = q.kind /\ r.t = q.t /\ r.ez = q.ez
        /\ r.rep = q.rep /\ r.playing = q.playing
        /\ r.pos = q.pos /\ r.todo = Tail(q.todo)
        /\ r.held = q.held \cup {node}
    BY <1>11
  <2>3. q.todo \in Seq(Nat) /\ q.todo # <<>>  BY <1>10
  <2> HIDE DEF d, q
  <2>4. TodoOK(r, Target.tock, log)
    <3>1. ToSet(r.todo) \subseteq ToSet(q.todo)  BY <2>2, <2>3, HeadTail
    <3>2. TodoOK(q, Target.tock, log)  BY <2>1 DEF RecOK
    <3> QED  BY <2>2, <2>3, <3>1, <3>2 DEF TodoOK
  <2>5. r.kind = "head" => HeadOK(r, Target.tock, d, log)
    BY <2>1, <2>2 DEF RecOK, HeadOK
  <2>6. r.kind = "value" => ValueOK(r, Target.tock, d, log)
    BY <2>1, <2>2 DEF RecOK, ValueOK
  <2>7. r.kind = "root" => RootOK(r, Target.tock, log)
    BY <2>1, <2>2 DEF RecOK, RootOK
  <2>8. RecOK(r, Target.tock, d, log)
    BY <2>1, <2>2, <2>4, <2>5, <2>6, <2>7 DEF RecOK
  <2>9. Holds(r, log)  BY <1>12, <2>1, <2>2 DEF Holds
  <2> QED  BY <2>8, <2>9 DEF d
<1>14. \A i \in 1..b : Depth(i)' = Depth(i) /\ ClockOf(i)' = ClockOf(i)
  <2> SUFFICES ASSUME NEW i \in 1..b
               PROVE  Depth(i)' = Depth(i) /\ ClockOf(i)' = ClockOf(i)
    OBVIOUS
  <2>1. Depth(i)' = (m - 1) - b + i /\ Depth(i) = m - n + i
    BY <1>4, <1>7, <1>8 DEF Depth
  <2>2. Depth(i)' = Depth(i)
    <3> HIDE DEF n, m
    <3> QED  BY <1>3n, <1>6, <2>1
  <2>3. CASE i = b
    <3>1. ClockOf(i)' = current_tock'  BY <1>7, <2>3 DEF ClockOf
    <3> QED  BY <1>2, <1>8, <2>2, <2>3, <3>1
  <2>4. CASE i # b
    <3>1. ClockOf(i)' = replays'[Depth(i) + 1].tock  BY <1>7, <2>2, <2>4 DEF ClockOf
    <3>2. ClockOf(i) = replays[Depth(i) + 1].tock
      <4>1. i # n
        <5> HIDE DEF n, m
        <5> QED  BY <1>3n
      <4> QED  BY <4>1 DEF ClockOf
    <3>3. Depth(i) + 1 =< m - 1
      <4> HIDE DEF n, m
      <4> QED  BY <1>3n, <1>6, <2>1, <2>4
    <3>4. CASE Depth(i) + 1 \in 1..(m - 1)  BY <1>4, <2>2, <3>1, <3>2, <3>4
    <3>5. CASE Depth(i) + 1 \notin 1..(m - 1)
      <4>1. Depth(i) < 0
        <5> HIDE DEF n, m
        <5> QED  BY <1>3n, <1>6, <2>1, <3>3, <3>5
      <4>2. FALSE
        <5> HIDE DEF n, m
        <5> QED  BY <1>3n, <1>6, <2>1, <4>1
      <4> QED  BY <4>2
    <3> QED  BY <3>4, <3>5
  <2> QED  BY <2>2, <2>3, <2>4
<1>15. RootSuspended' = RootSuspended /\ records'[1].t = records[1].t
  <2>1. RootSuspended' = (b > m - 1) /\ RootSuspended = (n > m)
    BY <1>4, <1>7 DEF RootSuspended
  <2>2. (b > m - 1) = (n > m)
    <3> HIDE DEF n, m
    <3> QED  BY <1>3n
  <2>3. 1 \in 1..b
    <3> HIDE DEF n, m
    <3> QED  BY <1>3n
  <2> QED  BY <1>7, <1>11, <2>1, <2>2, <2>3
<1>16. Places'
  <2> SUFFICES ASSUME NEW i \in 1..b
               PROVE  /\ Holds(records'[i], log)
                      /\ \/ i = 1 /\ RootSuspended
                         \/ RecOK(records'[i], ClockOf(i), Depth(i) > 1, log)
    BY <1>2, <1>7, <1>14, <1>15 DEF Places
  <2>1. CASE i = b  BY <1>7, <1>8, <1>13, <2>1
  <2>2. CASE i # b
    <3>1. records'[i] = records[i] /\ i \in DOMAIN records
      <4>1. i \in 1..n
        <5> HIDE DEF n, m
        <5> QED  BY <1>3n
      <4> QED  BY <1>3, <1>7, <2>2, <4>1
    <3> QED  BY <1>1, <3>1 DEF Places
  <2> QED  BY <2>1, <2>2
<1>17. Aims'
  <2> SUFFICES ASSUME NEW j \in 2..(m - 1)
               PROVE  AimOK(replays'[j], records'[Runner(j)'], ClockOf(Runner(j))', log)
    BY <1>2, <1>4 DEF Aims
  <2>1. j \in 1..(m - 1) /\ j \in 2..m
    <3> HIDE DEF n, m
    <3> QED  BY <1>3n
  <2>2. Runner(j)' = j + b - (m - 1) /\ Runner(j) = j + n - m
    BY <1>4, <1>7 DEF Runner
  <2>3. Runner(j)' = Runner(j) /\ Runner(j) \in 1..b
    <3> HIDE DEF n, m
    <3> QED  BY <1>3n, <1>6, <2>2
  <2> DEFINE i == Runner(j)
  <2>4. ClockOf(Runner(j))' = ClockOf(Runner(j))
    <3>1. \E k \in 1..b : Runner(j)' = k /\ Runner(j) = k  BY <2>3
    <3>2. PICK k \in 1..b : Runner(j)' = k /\ Runner(j) = k  BY <3>1
    <3>3. ClockOf(Runner(j))' = ClockOf(k)'  BY <3>2 DEF ClockOf, Depth
    <3> QED  BY <1>14, <3>2, <3>3
  <2>5. replays'[j] = replays[j]  BY <1>4, <2>1
  <2>6. AimOK(replays[j], records[Runner(j)], ClockOf(Runner(j)), log)
    BY <1>1, <2>1 DEF Aims
  <2>7. /\ records'[Runner(j)].kind = records[Runner(j)].kind
        /\ records'[Runner(j)].t = records[Runner(j)].t
        /\ records'[Runner(j)].playing = records[Runner(j)].playing
    BY <1>7, <1>11, <2>3
  <2> QED  BY <2>3, <2>4, <2>5, <2>6, <2>7 DEF AimOK
<1>18. TargetsDecrease'
  <2> SUFFICES ASSUME NEW i \in 2..(m - 1), NEW j \in 2..(m - 1), i < j
               PROVE  replays'[j].at < replays'[i].at
    BY <1>4 DEF TargetsDecrease
  <2>1. /\ i \in 1..(m - 1) /\ j \in 1..(m - 1) /\ i \in 2..m /\ j \in 2..m
    <3> HIDE DEF n, m
    <3> QED  BY <1>3n
  <2> QED  BY <1>1, <1>4, <2>1 DEF TargetsDecrease
<1>19. Contexts'  BY <1>1, <1>2 DEF Contexts
<1>20. Kept'
  <2>1. \A q \in DOMAIN log : RootKeeps(q) => RootKeeps(q)'
    BY <1>2, <1>15 DEF RootKeeps
  <2> QED  BY <1>1, <1>2, <2>1 DEF Kept
<1>21. History(log')  BY <1>1, <1>2
<1> QED  BY <1>16, <1>17, <1>18, <1>19, <1>20, <1>21 DEF EngineInv

\* A tock that is no slot of a record, before the clock it has reached.
LEMMA NotOfRecord ==
  ASSUME NEW k \in Nat, NEW t \in Nat, NEW e \in Nat, NEW c \in Nat,
         c = t + e + 1, k < c, k # t, k - t \notin 1..e
  PROVE  k < t
OBVIOUS

\* A value that is not to be had was made before the running record, which
\* keeps its own zombies, and so there is a context to run from.
LEMMA AskedBefore ==
  ASSUME Sound, History(log), Places, Aims, Contexts, Kept,
         ~UserCode, ~MustHit(Head(Top.todo))
  PROVE  /\ Head(Top.todo) \in MadeIn(log) /\ Head(Top.todo) < Top.t
         /\ Top.t =< HeadAt(log, Len(log) + 1)
         /\ Replaying => Head(Top.todo) < Target.at
         /\ FromBase(Head(Top.todo))
<1> DEFINE k == Head(Top.todo)
           l == Len(log)
<1>1. /\ Top.t \in Nat /\ current_tock \in Nat /\ Top.todo \in Seq(Nat)
      /\ Len(Top.ez) \in Nat /\ DOMAIN Top.ez = 1..Len(Top.ez)
      /\ current_tock = Top.t + Len(Top.ez) + 1
      /\ log \in Seq(Event) /\ l \in Nat /\ DOMAIN log = 1..l
  <2>1. Top.ez \in Seq(Nat)  BY TopTyped
  <2> QED  BY <2>1, TopTyped
<1>2. RecOK(Top, current_tock, Replaying, log) /\ Top.todo # <<>>
  BY TopOK DEF UserCode
<1>3. /\ k \in MadeIn(log) /\ k < current_tock
      /\ Top.kind = "root" \/ (Top.kind = "head" /\ Top.playing)
  BY <1>1, <1>2, HeadTail DEF RecOK, TodoOK
<1>4. ~Stored(k) /\ k - Top.t \notin DOMAIN Top.ez  BY DEF MustHit
<1>5. k \in Nat /\ HeadAt(log, l + 1) \in Nat
  <2>1. l + 1 \in 1..(l + 1)  BY <1>1
  <2> QED  BY <1>1, <1>3, <2>1, MadeBefore, PlaceFacts
<1> HIDE DEF k, l
<1>6. Top.t \in RootHeads(log) \cup BodyHeads(log)
  BY <1>2, <1>3 DEF RecOK, RootOK, HeadOK
<1>7. k < Top.t
  <2> SUFFICES ASSUME ~(k < Top.t)  PROVE FALSE
    OBVIOUS
  <2>1. k # Top.t  BY <1>1, <1>3, <1>6, TocksApart
  <2> DEFINE e == Len(Top.ez)
  <2>2. e \in Nat /\ current_tock = Top.t + e + 1  BY <1>1
  <2>3. k - Top.t \notin 1..e  BY <1>1, <1>4
  <2> HIDE DEF e
  <2>4. Top.t \in Nat /\ current_tock \in Nat /\ k \in Nat /\ k < current_tock
    BY <1>1, <1>3, <1>5
  <2> QED  BY <2>1, <2>2, <2>3, <2>4, NotOfRecord
<1>8. Top.t =< HeadAt(log, l + 1)
  <2>1. CASE Top.kind = "root"
    <3>1. Top.t = HeadAt(log, l + 1)  BY <1>2, <2>1 DEF RecOK, RootOK, l
    <3> QED  BY <1>1, <3>1
  <2>2. CASE Top.kind = "head"
    <3>1. Top.pos \in 2..(l + 1) /\ Top.t = HeadAt(log, Top.pos)
      BY <1>2, <2>2 DEF RecOK, HeadOK, l
    <3>2. /\ Top.pos - 1 \in DOMAIN log /\ Top.pos # 1
          /\ l + 1 \in (Top.pos - 1 + 1)..(l + 1)
      <4> DEFINE p == Top.pos
      <4>1. p \in 2..(l + 1) /\ l \in Nat /\ DOMAIN log = 1..l  BY <1>1, <3>1
      <4> HIDE DEF p
      <4>2. p \in Nat /\ p >= 2 /\ p =< l + 1  BY <4>1
      <4>3. p - 1 \in 1..l /\ p # 1 /\ p - 1 + 1 = p  BY <4>1, <4>2
      <4>4. l + 1 \in p..(l + 1)  BY <4>1, <4>2
      <4>5. p - 1 \in DOMAIN log /\ l + 1 \in (p - 1 + 1)..(l + 1)
        BY <4>1, <4>3, <4>4
      <4> QED  BY <4>3, <4>5 DEF p
    <3>3. NextHead(log[Top.pos - 1]) =< HeadAt(log, l + 1)
      BY <3>2 DEF History, HistOrder, l
    <3> QED  BY <3>1, <3>2, <3>3 DEF HeadAt
  <2> QED  BY <1>3, <2>1, <2>2
<1>9. ASSUME Replaying
      PROVE  /\ Top.kind = "head" /\ Top.t < Target.at
             /\ Target.at < HeadAt(log, l + 1) /\ Target.at \in Nat
  <2>1. Top.kind # "root"
    <3> SUFFICES ASSUME Top.kind = "root"  PROVE FALSE
      OBVIOUS
    <3>1. Len(replays) = 1  BY RootHeight DEF Sound
    <3> QED  BY <1>9, <3>1 DEF Replaying
  <2>2. AimOK(Target, Top, current_tock, log)  BY <1>9, TargetOK
  <2>3. Target.at \in Nat  BY <1>1, <2>2, MadeBefore DEF AimOK
  <2> QED  BY <1>3, <2>1, <2>2, <2>3 DEF AimOK, l
<1>10. Replaying => k < Target.at  BY <1>1, <1>5, <1>7, <1>9
<1>11. ASSUME ~RootSuspended, records[1].t < k, k - records[1].t \in DOMAIN records[1].ez
       PROVE  FALSE
  <2>1. CASE Top.kind = "root"
    <3>1. Len(records) = 1  BY <2>1, RootHeight DEF Sound
    <3>2. Top = records[1]  BY <3>1, TopFacts DEF Sound
    <3> QED  BY <1>4, <1>11, <3>2
  <2>2. CASE Top.kind # "root"
    <3> DEFINE n == Len(records)
               m == Len(replays)
    <3>1. n > 1 /\ n \in {m, m + 1} /\ ~(n > m) /\ n \in Nat /\ m \in Nat
          /\ 1 \in DOMAIN records /\ records \in Seq(Record)
      <4>1. n \in Nat \ {0} /\ m \in Nat \ {0} /\ DOMAIN records = 1..n  BY TopTyped
      <4>2. n > 1 /\ n \in {m, m + 1}  BY <2>2, RootHeight DEF Sound, StackOK
      <4>3. ~(n > m) /\ records \in Seq(Record)
        BY <1>11 DEF RootSuspended, Sound, TypeOK
      <4>4. 1 \in 1..n
        <5> HIDE DEF n
        <5> QED  BY <4>1
      <4> QED  BY <4>1, <4>2, <4>3, <4>4
    <3>2. Replaying
      <4>1. n > 1 /\ n \in {m, m + 1} /\ ~(n > m) /\ n \in Nat /\ m \in Nat  BY <3>1
      <4>2. m > 1
        <5> HIDE DEF n, m
        <5> QED  BY <4>1
      <4> QED  BY <4>2 DEF Replaying
    <3>3. records[1].kind = "root" /\ RecOK(records[1], ClockOf(1), Depth(1) > 1, log)
      BY <1>11, <3>1 DEF Sound, StackOK, Places
    <3>4. records[1].t = HeadAt(log, l + 1)  BY <3>3 DEF RecOK, RootOK, l
    <3> QED  BY <1>1, <1>5, <1>7, <1>9, <1>11, <3>2, <3>4
  <2> QED  BY <2>1, <2>2
<1>12. FromBase(k)  BY <1>3, <1>4, <1>11, RecoverableCases
<1> QED  BY <1>3, <1>7, <1>8, <1>10, <1>12 DEF k, l

\* A head that replays: it begins where its context ended.
LEMMA ReplayHead ==
  ASSUME Sound, History(log), Contexts, NEW s \in DOMAIN akasha,
         akasha[s].end_rep # NoRep
  PROVE  LET end_t == akasha[s].end_t
             head  == PlayedHead(end_t, akasha[s].end_rep)
         IN  /\ head \in Record /\ end_t \in Nat
             /\ RecOK(head, end_t + 1, TRUE, log) /\ Holds(head, log)
             /\ head.kind = "head" /\ head.t = end_t
<1> DEFINE end_t == akasha[s].end_t
           rep == akasha[s].end_rep
           head == PlayedHead(end_t, rep)
<1>1. end_t \in Nat /\ rep \in Replayer /\ log \in Seq(Event)
  BY ContextEnd DEF Context, Sound, TypeOK
<1>2. PICK p \in 1..Len(log) :
        /\ Ends(log[p]) /\ log[p].head = s /\ log[p].tock = akasha[s].end_t
        /\ akasha[s].end_rep = IF log[p].op = "ret" THEN NoRep
                               ELSE [in |-> log[p].in, pos |-> p + 1]
        /\ akasha[s].kind = "root" <=> log[p].op = "bind"
  BY ContextEvent
<1>3. log[p].op # "ret" /\ rep.in = log[p].in /\ rep.pos = p + 1
  BY <1>2
<1>4. /\ head \in Record /\ head.kind = "head" /\ head.t = end_t /\ head.ez = <<>>
      /\ head.rep = rep /\ head.held = {} /\ head.todo = rep.in
      /\ head.pos = p + 1 /\ head.playing = TRUE
  <2>1. head \in Record  BY <1>1, RecordTypes
  <2> QED  BY <1>3, <2>1 DEF PlayedHead, HeadRecord
<1>5. /\ p + 1 \in 2..(Len(log) + 1) /\ TockAt(log, p + 1) = end_t + 1
      /\ HeadAt(log, p + 1) = end_t /\ end_t \in BodyHeads(log)
  <2>1. NextTock(log[p]) = end_t + 1 /\ NextHead(log[p]) = end_t
    BY <1>2, <1>3 DEF NextTock, NextHead
  <2> QED  BY <1>1, <1>2, <1>3, <2>1, AfterEvent
<1>6. \A k \in ToSet(rep.in) : k \in MadeIn(log) /\ k < end_t
  BY <1>1, <1>2, <1>3, InputsBefore
<1> HIDE DEF head, rep, end_t
<1>7. HeadOK(head, end_t + 1, TRUE, log)  BY <1>4, <1>5, <1>6 DEF HeadOK
<1>8. TodoOK(head, end_t + 1, log)
  <2>1. rep.in \in Seq(Nat)  BY <1>1 DEF Replayer
  <2>2. ToSet(rep.in) \subseteq Nat  BY <2>1, ToSetType
  <2>3. \A k \in ToSet(rep.in) : k < end_t + 1  BY <1>1, <1>6, <2>2
  <2>4. \A k \in ToSet(head.todo) : k \in MadeIn(log) /\ k < end_t + 1
    BY <1>4, <1>6, <2>3
  <2>5. head.kind = "head" /\ head.playing  BY <1>4
  <2> QED  BY <2>4, <2>5 DEF TodoOK
<1>9. RecOK(head, end_t + 1, TRUE, log)
  <2>1. \A j \in DOMAIN head.ez : head.ez[j] # Null
    <3>1. DOMAIN <<>> = {}  OBVIOUS
    <3> QED  BY <1>4, <3>1
  <2>2. head.kind # "value" /\ head.kind # "root"  BY <1>4
  <2> QED  BY <1>7, <1>8, <2>1, <2>2 DEF RecOK
<1>10. Holds(head, log)  BY <1>4 DEF Holds, EzOK
<1> QED  BY <1>1, <1>4, <1>9, <1>10 DEF head, rep, end_t

\* A replay begins: the record that asked waits, with its clock, and the
\* program runs again from a context before the value, in the same call.
LEMMA StartReplayStep ==
  ASSUME EngineInv, Sound', StartReplay  PROVE EngineInv'
<1> DEFINE n == Len(records)
           m == Len(replays)
           k == Head(Top.todo)
           s == Base(k)
           end_t == akasha[s].end_t
           head == PlayedHead(end_t, akasha[s].end_rep)
           rp == [at |-> k, got |-> Null, tock |-> current_tock]
<1>1. Sound /\ History(log) /\ Places /\ Aims /\ TargetsDecrease /\ Contexts /\ Kept
  BY DEF EngineInv
<1>2. /\ ~UserCode /\ ~MustHit(k) /\ HasBase(k) /\ akasha[s].end_rep # NoRep
      /\ replays' = Append(replays, rp) /\ records' = Append(records, head)
      /\ current_tock' = end_t + 1 /\ akasha' = akasha /\ log' = log
  BY DEF StartReplay
<1>3. /\ n \in Nat \ {0} /\ m \in Nat \ {0} /\ DOMAIN records = 1..n
      /\ current_tock \in Nat /\ Top.t \in Nat /\ log \in Seq(Event)
      /\ records \in Seq(Record) /\ replays \in Seq(Replay)
  BY <1>1, TopTyped DEF Sound, TypeOK
<1>4. n \in Nat \ {0} /\ m \in Nat \ {0} /\ n \in {m, m + 1}
  BY <1>1, <1>3 DEF Sound, StackOK
<1>5. /\ k \in MadeIn(log) /\ k \in Nat /\ k < HeadAt(log, Len(log) + 1)
      /\ Replaying => k < Target.at
      /\ FromBase(k)
  <2>1. /\ k \in MadeIn(log) /\ k < Top.t /\ Top.t =< HeadAt(log, Len(log) + 1)
        /\ Replaying => k < Target.at
        /\ FromBase(k)
    BY <1>1, <1>2, AskedBefore
  <2>2. k \in Nat  BY <1>1, <1>3, <2>1, MadeBefore
  <2>3. HeadAt(log, Len(log) + 1) \in Nat
    <3>1. Len(log) \in Nat  BY <1>3
    <3>2. Len(log) + 1 \in 1..(Len(log) + 1)  BY <3>1
    <3> QED  BY <1>3, <3>2, PlaceFacts
  <2> HIDE DEF k
  <2> QED  BY <1>3, <2>1, <2>2, <2>3
<1>6. s \in DOMAIN akasha
  <2>1. TypeOK  BY <1>1 DEF Sound
  <2> QED  BY <1>2, <1>5, <2>1, FindType
<1>7. /\ head \in Record /\ end_t \in Nat
      /\ RecOK(head, end_t + 1, TRUE, log) /\ Holds(head, log)
      /\ head.kind = "head" /\ head.t = end_t
  BY <1>1, <1>2, <1>6, ReplayHead
<1>8. /\ end_t < k
      /\ \A p \in DOMAIN log :
           end_t < log[p].tock /\ log[p].tock < k => log[p].op \notin {"bind", "ret"}
  BY <1>5 DEF FromBase
<1>9. rp \in Replay /\ rp.at = k /\ rp.got = Null /\ rp.tock = current_tock
  BY <1>3, <1>5 DEF Replay, Null
<1> HIDE DEF head, rp, end_t, s, k
<1>10. /\ Len(records') = n + 1 /\ records'[n + 1] = head
       /\ \A i \in 1..n : records'[i] = records[i]
  <2>1. /\ Len(Append(records, head)) = n + 1 /\ Append(records, head)[n + 1] = head
        /\ \A i \in 1..n : Append(records, head)[i] = records[i]
    BY <1>3, <1>7, AppendProperties
  <2> QED  BY <1>2, <2>1
<1>11. /\ Len(replays') = m + 1 /\ replays'[m + 1] = rp
       /\ \A j \in 1..m : replays'[j] = replays[j]
  <2>1. /\ Len(Append(replays, rp)) = m + 1 /\ Append(replays, rp)[m + 1] = rp
        /\ \A j \in 1..m : Append(replays, rp)[j] = replays[j]
    BY <1>3, <1>9, AppendProperties
  <2> QED  BY <1>2, <2>1
<1>12. DOMAIN records' = 1..(n + 1)
  <2>1. records' \in Seq(Record)  BY DEF Sound, TypeOK
  <2> QED  BY <1>10, <2>1
<1>13. /\ \A i \in 1..n : Depth(i) = m - n + i
       /\ \A i \in 1..(n + 1) : Depth(i)' = (m + 1) - (n + 1) + i
       /\ \A i \in 1..(n + 1) : i = n + 1 => ClockOf(i)' = end_t + 1
       /\ RootSuspended' = (n + 1 > m + 1) /\ RootSuspended = (n > m)
  <2>1. \A i \in 1..n : Depth(i) = m - n + i  BY DEF Depth
  <2>2. \A i \in 1..(n + 1) : Depth(i)' = (m + 1) - (n + 1) + i
    BY <1>10, <1>11 DEF Depth
  <2>3. \A i \in 1..(n + 1) : i = n + 1 => ClockOf(i)' = end_t + 1
    BY <1>2, <1>10 DEF ClockOf
  <2>4. RootSuspended' = (n + 1 > m + 1) /\ RootSuspended = (n > m)
    BY <1>10, <1>11 DEF RootSuspended
  <2> QED  BY <2>1, <2>2, <2>3, <2>4
<1>14. \A i \in 1..n : Depth(i)' = Depth(i) /\ ClockOf(i)' = ClockOf(i)
  <2> SUFFICES ASSUME NEW i \in 1..n
               PROVE  Depth(i)' = Depth(i) /\ ClockOf(i)' = ClockOf(i)
    OBVIOUS
  <2>1. Depth(i) = m - n + i /\ Depth(i)' = (m + 1) - (n + 1) + i
    <3>1. i \in 1..(n + 1)
      <4> HIDE DEF n
      <4> QED  BY <1>4
    <3> QED  BY <1>13, <3>1
  <2>2. Depth(i)' = Depth(i) /\ i # n + 1 /\ Depth(i) + 1 \in 1..(m + 1)
        /\ (i = n => Depth(i) + 1 = m + 1)
        /\ (i # n => Depth(i) + 1 \in 1..m)
    <3> HIDE DEF n, m
    <3> QED  BY <1>4, <2>1
  <2>3. ClockOf(i)' = replays'[Depth(i) + 1].tock
    BY <1>10, <2>2 DEF ClockOf
  <2>4. CASE i = n
    <3>1. ClockOf(i) = current_tock  BY <2>4 DEF ClockOf
    <3> QED  BY <1>9, <1>11, <2>2, <2>3, <2>4, <3>1
  <2>5. CASE i # n
    <3>1. ClockOf(i) = replays[Depth(i) + 1].tock  BY <2>5 DEF ClockOf
    <3> QED  BY <1>11, <2>2, <2>3, <2>5, <3>1
  <2> QED  BY <2>2, <2>4, <2>5
<1>15. /\ RootSuspended' = RootSuspended /\ n + 1 # 1 /\ 1 \in 1..n
       /\ n + 1 \in 1..(n + 1)
       /\ \A i \in 1..(n + 1) : i = n + 1 => (Depth(i)' > 1) = TRUE
  <2>1. (n + 1 > m + 1) = (n > m) /\ n + 1 # 1 /\ 1 \in 1..n
        /\ n + 1 \in 1..(n + 1)
        /\ ((m + 1) - (n + 1) + (n + 1) > 1) = TRUE
    <3> HIDE DEF n, m
    <3> QED  BY <1>4
  <2>2. RootSuspended' = RootSuspended  BY <1>13, <2>1
  <2>3. \A i \in 1..(n + 1) : i = n + 1 => (Depth(i)' > 1) = TRUE
    BY <1>13, <2>1
  <2> QED  BY <2>1, <2>2, <2>3
<1>16. Places'
  <2> SUFFICES ASSUME NEW i \in 1..(n + 1)
               PROVE  /\ Holds(records'[i], log)
                      /\ \/ i = 1 /\ RootSuspended
                         \/ RecOK(records'[i], ClockOf(i)', Depth(i)' > 1, log)
    BY <1>2, <1>12, <1>15 DEF Places
  <2>1. CASE i = n + 1
    <3>1. (Depth(i)' > 1) = TRUE /\ ClockOf(i)' = end_t + 1
      BY <1>13, <1>15, <2>1
    <3>2. RecOK(head, end_t + 1, Depth(i)' > 1, log)  BY <1>7, <3>1
    <3> QED  BY <1>7, <1>10, <2>1, <3>1, <3>2
  <2>2. CASE i # n + 1
    <3>1. i \in 1..n
      <4> HIDE DEF n
      <4> QED  BY <1>4, <2>2
    <3>2. records'[i] = records[i] /\ i \in DOMAIN records  BY <1>3, <1>10, <3>1
    <3>3. /\ Holds(records[i], log)
          /\ \/ i = 1 /\ RootSuspended
             \/ RecOK(records[i], ClockOf(i), Depth(i) > 1, log)
      BY <1>1, <3>2 DEF Places
    <3>4. Depth(i)' = Depth(i) /\ ClockOf(i)' = ClockOf(i)  BY <1>14, <3>1
    <3> QED  BY <3>2, <3>3, <3>4
  <2> QED  BY <2>1, <2>2
<1>17. AimOK(rp, head, end_t + 1, log)
  <2>1. end_t + 1 =< k  BY <1>5, <1>7, <1>8
  <2> QED  BY <1>5, <1>7, <1>8, <1>9, <2>1 DEF AimOK
<1>18. Aims'
  <2> SUFFICES ASSUME NEW j \in 2..(m + 1)
               PROVE  AimOK(replays'[j], records'[Runner(j)'], ClockOf(Runner(j))', log)
    BY <1>2, <1>11 DEF Aims
  <2>1. Runner(j)' = j + (n + 1) - (m + 1) /\ Runner(j) = j + n - m
    BY <1>10, <1>11 DEF Runner
  <2>2. CASE j = m + 1
    <3>1. Runner(j)' = n + 1
      <4> HIDE DEF n, m
      <4> QED  BY <1>4, <2>1, <2>2
    <3>2. ClockOf(Runner(j))' = end_t + 1
      <4>1. PICK i \in 1..(n + 1) : i = n + 1 /\ Runner(j)' = i  BY <1>15, <3>1
      <4>2. ClockOf(Runner(j))' = ClockOf(i)'  BY <4>1 DEF ClockOf, Depth
      <4> QED  BY <1>13, <4>1, <4>2
    <3> QED  BY <1>10, <1>11, <1>17, <2>2, <3>1, <3>2
  <2>3. CASE j # m + 1
    <3>1. j \in 2..m /\ j \in 1..m /\ Runner(j) \in 1..n /\ Runner(j)' = Runner(j)
      <4> HIDE DEF n, m
      <4> QED  BY <1>4, <2>1, <2>3
    <3>2. PICK i \in 1..n : Runner(j)' = i /\ Runner(j) = i  BY <3>1
    <3>3. ClockOf(Runner(j))' = ClockOf(i)'  BY <3>2 DEF ClockOf, Depth
    <3>4. ClockOf(Runner(j))' = ClockOf(i)  BY <1>14, <3>3
    <3>5. replays'[j] = replays[j] /\ records'[i] = records[i]
      BY <1>10, <1>11, <3>1
    <3>6. AimOK(replays[j], records[i], ClockOf(i), log)
      BY <1>1, <3>1, <3>2 DEF Aims
    <3> QED  BY <3>2, <3>4, <3>5, <3>6
  <2> QED  BY <2>2, <2>3
<1>19. TargetsDecrease'
  <2> SUFFICES ASSUME NEW i \in 2..(m + 1), NEW j \in 2..(m + 1), i < j
               PROVE  replays'[j].at < replays'[i].at
    BY <1>11 DEF TargetsDecrease
  <2>1. /\ i \in 2..m /\ i \in 1..m /\ m \in 2..m /\ m > 1
        /\ j = m + 1 \/ (j \in 2..m /\ j \in 1..m)
        /\ i < m \/ i = m
    <3> HIDE DEF m
    <3> QED  BY <1>4
  <2>2. replays'[i] = replays[i]  BY <1>11, <2>1
  <2>3. CASE j \in 2..m /\ j \in 1..m
    <3>1. replays'[j] = replays[j]  BY <1>11, <2>3
    <3> QED  BY <1>1, <2>1, <2>2, <2>3, <3>1 DEF TargetsDecrease
  <2>4. CASE j = m + 1
    <3>1. replays'[j].at = k  BY <1>9, <1>11, <2>4
    <3>2. k < Target.at  BY <1>5, <2>1 DEF Replaying
    <3>3. Target = replays[m]  BY <1>1, TopFacts DEF Sound
    <3>4. /\ replays[m].at \in MadeIn(log) /\ replays[i].at \in MadeIn(log)
      BY <1>1, <2>1 DEF Aims, AimOK
    <3>5. replays[m].at \in Nat /\ replays[i].at \in Nat
      BY <1>1, <1>3, <3>4, MadeBefore
    <3>6. CASE i = m  BY <2>2, <3>1, <3>2, <3>3, <3>6
    <3>7. CASE i < m
      <4>1. replays[m].at < replays[i].at  BY <1>1, <2>1, <3>7 DEF TargetsDecrease
      <4>2. k < replays[i].at  BY <1>5, <3>2, <3>3, <3>5, <4>1
      <4> QED  BY <2>2, <3>1, <4>2
    <3> QED  BY <2>1, <3>6, <3>7
  <2> QED  BY <2>1, <2>3, <2>4
<1>20. Contexts'  BY <1>1, <1>2 DEF Contexts
<1>21. Kept'
  <2>1. records'[1].t = records[1].t  BY <1>10, <1>15
  <2>2. \A q \in DOMAIN log : RootKeeps(q) => RootKeeps(q)'
    BY <1>2, <1>15, <2>1 DEF RootKeeps
  <2> QED  BY <1>1, <1>2, <2>2 DEF Kept
<1>22. History(log')  BY <1>1, <1>2
<1> QED  BY <1>16, <1>18, <1>19, <1>20, <1>21, <1>22 DEF EngineInv

(***************************************************************************)
(* Every step keeps the invariant                                          *)
(***************************************************************************)

\* Every step of the engine keeps the invariant.
LEMMA EngineStepOK ==
  ASSUME EngineInv, [Next]_vars
  PROVE  EngineInv'
<1>1. Sound'  BY StepSound DEF EngineInv
<1>2. CASE RootStep
  <2>1. CASE AtRoot /\ Construct  BY <1>1, <2>1, ConstructStep
  <2>2. ASSUME NEW in \in Args, BindZombie(in)  PROVE EngineInv'
    BY <1>1, <2>2, BindStep
  <2>3. ASSUME NEW k \in Made, GetValue(k)  PROVE EngineInv'
    BY <1>1, <2>3, GetValueStep
  <2>4. ASSUME NEW n \in Top.held, Release(n)  PROVE EngineInv'
    BY <1>1, <2>4, ReleaseStep
  <2> QED  BY <1>2, <2>1, <2>2, <2>3, <2>4 DEF RootStep
<1>3. CASE BodyStep
  <2>1. CASE InBody /\ Construct  BY <1>1, <2>1, ConstructStep
  <2>2. ASSUME NEW in \in Args, UnrolledTailCall(in)  PROVE EngineInv'
    BY <1>1, <2>2, UnrolledStep
  <2>3. ASSUME NEW in \in Args, TailCall(in)  PROVE EngineInv'
    BY <1>1, <2>3, TailCallStep
  <2>4. CASE Finish  BY <1>1, <2>4, FinishStep
  <2> QED  BY <1>3, <2>1, <2>2, <2>3, <2>4 DEF BodyStep
<1>4. CASE EngineStep
  <2>1. CASE Play  BY <1>1, <2>1, PlayStep
  <2>2. ASSUME NEW n \in Nodes, Lock(n)  PROVE EngineInv'
    BY <1>1, <2>2, LockStep
  <2>3. CASE StartReplay  BY <1>1, <2>3, StartReplayStep
  <2>4. CASE EndReplay  BY <1>1, <2>4, EndReplayStep
  <2>5. CASE PopValue  BY <1>1, <2>5, PopValueStep
  <2> QED  BY <1>4, <2>1, <2>2, <2>3, <2>4, <2>5 DEF EngineStep
<1>5. CASE Evict  BY <1>1, <1>5, EvictStep
<1>6. CASE UNCHANGED vars
  <2>1. /\ UNCHANGED <<current_tock, akasha, records, replays, log>>  BY <1>6 DEF vars
  <2>2. \A i : ClockOf(i)' = ClockOf(i) /\ Depth(i)' = Depth(i)
    BY <2>1 DEF ClockOf, Depth
  <2>3. RootSuspended' = RootSuspended  BY <2>1 DEF RootSuspended
  <2>4. Places'  BY <2>1, <2>2, <2>3 DEF EngineInv, Places
  <2>5. Aims'
    <3>1. \A j : Runner(j)' = Runner(j)  BY <2>1 DEF Runner
    <3>2. \A j : ClockOf(Runner(j))' = ClockOf(Runner(j))
      BY <2>1 DEF ClockOf, Depth, Runner
    <3> QED  BY <2>1, <3>1, <3>2 DEF EngineInv, Aims
  <2>6. TargetsDecrease' /\ Contexts'
    BY <2>1 DEF EngineInv, TargetsDecrease, Contexts
  <2>7. Kept'
    <3>1. \A q : RootKeeps(q) => RootKeeps(q)'  BY <2>1, <2>3 DEF RootKeeps
    <3> QED  BY <2>1, <3>1 DEF EngineInv, Kept
  <2>8. History(log')  BY <2>1 DEF EngineInv
  <2> QED  BY <1>1, <2>4, <2>5, <2>6, <2>7, <2>8 DEF EngineInv
<1>7. CASE Done  BY <1>6, <1>7 DEF Done
<1> QED  BY <1>2, <1>3, <1>4, <1>5, <1>6, <1>7 DEF Next

\* The history, the places of the records and contexts in it, and the targets
\* of the replays agree in every state.
THEOREM EngineInvAlways == Spec => []EngineInv
<1>1. Init => EngineInv  BY InitEngine
<1>2. EngineInv /\ [Next]_vars => EngineInv'  BY EngineStepOK
<1> QED  BY <1>1, <1>2, PTL DEF Spec

\* A value made again is the value that was made: no handle of a zombie ever
\* finds another one's value, in the store, in a record or in a replay
\* (EZombie::shared_ptr, Zombie::construct).
THEOREM ValuesFaithful == Spec => []Faithful
<1>1. EngineInv => Faithful  BY FaithfulNow DEF EngineInv
<1> QED  BY <1>1, EngineInvAlways, PTL

\* As long as a replay has not met its target there is a head to play and the
\* clock has not passed the target: the assertions of ContextNode::replay and
\* RecordNode::play.
THEOREM TargetsReached == Spec => []ReplayInReach
<1>1. EngineInv => ReplayInReach  BY Reach DEF EngineInv
<1> QED  BY <1>1, EngineInvAlways, PTL

\* A replay within a replay is for an older value, so their nesting is bounded
\* by the values there are (EZombie::shared_ptr, ContextNode::replay).
THEOREM NestedTargetsDecrease == Spec => []TargetsDecrease
<1>1. EngineInv => TargetsDecrease  BY DEF EngineInv
<1> QED  BY <1>1, EngineInvAlways, PTL

\* Contexts stored by the first run and by replays, whatever was evicted in
\* between, never overlap and are as wide as their zombies: the split list is
\* a map of disjoint ranges (tock/common.hpp, HeadRecordNode::completed).
THEOREM RangesDisjoint == Spec => []ContextsDisjoint
<1>1. EngineInv => ContextsDisjoint  BY Disjoint DEF EngineInv
<1> QED  BY <1>1, EngineInvAlways, PTL

\* Whatever was evicted, find_le_node and end_rep, which EZombie::shared_ptr
\* dereferences unchecked, are there for every value that is not stored, in
\* the same call of bindZombie.
THEOREM AlwaysRecoverable == Spec => []Recoverable
<1>1. EngineInv => Recoverable  BY RecoverableNow DEF EngineInv
<1> QED  BY <1>1, EngineInvAlways, PTL

\* A body that runs again does nothing it has not done before.
THEOREM ReplaysRepeat == Spec => []ReplayOnlyRepeats
<1>1. EngineInv => ReplayOnlyRepeats  BY Repeats DEF EngineInv
<1> QED  BY <1>1, EngineInvAlways, PTL

(***************************************************************************)
(* What the root code sees                                                 *)
(***************************************************************************)

\* No event takes more than two tocks.
LEMMA TwoTocks ==
  ASSUME NEW e \in Event
  PROVE  NextTock(e) =< e.tock + 2
<1> DEFINE t == e.tock
<1>1. t \in Nat  BY DEF Event
<1>2. NextTock(e) \in {t, t + 1, t + 2}  BY DEF NextTock
<1> HIDE DEF t
<1>3. t =< t + 2 /\ t + 1 =< t + 2 /\ t + 2 =< t + 2  BY <1>1
<1> QED  BY <1>2, <1>3 DEF t

\* The clock after so many events.
LEMMA SlowClock ==
  ASSUME NEW h \in Seq(Event), HistSteps(h), NEW q \in 1..(Len(h) + 1)
  PROVE  TockAt(h, q) =< 2 * q - 1
<1> DEFINE Late == {x \in 1..(Len(h) + 1) : TockAt(h, x) > 2 * x - 1}
<1>1. /\ Len(h) \in Nat /\ DOMAIN h = 1..Len(h)
      /\ \A x \in 1..(Len(h) + 1) : TockAt(h, x) \in Nat
  BY PlaceFacts
<1> SUFFICES ASSUME Late # {}  PROVE FALSE
  BY <1>1
<1>2. Late \in SUBSET Nat  BY <1>1
<1>3. PICK x \in Late : \A y \in Late : x =< y  BY <1>2, LeastElement
<1>4. x \in 1..(Len(h) + 1) /\ TockAt(h, x) > 2 * x - 1  OBVIOUS
<1>5. x # 1  BY <1>4 DEF TockAt
<1>6. x - 1 \in 1..Len(h) /\ x - 1 \in 1..(Len(h) + 1) /\ x - 1 < x
  BY <1>1, <1>4, <1>5
<1>7. TockAt(h, x - 1) =< 2 * (x - 1) - 1
  <2>1. x - 1 \notin Late  BY <1>3, <1>6
  <2>2. TockAt(h, x - 1) \in Nat  BY <1>1, <1>6
  <2>3. ~(TockAt(h, x - 1) > 2 * (x - 1) - 1)  BY <1>6, <2>1
  <2>4. x \in Nat  BY <1>4
  <2> QED  BY <2>2, <2>3, <2>4
<1>8. h[x - 1] \in Event /\ h[x - 1].tock = TockAt(h, x - 1)
  BY <1>1, <1>6, PlaceFacts DEF HistSteps
<1>9. TockAt(h, x) = NextTock(h[x - 1])  BY <1>5 DEF TockAt
<1>10. NextTock(h[x - 1]) =< h[x - 1].tock + 2
  BY <1>8, TwoTocks
<1>11. NextTock(h[x - 1]) \in Nat /\ h[x - 1].tock \in Nat
  BY <1>8, EventFacts
<1> QED  BY <1>4, <1>7, <1>8, <1>9, <1>10, <1>11

\* The table of a history.
LEMMA TableFacts ==
  ASSUME NEW h \in Seq(Event), History(h)
  PROVE  /\ TableOf(h) = [k \in MadeIn(h) |-> TableOf(h)[k]]
         /\ DOMAIN TableOf(h) = MadeIn(h)
         /\ \A p \in 1..Len(h) : h[p].op = "make" => TableOf(h)[h[p].tock] = p
<1> DEFINE makes == {p \in DOMAIN h : h[p].op = "make"}
<1>1. DOMAIN h = 1..Len(h)  BY PlaceFacts
<1>2. TableOf(h) = [k \in MadeIn(h) |-> CHOOSE p \in makes : h[p].tock = k]
  BY DEF TableOf, MadeIn
<1>3. ASSUME NEW p \in 1..Len(h), h[p].op = "make"
      PROVE  TableOf(h)[h[p].tock] = p
  <2>1. p \in makes /\ h[p].tock \in MadeIn(h)  BY <1>1, <1>3 DEF MadeIn
  <2>2. \A q \in makes : h[q].tock = h[p].tock => q = p
    BY <1>1, <1>3, MadeOnce
  <2>3. (CHOOSE q \in makes : h[q].tock = h[p].tock) = p  BY <2>1, <2>2
  <2> QED  BY <1>2, <2>1, <2>3
<1> QED  BY <1>2, <1>3

\* Events that make nothing leave the table alone.
LEMMA SameTable ==
  ASSUME NEW h \in Seq(Event), NEW g \in Seq(Event), History(h), History(g),
         Extends(h, g),
         \A p \in 1..Len(g) : p \notin 1..Len(h) => g[p].op # "make"
  PROVE  TableOf(g) = TableOf(h)
<1>1. /\ Len(h) \in Nat /\ Len(g) \in Nat
      /\ DOMAIN h = 1..Len(h) /\ DOMAIN g = 1..Len(g)
      /\ \A p \in 1..Len(h) : p \in 1..Len(g) /\ g[p] = h[p]
  BY PlaceFacts DEF Extends
<1>2. MadeIn(g) = MadeIn(h)
  <2>1. ASSUME NEW k \in MadeIn(g)  PROVE k \in MadeIn(h)
    <3>1. PICK p \in 1..Len(g) : g[p].op = "make" /\ g[p].tock = k
      BY <1>1 DEF MadeIn
    <3>2. p \in 1..Len(h)  BY <3>1
    <3> QED  BY <1>1, <3>1, <3>2 DEF MadeIn
  <2>2. ASSUME NEW k \in MadeIn(h)  PROVE k \in MadeIn(g)
    <3>1. PICK p \in 1..Len(h) : h[p].op = "make" /\ h[p].tock = k
      BY <1>1 DEF MadeIn
    <3> QED  BY <1>1, <3>1 DEF MadeIn
  <2> QED  BY <2>1, <2>2
<1>3. ASSUME NEW k \in MadeIn(h)  PROVE TableOf(g)[k] = TableOf(h)[k]
  <2>1. PICK p \in 1..Len(h) : h[p].op = "make" /\ h[p].tock = k
    BY <1>1 DEF MadeIn
  <2>2. TableOf(h)[k] = p  BY <2>1, TableFacts
  <2>3. p \in 1..Len(g) /\ g[p].op = "make" /\ g[p].tock = k  BY <1>1, <2>1
  <2>4. TableOf(g)[k] = p  BY <2>3, TableFacts
  <2> QED  BY <2>2, <2>4
<1>4. /\ TableOf(h) = [k \in MadeIn(h) |-> TableOf(h)[k]]
      /\ TableOf(g) = [k \in MadeIn(g) |-> TableOf(g)[k]]
  BY TableFacts
<1> QED  BY <1>2, <1>3, <1>4

\* A zombie made at the end of the history is the table's next entry.
LEMMA TableGrows ==
  ASSUME NEW h \in Seq(Event), NEW e \in Event, History(h),
         History(Append(h, e)), e.op = "make"
  PROVE  /\ \A j \in DOMAIN TableOf(h) : j < e.tock
         /\ TableOf(Append(h, e)) =
              [j \in DOMAIN TableOf(h) \cup {e.tock} |->
                 IF j = e.tock THEN Len(h) + 1 ELSE TableOf(h)[j]]
<1> DEFINE g == Append(h, e)
           l == Len(h)
<1>1. /\ g \in Seq(Event) /\ l \in Nat /\ Len(g) = l + 1 /\ g[l + 1] = e
      /\ \A p \in 1..l : g[p] = h[p]
      /\ DOMAIN h = 1..l
  BY AppendProperties
<1>2. DOMAIN g = 1..(l + 1) /\ l + 1 \in 1..(l + 1) /\ \A p \in 1..l : p \in 1..(l + 1)
  BY <1>1
<1> HIDE DEF g, l
<1>3. MadeIn(g) = MadeIn(h) \cup {e.tock}
  <2>1. ASSUME NEW k \in MadeIn(g)  PROVE k \in MadeIn(h) \cup {e.tock}
    <3>1. PICK p \in 1..(l + 1) : g[p].op = "make" /\ g[p].tock = k
      BY <1>2 DEF MadeIn
    <3>2. CASE p = l + 1  BY <1>1, <3>1, <3>2
    <3>3. CASE p # l + 1
      <4>1. p \in 1..l  BY <1>1, <3>3
      <4>2. h[p].op = "make" /\ h[p].tock = k  BY <1>1, <3>1, <4>1
      <4> QED  BY <1>1, <4>1, <4>2 DEF MadeIn
    <3> QED  BY <3>2, <3>3
  <2>2. ASSUME NEW k \in MadeIn(h)  PROVE k \in MadeIn(g)
    <3>1. PICK p \in 1..l : h[p].op = "make" /\ h[p].tock = k
      BY <1>1 DEF MadeIn
    <3> QED  BY <1>1, <1>2, <3>1 DEF MadeIn
  <2>3. e.tock \in MadeIn(g)  BY <1>1, <1>2 DEF MadeIn
  <2> QED  BY <2>1, <2>2, <2>3
<1>4. ASSUME NEW k \in MadeIn(h)
      PROVE  k < e.tock /\ TableOf(g)[k] = TableOf(h)[k]
  <2>1. PICK p \in 1..l : h[p].op = "make" /\ h[p].tock = k
    BY <1>1 DEF MadeIn
  <2>2. p \in 1..(l + 1) /\ g[p].op = "make" /\ g[p].tock = k /\ p < l + 1
    BY <1>1, <1>2, <2>1
  <2>3. TableOf(h)[k] = p  BY <2>1, TableFacts DEF l
  <2>4. TableOf(g)[k] = p  BY <1>1, <2>2, TableFacts DEF g
  <2>5. g[p].tock < g[l + 1].tock  BY <1>1, <1>2, <2>2, TwoEvents DEF g
  <2> QED  BY <1>1, <2>2, <2>3, <2>4, <2>5
<1>5. TableOf(g)[e.tock] = l + 1
  <2>1. l + 1 \in 1..Len(g) /\ g[l + 1].op = "make"  BY <1>1, <1>2
  <2> QED  BY <1>1, <2>1, TableFacts DEF g
<1>6. e.tock \in Nat /\ MadeIn(h) \subseteq Nat
  BY TocksApart DEF Event
<1>7. /\ DOMAIN TableOf(h) = MadeIn(h)
      /\ TableOf(g) = [k \in MadeIn(g) |-> TableOf(g)[k]]
  BY <1>1, TableFacts DEF g
<1>8. TableOf(g) = [j \in MadeIn(h) \cup {e.tock} |->
                      IF j = e.tock THEN l + 1 ELSE TableOf(h)[j]]
  BY <1>3, <1>4, <1>5, <1>6, <1>7
<1> QED  BY <1>4, <1>7, <1>8 DEF g, l

\* The root code waits for one value at a time.
AsksOne == Len(records[1].todo) =< 1

\* A step of the promise, or none.
Shows == AsksOne' /\ [memo!MemoNext]_(memo!memoVars)

\* A step the root code cannot tell from doing nothing.
LEMMA Unseen ==
  ASSUME Sound, Sound', History(log), History(log'), AsksOne, Extends(log, log'),
         \A p \in 1..Len(log') : p \notin 1..Len(log) => log'[p].op # "make",
         records'[1].todo = records[1].todo, records'[1].held = records[1].held
  PROVE  Shows
<1>1. log \in Seq(Event) /\ log' \in Seq(Event)  BY DEF Sound, TypeOK
<1>2. TableOf(log') = TableOf(log)  BY <1>1, SameTable
<1>3. UNCHANGED memo!memoVars  BY <1>2 DEF memo!memoVars
<1>4. AsksOne'  BY DEF AsksOne
<1> QED  BY <1>3, <1>4 DEF Shows

\* The root's record, when another record runs or the root's own changes no
\* more than its clock and its zombies.
LEMMA RootAlike ==
  ASSUME Sound, NEW r \in Record, records' = WithTop(r),
         Top.kind = "root" => r.todo = Top.todo /\ r.held = Top.held
  PROVE  records'[1].todo = records[1].todo /\ records'[1].held = records[1].held
<1> DEFINE n == Len(records)
<1>1. /\ n \in Nat \ {0} /\ Top = records[n] /\ records'[n] = r
      /\ \A i \in 1..(n - 1) : records'[i] = records[i]
      /\ DOMAIN records = 1..n
  BY TopFacts, TopTyped, WithTopFacts DEF Sound
<1>2. CASE n = 1
  <2>1. Top.kind = "root"  BY <1>1, <1>2 DEF Sound, StackOK
  <2> QED  BY <1>1, <1>2, <2>1
<1>3. CASE n # 1
  <2>1. 1 \in 1..(n - 1)
    <3>1. n \in Nat \ {0}  BY <1>1
    <3> HIDE DEF n
    <3> QED  BY <1>3, <3>1
  <2> QED  BY <1>1, <2>1
<1> QED  BY <1>2, <1>3

\* The root's record on top.
LEMMA RootOnTop ==
  ASSUME Sound, Top.kind = "root"
  PROVE  Len(records) = 1 /\ Top = records[1] /\ ~Replaying
<1>1. Len(records) = 1 /\ Len(replays) = 1  BY RootHeight DEF Sound
<1> QED  BY <1>1, TopFacts DEF Sound, Replaying

\* What a step of the program without a zombie shows.
LEMMA UnseenEvent ==
  ASSUME EngineInv, AsksOne, Sound', AtRoot \/ InBody,
         NEW op \in {"bind", "tail", "ret"}, op = "tail" => InBody,
         NEW in \in Seq(Nat), \A k \in ToSet(in) : k \in MadeIn(log), Does(op, in),
         records'[1].todo = records[1].todo, records'[1].held = records[1].held
  PROVE  Shows
<1>1. Sound /\ History(log) /\ Places /\ Aims  BY DEF EngineInv
<1>2. /\ log' \in Seq(Event) /\ History(log') /\ Extends(log, log')
      /\ log'[Here] = Now(op, in)
      /\ Replaying => log' = log
      /\ ~Replaying => Len(log') = Here /\ Here = Len(log) + 1
  BY <1>1, DoesOK
<1>3. ASSUME NEW p \in 1..Len(log'), p \notin 1..Len(log)
      PROVE  log'[p].op # "make"
  <2>1. p = Here  BY <1>1, <1>2, <1>3, OnlyHereNew
  <2>2. Now(op, in).op = op  BY DEF Now
  <2> QED  BY <1>2, <2>1, <2>2
<1> QED  BY <1>1, <1>2, <1>3, Unseen

\* A zombie made for the first time is the next one of the promised table; one
\* made again shows nothing.
LEMMA ConstructShows ==
  ASSUME EngineInv, EngineInv', AsksOne, AtRoot \/ InBody, Construct  PROVE Shows
<1> DEFINE r == [Top EXCEPT !.ez = Append(@, Here), !.pos = Here + 1]
           e == Now("make", <<>>)
<1>1. Sound /\ Sound' /\ History(log) /\ History(log') /\ Places /\ Aims
  BY DEF EngineInv
<1>2. /\ Top \in Record /\ Here \in Nat /\ Top.ez \in Seq(Nat)
      /\ current_tock \in Nat /\ Top.t \in Nat /\ Len(Top.ez) \in Nat
      /\ current_tock = Top.t + Len(Top.ez) + 1
      /\ log \in Seq(Event) /\ Len(log) \in Nat
  BY <1>1, TopTyped
<1>3. r \in Record /\ r.todo = Top.todo /\ r.held = Top.held
  <2>1. Append(Top.ez, Here) \in Seq(Nat) /\ Here + 1 \in Nat  BY <1>2
  <2>2. r \in Record  BY <1>2, <2>1, RecordUpdates
  <2> QED  BY <1>2, <2>2 DEF Record
<1>4. records' = WithTop(r) /\ Does("make", <<>>)  BY DEF Construct
<1> HIDE DEF r
<1>5. records'[1].todo = records[1].todo /\ records'[1].held = records[1].held
  BY <1>1, <1>3, <1>4, RootAlike
<1>6. /\ \A k \in ToSet(<<>>) : k \in MadeIn(log)
      /\ <<>> \in Seq(Nat)
  BY DEF ToSet
<1>7. /\ log' \in Seq(Event) /\ Extends(log, log') /\ e \in Event
      /\ Here \in 1..Len(log') /\ log'[Here] = e
  BY <1>1, <1>4, <1>6, DoesOK
<1>8. CASE Here \in DOMAIN log
  <2>1. log' = log
    <3>1. DOMAIN log = 1..Len(log) /\ Len(log) + 1 \notin 1..Len(log)  BY <1>2
    <3> QED  BY <1>4, <1>8, <3>1 DEF Does
  <2> QED  BY <1>1, <1>5, <1>7, <2>1, Unseen
<1>9. CASE Here \notin DOMAIN log
  <2>1. Here = Len(log) + 1 /\ Len(log) < MaxEvents /\ log' = Append(log, e)
    BY <1>4, <1>9 DEF Does, Now
  <2>2. e.op = "make" /\ e.tock = current_tock  BY DEF Now
  <2> HIDE DEF e
  <2>3. /\ \A j \in DOMAIN TableOf(log) : j < current_tock
        /\ TableOf(log') =
             [j \in DOMAIN TableOf(log) \cup {current_tock} |->
                IF j = current_tock THEN Here ELSE TableOf(log)[j]]
    <3>1. History(Append(log, e)) /\ e \in Event  BY <1>1, <1>7, <2>1
    <3>2. /\ \A j \in DOMAIN TableOf(log) : j < e.tock
          /\ TableOf(Append(log, e)) =
               [j \in DOMAIN TableOf(log) \cup {e.tock} |->
                  IF j = e.tock THEN Len(log) + 1 ELSE TableOf(log)[j]]
      BY <1>1, <1>2, <2>2, <3>1, TableGrows
    <3> QED  BY <2>1, <2>2, <3>2
  <2>4. records[1].todo = <<>>
    <3>1. CASE AtRoot
      <4>1. Top.todo = <<>> /\ Top = records[1]
        BY <1>1, <3>1, RootOnTop DEF AtRoot, UserCode
      <4> QED  BY <4>1
    <3>2. CASE InBody
      <4>1. ~Replaying  BY <1>1, <1>9, <3>2, HereOK
      <4>2. Top.kind = "head"  BY <3>2 DEF InBody
      <4>3. Len(records) > 1  BY <1>1, <4>2, RootHeight DEF Sound
      <4>4. Len(replays) \in Nat \ {0} /\ Len(records) \in Nat  BY <1>1, TopTyped
      <4>5. RootSuspended  BY <4>1, <4>3, <4>4 DEF Replaying, RootSuspended
      <4> QED  BY <1>1, <4>5 DEF Sound, StackOK
    <3> QED  BY <3>1, <3>2
  <2>5. ToSet(records[1].todo) = {}  BY <2>4 DEF ToSet
  <2>6. current_tock \in 1..(2 * MaxEvents + 3) /\ Here \in 1..(MaxEvents + 1)
    <3>1. Here \in 1..(Len(log) + 1) /\ current_tock = TockAt(log, Here)
      BY <1>1, HereOK
    <3>2. current_tock =< 2 * Here - 1  BY <1>1, <1>2, <3>1, SlowClock DEF History
    <3>3. MaxEvents \in Nat /\ current_tock > 0  BY <1>2, BoundsAssumption
    <3> HIDE DEF e
    <3> QED  BY <1>2, <2>1, <3>2, <3>3
  <2>7. memo!MakeNew(current_tock, Here)
    BY <1>5, <2>3, <2>5 DEF memo!MakeNew
  <2>8. memo!MemoNext  BY <2>6, <2>7 DEF memo!MemoNext
  <2>9. AsksOne'  BY <1>5 DEF AsksOne
  <2> QED  BY <2>8, <2>9 DEF Shows
<1> QED  BY <1>8, <1>9

\* The root code asks, for something that is in the table.
LEMMA GetValueShows ==
  ASSUME EngineInv, AsksOne, NEW k \in Made, GetValue(k)  PROVE Shows
<1> DEFINE r == [Top EXCEPT !.todo = <<k>>]
<1>1. Sound /\ History(log) /\ log \in Seq(Event) /\ Top \in Record
      /\ k \in MadeIn(log)
  BY TopTyped DEF EngineInv, Made, MadeIn
<1>2. /\ AtRoot /\ records' = WithTop(r) /\ log' = log  BY DEF GetValue
<1>3. Len(records) = 1 /\ Top = records[1] /\ Top.todo = <<>>
  BY <1>1, <1>2, RootOnTop DEF AtRoot, UserCode
<1>4. k \in Nat  BY <1>1, TocksApart
<1>5. r \in Record /\ r.todo = <<k>> /\ r.held = Top.held
  <2>1. <<k>> \in Seq(Nat)  BY <1>4
  <2>2. r \in Record  BY <1>1, <2>1, RecordUpdates
  <2> QED  BY <1>1, <2>2 DEF Record
<1> HIDE DEF r
<1>6. records'[1] = r  BY <1>1, <1>2, <1>3, <1>5, WithTopFacts DEF Sound
<1>7. ToSet(<<>>) = {} /\ ToSet(<<k>>) = {k} /\ Len(<<k>>) = 1  BY DEF ToSet
<1>8. k \in DOMAIN TableOf(log)  BY <1>1, TableFacts
<1>9. memo!Ask(k)
  <2>1. ToSet(records[1].todo) = {} /\ ToSet(records'[1].todo) = {k}
    BY <1>3, <1>5, <1>6, <1>7
  <2>2. records'[1].held = records[1].held  BY <1>3, <1>5, <1>6
  <2> QED  BY <1>2, <2>1, <2>2 DEF memo!Ask
<1>10. memo!MemoNext  BY <1>8, <1>9 DEF memo!MemoNext
<1>11. AsksOne'
  <2>1. records'[1].todo = <<k>>  BY <1>5, <1>6
  <2>2. Len(records'[1].todo) = 1  BY <1>7, <2>1
  <2> QED  BY <2>2 DEF AsksOne
<1> QED  BY <1>10, <1>11 DEF Shows

\* It drops a value it was given.
LEMMA ReleaseShows ==
  ASSUME EngineInv, AsksOne, NEW n \in Top.held, Release(n)  PROVE Shows
<1> DEFINE r == [Top EXCEPT !.held = @ \ {n}]
<1>1. Sound /\ Top \in Record /\ Top.held \subseteq Node
  BY TopTyped DEF EngineInv
<1>2. /\ AtRoot /\ records' = WithTop(r) /\ log' = log  BY DEF Release
<1>3. Len(records) = 1 /\ Top = records[1] /\ Top.todo = <<>>
  BY <1>1, <1>2, RootOnTop DEF AtRoot, UserCode
<1>4. r \in Record /\ r.todo = Top.todo /\ r.held = Top.held \ {n}
  <2>1. Top.held \ {n} \in SUBSET Node  BY <1>1
  <2>2. <<>> \in Seq(Nat)  OBVIOUS
  <2>3. r \in Record  BY <1>1, <2>1, <2>2, RecordUpdates
  <2> QED  BY <1>1, <2>3 DEF Record
<1> HIDE DEF r
<1>5. records'[1] = r  BY <1>1, <1>2, <1>3, <1>4, WithTopFacts DEF Sound
<1>6. ToSet(<<>>) = {}  BY DEF ToSet
<1>7. memo!Drop(n)  BY <1>2, <1>3, <1>4, <1>5, <1>6 DEF memo!Drop
<1>8. n \in records[1].held  BY <1>3
<1>9. memo!MemoNext  BY <1>7, <1>8 DEF memo!MemoNext
<1>10. AsksOne'  BY <1>3, <1>4, <1>5 DEF AsksOne
<1> QED  BY <1>9, <1>10 DEF Shows

\* A sequence of one.
LEMMA OneElement ==
  ASSUME NEW S, NEW q \in Seq(S), q # <<>>, Len(q) =< 1
  PROVE  Tail(q) = <<>> /\ ToSet(q) = {Head(q)}
<1>1. Len(q) \in Nat /\ Len(q) # 0  BY EmptySeq
<1>2. Len(q) = 1 /\ DOMAIN q = 1..1  BY <1>1
<1>3. Tail(q) \in Seq(S) /\ Len(Tail(q)) = 0
  BY <1>2, HeadTailProperties
<1>4. Tail(q) = <<>>  BY <1>3, EmptySeq
<1>5. Head(q) = q[1]  BY <1>2
<1>6. ToSet(q) = {q[1]}  BY <1>2 DEF ToSet
<1> QED  BY <1>4, <1>5, <1>6

\* The root code is given a value: the one in the table.
LEMMA GivenShows ==
  ASSUME EngineInv, AsksOne, log' = log, records[1].todo # <<>>,
         records[1].todo \in Seq(Nat),
         NEW n \in Node, n.tock = Head(records[1].todo), NodeOK(n, log),
         records'[1].todo = Tail(records[1].todo),
         records'[1].held = records[1].held \cup {n}
  PROVE  Shows
<1> DEFINE todo == records[1].todo
           k == Head(todo)
<1>1. History(log) /\ log \in Seq(Event) /\ DOMAIN log = 1..Len(log)
  BY TopTyped DEF EngineInv
<1>2. todo \in Seq(Nat) /\ todo # <<>> /\ Len(todo) =< 1  BY DEF AsksOne
<1>5. Tail(todo) = <<>> /\ ToSet(todo) = {k}  BY <1>2, OneElement
<1>6. ToSet(<<>>) = {} /\ Len(<<>>) = 0  BY DEF ToSet
<1>7. TableOf(log)[k] = n.val
  <2>1. n.val \in 1..Len(log) /\ log[n.val].op = "make" /\ log[n.val].tock = k
    BY <1>1 DEF NodeOK
  <2> QED  BY <1>1, <2>1, TableFacts
<1>8. n = [tock |-> k, val |-> TableOf(log)[k]]  BY <1>7 DEF Node
<1> HIDE DEF k
<1>9. memo!Answer
  <2>1. records'[1].held = records[1].held \cup {[tock |-> k, val |-> TableOf(log)[k]]}
    BY <1>8
  <2>2. ToSet(records'[1].todo) = {}  BY <1>5, <1>6
  <2>3. k \in ToSet(records[1].todo)  BY <1>5
  <2>4. TableOf(log') = TableOf(log)  OBVIOUS
  <2> QED  BY <2>1, <2>2, <2>3, <2>4 DEF memo!Answer
<1>10. memo!MemoNext  BY <1>9 DEF memo!MemoNext
<1>11. AsksOne'  BY <1>5, <1>6 DEF AsksOne
<1> QED  BY <1>10, <1>11 DEF Shows

\* What a record other than the root's finds shows nothing.
LEMMA LockShows ==
  ASSUME EngineInv, AsksOne, Sound', NEW n \in Nodes, Lock(n)  PROVE Shows
<1> DEFINE r == [Top EXCEPT !.todo = Tail(@), !.held = @ \cup {n}]
<1>1. Sound /\ History(log) /\ Places /\ Aims /\ Contexts /\ log \in Seq(Event)
  BY TopTyped DEF EngineInv
<1>2. Top \in Record /\ Top.todo \in Seq(Nat) /\ Top.held \subseteq Node /\ n \in Node
  BY <1>1, TopTyped, NodesType DEF Sound
<1>3. /\ Top.todo # <<>> /\ n.tock = Head(Top.todo) /\ records' = WithTop(r)
      /\ log' = log
  BY DEF Lock, UserCode
<1>4. r \in Record /\ r.todo = Tail(Top.todo) /\ r.held = Top.held \cup {n}
  <2>1. Top.held \cup {n} \in SUBSET Node  BY <1>2
  <2>2. Tail(Top.todo) \in Seq(Nat)  BY <1>2, <1>3
  <2>3. r \in Record  BY <1>2, <2>1, <2>2, RecordUpdates
  <2> QED  BY <1>2, <2>3 DEF Record
<1> HIDE DEF r
<1>5. NodeOK(n, log)  BY <1>1, FaithfulNow DEF Faithful, NodeOK
<1>6. CASE Top.kind = "root"
  <2>1. Len(records) = 1 /\ Top = records[1]  BY <1>1, <1>6, RootOnTop
  <2>2. records'[1] = r  BY <1>1, <1>3, <1>4, <2>1, WithTopFacts DEF Sound
  <2> QED  BY <1>2, <1>3, <1>4, <1>5, <2>1, <2>2, GivenShows
<1>7. CASE Top.kind # "root"
  <2>1. records'[1].todo = records[1].todo /\ records'[1].held = records[1].held
    BY <1>1, <1>3, <1>4, <1>7, RootAlike
  <2>2. Extends(log, log)  BY <1>1 DEF Extends
  <2>3. \A p \in 1..Len(log') : p \in 1..Len(log)  BY <1>3
  <2> QED  BY <1>1, <1>3, <2>1, <2>2, <2>3, Unseen
<1> QED  BY <1>6, <1>7

\* A replay's value is given to the root code if it was the root code that
\* asked for it.
LEMMA EndReplayShows ==
  ASSUME EngineInv, AsksOne, Sound', EndReplay  PROVE Shows
<1> DEFINE n == Len(records)
           m == Len(replays)
           node == [tock |-> Target.at, val |-> Target.got]
<1>1. Sound /\ History(log) /\ Aims /\ log \in Seq(Event)
  BY TopTyped DEF EngineInv
<1>2. /\ Replaying /\ Target.got # Null /\ log' = log
      /\ records' = LET rest == Front(records)
                    IN  [rest EXCEPT ![Len(rest)].todo = Tail(@),
                                     ![Len(rest)].held = @ \cup {node}]
  BY DEF EndReplay
<1>3. /\ n \in Nat /\ m \in Nat /\ m > 1 /\ n \in {m, m + 1}
      /\ Target = replays[m] /\ Target \in Replay /\ records \in Seq(Record)
      /\ 1 \in DOMAIN records /\ records[1] \in Record
  <2>1. /\ n \in Nat \ {0} /\ m \in Nat \ {0} /\ m > 1 /\ n \in {m, m + 1}
        /\ records \in Seq(Record)
    BY <1>1, <1>2, TopTyped DEF Sound, TypeOK, StackOK, Replaying
  <2>2. Target = replays[m] /\ Target \in Replay  BY <1>1, TopFacts DEF Sound
  <2>3. 1 \in DOMAIN records  BY <1>1, TopFacts DEF Sound, TypeOK
  <2>4. records[1] \in Record  BY <2>1, <2>3
  <2> HIDE DEF n, m
  <2> QED  BY <2>1, <2>2, <2>3, <2>4
<1>3n. n \in Nat /\ n > 1 /\ m \in Nat /\ m > 1 /\ n \in {m, m + 1}
  <2>1. n \in Nat /\ m \in Nat /\ m > 1 /\ n \in {m, m + 1}  BY <1>3
  <2> HIDE DEF n, m
  <2> QED  BY <2>1
<1>4. NodeOK(node, log) /\ node \in Node
  <2>1. AimOK(Target, Top, current_tock, log)  BY <1>1, <1>2, TargetOK
  <2>2. Target.at \in Nat  BY <1>1, <2>1, TocksApart DEF AimOK
  <2>3. Target.got \in Nat  BY <1>3 DEF Replay
  <2> QED  BY <1>2, <2>1, <2>2, <2>3 DEF AimOK, Node
<1>5. /\ Len(Front(records)) = n - 1 /\ Front(records) \in Seq(Record)
      /\ \A i \in 1..(n - 1) : Front(records)[i] = records[i]
  BY <1>3, <1>3n, PopFacts
<1>6. 1 \in 1..(n - 1)
  <2> HIDE DEF n, m
  <2> QED  BY <1>3n
<1>7. 1 \in DOMAIN Front(records) /\ Front(records)[1] = records[1]
  BY <1>5, <1>6
<1>8. CASE n = 2
  <2>1. Depth(1) \in 1..(m - 1) /\ Depth(1) + 1 = m
    <3>1. Depth(1) = m - n + 1  BY DEF Depth
    <3> HIDE DEF n, m
    <3> QED  BY <1>3n, <1>8, <3>1
  <2>2. records[1].todo # <<>> /\ Target.at = Head(records[1].todo)
    BY <1>1, <1>3, <2>1 DEF Sound, StackOK
  <2>3. records[1].todo \in Seq(Nat)  BY <1>3 DEF Record
  <2>4. Len(Front(records)) = 1  BY <1>5, <1>8
  <2>5. records' = [Front(records) EXCEPT ![1].todo = Tail(@),
                                          ![1].held = @ \cup {node}]
    BY <1>2, <2>4
  <2> HIDE DEF node
  <2>6. /\ records'[1].todo = Tail(records[1].todo)
        /\ records'[1].held = records[1].held \cup {node}
    BY <1>3, <1>7, <2>5 DEF Record
  <2>7. node.tock = Head(records[1].todo)  BY <2>2 DEF node
  <2> QED  BY <1>2, <1>4, <2>2, <2>3, <2>6, <2>7, GivenShows
<1>9. CASE n # 2
  <2>1. n - 1 # 1
    <3> HIDE DEF n, m
    <3> QED  BY <1>3n, <1>9
  <2>2. records'[1] = records[1]
    <3> HIDE DEF n
    <3> QED  BY <1>2, <1>5, <1>7, <2>1
  <2>3. Extends(log, log)  BY <1>1 DEF Extends
  <2>4. \A p \in 1..Len(log') : p \in 1..Len(log)  BY <1>2
  <2> QED  BY <1>1, <1>2, <2>2, <2>3, <2>4, Unseen
<1> QED  BY <1>8, <1>9

\* Calls, plays, replays that begin, and evictions show nothing.
LEMMA QuietShows ==
  ASSUME EngineInv, AsksOne, EngineInv', [Next]_vars, UNCHANGED log,
         records'[1].todo = records[1].todo, records'[1].held = records[1].held
  PROVE  Shows
<1>1. /\ Sound /\ Sound' /\ History(log) /\ History(log')
      /\ log \in Seq(Event) /\ log' = log
  BY TopTyped DEF EngineInv
<1>2. Extends(log, log)  BY <1>1 DEF Extends
<1>3. \A p \in 1..Len(log') : p \in 1..Len(log)  BY <1>1
<1> QED  BY <1>1, <1>2, <1>3, Unseen

\* A function is called: the root's record waits.
LEMMA BindShows ==
  ASSUME EngineInv, AsksOne, EngineInv', NEW in \in Args, BindZombie(in)
  PROVE  Shows
<1> DEFINE top == [Top EXCEPT !.ez = <<>>]
           head == PlayedHead(current_tock, [in |-> in, pos |-> Here + 1])
<1>1. Sound /\ Sound'  BY DEF EngineInv
<1>2. in \in Seq(Nat) /\ \A k \in ToSet(in) : k \in MadeIn(log)
  BY <1>1, ArgsMade
<1>3. AtRoot /\ Does("bind", in) /\ records' = Append(WithTop(top), head)
  BY DEF BindZombie
<1>4. Len(records) = 1 /\ Top = records[1]
  BY <1>1, <1>3, RootOnTop DEF AtRoot
<1>5. /\ Top \in Record /\ Here \in Nat /\ current_tock \in Nat
  BY <1>1, TopTyped
<1>6. top \in Record /\ top.todo = Top.todo /\ top.held = Top.held
  <2>1. <<>> \in Seq(Nat)  OBVIOUS
  <2>2. top \in Record  BY <1>5, <2>1, RecordUpdates
  <2> QED  BY <1>5, <2>2 DEF Record
<1>7. head \in Record
  <2>1. [in |-> in, pos |-> Here + 1] \in Replayer  BY <1>2, <1>5 DEF Replayer
  <2> QED  BY <1>5, <2>1, RecordTypes
<1> HIDE DEF top, head
<1>8. records'[1] = top
  <2>1. WithTop(top) \in Seq(Record) /\ Len(WithTop(top)) = 1 /\ WithTop(top)[1] = top
    BY <1>1, <1>4, <1>6, WithTopFacts DEF Sound
  <2>2. Append(WithTop(top), head)[1] = WithTop(top)[1]
    BY <1>7, <2>1, TwoRecords
  <2> QED  BY <1>3, <2>1, <2>2
<1> QED  BY <1>1, <1>2, <1>3, <1>4, <1>6, <1>8, UnseenEvent

\* A body calls on or returns: the root's record still waits.
LEMMA BodyShows ==
  ASSUME EngineInv, AsksOne, EngineInv',
         \/ \E in \in Args : UnrolledTailCall(in) \/ TailCall(in)
         \/ Finish
  PROVE  Shows
<1>1. Sound /\ Sound' /\ Len(records) \in Nat \ {0}
  BY TopTyped DEF EngineInv
<1>2. InBody
  BY DEF UnrolledTailCall, TailCall, Finish
<1>3. Len(records) > 1 /\ Top.kind # "root"
  <2>1. Top.kind = "head"  BY <1>2 DEF InBody
  <2> QED  BY <1>1, <2>1, RootHeight DEF Sound
<1>4. \E r : records' = WithTop(r)
  BY DEF UnrolledTailCall, TailCall, Finish
<1>5. records'[1] = records[1]
  <2>1. PICK r : records' = WithTop(r)  BY <1>4
  <2>2. records \in Seq(Record) /\ DOMAIN records = 1..Len(records)
    BY <1>1 DEF Sound, TypeOK
  <2> DEFINE n == Len(records)
  <2>3. n \in Nat /\ n > 1 /\ DOMAIN records = 1..n  BY <1>1, <1>3, <2>2
  <2>4. records' = [records EXCEPT ![n] = r]  BY <2>1 DEF WithTop
  <2> HIDE DEF n
  <2>5. 1 \in DOMAIN records /\ 1 # n  BY <2>3
  <2> QED  BY <2>4, <2>5
<1>6. CASE \E in \in Args : UnrolledTailCall(in) \/ TailCall(in)
  <2>1. PICK in \in Args : Does("tail", in)
    BY <1>6 DEF UnrolledTailCall, TailCall
  <2>2. in \in Seq(Nat) /\ \A k \in ToSet(in) : k \in MadeIn(log)
    BY <1>1, ArgsMade
  <2> QED  BY <1>1, <1>2, <1>5, <2>1, <2>2, UnseenEvent
<1>7. CASE Finish
  <2>1. Does("ret", <<>>)  BY <1>7 DEF Finish
  <2>2. <<>> \in Seq(Nat) /\ \A k \in ToSet(<<>>) : k \in MadeIn(log)
    BY DEF ToSet
  <2> QED  BY <1>1, <1>2, <1>5, <2>1, <2>2, UnseenEvent
<1> QED  BY <1>6, <1>7

\* Plays, replays that begin and functions that end leave what the root waits
\* for and holds alone.
LEMMA EngineShows ==
  ASSUME EngineInv, Play \/ StartReplay \/ PopValue
  PROVE  /\ UNCHANGED log
         /\ records'[1].todo = records[1].todo /\ records'[1].held = records[1].held
<1>1. /\ Sound /\ Len(records) \in Nat \ {0} /\ records \in Seq(Record)
      /\ DOMAIN records = 1..Len(records) /\ records[1] \in Record
  <2>1. /\ Sound /\ Len(records) \in Nat \ {0} /\ records \in Seq(Record)
        /\ DOMAIN records = 1..Len(records)
    BY TopTyped DEF EngineInv, Sound, TypeOK
  <2> QED  BY <2>1
<1>2. CASE Play
  <2> DEFINE r == [Top EXCEPT !.playing = TRUE, !.todo = Top.rep.in]
  <2>1. records' = WithTop(r) /\ Top.kind = "head" /\ UNCHANGED log
    BY <1>2 DEF Play
  <2>2. Top \in Record /\ Top.rep.in \in Seq(Nat)  BY <1>1, TopTyped
  <2>3. r \in Record  BY <2>2, PlayUpdate
  <2> HIDE DEF r
  <2> QED  BY <1>1, <2>1, <2>3, RootAlike
<1>3. CASE StartReplay
  <2> DEFINE base == akasha[Base(Head(Top.todo))]
             h == PlayedHead(base.end_t, base.end_rep)
  <2>1. /\ UNCHANGED log /\ records' = Append(records, h)
        /\ Top.todo # <<>> /\ HasBase(Head(Top.todo))
    BY <1>3 DEF StartReplay, UserCode
  <2>2. h \in Record
    <3>1. Top.todo \in Seq(Nat)  BY <1>1, TopTyped
    <3>2. Head(Top.todo) \in Nat  BY <2>1, <3>1
    <3>3. base \in Context  BY <1>1, <2>1, <3>2, FindType DEF Sound, TypeOK
    <3>4. base.end_t \in Nat /\ base.end_rep \in Replayer  BY <3>3 DEF Context
    <3> HIDE DEF base
    <3> QED  BY <3>4, RecordTypes
  <2> HIDE DEF h
  <2>3. records'[1] = records[1]
    <3>1. \A i \in 1..Len(records) : Append(records, h)[i] = records[i]
      BY <1>1, <2>2, AppendProperties
    <3>2. 1 \in 1..Len(records)  BY <1>1
    <3> QED  BY <2>1, <3>1, <3>2
  <2> QED  BY <2>1, <2>3
<1>4. CASE PopValue
  <2>1. /\ UNCHANGED log /\ Len(records) > 1
        /\ records' = [Front(records) EXCEPT ![Len(Front(records))].t = current_tock]
    <3>1. Top.kind = "value"  BY <1>4 DEF PopValue
    <3>2. Len(records) > 1  BY <1>1, <3>1, RootHeight DEF Sound
    <3> QED  BY <1>4, <3>2 DEF PopValue
  <2>2. /\ Front(records)[1] = records[1] /\ 1 \in DOMAIN Front(records)
    <3> DEFINE n == Len(records)
    <3>1. /\ Len(Front(records)) = n - 1 /\ Front(records) \in Seq(Record)
          /\ \A i \in 1..(n - 1) : Front(records)[i] = records[i]
      BY <1>1, <2>1, PopFacts
    <3>2. n \in Nat /\ n > 1  BY <1>1, <2>1
    <3>3. 1 \in 1..(n - 1)
      <4> HIDE DEF n
      <4> QED  BY <3>2
    <3> QED  BY <3>1, <3>3
  <2>3. \/ records'[1] = records[1]
        \/ records'[1] = [records[1] EXCEPT !.t = current_tock]
    BY <2>1, <2>2
  <2>4. CASE records'[1] = records[1]  BY <2>1, <2>4
  <2>5. CASE records'[1] = [records[1] EXCEPT !.t = current_tock]
    <3>1. /\ [records[1] EXCEPT !.t = current_tock].todo = records[1].todo
          /\ [records[1] EXCEPT !.t = current_tock].held = records[1].held
      BY <1>1 DEF Record
    <3> QED  BY <2>1, <2>5, <3>1
  <2> QED  BY <2>3, <2>4, <2>5
<1> QED  BY <1>2, <1>3, <1>4

\* Every step of the engine is a step of the promise, or none.
LEMMA StepShows ==
  ASSUME EngineInv, AsksOne, EngineInv', [Next]_vars
  PROVE  Shows
<1>1. CASE RootStep
  <2>1. CASE AtRoot /\ Construct  BY <2>1, ConstructShows
  <2>2. ASSUME NEW in \in Args, BindZombie(in)  PROVE Shows
    BY <2>2, BindShows
  <2>3. ASSUME NEW k \in Made, GetValue(k)  PROVE Shows
    BY <2>3, GetValueShows
  <2>4. ASSUME NEW n \in Top.held, Release(n)  PROVE Shows
    BY <2>4, ReleaseShows
  <2> QED  BY <1>1, <2>1, <2>2, <2>3, <2>4 DEF RootStep
<1>2. CASE BodyStep
  <2>1. CASE InBody /\ Construct  BY <2>1, ConstructShows
  <2>2. CASE \/ \E in \in Args : UnrolledTailCall(in) \/ TailCall(in)
             \/ Finish
    BY <2>2, BodyShows
  <2> QED  BY <1>2, <2>1, <2>2 DEF BodyStep
<1>3. CASE EngineStep
  <2>1. CASE Play \/ StartReplay \/ PopValue
    BY <2>1, EngineShows, QuietShows
  <2>2. ASSUME NEW n \in Nodes, Lock(n)  PROVE Shows
    BY <2>2, LockShows DEF EngineInv
  <2>3. CASE EndReplay  BY <2>3, EndReplayShows DEF EngineInv
  <2> QED  BY <1>3, <2>1, <2>2, <2>3 DEF EngineStep
<1>4. CASE Evict
  <2>1. UNCHANGED <<records, log>>
    BY <1>4 DEF Evict, Murder, EvictIndividual
  <2> QED  BY <2>1, QuietShows
<1>5. CASE UNCHANGED vars \/ Done
  <2>1. UNCHANGED <<records, log>>  BY <1>5 DEF Done, vars
  <2> QED  BY <2>1, QuietShows
<1> QED  BY <1>1, <1>2, <1>3, <1>4, <1>5 DEF Next

\* To the root code, a library that evicts, replays and replays within replays
\* is a table that never forgets: every value it is given is the one it made
\* (EZombie::shared_ptr, ContextNode::replay).
THEOREM PromiseKept == Spec => memo!Promise
<1>1. Init => memo!MemoInit /\ AsksOne
  <2> SUFFICES ASSUME Init  PROVE memo!MemoInit /\ AsksOne
    OBVIOUS
  <2>1. log = <<>> /\ records = <<RootRecord(0)>>  BY DEF Init
  <2>2. /\ records[1].todo = <<>> /\ records[1].held = {}
    BY <2>1 DEF RootRecord
  <2>3. TableOf(log) = [k \in {} |-> 0]  BY <2>1 DEF TableOf
  <2>4. ToSet(<<>>) = {} /\ Len(<<>>) = 0  BY DEF ToSet
  <2> QED  BY <2>2, <2>3, <2>4 DEF memo!MemoInit, AsksOne
<1>2. EngineInv /\ EngineInv' /\ AsksOne /\ [Next]_vars
        => AsksOne' /\ [memo!MemoNext]_(memo!memoVars)
  BY StepShows DEF Shows
<1> QED  BY <1>1, <1>2, EngineInvAlways, PTL DEF Spec, memo!Promise

(***************************************************************************)
(* What the contexts take                                                  *)
(*                                                                         *)
(* A record's dependencies are the older zombies that its function and the *)
(* functions it went on with were called with.                             *)
(***************************************************************************)

\* The event that began the record of a function at tock t.
Begins(e, t) == Ends(e) /\ e.op # "ret" /\ e.tock = t

\* The tail calls within the record that began at t, before place q.
TailsIn(t, q, h) == {p \in 1..(q - 1) : h[p].op = "tail" /\ h[p].head = t}

\* The zombies older than the record that these calls took.
Taken(t, q, h) == {k \in UNION {ToSet(h[p].in) : p \in TailsIn(t, q, h)} : k < t}

\* Only functions make tail calls.
TailsInCalls(h) == \A p \in DOMAIN h : h[p].op = "tail" => h[p].head \in BodyHeads(h)

\* A function's record has the dependencies of the calls so far, and the
\* inputs it was called with.
RecDeps(r, h) ==
  r.kind = "head" =>
    /\ r.deps = Taken(r.t, r.pos, h)
    /\ \E b \in 1..(r.pos - 1) : Begins(h[b], r.t) /\ r.rep.in = h[b].in

\* A context has those of its whole record.
CtxDeps(s, c, h) ==
  \E p \in DOMAIN h :
    /\ Ends(h[p]) /\ h[p].head = s
    /\ c.kind = "root" => c.deps = {}
    /\ c.kind = "full" =>
         \E b \in 1..(p - 1) :
           Begins(h[b], s) /\ c.deps = Taken(s, p, h) \cup ToSet(h[b].in)

DepsInv ==
  /\ TailsInCalls(log)
  /\ \A i \in DOMAIN records : RecDeps(records[i], log)
  /\ \A s \in DOMAIN akasha : CtxDeps(s, akasha[s], log)

\* A record's calls are in its past, and stay what they are.
LEMMA TakenGrows ==
  ASSUME NEW h \in Seq(Event), NEW g \in Seq(Event), Extends(h, g),
         NEW q \in 1..(Len(h) + 1), NEW t
  PROVE  Taken(t, q, g) = Taken(t, q, h)
<1>1. Len(h) \in Nat  BY PlaceFacts
<1>2. \A p \in 1..(q - 1) : p \in 1..Len(h)  BY <1>1
<1>3. \A p \in 1..(q - 1) : g[p] = h[p]  BY <1>2 DEF Extends
<1>4. TailsIn(t, q, g) = TailsIn(t, q, h)  BY <1>3 DEF TailsIn
<1>5. \A p \in TailsIn(t, q, h) : g[p] = h[p]  BY <1>3 DEF TailsIn
<1>6. UNION {ToSet(g[p].in) : p \in TailsIn(t, q, g)}
        = UNION {ToSet(h[p].in) : p \in TailsIn(t, q, h)}
  BY <1>4, <1>5
<1> QED  BY <1>6 DEF Taken

\* A record that begins has made no calls.
LEMMA TakenNone ==
  ASSUME NEW h \in Seq(Event), History(h), NEW b \in 1..Len(h), NEW t,
         Begins(h[b], t)
  PROVE  /\ Taken(t, b + 1, h) = {}
         /\ \A p \in 1..b : h[p].head < t
<1>1. /\ Len(h) \in Nat /\ DOMAIN h = 1..Len(h)
      /\ \A p \in 1..Len(h) : h[p] \in Event
  BY PlaceFacts
<1>2. \A p \in 1..Len(h) : h[p].head \in Nat /\ h[p].tock \in Nat
  BY <1>1, EventFacts
<1>3. h[b].head < t /\ t \in Nat
  BY <1>1, <1>2 DEF Begins, History, HistSteps
<1>4. ASSUME NEW p \in 1..b  PROVE h[p].head < t
  <2>1. p \in 1..Len(h) /\ p \in Int /\ b \in Int  BY <1>1
  <2>2. CASE p < b
    <3>1. h[p].head =< h[b].head  BY <2>1, <2>2, TwoEvents
    <3> QED  BY <1>2, <1>3, <2>1, <3>1
  <2>3. CASE p = b  BY <1>3, <2>3
  <2> QED  BY <2>1, <2>2, <2>3
<1>5. \A p \in 1..b : h[p].head # t
  <2>1. \A p \in 1..b : h[p].head \in Nat  BY <1>1, <1>2
  <2> QED  BY <1>3, <1>4, <2>1
<1>6. b + 1 - 1 = b  BY <1>1
<1>7. TailsIn(t, b + 1, h) = {}  BY <1>5, <1>6 DEF TailsIn
<1> QED  BY <1>4, <1>7 DEF Taken

\* One more event of the record.
LEMMA TakenNext ==
  ASSUME NEW h \in Seq(Event), NEW p \in 1..Len(h), NEW t
  PROVE  Taken(t, p + 1, h) =
           IF h[p].op = "tail" /\ h[p].head = t
           THEN Taken(t, p, h) \cup {k \in ToSet(h[p].in) : k < t}
           ELSE Taken(t, p, h)
<1>1. Len(h) \in Nat /\ p \in Nat  BY PlaceFacts
<1>2. /\ p + 1 - 1 = p /\ p \in 1..p
      /\ \A x \in 1..p : x # p <=> x \in 1..(p - 1)
      /\ \A x \in 1..(p - 1) : x \in 1..p
  BY <1>1
<1>3. CASE h[p].op = "tail" /\ h[p].head = t
  <2>1. TailsIn(t, p + 1, h) = TailsIn(t, p, h) \cup {p}
    BY <1>2, <1>3 DEF TailsIn
  <2>2. UNION {ToSet(h[x].in) : x \in TailsIn(t, p + 1, h)} =
          (UNION {ToSet(h[x].in) : x \in TailsIn(t, p, h)}) \cup ToSet(h[p].in)
    BY <2>1
  <2> QED  BY <1>3, <2>2 DEF Taken
<1>4. CASE ~(h[p].op = "tail" /\ h[p].head = t)
  <2>1. TailsIn(t, p + 1, h) = TailsIn(t, p, h)  BY <1>2, <1>4 DEF TailsIn
  <2> QED  BY <1>4, <2>1 DEF Taken
<1> QED  BY <1>3, <1>4

\* What a record has taken stays true of a longer history.
LEMMA RecDepsGrows ==
  ASSUME NEW h \in Seq(Event), NEW g \in Seq(Event), Extends(h, g),
         NEW r, r.kind = "head" => r.pos \in 2..(Len(h) + 1), RecDeps(r, h)
  PROVE  RecDeps(r, g)
<1> SUFFICES ASSUME r.kind = "head"
             PROVE  /\ r.deps = Taken(r.t, r.pos, g)
                    /\ \E b \in 1..(r.pos - 1) :
                         Begins(g[b], r.t) /\ r.rep.in = g[b].in
  BY DEF RecDeps
<1>1. Len(h) \in Nat /\ r.pos \in 1..(Len(h) + 1)  BY PlaceFacts
<1>2. Taken(r.t, r.pos, g) = Taken(r.t, r.pos, h)  BY <1>1, TakenGrows
<1>3. PICK b \in 1..(r.pos - 1) : Begins(h[b], r.t) /\ r.rep.in = h[b].in
  BY DEF RecDeps
<1>4. b \in 1..Len(h)  BY <1>1
<1>5. g[b] = h[b]  BY <1>4 DEF Extends
<1> QED  BY <1>2, <1>3, <1>5 DEF RecDeps

\* What a context has taken too.
LEMMA CtxDepsGrows ==
  ASSUME NEW h \in Seq(Event), NEW g \in Seq(Event), Extends(h, g),
         NEW s, NEW c, CtxDeps(s, c, h)
  PROVE  CtxDeps(s, c, g)
<1>1. /\ Len(h) \in Nat /\ Len(g) \in Nat
      /\ DOMAIN h = 1..Len(h) /\ DOMAIN g = 1..Len(g)
  BY PlaceFacts
<1>2. PICK p \in DOMAIN h :
        /\ Ends(h[p]) /\ h[p].head = s
        /\ c.kind = "root" => c.deps = {}
        /\ c.kind = "full" =>
             \E b \in 1..(p - 1) :
               Begins(h[b], s) /\ c.deps = Taken(s, p, h) \cup ToSet(h[b].in)
  BY DEF CtxDeps
<1>3. p \in DOMAIN g /\ g[p] = h[p]  BY <1>1 DEF Extends
<1>4. ASSUME c.kind = "full"
      PROVE  \E b \in 1..(p - 1) :
               Begins(g[b], s) /\ c.deps = Taken(s, p, g) \cup ToSet(g[b].in)
  <2>1. PICK b \in 1..(p - 1) :
          Begins(h[b], s) /\ c.deps = Taken(s, p, h) \cup ToSet(h[b].in)
    BY <1>2, <1>4
  <2>2. b \in 1..Len(h) /\ p \in 1..(Len(h) + 1)  BY <1>1
  <2>3. g[b] = h[b]  BY <2>2 DEF Extends
  <2>4. Taken(s, p, g) = Taken(s, p, h)  BY <2>2, TakenGrows
  <2> QED  BY <2>1, <2>3, <2>4
<1> QED  BY <1>2, <1>3, <1>4 DEF CtxDeps

\* The record has taken what the other has.
SameDeps(r, x) ==
  r.kind = "head" =>
    x.kind = "head" /\ r.t = x.t /\ r.pos = x.pos /\ r.deps = x.deps /\ r.rep = x.rep

\* A function's record is at a place of the history.
LEMMA HeadPlace ==
  ASSUME EngineInv, NEW i \in DOMAIN records, records[i].kind = "head"
  PROVE  records[i].pos \in 2..(Len(log) + 1)
<1>1. Sound /\ Places  BY DEF EngineInv
<1>2. i # 1  BY <1>1 DEF Sound, StackOK
<1>3. RecOK(records[i], ClockOf(i), Depth(i) > 1, log)  BY <1>1, <1>2 DEF Places
<1> QED  BY <1>3 DEF RecOK, HeadOK

\* A step that leaves every record and every context what it has taken, or
\* makes it true of a new one.
LEMMA DepsStep ==
  ASSUME EngineInv, DepsInv, log' \in Seq(Event), Extends(log, log'),
         TailsInCalls(log'),
         \A i \in DOMAIN records' :
           \/ \E j \in DOMAIN records : SameDeps(records'[i], records[j])
           \/ RecDeps(records'[i], log'),
         \A s \in DOMAIN akasha' :
           \/ /\ s \in DOMAIN akasha
              /\ akasha'[s].kind = akasha[s].kind /\ akasha'[s].deps = akasha[s].deps
           \/ CtxDeps(s, akasha'[s], log')
  PROVE  DepsInv'
<1>1. log \in Seq(Event)  BY DEF EngineInv, Sound, TypeOK
<1>2. ASSUME NEW i \in DOMAIN records'  PROVE RecDeps(records'[i], log')
  <2>1. CASE RecDeps(records'[i], log')  BY <2>1
  <2>2. ASSUME NEW j \in DOMAIN records, SameDeps(records'[i], records[j])
        PROVE  RecDeps(records'[i], log')
    <3>1. RecDeps(records[j], log)  BY DEF DepsInv
    <3>2. records[j].kind = "head" => records[j].pos \in 2..(Len(log) + 1)
      BY HeadPlace
    <3>3. RecDeps(records[j], log')  BY <1>1, <3>1, <3>2, RecDepsGrows
    <3> QED  BY <2>2, <3>3 DEF RecDeps, SameDeps
  <2> QED  BY <2>1, <2>2
<1>3. ASSUME NEW s \in DOMAIN akasha'  PROVE CtxDeps(s, akasha'[s], log')
  <2>1. CASE CtxDeps(s, akasha'[s], log')  BY <2>1
  <2>2. CASE /\ s \in DOMAIN akasha
             /\ akasha'[s].kind = akasha[s].kind /\ akasha'[s].deps = akasha[s].deps
    <3>1. CtxDeps(s, akasha[s], log)  BY <2>2 DEF DepsInv
    <3>2. CtxDeps(s, akasha[s], log')  BY <1>1, <3>1, CtxDepsGrows
    <3> QED  BY <2>2, <3>2 DEF CtxDeps
  <2> QED  BY <2>1, <2>2
<1> QED  BY <1>2, <1>3 DEF DepsInv

\* The history does not grow, nor the store.
LEMMA QuietDeps ==
  ASSUME EngineInv, DepsInv, log' = log,
         \A i \in DOMAIN records' :
           \/ \E j \in DOMAIN records : SameDeps(records'[i], records[j])
           \/ RecDeps(records'[i], log),
         \A s \in DOMAIN akasha' :
           /\ s \in DOMAIN akasha
           /\ akasha'[s].kind = akasha[s].kind /\ akasha'[s].deps = akasha[s].deps
  PROVE  DepsInv'
<1>1. log \in Seq(Event) /\ Len(log) \in Nat
  BY TopTyped DEF EngineInv
<1>2. Extends(log, log)  BY <1>1 DEF Extends
<1>3. TailsInCalls(log)  BY DEF DepsInv
<1> QED  BY <1>1, <1>2, <1>3, DepsStep

\* Only the record on top changes.
LEMMA TopDeps ==
  ASSUME Sound, NEW r \in Record, records' = WithTop(r),
         SameDeps(r, Top) \/ RecDeps(r, log')
  PROVE  \A i \in DOMAIN records' :
           \/ \E j \in DOMAIN records : SameDeps(records'[i], records[j])
           \/ RecDeps(records'[i], log')
<1>1. /\ Len(records) \in Nat \ {0} /\ DOMAIN records = 1..Len(records)
      /\ Top = records[Len(records)]
  BY TopTyped, TopFacts DEF Sound
<1>2. /\ records' \in Seq(Record) /\ Len(records') = Len(records)
      /\ records'[Len(records)] = r
      /\ \A i \in 1..(Len(records) - 1) : records'[i] = records[i]
  BY WithTopFacts DEF Sound
<1>3. DOMAIN records' = 1..Len(records)  BY <1>2
<1>4. ASSUME NEW i \in 1..Len(records), i # Len(records)
      PROVE  records'[i] = records[i]
  BY <1>1, <1>2, <1>4, NotLast
<1>5. \A i \in DOMAIN records : SameDeps(records[i], records[i])  BY DEF SameDeps
<1>6. Len(records) \in DOMAIN records  BY <1>1
<1> QED  BY <1>1, <1>2, <1>3, <1>4, <1>5, <1>6

\* The head of a function that begins has taken nothing yet.
LEMMA BegunDeps ==
  ASSUME NEW h \in Seq(Event), History(h), NEW p \in 1..Len(h), NEW t,
         Begins(h[p], t), NEW rep, rep.in = h[p].in, rep.pos = p + 1
  PROVE  RecDeps(HeadRecord(t, rep), h) /\ RecDeps(PlayedHead(t, rep), h)
<1>1. Taken(t, p + 1, h) = {}  BY TakenNone
<1>2. p \in 1..(p + 1 - 1)
  <2>1. Len(h) \in Nat  BY PlaceFacts
  <2> QED  BY <2>1
<1>3. /\ HeadRecord(t, rep).deps = {} /\ PlayedHead(t, rep).deps = {}
      /\ HeadRecord(t, rep).pos = p + 1 /\ PlayedHead(t, rep).pos = p + 1
      /\ HeadRecord(t, rep).t = t /\ PlayedHead(t, rep).t = t
      /\ HeadRecord(t, rep).rep = rep /\ PlayedHead(t, rep).rep = rep
  BY DEF HeadRecord, PlayedHead
<1> QED  BY <1>1, <1>2, <1>3 DEF RecDeps

\* What the program does leaves tail calls to functions.
LEMMA TailsGrow ==
  ASSUME EngineInv, DepsInv, AtRoot \/ InBody,
         NEW op \in {"make", "bind", "tail", "ret"}, NEW in \in Seq(Nat),
         \A k \in ToSet(in) : k \in MadeIn(log),
         op = "tail" => InBody, Does(op, in)
  PROVE  /\ log' \in Seq(Event) /\ History(log') /\ Extends(log, log')
         /\ Here \in 1..Len(log') /\ log'[Here] = Now(op, in)
         /\ TailsInCalls(log')
<1>1. Sound /\ History(log) /\ Places /\ Aims  BY DEF EngineInv
<1>2. /\ log' \in Seq(Event) /\ History(log') /\ Extends(log, log')
      /\ Here \in 1..Len(log') /\ log'[Here] = Now(op, in)
      /\ Replaying => log' = log
      /\ ~Replaying => Len(log') = Here /\ Here = Len(log) + 1
  BY <1>1, DoesOK
<1>3. log \in Seq(Event)  BY <1>1, TopTyped
<1>4. BodyHeads(log) \subseteq BodyHeads(log')  BY <1>2, <1>3, ExtendsFacts
<1>5. DOMAIN log = 1..Len(log) /\ DOMAIN log' = 1..Len(log')
  BY <1>2, <1>3, PlaceFacts
<1>6. ASSUME NEW p \in 1..Len(log'), log'[p].op = "tail"
      PROVE  log'[p].head \in BodyHeads(log')
  <2>1. CASE p \in 1..Len(log)
    <3>1. log'[p] = log[p]  BY <1>2, <2>1 DEF Extends
    <3> QED  BY <1>4, <1>5, <1>6, <2>1, <3>1 DEF DepsInv, TailsInCalls
  <2>2. CASE p \notin 1..Len(log)
    <3>1. p = Here  BY <1>1, <1>2, <2>2, OnlyHereNew
    <3>2. op = "tail" /\ log'[p].head = Top.t  BY <1>2, <1>6, <3>1 DEF Now
    <3>3. Top.t \in BodyHeads(log)  BY <1>1, <3>2, HereOK
    <3> QED  BY <1>4, <3>2, <3>3
  <2> QED  BY <2>1, <2>2
<1> QED  BY <1>2, <1>5, <1>6 DEF TailsInCalls

\* The record of a body that runs has taken what it says, in the longer history.
LEMMA BodyDeps ==
  ASSUME EngineInv, DepsInv, InBody, log' \in Seq(Event), Extends(log, log')
  PROVE  /\ Top.pos = Here /\ Top.kind = "head"
         /\ Top.deps = Taken(Top.t, Here, log')
         /\ \E b \in 1..(Here - 1) : Begins(log'[b], Top.t) /\ Top.rep.in = log'[b].in
<1>1. Sound /\ Places /\ Aims  BY DEF EngineInv
<1>2. Top.kind = "head" /\ Here = Top.pos  BY <1>1, HereOK DEF InBody
<1>3. /\ Len(records) \in DOMAIN records /\ Top = records[Len(records)]
      /\ log \in Seq(Event)
  BY <1>1, TopTyped, TopFacts DEF Sound
<1>4. RecDeps(Top, log)  BY <1>3 DEF DepsInv
<1>5. Top.pos \in 2..(Len(log) + 1)  BY <1>2, <1>3, HeadPlace
<1>6. RecDeps(Top, log')  BY <1>3, <1>4, <1>5, RecDepsGrows
<1> QED  BY <1>2, <1>6 DEF RecDeps

(***************************************************************************)
(* Every step keeps it                                                     *)
(***************************************************************************)

\* A zombie is made: no call.
LEMMA ConstructDeps ==
  ASSUME EngineInv, DepsInv, AtRoot \/ InBody, Construct  PROVE DepsInv'
<1> DEFINE r == [Top EXCEPT !.ez = Append(@, Here), !.pos = Here + 1]
<1>1. Sound  BY DEF EngineInv
<1>2. /\ Top \in Record /\ Here \in Nat /\ Top.ez \in Seq(Nat)
  BY <1>1, TopTyped
<1>3. Does("make", <<>>) /\ akasha' = akasha /\ records' = WithTop(r)
  BY DEF Construct
<1>4. /\ log' \in Seq(Event) /\ History(log') /\ Extends(log, log')
      /\ Here \in 1..Len(log') /\ log'[Here] = Now("make", <<>>)
      /\ TailsInCalls(log')
  <2>1. <<>> \in Seq(Nat) /\ \A k \in ToSet(<<>>) : k \in MadeIn(log)  BY DEF ToSet
  <2> QED  BY <1>3, <2>1, TailsGrow
<1>5. log'[Here].op = "make"  BY <1>4 DEF Now
<1>6. /\ r \in Record /\ r.kind = Top.kind /\ r.t = Top.t /\ r.deps = Top.deps
      /\ r.rep = Top.rep /\ r.pos = Here + 1
  <2>1. Append(Top.ez, Here) \in Seq(Nat) /\ Here + 1 \in Nat  BY <1>2
  <2>2. r \in Record  BY <1>2, <2>1, RecordUpdates
  <2> QED  BY <1>2, <2>2 DEF Record
<1> HIDE DEF r
<1>7. RecDeps(r, log')
  <2> SUFFICES ASSUME r.kind = "head"
               PROVE  /\ r.deps = Taken(r.t, r.pos, log')
                      /\ \E b \in 1..(r.pos - 1) :
                           Begins(log'[b], r.t) /\ r.rep.in = log'[b].in
    BY DEF RecDeps
  <2>1. InBody  BY <1>6 DEF AtRoot
  <2>2. /\ Top.deps = Taken(Top.t, Here, log')
        /\ \E b \in 1..(Here - 1) : Begins(log'[b], Top.t) /\ Top.rep.in = log'[b].in
    BY <1>4, <2>1, BodyDeps
  <2>3. Taken(Top.t, Here + 1, log') = Taken(Top.t, Here, log')
    BY <1>4, <1>5, TakenNext
  <2>4. \A b \in 1..(Here - 1) : b \in 1..(Here + 1 - 1)  BY <1>2
  <2>5. PICK b \in 1..(Here - 1) : Begins(log'[b], Top.t) /\ Top.rep.in = log'[b].in
    BY <2>2
  <2>6. b \in 1..(r.pos - 1)
    <3>1. r.pos - 1 = Here  BY <1>2, <1>6
    <3>2. b \in 1..Here  BY <1>2
    <3> QED  BY <3>1, <3>2
  <2>7. Begins(log'[b], r.t) /\ r.rep.in = log'[b].in  BY <1>6, <2>5
  <2>8. r.deps = Taken(r.t, r.pos, log')  BY <1>6, <2>2, <2>3
  <2> QED  BY <2>6, <2>7, <2>8
<1>8. \A i \in DOMAIN records' :
        \/ \E j \in DOMAIN records : SameDeps(records'[i], records[j])
        \/ RecDeps(records'[i], log')
  BY <1>1, <1>3, <1>6, <1>7, TopDeps
<1> QED  BY <1>3, <1>4, <1>8, DepsStep

\* A tail call within the budget: its older inputs are taken.
LEMMA UnrolledDeps ==
  ASSUME EngineInv, DepsInv, NEW in \in Args, UnrolledTailCall(in)  PROVE DepsInv'
<1>1. Sound  BY DEF EngineInv
<1>2. in \in Seq(Nat) /\ \A k \in ToSet(in) : k \in MadeIn(log)
  BY <1>1, ArgsMade
<1>3. /\ Top \in Record /\ Here \in Nat /\ Top.deps \subseteq Nat  BY <1>1, TopTyped
<1>4. /\ InBody /\ Does("tail", in) /\ akasha' = akasha
  BY DEF UnrolledTailCall
<1>5. PICK order \in Orders(in) :
        records' = WithTop([Top EXCEPT
                     !.deps = @ \cup {k \in ToSet(in) : k < Top.t},
                     !.todo = order, !.pos = Here + 1])
  BY DEF UnrolledTailCall
<1> DEFINE r == [Top EXCEPT !.deps = @ \cup {k \in ToSet(in) : k < Top.t},
                            !.todo = order, !.pos = Here + 1]
<1>6. /\ r \in Record /\ r.kind = Top.kind /\ r.t = Top.t /\ r.rep = Top.rep
      /\ r.pos = Here + 1
      /\ r.deps = Top.deps \cup {k \in ToSet(in) : k < Top.t}
  <2>1. order \in Seq(Nat)  BY <1>2, OrdersFacts
  <2>2. /\ Top.deps \cup {k \in ToSet(in) : k < Top.t} \in SUBSET Nat
        /\ Here + 1 \in Nat
    BY <1>2, <1>3, ToSetType
  <2> QED  BY <1>3, <2>1, <2>2 DEF Record
<1>7. records' = WithTop(r)  BY <1>5
<1> HIDE DEF r
<1>8. /\ log' \in Seq(Event) /\ Extends(log, log') /\ Here \in 1..Len(log')
      /\ log'[Here] = Now("tail", in) /\ TailsInCalls(log')
  BY <1>2, <1>4, TailsGrow
<1>9. log'[Here].op = "tail" /\ log'[Here].head = Top.t /\ log'[Here].in = in
  BY <1>8 DEF Now
<1>10. /\ Top.deps = Taken(Top.t, Here, log')
       /\ \E b \in 1..(Here - 1) : Begins(log'[b], Top.t) /\ Top.rep.in = log'[b].in
  BY <1>4, <1>8, BodyDeps
<1>11. Taken(Top.t, Here + 1, log')
         = Taken(Top.t, Here, log') \cup {k \in ToSet(in) : k < Top.t}
  BY <1>8, <1>9, TakenNext
<1>12. RecDeps(r, log')
  <2>1. \A b \in 1..(Here - 1) : b \in 1..(Here + 1 - 1)  BY <1>3
  <2>2. PICK b \in 1..(Here - 1) : Begins(log'[b], Top.t) /\ Top.rep.in = log'[b].in
    BY <1>10
  <2>3. b \in 1..(r.pos - 1)
    <3>1. r.pos - 1 = Here  BY <1>3, <1>6
    <3>2. b \in 1..Here  BY <1>3
    <3> QED  BY <3>1, <3>2
  <2>4. Begins(log'[b], r.t) /\ r.rep.in = log'[b].in  BY <1>6, <2>2
  <2>5. r.deps = Taken(r.t, r.pos, log')  BY <1>6, <1>10, <1>11
  <2> QED  BY <2>3, <2>4, <2>5 DEF RecDeps
<1>13. \A i \in DOMAIN records' :
         \/ \E j \in DOMAIN records : SameDeps(records'[i], records[j])
         \/ RecDeps(records'[i], log')
  BY <1>1, <1>6, <1>7, <1>12, TopDeps
<1> QED  BY <1>4, <1>8, <1>13, DepsStep

\* A record that is completed leaves what it has taken in its context.
LEMMA CompletedDeps ==
  ASSUME EngineInv, DepsInv, InBody, log' \in Seq(Event), Extends(log, log'),
         Here \in 1..Len(log'), Ends(log'[Here]), log'[Here].head = Top.t,
         NEW rep, Completed(rep)
  PROVE  \A s \in DOMAIN akasha' :
           \/ /\ s \in DOMAIN akasha
              /\ akasha'[s].kind = akasha[s].kind /\ akasha'[s].deps = akasha[s].deps
           \/ CtxDeps(s, akasha'[s], log')
<1> DEFINE ctx == [kind |-> "full", end_t |-> current_tock, ez |-> Top.ez,
                   end_rep |-> rep, deps |-> Top.deps \cup ToSet(Top.rep.in)]
<1>1. akasha' = Insert(Top.t, ctx)  BY DEF Completed
<1>2. ctx.kind = "full" /\ ctx.deps = Top.deps \cup ToSet(Top.rep.in)  OBVIOUS
<1> HIDE DEF ctx
<1>3. CtxDeps(Top.t, ctx, log')
  <2>1. Here \in DOMAIN log'  BY PlaceFacts
  <2>2. /\ Top.deps = Taken(Top.t, Here, log')
        /\ \E b \in 1..(Here - 1) : Begins(log'[b], Top.t) /\ Top.rep.in = log'[b].in
    BY BodyDeps
  <2> QED  BY <1>2, <2>1, <2>2 DEF CtxDeps
<1>4. \A s \in DOMAIN akasha' : s = Top.t \/ (s \in DOMAIN akasha /\ akasha'[s] = akasha[s])
  BY <1>1 DEF Insert
<1>5. akasha'[Top.t] = ctx  BY <1>1 DEF Insert
<1> QED  BY <1>3, <1>4, <1>5

\* A tail call past the budget: one record is completed, another begins.
LEMMA TailCallDeps ==
  ASSUME EngineInv, DepsInv, NEW in \in Args, TailCall(in)  PROVE DepsInv'
<1> DEFINE rep == [in |-> in, pos |-> Here + 1]
           r == HeadRecord(current_tock, rep)
<1>1. Sound  BY DEF EngineInv
<1>2. in \in Seq(Nat) /\ \A k \in ToSet(in) : k \in MadeIn(log)
  BY <1>1, ArgsMade
<1>3. Here \in Nat /\ current_tock \in Nat /\ Top.t \in Nat  BY <1>1, TopTyped
<1>4. /\ InBody /\ Does("tail", in) /\ current_tock - Top.t >= UnrollFactor
      /\ Completed(rep) /\ records' = WithTop(r)
  BY DEF TailCall
<1>5. /\ log' \in Seq(Event) /\ History(log') /\ Extends(log, log')
      /\ Here \in 1..Len(log') /\ log'[Here] = Now("tail", in)
      /\ TailsInCalls(log')
  BY <1>2, <1>4, TailsGrow
<1>6. /\ log'[Here].head = Top.t /\ log'[Here].in = in
      /\ Ends(log'[Here]) /\ Begins(log'[Here], current_tock)
  <2>1. /\ log'[Here].op = "tail" /\ log'[Here].tock = current_tock
        /\ log'[Here].head = Top.t /\ log'[Here].in = in
    BY <1>5 DEF Now
  <2> QED  BY <1>4, <2>1 DEF Ends, Begins
<1>7. rep.in = in /\ rep.pos = Here + 1 /\ r \in Record
  <2>1. rep \in Replayer  BY <1>2, <1>3 DEF Replayer
  <2> QED  BY <1>3, <2>1, RecordTypes
<1> HIDE DEF rep
<1>8. RecDeps(r, log')  BY <1>5, <1>6, <1>7, BegunDeps
<1> HIDE DEF r
<1>9. \A i \in DOMAIN records' :
        \/ \E j \in DOMAIN records : SameDeps(records'[i], records[j])
        \/ RecDeps(records'[i], log')
  BY <1>1, <1>4, <1>7, <1>8, TopDeps
<1>10. \A s \in DOMAIN akasha' :
         \/ /\ s \in DOMAIN akasha
            /\ akasha'[s].kind = akasha[s].kind /\ akasha'[s].deps = akasha[s].deps
         \/ CtxDeps(s, akasha'[s], log')
  BY <1>4, <1>5, <1>6, CompletedDeps
<1> QED  BY <1>5, <1>9, <1>10, DepsStep

\* A body returns: its record is completed.
LEMMA FinishDeps ==
  ASSUME EngineInv, DepsInv, Finish  PROVE DepsInv'
<1> DEFINE r == ValueRecord(current_tock)
<1>1. Sound  BY DEF EngineInv
<1>2. InBody /\ Does("ret", <<>>) /\ Completed(NoRep) /\ records' = WithTop(r)
  BY DEF Finish
<1>3. /\ log' \in Seq(Event) /\ Extends(log, log')
      /\ Here \in 1..Len(log') /\ log'[Here] = Now("ret", <<>>)
      /\ TailsInCalls(log')
  <2>1. <<>> \in Seq(Nat) /\ \A k \in ToSet(<<>>) : k \in MadeIn(log)  BY DEF ToSet
  <2> QED  BY <1>2, <2>1, TailsGrow
<1>4. log'[Here].head = Top.t /\ Ends(log'[Here])  BY <1>3 DEF Now, Ends
<1>5. r \in Record /\ RecDeps(r, log')
  <2>1. current_tock \in Nat  BY <1>1, TopTyped
  <2>2. r \in Record  BY <2>1, NoRepType, RecordTypes
  <2>3. r.kind = "value"  BY DEF ValueRecord, RootRecord
  <2> QED  BY <2>2, <2>3 DEF RecDeps
<1> HIDE DEF r
<1>6. \A i \in DOMAIN records' :
        \/ \E j \in DOMAIN records : SameDeps(records'[i], records[j])
        \/ RecDeps(records'[i], log')
  BY <1>1, <1>2, <1>5, TopDeps
<1>7. \A s \in DOMAIN akasha' :
        \/ /\ s \in DOMAIN akasha
           /\ akasha'[s].kind = akasha[s].kind /\ akasha'[s].deps = akasha[s].deps
        \/ CtxDeps(s, akasha'[s], log')
  BY <1>2, <1>3, <1>4, CompletedDeps
<1> QED  BY <1>3, <1>6, <1>7, DepsStep

\* The root calls a function.
LEMMA BindDeps ==
  ASSUME EngineInv, DepsInv, NEW in \in Args, BindZombie(in)  PROVE DepsInv'
<1> DEFINE rep == [in |-> in, pos |-> Here + 1]
           top == [Top EXCEPT !.ez = <<>>]
           head == PlayedHead(current_tock, rep)
           ctx == [kind |-> "root", end_t |-> current_tock, ez |-> Top.ez,
                   end_rep |-> rep, deps |-> {}]
<1>1. Sound  BY DEF EngineInv
<1>2. in \in Seq(Nat) /\ \A k \in ToSet(in) : k \in MadeIn(log)
  BY <1>1, ArgsMade
<1>3. Top \in Record /\ Here \in Nat /\ current_tock \in Nat /\ Top.t \in Nat
  BY <1>1, TopTyped
<1>4. /\ AtRoot /\ Does("bind", in) /\ akasha' = Insert(Top.t, ctx)
      /\ records' = Append(WithTop(top), head)
  BY DEF BindZombie
<1>5. /\ log' \in Seq(Event) /\ History(log') /\ Extends(log, log')
      /\ Here \in 1..Len(log') /\ log'[Here] = Now("bind", in)
      /\ TailsInCalls(log')
  BY <1>2, <1>4, TailsGrow
<1>6. /\ log'[Here].head = Top.t /\ log'[Here].in = in
      /\ Ends(log'[Here]) /\ Begins(log'[Here], current_tock)
  BY <1>5 DEF Now, Ends, Begins
<1>7. rep.in = in /\ rep.pos = Here + 1 /\ head \in Record
  <2>1. rep \in Replayer  BY <1>2, <1>3 DEF Replayer
  <2> QED  BY <1>3, <2>1, RecordTypes
<1>8. top \in Record /\ top.kind = "root"
  <2>1. Top.kind = "root"  BY <1>4 DEF AtRoot
  <2>2. top \in Record
    <3>1. <<>> \in Seq(Nat)  OBVIOUS
    <3> QED  BY <1>3, <3>1, RecordUpdates
  <2> QED  BY <1>3, <2>1, <2>2 DEF Record
<1>9. ctx.kind = "root" /\ ctx.deps = {}  OBVIOUS
<1> HIDE DEF rep, top, ctx
<1>10. RecDeps(head, log')  BY <1>5, <1>6, <1>7, BegunDeps
<1> HIDE DEF head
<1>11. ASSUME NEW i \in DOMAIN records'
       PROVE  \/ \E j \in DOMAIN records : SameDeps(records'[i], records[j])
              \/ RecDeps(records'[i], log')
  <2>1. Len(records) = 1
    <3>1. Top.kind = "root"  BY <1>4 DEF AtRoot
    <3> QED  BY <1>1, <3>1, RootHeight DEF Sound
  <2>2. /\ WithTop(top) \in Seq(Record) /\ Len(WithTop(top)) = 1
        /\ WithTop(top)[1] = top
    BY <1>1, <1>8, <2>1, WithTopFacts DEF Sound
  <2>3. records'[1] = top /\ records'[2] = head /\ DOMAIN records' = {1, 2}
    BY <1>4, <1>7, <2>2, TwoRecords
  <2>4. i = 1 \/ i = 2  BY <2>3
  <2> QED  BY <1>8, <1>10, <2>3, <2>4 DEF RecDeps
<1>12. CtxDeps(Top.t, ctx, log')
  <2>1. Here \in DOMAIN log'  BY <1>5, PlaceFacts
  <2> QED  BY <1>6, <1>9, <2>1 DEF CtxDeps
<1>13. \A s \in DOMAIN akasha' :
         \/ /\ s \in DOMAIN akasha
            /\ akasha'[s].kind = akasha[s].kind /\ akasha'[s].deps = akasha[s].deps
         \/ CtxDeps(s, akasha'[s], log')
  <2>1. \A s \in DOMAIN akasha' :
          s = Top.t \/ (s \in DOMAIN akasha /\ akasha'[s] = akasha[s])
    BY <1>4 DEF Insert
  <2>2. akasha'[Top.t] = ctx  BY <1>4 DEF Insert
  <2> QED  BY <1>12, <2>1, <2>2
<1> QED  BY <1>5, <1>11, <1>13, DepsStep

\* The steps that leave the history alone.
LEMMA QuietStepDeps ==
  ASSUME EngineInv, DepsInv,
         \/ \E k \in Made : GetValue(k)
         \/ \E n \in Top.held : Release(n)
         \/ Play
         \/ \E n \in Nodes : Lock(n)
  PROVE  DepsInv'
<1>1. Sound  BY DEF EngineInv
<1>2. Top \in Record  BY <1>1, TopTyped
<1>3. log' = log /\ akasha' = akasha  BY DEF GetValue, Release, Play, Lock
<1>4. PICK r : records' = WithTop(r) /\ r \in Record /\ SameDeps(r, Top)
  <2>1. ASSUME NEW k \in Made, GetValue(k)
        PROVE  \E r : records' = WithTop(r) /\ r \in Record /\ SameDeps(r, Top)
    <3> DEFINE r == [Top EXCEPT !.todo = <<k>>]
    <3>1. k \in Nat  BY <1>1, ArgsType DEF Sound
    <3>2. r \in Record
      <4>1. <<k>> \in Seq(Nat)  BY <3>1
      <4> QED  BY <1>2, <4>1, RecordUpdates
    <3>3. SameDeps(r, Top)  BY <1>2 DEF SameDeps, Record
    <3> QED  BY <2>1, <3>2, <3>3 DEF GetValue
  <2>2. ASSUME NEW n \in Top.held, Release(n)
        PROVE  \E r : records' = WithTop(r) /\ r \in Record /\ SameDeps(r, Top)
    <3> DEFINE r == [Top EXCEPT !.held = @ \ {n}]
    <3>1. r \in Record
      <4>1. /\ Top.held \ {n} \in SUBSET Node /\ Top.deps \subseteq Nat
            /\ Top.todo \in Seq(Nat) /\ Top.pos \in Nat
        BY <1>1, TopTyped
      <4> QED  BY <1>2, <4>1, RecordUpdates
    <3>2. SameDeps(r, Top)  BY <1>2 DEF SameDeps, Record
    <3> QED  BY <2>2, <3>1, <3>2 DEF Release
  <2>3. CASE Play
    <3> DEFINE r == [Top EXCEPT !.playing = TRUE, !.todo = Top.rep.in]
    <3>1. r \in Record
      <4>1. Top.rep.in \in Seq(Nat)  BY <1>1, TopTyped
      <4> QED  BY <1>2, <4>1, PlayUpdate
    <3>2. SameDeps(r, Top)  BY <1>2 DEF SameDeps, Record
    <3> QED  BY <2>3, <3>1, <3>2 DEF Play
  <2>4. ASSUME NEW n \in Nodes, Lock(n)
        PROVE  \E r : records' = WithTop(r) /\ r \in Record /\ SameDeps(r, Top)
    <3> DEFINE r == [Top EXCEPT !.todo = Tail(@), !.held = @ \cup {n}]
    <3>1. r \in Record
      <4>1. Tail(Top.todo) \in Seq(Nat)
        <5>1. Top.todo \in Seq(Nat) /\ Top.todo # <<>>
          BY <1>1, <2>4, TopTyped DEF Lock, UserCode
        <5> QED  BY <5>1
      <4>2. Top.held \cup {n} \in SUBSET Node
        <5>1. n \in Node  BY <1>1, NodesType DEF Sound
        <5>2. Top.held \subseteq Node  BY <1>1, TopTyped
        <5> QED  BY <5>1, <5>2
      <4> QED  BY <1>2, <4>1, <4>2, RecordUpdates
    <3>2. SameDeps(r, Top)  BY <1>2 DEF SameDeps, Record
    <3> QED  BY <2>4, <3>1, <3>2 DEF Lock
  <2> QED  BY <2>1, <2>2, <2>3, <2>4
<1>5. \A i \in DOMAIN records' :
        \/ \E j \in DOMAIN records : SameDeps(records'[i], records[j])
        \/ RecDeps(records'[i], log')
  BY <1>1, <1>4, TopDeps
<1> QED  BY <1>3, <1>5, QuietDeps

\* A replay begins with the head of the step after its context.
LEMMA StartReplayDeps ==
  ASSUME EngineInv, DepsInv, StartReplay  PROVE DepsInv'
<1> DEFINE n == Len(records)
           s == Base(Head(Top.todo))
           end_t == akasha[s].end_t
           rep == akasha[s].end_rep
           head == PlayedHead(end_t, rep)
<1>1. Sound /\ History(log) /\ Places /\ Aims /\ Contexts /\ Kept
  BY DEF EngineInv
<1>2. /\ ~UserCode /\ ~MustHit(Head(Top.todo)) /\ HasBase(Head(Top.todo))
      /\ rep # NoRep
      /\ records' = Append(records, head) /\ akasha' = akasha /\ log' = log
  BY DEF StartReplay
<1>3. /\ n \in Nat \ {0} /\ DOMAIN records = 1..n /\ log \in Seq(Event)
      /\ records \in Seq(Record)
  BY <1>1, TopTyped DEF Sound, TypeOK
<1>4. s \in DOMAIN akasha
  <2>1. TypeOK  BY <1>1 DEF Sound
  <2>2. Head(Top.todo) \in MadeIn(log)  BY <1>1, <1>2, AskedBefore
  <2>3. Head(Top.todo) \in Nat  BY <1>1, <1>3, <2>2, MadeBefore
  <2> QED  BY <1>2, <2>1, <2>3, FindType
<1>5. head \in Record  BY <1>1, <1>2, <1>4, ReplayHead
<1> HIDE DEF s
<1>6. PICK p \in 1..Len(log) :
        /\ Ends(log[p]) /\ log[p].head = s /\ log[p].tock = akasha[s].end_t
        /\ akasha[s].end_rep = IF log[p].op = "ret" THEN NoRep
                               ELSE [in |-> log[p].in, pos |-> p + 1]
        /\ akasha[s].kind = "root" <=> log[p].op = "bind"
  BY <1>1, <1>4, ContextEvent
<1>7. Begins(log[p], end_t) /\ rep.in = log[p].in /\ rep.pos = p + 1
  BY <1>2, <1>6 DEF Begins
<1> HIDE DEF rep, end_t
<1>8. RecDeps(head, log)  BY <1>1, <1>3, <1>7, BegunDeps
<1> HIDE DEF head
<1>9. /\ records' \in Seq(Record)
      /\ Len(records') = n + 1 /\ records'[n + 1] = head
      /\ \A i \in 1..n : records'[i] = records[i]
  <2>1. records' = Append(records, head)  BY <1>2
  <2>2. /\ Append(records, head) \in Seq(Record)
        /\ Len(Append(records, head)) = Len(records) + 1
        /\ \A i \in 1..Len(records) : Append(records, head)[i] = records[i]
        /\ Append(records, head)[Len(records) + 1] = head
    BY <1>3, <1>5, AppendProperties
  <2> QED  BY <2>1, <2>2
<1>9d. DOMAIN records' = 1..(n + 1)
  <2> HIDE DEF n
  <2> QED  BY <1>9
<1> HIDE DEF n
<1>10. ASSUME NEW i \in DOMAIN records'
       PROVE  \/ \E j \in DOMAIN records : SameDeps(records'[i], records[j])
              \/ RecDeps(records'[i], log)
  <2>1. CASE i = n + 1  BY <1>8, <1>9, <2>1
  <2>2. CASE i # n + 1
    <3>1. i \in DOMAIN records /\ records'[i] = records[i]
      BY <1>3, <1>9, <1>9d, <2>2
    <3>2. SameDeps(records'[i], records[i])  BY <3>1 DEF SameDeps
    <3> QED  BY <3>1, <3>2
  <2> QED  BY <2>1, <2>2
<1> QED  BY <1>2, <1>10, QuietDeps

\* A stack is popped: the record beneath goes on.
LEMMA PopDeps ==
  ASSUME EngineInv, DepsInv, Len(records) > 1, log' = log, akasha' = akasha,
         NEW r, records' = [Front(records) EXCEPT ![Len(records) - 1] = r],
         SameDeps(r, records[Len(records) - 1]) \/ r.kind # "head"
  PROVE  DepsInv'
<1> DEFINE n == Len(records)
           w == Front(records)
<1>1. /\ n \in Nat /\ n > 1 /\ DOMAIN records = 1..n /\ records \in Seq(Record)
  BY TopTyped DEF EngineInv, Sound, TypeOK
<1>2. /\ w \in Seq(Record) /\ Len(w) = n - 1
      /\ \A i \in 1..(n - 1) : w[i] = records[i]
  BY <1>1, PopFacts
<1>3. records' = [w EXCEPT ![n - 1] = r] /\ n - 1 \in DOMAIN records
  BY <1>1
<1>3s. SameDeps(r, records[n - 1]) \/ r.kind # "head"  OBVIOUS
<1> HIDE DEF w, n
<1>4. DOMAIN w = 1..(n - 1)  BY <1>2
<1>5. DOMAIN records' = 1..(n - 1) /\ n - 1 \in 1..(n - 1)  BY <1>1, <1>3, <1>4
<1>6. ASSUME NEW i \in DOMAIN records'
      PROVE  \/ \E j \in DOMAIN records : SameDeps(records'[i], records[j])
             \/ RecDeps(records'[i], log)
  <2>1. CASE i = n - 1
    <3>1. records'[i] = r  BY <1>3, <1>4, <1>5, <2>1
    <3>2. r.kind # "head" => RecDeps(r, log)  BY DEF RecDeps
    <3> QED  BY <1>3, <1>3s, <3>1, <3>2
  <2>2. CASE i # n - 1
    <3>1. records'[i] = records[i] /\ i \in DOMAIN records
      BY <1>1, <1>2, <1>3, <1>4, <1>5, <2>2
    <3>2. SameDeps(records'[i], records[i])  BY <3>1 DEF SameDeps
    <3> QED  BY <3>1, <3>2
  <2> QED  BY <2>1, <2>2
<1> QED  BY <1>6, QuietDeps

\* A replay ends, or a call of the root's.
LEMMA PopStepDeps ==
  ASSUME EngineInv, DepsInv, EndReplay \/ PopValue  PROVE DepsInv'
<1> DEFINE n == Len(records)
           b == n - 1
           w == Front(records)
<1>1. Sound  BY DEF EngineInv
<1>2. n \in Nat /\ Len(replays) \in Nat /\ DOMAIN records = 1..n
      /\ records \in Seq(Record)
  BY <1>1, TopTyped DEF Sound, TypeOK
<1>3. n > 1
  <2>1. CASE EndReplay
    <3>1. Len(replays) > 1  BY <2>1 DEF EndReplay, Replaying
    <3>2. n \in {Len(replays), Len(replays) + 1}
      BY <1>1 DEF Sound, StackOK
    <3> HIDE DEF n
    <3> QED  BY <1>2, <3>1, <3>2
  <2>2. CASE PopValue
    <3>1. Top.kind # "root"  BY <2>2 DEF PopValue
    <3> QED  BY <1>1, <3>1, RootHeight DEF Sound
  <2> QED  BY <2>1, <2>2
<1>4. Len(w) = b /\ w[b] = records[b] /\ records[b] \in Record
  <2>1. /\ Len(w) = b /\ \A i \in 1..b : w[i] = records[i]  BY <1>2, <1>3, PopFacts
  <2>2. b \in 1..b /\ b \in 1..n
    <3> HIDE DEF n
    <3> QED  BY <1>2, <1>3
  <2>3. records[b] \in Record  BY <1>2, <2>2
  <2> QED  BY <2>1, <2>2, <2>3
<1>5. CASE EndReplay
  <2> DEFINE node == [tock |-> Target.at, val |-> Target.got]
             r == [w[b] EXCEPT !.todo = Tail(@), !.held = @ \cup {node}]
  <2>1. /\ akasha' = akasha /\ log' = log
        /\ records' = [w EXCEPT ![b] = [w[b] EXCEPT !.todo = Tail(@),
                                                    !.held = @ \cup {node}]]
    BY <1>4, <1>5 DEF EndReplay
  <2>2. SameDeps(r, records[b])
    <3> HIDE DEF b, w, node
    <3> QED  BY <1>4 DEF SameDeps, Record
  <2>3. records' = [w EXCEPT ![b] = r]  BY <2>1
  <2> HIDE DEF r
  <2> QED  BY <1>3, <2>1, <2>2, <2>3, PopDeps
<1>6. CASE PopValue
  <2> DEFINE r == [w[b] EXCEPT !.t = current_tock]
  <2>1. /\ akasha' = akasha /\ log' = log
        /\ records' = [w EXCEPT ![b] = [w[b] EXCEPT !.t = current_tock]]
    BY <1>4, <1>6 DEF PopValue
  <2>2. r.kind # "head"
    <3>1. ~Replaying /\ n > 1  BY <1>3, <1>6 DEF PopValue
    <3>2. b = 1 /\ 1 \in DOMAIN records
      <4>1. n \in {Len(replays), Len(replays) + 1}
        BY <1>1 DEF Sound, StackOK
      <4>2. ~(Len(replays) > 1)  BY <3>1 DEF Replaying
      <4> HIDE DEF n
      <4> QED  BY <1>2, <3>1, <4>1, <4>2
    <3>3. records[1].kind = "root"  BY <1>1, <3>2 DEF Sound, StackOK
    <3> HIDE DEF w, n
    <3>4. r.kind = records[b].kind
      <4> HIDE DEF b
      <4> QED  BY <1>4 DEF Record
    <3> QED  BY <3>2, <3>3, <3>4
  <2>3. records' = [w EXCEPT ![b] = r]  BY <2>1
  <2> HIDE DEF r
  <2> QED  BY <1>3, <2>1, <2>2, <2>3, PopDeps
<1> QED  BY <1>5, <1>6

\* Evictions take whole contexts, or values: no dependencies.
LEMMA EvictDeps ==
  ASSUME EngineInv, DepsInv, Evict  PROVE DepsInv'
<1>1. log' = log /\ records' = records  BY DEF Evict, Murder, EvictIndividual
<1>2. \A i \in DOMAIN records : SameDeps(records[i], records[i])  BY DEF SameDeps
<1>3. ASSUME NEW s \in DOMAIN akasha'
      PROVE  /\ s \in DOMAIN akasha
             /\ akasha'[s].kind = akasha[s].kind /\ akasha'[s].deps = akasha[s].deps
  <2>1. ASSUME NEW u \in DOMAIN akasha, Murder(u)
        PROVE  s \in DOMAIN akasha /\ akasha'[s] = akasha[s]
    BY <2>1 DEF Murder, Without
  <2>2. ASSUME NEW k \in Made, EvictIndividual(k)
        PROVE  /\ s \in DOMAIN akasha
               /\ akasha'[s].kind = akasha[s].kind /\ akasha'[s].deps = akasha[s].deps
    <3>1. akasha' = [akasha EXCEPT ![FindLE(k)].ez[k - FindLE(k)] = Null]
      BY <2>2 DEF EvictIndividual
    <3>2. s \in DOMAIN akasha  BY <3>1
    <3>3. akasha[s] \in Context  BY <3>2 DEF EngineInv, Sound, TypeOK
    <3> QED  BY <3>1, <3>2, <3>3 DEF Context
  <2> QED  BY <2>1, <2>2 DEF Evict
<1> QED  BY <1>1, <1>2, <1>3, QuietDeps

\* Every step keeps what records and contexts have taken.
LEMMA StepDeps ==
  ASSUME EngineInv, DepsInv, [Next]_vars  PROVE DepsInv'
<1>1. CASE RootStep  BY <1>1, ConstructDeps, BindDeps, QuietStepDeps DEF RootStep
<1>2. CASE BodyStep
  BY <1>2, ConstructDeps, UnrolledDeps, TailCallDeps, FinishDeps DEF BodyStep
<1>3. CASE EngineStep
  BY <1>3, QuietStepDeps, StartReplayDeps, PopStepDeps DEF EngineStep
<1>4. CASE Evict  BY <1>4, EvictDeps
<1>5. CASE Done \/ UNCHANGED vars
  <2>1. UNCHANGED <<akasha, records, log>>  BY <1>5 DEF Done, vars
  <2>2. \A i \in DOMAIN records : SameDeps(records[i], records[i])  BY DEF SameDeps
  <2> QED  BY <2>1, <2>2, QuietDeps
<1> QED  BY <1>1, <1>2, <1>3, <1>4, <1>5 DEF Next

\* At the start there is nothing to take.
LEMMA InitDeps == Init => DepsInv
<1> SUFFICES ASSUME Init  PROVE DepsInv
  OBVIOUS
<1>1. TailsInCalls(log)
  <2>1. log = <<>>  BY DEF Init
  <2> QED  BY <2>1 DEF TailsInCalls
<1>2. ASSUME NEW i \in DOMAIN records  PROVE RecDeps(records[i], log)
  <2>1. records = <<RootRecord(0)>>  BY DEF Init
  <2>2. records[i].kind = "root"  BY <2>1 DEF RootRecord
  <2> QED  BY <2>2 DEF RecDeps
<1>3. DOMAIN akasha = {}  BY DEF Init
<1> QED  BY <1>1, <1>2, <1>3 DEF DepsInv

(***************************************************************************)
(* Contexts and the program                                                *)
(***************************************************************************)

\* The zombies made in the record that began at t, before place q.
MakesIn(t, q, h) == {p \in 1..(q - 1) : h[p].op = "make" /\ h[p].head = t}

\* They are finitely many, one more with each that is made.
LEMMA MakesNext ==
  ASSUME NEW h \in Seq(Event), NEW p \in 1..Len(h), NEW t
  PROVE  /\ IsFiniteSet(MakesIn(t, p, h))
         /\ Cardinality(MakesIn(t, p, h)) \in Nat
         /\ Cardinality(MakesIn(t, p + 1, h)) =
              IF h[p].op = "make" /\ h[p].head = t
              THEN Cardinality(MakesIn(t, p, h)) + 1
              ELSE Cardinality(MakesIn(t, p, h))
<1>1. Len(h) \in Nat /\ p \in Nat  BY PlaceFacts
<1>2. IsFiniteSet(MakesIn(t, p, h)) /\ Cardinality(MakesIn(t, p, h)) \in Nat
  <2>1. p - 1 \in Int /\ 1 \in Int  BY <1>1
  <2>2. IsFiniteSet(1..(p - 1))  BY <2>1, FS_Interval
  <2>3. MakesIn(t, p, h) \in SUBSET (1..(p - 1))  BY DEF MakesIn
  <2>4. IsFiniteSet(MakesIn(t, p, h))  BY <2>2, <2>3, FS_Subset
  <2> QED  BY <2>4, FS_CardinalityType
<1>3. /\ p + 1 - 1 = p /\ p \in 1..p /\ p \notin 1..(p - 1)
      /\ \A x \in 1..p : x # p <=> x \in 1..(p - 1)
      /\ \A x \in 1..(p - 1) : x \in 1..p
  BY <1>1
<1>4. CASE h[p].op = "make" /\ h[p].head = t
  <2>1. MakesIn(t, p + 1, h) = MakesIn(t, p, h) \cup {p}
    BY <1>3, <1>4 DEF MakesIn
  <2>2. p \notin MakesIn(t, p, h)  BY <1>3 DEF MakesIn
  <2>3. Cardinality(MakesIn(t, p, h) \cup {p}) = Cardinality(MakesIn(t, p, h)) + 1
    BY <1>2, <2>2, FS_AddElement
  <2> QED  BY <1>2, <1>4, <2>1, <2>3
<1>5. CASE ~(h[p].op = "make" /\ h[p].head = t)
  <2>1. MakesIn(t, p + 1, h) = MakesIn(t, p, h)  BY <1>3, <1>5 DEF MakesIn
  <2> QED  BY <1>2, <1>5, <2>1
<1> QED  BY <1>2, <1>4, <1>5

\* A record that begins has made nothing.
LEMMA MakesNone ==
  ASSUME NEW h \in Seq(Event), History(h), NEW p \in 1..Len(h), Ends(h[p])
  PROVE  Cardinality(MakesIn(NextHead(h[p]), p + 1, h)) = 0
<1>1. /\ Len(h) \in Nat /\ p \in Nat /\ h[p] \in Event
      /\ \A q \in 1..Len(h) : h[q] \in Event
  BY PlaceFacts
<1>2. /\ h[p].head < h[p].tock /\ h[p].tock =< NextHead(h[p])
      /\ h[p].head \in Nat /\ h[p].tock \in Nat /\ NextHead(h[p]) \in Nat
  BY <1>1, PlaceFacts, EventFacts DEF History, HistSteps
<1>3. ASSUME NEW q \in 1..p  PROVE h[q].head # NextHead(h[p])
  <2>1. q \in 1..Len(h) /\ q \in Nat  BY <1>1
  <2>2. h[q].head \in Nat  BY <1>1, <2>1, EventFacts
  <2>3. CASE q < p
    <3>1. h[q].head =< h[p].head  BY <2>1, <2>3, TwoEvents
    <3> QED  BY <1>2, <2>2, <3>1
  <2>4. CASE q = p  BY <1>2, <2>4
  <2> QED  BY <1>1, <2>1, <2>3, <2>4
<1>4. p + 1 - 1 = p  BY <1>1
<1>5. MakesIn(NextHead(h[p]), p + 1, h) = {}  BY <1>3, <1>4 DEF MakesIn
<1> QED  BY <1>5, FS_EmptySet

\* What one event does to the clock and to the count.
LEMMA ClockNext ==
  ASSUME NEW h \in Seq(Event), History(h), NEW p \in 1..Len(h),
         TockAt(h, p) = HeadAt(h, p) + 1 + Cardinality(MakesIn(HeadAt(h, p), p, h))
  PROVE  TockAt(h, p + 1) =
           HeadAt(h, p + 1) + 1 + Cardinality(MakesIn(HeadAt(h, p + 1), p + 1, h))
<1> DEFINE e == h[p]
           c == Cardinality(MakesIn(e.head, p, h))
<1>1. e \in Event /\ DOMAIN h = 1..Len(h)  BY PlaceFacts
<1>2. e.tock = TockAt(h, p) /\ e.head = HeadAt(h, p)
  BY <1>1 DEF History, HistSteps
<1>3. TockAt(h, p + 1) = NextTock(e) /\ HeadAt(h, p + 1) = NextHead(e)
  BY AfterEvent
<1>4. c \in Nat /\ e.tock \in Nat /\ e.head \in Nat
  BY <1>1, MakesNext, EventFacts
<1>5. e.tock = e.head + 1 + c  BY <1>2
<1>6. CASE Ends(e)
  <2>1. Cardinality(MakesIn(NextHead(e), p + 1, h)) = 0  BY <1>6, MakesNone
  <2>2. NextTock(e) = NextHead(e) + 1
    <3> HIDE DEF e
    <3> QED  BY <1>4, <1>6 DEF NextTock, NextHead
  <2>3. NextHead(e) \in Nat  BY <1>1, EventFacts
  <2> QED  BY <1>3, <2>1, <2>2, <2>3
<1>7. CASE ~Ends(e)
  <2>1. Cardinality(MakesIn(e.head, p + 1, h)) = IF e.op = "make" THEN c + 1 ELSE c
    BY MakesNext
  <2>2. NextHead(e) = e.head /\ NextTock(e) = IF e.op = "make" THEN e.tock + 1 ELSE e.tock
    <3> HIDE DEF e
    <3>1. e.op # "ret"  BY <1>7 DEF Ends
    <3> QED  BY <1>7, <3>1 DEF NextTock, NextHead
  <2>3. /\ TockAt(h, p + 1) = NextTock(e) /\ HeadAt(h, p + 1) = e.head
        /\ Cardinality(MakesIn(HeadAt(h, p + 1), p + 1, h))
             = IF e.op = "make" THEN c + 1 ELSE c
    BY <1>3, <2>1, <2>2
  <2> HIDE DEF e, c
  <2>4. CASE e.op = "make"  BY <1>4, <1>5, <2>2, <2>3, <2>4
  <2>5. CASE e.op # "make"  BY <1>4, <1>5, <2>2, <2>3, <2>5
  <2> QED  BY <2>4, <2>5
<1> QED  BY <1>6, <1>7

\* The clock counts the zombies made since the record began.
LEMMA ClockCounts ==
  ASSUME NEW h \in Seq(Event), History(h), NEW q \in 1..(Len(h) + 1)
  PROVE  TockAt(h, q) = HeadAt(h, q) + 1 + Cardinality(MakesIn(HeadAt(h, q), q, h))
<1> DEFINE Counts(x) ==
             TockAt(h, x) = HeadAt(h, x) + 1 + Cardinality(MakesIn(HeadAt(h, x), x, h))
           Bad == {x \in 1..(Len(h) + 1) : ~Counts(x)}
<1>1. Len(h) \in Nat  BY PlaceFacts
<1> SUFFICES ASSUME Bad # {}  PROVE FALSE
  OBVIOUS
<1>2. Bad \in SUBSET Nat  BY <1>1
<1>3. PICK x \in Bad : \A y \in Bad : x =< y  BY <1>2, LeastElement
<1>4. x \in 1..(Len(h) + 1) /\ ~Counts(x)  OBVIOUS
<1>5. CASE x = 1
  <2>1. TockAt(h, 1) = 1 /\ HeadAt(h, 1) = 0  BY DEF TockAt, HeadAt
  <2>2. MakesIn(0, 1, h) = {}
    <3>1. 1..(1 - 1) = {}  OBVIOUS
    <3> QED  BY <3>1 DEF MakesIn
  <2>3. Cardinality(MakesIn(0, 1, h)) = 0  BY <2>2, FS_EmptySet
  <2>4. Counts(1)  BY <2>1, <2>3
  <2> QED  BY <1>4, <1>5, <2>4
<1>6. CASE x # 1
  <2>1. /\ x - 1 \in 1..Len(h) /\ x - 1 \in 1..(Len(h) + 1)
        /\ ~(x =< x - 1) /\ x - 1 + 1 = x
    BY <1>1, <1>4, <1>6
  <2>2. x - 1 \notin Bad  BY <1>3, <2>1
  <2>3. Counts(x - 1)  BY <2>1, <2>2
  <2>4. Counts(x - 1 + 1)  BY <2>1, <2>3, ClockNext
  <2> QED  BY <1>4, <2>1, <2>4
<1> QED  BY <1>5, <1>6

\* The events of a record that ended, and the first of a function's.
LEMMA RecordEvents ==
  ASSUME NEW h \in Seq(Event), History(h), NEW p \in 1..Len(h), Ends(h[p])
  PROVE  /\ \A q \in 1..Len(h) : h[q].head = h[p].head => q =< p
         /\ \A b \in 1..(p - 1) : Begins(h[b], h[p].head) =>
              /\ b + 1 \in 1..Len(h) /\ h[b + 1].head = h[p].head
              /\ \A q \in 1..Len(h) : h[q].head = h[p].head => b + 1 =< q
<1>1. /\ Len(h) \in Nat /\ p \in Nat /\ DOMAIN h = 1..Len(h)
      /\ \A q \in 1..Len(h) : h[q] \in Event
  BY PlaceFacts
<1>2. \A q \in 1..Len(h) : h[q].head \in Nat /\ h[q].tock \in Nat
  BY <1>1, EventFacts
<1>3. h[p].head < h[p].tock  BY <1>1 DEF History, HistSteps
<1>4. ASSUME NEW q \in 1..Len(h), h[q].head = h[p].head  PROVE q =< p
  <2> SUFFICES ASSUME p < q  PROVE FALSE
    BY <1>1
  <2>1. h[p].tock =< h[q].head  BY TwoEvents
  <2> QED  BY <1>2, <1>3, <1>4, <2>1
<1>5. ASSUME NEW b \in 1..(p - 1), Begins(h[b], h[p].head)
      PROVE  /\ b + 1 \in 1..Len(h) /\ h[b + 1].head = h[p].head
             /\ \A q \in 1..Len(h) : h[q].head = h[p].head => b + 1 =< q
  <2>1. b \in 1..Len(h) /\ b + 1 \in 1..Len(h) /\ b \in Nat  BY <1>1
  <2>2. HeadAt(h, b + 1) = NextHead(h[b])  BY <2>1, AfterEvent
  <2>3. NextHead(h[b]) = h[p].head  BY <1>5 DEF Begins, NextHead
  <2>4. h[b + 1].head = HeadAt(h, b + 1)
    BY <1>1, <2>1 DEF History, HistSteps
  <2>5. \A q \in 1..b : h[q].head < h[p].head  BY <1>5, <2>1, TakenNone
  <2>6. ASSUME NEW q \in 1..Len(h), h[q].head = h[p].head  PROVE b + 1 =< q
    <3>1. q \notin 1..b  BY <1>2, <2>5, <2>6
    <3> QED  BY <1>1, <2>1, <3>1
  <2> QED  BY <2>1, <2>2, <2>3, <2>4, <2>6
<1> QED  BY <1>4, <1>5

\* A stored context is what the program did in its record.
LEMMA MatchNow == EngineInv /\ DepsInv => ContextsMatchProgram
<1> SUFFICES ASSUME EngineInv, DepsInv, NEW s \in DOMAIN akasha
             PROVE
    LET c     == akasha[s]
        last  == CHOOSE p \in EventsOf(s) : \A q \in EventsOf(s) : q =< p
        first == CHOOSE p \in EventsOf(s) : \A q \in EventsOf(s) : p =< q
        calls == {p \in EventsOf(s) : log[p].op = "tail" /\ p # last}
                   \cup (IF c.kind = "full" THEN {first - 1} ELSE {})
    IN  /\ EventsOf(s) # {}
        /\ Len(c.ez) = Cardinality({p \in EventsOf(s) : log[p].op = "make"})
        /\ c.end_t = log[last].tock
        /\ c.end_rep = IF log[last].op = "ret" THEN NoRep
                       ELSE [in |-> log[last].in, pos |-> last + 1]
        /\ c.deps = {k \in UNION {ToSet(log[p].in) : p \in calls} : k < s}
  BY DEF ContextsMatchProgram
<1> DEFINE c     == akasha[s]
           last  == CHOOSE p \in EventsOf(s) : \A q \in EventsOf(s) : q =< p
           first == CHOOSE p \in EventsOf(s) : \A q \in EventsOf(s) : p =< q
           calls == {p \in EventsOf(s) : log[p].op = "tail" /\ p # last}
                      \cup (IF c.kind = "full" THEN {first - 1} ELSE {})
<1>1. Sound /\ History(log) /\ Contexts  BY DEF EngineInv
<1>2. /\ log \in Seq(Event) /\ Len(log) \in Nat /\ DOMAIN log = 1..Len(log)
      /\ \A q \in 1..Len(log) : log[q] \in Event
  BY <1>1, TopTyped, PlaceFacts
<1>3. /\ s \in Nat /\ c.end_t \in Nat /\ c.ez \in Seq(Nat)
      /\ c.end_t = s + Len(c.ez) + 1 /\ c.kind \in {"root", "full"}
  BY <1>1, ContextEnd DEF Context
<1>4. PICK p \in 1..Len(log) :
        /\ Ends(log[p]) /\ log[p].head = s /\ log[p].tock = akasha[s].end_t
        /\ akasha[s].end_rep = IF log[p].op = "ret" THEN NoRep
                               ELSE [in |-> log[p].in, pos |-> p + 1]
        /\ akasha[s].kind = "root" <=> log[p].op = "bind"
  BY <1>1, ContextEvent
<1>5. /\ c.kind = "root" => c.deps = {}
      /\ c.kind = "full" =>
           \E b \in 1..(p - 1) :
             Begins(log[b], s) /\ c.deps = Taken(s, p, log) \cup ToSet(log[b].in)
  <2>1. PICK x \in 1..Len(log) :
          /\ Ends(log[x]) /\ log[x].head = s
          /\ c.kind = "root" => c.deps = {}
          /\ c.kind = "full" =>
               \E b \in 1..(x - 1) :
                 Begins(log[b], s) /\ c.deps = Taken(s, x, log) \cup ToSet(log[b].in)
    BY <1>2 DEF DepsInv, CtxDeps
  <2>2. x = p  BY <1>1, <1>2, <1>4, <2>1, EndsOnce
  <2> QED  BY <2>1, <2>2
<1>6. /\ p \in EventsOf(s) /\ EventsOf(s) = {q \in 1..Len(log) : log[q].head = s}
      /\ \A q \in EventsOf(s) : q =< p
  <2>1. EventsOf(s) = {q \in 1..Len(log) : log[q].head = s}  BY <1>2 DEF EventsOf
  <2> QED  BY <1>1, <1>2, <1>4, <2>1, RecordEvents
<1>4c. /\ Ends(log[p]) /\ log[p].head = s /\ log[p].tock = c.end_t
       /\ c.end_rep = IF log[p].op = "ret" THEN NoRep
                      ELSE [in |-> log[p].in, pos |-> p + 1]
  BY <1>4
<1>7. last = p
  <2>1. last \in EventsOf(s) /\ \A q \in EventsOf(s) : q =< last  BY <1>6
  <2> HIDE DEF last
  <2>2. last =< p /\ p =< last  BY <1>6, <2>1
  <2>3. last \in Nat /\ p \in Nat  BY <1>2, <1>6, <2>1
  <2> QED  BY <2>2, <2>3
<1> HIDE DEF last, c
<1>8. Len(c.ez) = Cardinality({q \in EventsOf(s) : log[q].op = "make"})
  <2>1. {q \in EventsOf(s) : log[q].op = "make"} = MakesIn(s, p, log)
    <3>1. log[p].op # "make"  BY <1>2, <1>4, EventFacts
    <3>2. \A q \in 1..(p - 1) : q \in 1..Len(log)  BY <1>2
    <3>3. ASSUME NEW q \in EventsOf(s), log[q].op = "make"  PROVE q \in 1..(p - 1)
      <4>1. q # p /\ q =< p /\ q \in 1..Len(log)  BY <1>6, <3>1, <3>3
      <4> QED  BY <1>2, <4>1
    <3> QED  BY <1>6, <3>2, <3>3 DEF MakesIn
  <2>2. p \in 1..(Len(log) + 1)  BY <1>2
  <2>3. TockAt(log, p) = HeadAt(log, p) + 1 + Cardinality(MakesIn(HeadAt(log, p), p, log))
    BY <1>1, <1>2, <2>2, ClockCounts
  <2>4. log[p].tock = TockAt(log, p) /\ log[p].head = HeadAt(log, p)
    BY <1>1, <1>2 DEF History, HistSteps
  <2> DEFINE m == Cardinality(MakesIn(s, p, log))
             l == Len(c.ez)
  <2>5. c.end_t = s + 1 + m
    <3>1. HeadAt(log, p) = s /\ TockAt(log, p) = c.end_t  BY <1>4c, <2>4
    <3> QED  BY <2>3, <3>1
  <2>6. m \in Nat  BY <1>2, MakesNext
  <2>7. l \in Nat  BY <1>3
  <2>8. c.end_t = s + l + 1  BY <1>3
  <2>9. l = m
    <3> HIDE DEF m, l
    <3> QED  BY <1>3, <2>5, <2>6, <2>7, <2>8
  <2> QED  BY <2>1, <2>9
<1>9. c.deps = {k \in UNION {ToSet(log[x].in) : x \in calls} : k < s}
  <2>1. CASE c.kind = "root"
    <3>1. s \in RootHeads(log)
      BY <1>1, <2>1 DEF Contexts, CtxOK, c
    <3>2. \A q \in EventsOf(s) : log[q].op # "tail"
      <4>1. s \notin BodyHeads(log)  BY <1>1, <1>2, <3>1, TocksApart
      <4> QED  BY <1>2, <1>6, <4>1 DEF DepsInv, TailsInCalls
    <3>3. calls = {}  BY <2>1, <3>2
    <3> QED  BY <1>5, <2>1, <3>3
  <2>2. CASE c.kind = "full"
    <3>1. PICK b \in 1..(p - 1) :
            Begins(log[b], s) /\ c.deps = Taken(s, p, log) \cup ToSet(log[b].in)
      BY <1>5, <2>2
    <3>2. /\ b + 1 \in EventsOf(s) /\ \A q \in EventsOf(s) : b + 1 =< q
          /\ b \in Nat /\ b \in 1..Len(log)
      <4>1. b \in Nat /\ b \in 1..Len(log)  BY <1>2
      <4>2. /\ b + 1 \in 1..Len(log) /\ log[b + 1].head = log[p].head
            /\ \A q \in 1..Len(log) : log[q].head = log[p].head => b + 1 =< q
        BY <1>1, <1>2, <1>4, <3>1, RecordEvents
      <4> QED  BY <1>4, <1>6, <4>1, <4>2
    <3>3. first = b + 1
      <4>1. first \in EventsOf(s) /\ \A q \in EventsOf(s) : first =< q  BY <3>2
      <4> HIDE DEF first
      <4>2. first =< b + 1 /\ b + 1 =< first  BY <3>2, <4>1
      <4>3. first \in Nat  BY <1>2, <1>6, <4>1
      <4> QED  BY <3>2, <4>2, <4>3
    <3> HIDE DEF first
    <3>4. {x \in EventsOf(s) : log[x].op = "tail" /\ x # p} = TailsIn(s, p, log)
      <4>1. \A x \in 1..(p - 1) : x \in 1..Len(log) /\ x # p  BY <1>2
      <4>2. ASSUME NEW x \in EventsOf(s), x # p  PROVE x \in 1..(p - 1)
        <5>1. x =< p /\ x \in 1..Len(log)  BY <1>6
        <5> QED  BY <1>2, <4>2, <5>1
      <4> QED  BY <1>6, <4>1, <4>2 DEF TailsIn
    <3>5. calls = TailsIn(s, p, log) \cup {b}
      <4>1. first - 1 = b  BY <3>2, <3>3
      <4> QED  BY <1>7, <2>2, <3>4, <4>1
    <3> HIDE DEF calls
    <3>6. UNION {ToSet(log[x].in) : x \in calls} =
            (UNION {ToSet(log[x].in) : x \in TailsIn(s, p, log)}) \cup ToSet(log[b].in)
      BY <3>5
    <3>7. \A k \in ToSet(log[b].in) : k < s
      BY <1>1, <1>2, <3>1, <3>2, InputsBefore DEF Begins
    <3> QED  BY <3>1, <3>6, <3>7 DEF Taken
  <2> QED  BY <1>3, <2>1, <2>2
<1>10. /\ EventsOf(s) # {} /\ c.end_t = log[last].tock
       /\ c.end_rep = IF log[last].op = "ret" THEN NoRep
                      ELSE [in |-> log[last].in, pos |-> last + 1]
  BY <1>4c, <1>6, <1>7
<1> QED  BY <1>8, <1>9, <1>10 DEF c, last

\* A stored context, stored by the first run or by a replay, after whatever
\* evictions, is what the program did in that record: as many zombies, the
\* same dependencies, and it goes on where the program went on
\* (HeadRecordNode::completed, RootRecordNode::suspended).
THEOREM ContextsFaithful == Spec => []ContextsMatchProgram
<1>1. Init => EngineInv /\ DepsInv  BY InitEngine, InitDeps
<1>2. EngineInv /\ DepsInv /\ [Next]_vars => EngineInv' /\ DepsInv'
  BY EngineStepOK, StepDeps
<1>3. EngineInv /\ DepsInv => ContextsMatchProgram  BY MatchNow
<1> QED  BY <1>1, <1>2, <1>3, PTL DEF Spec
=============================================================================
