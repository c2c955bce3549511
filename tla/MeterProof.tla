----------------------------- MODULE MeterProof -----------------------------
(***************************************************************************)
(* Proofs about the meter, for every clock, every depth of calls and any   *)
(* order of them.                                                          *)
(***************************************************************************)
EXTENDS MeterStopwatch, ProofFacts, FiniteSetTheorems

Stamp == [constructed_time : Nat, skipping_time : Nat]
Call  == [kind : {"measure", "block"}, before : Int]

MeterTypeOK ==
  /\ clock \in Nat
  /\ stack \in Seq(Stamp) /\ stack # <<>>
  /\ calls \in Seq(Call)
  /\ recompute_time \in Int
  /\ result \in Int
  /\ aborted \in BOOLEAN

\* What every step keeps.
MeterInv == MeterTypeOK /\ NodesFit

(***************************************************************************)
(* Open replays                                                            *)
(***************************************************************************)

\* There are finitely many open replays, also of those around a call.
LEMMA BlocksFinite ==
  ASSUME NEW s \in Seq(Call), NEW T \in SUBSET Blocks(s)
  PROVE  IsFiniteSet(T) /\ Cardinality(T) \in Nat
<1>1. Len(s) \in Nat /\ DOMAIN s = 1..Len(s)  BY LenProperties
<1>2. IsFiniteSet(1..Len(s))  BY <1>1, FS_Interval
<1>3. T \subseteq 1..Len(s)  BY <1>1 DEF Blocks
<1>4. IsFiniteSet(T)  BY <1>2, <1>3, FS_Subset
<1> QED  BY <1>4, FS_CardinalityType

\* A call that begins.
LEMMA BlocksAppend ==
  ASSUME NEW s \in Seq(Call), NEW c \in Call
  PROVE  Blocks(Append(s, c)) =
           IF c.kind = "block" THEN Blocks(s) \cup {Len(s) + 1} ELSE Blocks(s)
<1>1. Len(s) \in Nat /\ DOMAIN s = 1..Len(s)  BY LenProperties
<1>2. Append(s, c) \in Seq(Call) /\ Len(Append(s, c)) = Len(s) + 1
  BY AppendFacts
<1>3. DOMAIN Append(s, c) = 1..(Len(s) + 1)  BY <1>2, LenProperties
<1>4. Append(s, c)[Len(s) + 1] = c /\ \A i \in 1..Len(s) : Append(s, c)[i] = s[i]
  BY AppendFacts
<1>5. \A i : i \in 1..(Len(s) + 1) <=> i \in 1..Len(s) \/ i = Len(s) + 1
  BY <1>1
<1>6. Len(s) + 1 \notin 1..Len(s)  BY <1>1
<1> QED  BY <1>1, <1>3, <1>4, <1>5, <1>6, Zenon DEF Blocks

\* A call that ends.
LEMMA BlocksFront ==
  ASSUME NEW s \in Seq(Call), s # <<>>
  PROVE  Blocks(Front(s)) = Blocks(s) \ {Len(s)}
<1>1. Len(s) \in Nat /\ DOMAIN s = 1..Len(s)  BY LenProperties
<1>2. Front(s) \in Seq(Call) /\ Len(Front(s)) = Len(s) - 1  BY FrontFacts
<1>3. DOMAIN Front(s) = 1..(Len(s) - 1)  BY <1>2, LenProperties
<1>4. \A i \in 1..(Len(s) - 1) : Front(s)[i] = s[i]  BY FrontFacts
<1>5. \A i : i \in 1..(Len(s) - 1) <=> i \in 1..Len(s) /\ i # Len(s)
  BY <1>1
<1> QED  BY <1>1, <1>3, <1>4, <1>5, Zenon DEF Blocks

\* How many replays are open after a call has begun.
LEMMA CountAppend ==
  ASSUME NEW s \in Seq(Call), NEW c \in Call
  PROVE  Cardinality(Blocks(Append(s, c))) =
           IF c.kind = "block" THEN Cardinality(Blocks(s)) + 1
                               ELSE Cardinality(Blocks(s))
<1>1. Len(s) + 1 \notin Blocks(s)
  <2>1. Len(s) \in Nat /\ DOMAIN s = 1..Len(s)  BY LenProperties
  <2> QED  BY <2>1 DEF Blocks
<1>2. IsFiniteSet(Blocks(s))  BY BlocksFinite
<1>3. Cardinality(Blocks(s) \cup {Len(s) + 1}) = Cardinality(Blocks(s)) + 1
  BY <1>1, <1>2, FS_AddElement
<1> QED  BY <1>3, BlocksAppend

\* How many were open before a call ended.
LEMMA CountFront ==
  ASSUME NEW s \in Seq(Call), s # <<>>
  PROVE  Cardinality(Blocks(Front(s))) =
           IF Last(s).kind = "block" THEN Cardinality(Blocks(s)) - 1
                                     ELSE Cardinality(Blocks(s))
<1>1. Last(s) = s[Len(s)] /\ Len(s) \in Nat \ {0}  BY LastFacts
<1>2. DOMAIN s = 1..Len(s)  BY LenProperties
<1>3. Len(s) \in Blocks(s) <=> Last(s).kind = "block"
  BY <1>1, <1>2 DEF Blocks
<1>4. IsFiniteSet(Blocks(s))  BY BlocksFinite
<1>5. Cardinality(Blocks(s) \ {Len(s)}) =
        IF Len(s) \in Blocks(s) THEN Cardinality(Blocks(s)) - 1
                                ELSE Cardinality(Blocks(s))
  BY <1>4, FS_RemoveElement
<1> QED  BY <1>3, <1>5, BlocksFront

(***************************************************************************)
(* The inductive invariant                                                 *)
(***************************************************************************)

\* The top of the stack and the time read there.
LEMMA TopOfStack ==
  ASSUME MeterInv
  PROVE  /\ clock \in Nat
         /\ Len(stack) \in Nat \ {0}
         /\ \A i \in 1..Len(stack) : /\ stack[i] \in Stamp
                                     /\ stack[i].constructed_time \in Nat
                                     /\ stack[i].skipping_time \in Nat
         /\ Last(stack) = stack[Len(stack)]
         /\ Last(stack).constructed_time + Last(stack).skipping_time =< clock
         /\ time \in Int
<1>1. stack \in Seq(Stamp) /\ stack # <<>> /\ clock \in Nat
  BY DEF MeterInv, MeterTypeOK
<1>2. Len(stack) \in Nat \ {0} /\ Last(stack) = stack[Len(stack)]
  BY <1>1, LastFacts
<1>3. \A i \in 1..Len(stack) : stack[i] \in Stamp  BY <1>1, ElementOfSeq
<1>4. \A i \in 1..Len(stack) : /\ stack[i].constructed_time \in Nat
                               /\ stack[i].skipping_time \in Nat
  BY <1>3 DEF Stamp
<1>5. Last(stack).constructed_time + Last(stack).skipping_time =< clock
  BY DEF MeterInv, NodesFit
<1>6. Len(stack) \in 1..Len(stack)  BY <1>2
<1>7. time \in Int  BY <1>1, <1>2, <1>4, <1>6 DEF time
<1> QED  BY <1>1, <1>2, <1>3, <1>4, <1>5, <1>7

\* There is a node under each open replay.
LEMMA NodeBelow ==
  ASSUME MeterInv, calls # <<>>, Last(calls).kind = "block"
  PROVE  Len(stack) - 1 \in 1..Len(stack) /\ Len(stack) > 1
<1>1. calls \in Seq(Call)  BY DEF MeterInv, MeterTypeOK
<1>2. Cardinality(Blocks(calls)) \in Nat  BY <1>1, BlocksFinite
<1>3. Front(calls) \in Seq(Call)  BY <1>1, FrontFacts
<1>4. Cardinality(Blocks(Front(calls))) \in Nat  BY <1>3, BlocksFinite
<1>5. Cardinality(Blocks(calls)) > 0  BY <1>1, <1>2, <1>4, CountFront
<1>6. Len(stack) = 1 + Cardinality(Blocks(calls))  BY DEF MeterInv, NodesFit
<1> QED  BY <1>2, <1>5, <1>6

\* The stack after block: one node less, and the one on top skips the time
\* since the lost one was made.
LEMMA UnblockedFacts ==
  ASSUME MeterInv, calls # <<>>, Last(calls).kind = "block",
         NEW n, n = Len(stack) - 1
  PROVE  /\ n \in Nat \ {0} /\ Len(stack) = n + 1
         /\ Unblocked(stack) \in Seq(Stamp)
         /\ Len(Unblocked(stack)) = n
         /\ \A i \in 1..(n - 1) : Unblocked(stack)[i] = stack[i]
         /\ Unblocked(stack)[n].constructed_time = stack[n].constructed_time
         /\ Unblocked(stack)[n].skipping_time =
              stack[n].skipping_time + (clock - stack[n + 1].constructed_time)
<1> DEFINE inner == Last(stack)
           rest  == Front(stack)
           taken == clock - inner.skipping_time - inner.constructed_time
           node  == [rest[n] EXCEPT !.skipping_time =
                       @ + taken + inner.skipping_time]
<1>1. n \in Nat \ {0} /\ Len(stack) = n + 1  BY NodeBelow, TopOfStack
<1>2. stack \in Seq(Stamp) /\ stack # <<>>  BY DEF MeterInv, MeterTypeOK
<1>3. /\ rest \in Seq(Stamp) /\ Len(rest) = n
      /\ \A i \in 1..n : rest[i] = stack[i]
  BY <1>1, <1>2, FrontFacts
<1>4. Unblocked(stack) = [rest EXCEPT ![n] = node]
  BY <1>3 DEF Unblocked
<1>5. inner = stack[n + 1] /\ n + 1 \in 1..Len(stack) /\ n \in 1..Len(stack)
  BY <1>1, TopOfStack
<1>6. /\ inner.constructed_time \in Nat /\ inner.skipping_time \in Nat
      /\ clock \in Nat /\ inner.constructed_time + inner.skipping_time =< clock
  BY <1>5, TopOfStack
<1>7. rest[n] = stack[n] /\ stack[n] \in Stamp /\ stack[n].skipping_time \in Nat
  BY <1>1, <1>3, <1>5, TopOfStack
<1>8. /\ node.constructed_time = stack[n].constructed_time
      /\ node.skipping_time =
           stack[n].skipping_time + taken + inner.skipping_time
  BY <1>7 DEF Stamp
<1>9. /\ taken + inner.skipping_time = clock - inner.constructed_time
      /\ clock - inner.constructed_time \in Nat
  BY <1>6
<1>10. stack[n].skipping_time + taken + inner.skipping_time =
         stack[n].skipping_time + (clock - inner.constructed_time)
  BY <1>6, <1>7, SMTT(30)
<1>11. node \in Stamp
  <2>1. stack[n].skipping_time + (clock - inner.constructed_time) \in Nat
    BY <1>7, <1>9
  <2>2. node = [rest[n] EXCEPT !.skipping_time =
                  stack[n].skipping_time + (clock - inner.constructed_time)]
    BY <1>7, <1>10
  <2> HIDE DEF inner, rest, taken, node
  <2> QED  BY <1>7, <2>1, <2>2 DEF Stamp
<1>12. /\ Unblocked(stack) \in Seq(Stamp) /\ Len(Unblocked(stack)) = n
       /\ Unblocked(stack)[n] = node
       /\ \A i \in 1..(n - 1) : Unblocked(stack)[i] = rest[i]
  <2> HIDE DEF inner, rest, taken, node
  <2>1. rest # <<>>  BY <1>1, <1>3, EmptySeq
  <2> QED  BY <1>3, <1>4, <1>11, <2>1, ExceptFacts
<1>13. \A i \in 1..(n - 1) : rest[i] = stack[i]  BY <1>1, <1>3
<1> QED  BY <1>1, <1>5, <1>8, <1>10, <1>12, <1>13

\* There is one node and nothing is open at first.
LEMMA MeterInitInv == MeterInit => MeterInv
<1> SUFFICES ASSUME MeterInit  PROVE MeterInv
  OBVIOUS
<1>1. /\ clock = 0 /\ stack = <<Node(0)>> /\ calls = <<>> /\ recompute_time = 0
      /\ result = -1 /\ aborted = FALSE
  BY DEF MeterInit
<1>2. Node(0) \in Stamp  BY DEF Node, Stamp
<1>3. stack \in Seq(Stamp) /\ stack # <<>> /\ Len(stack) = 1 /\ Last(stack) = Node(0)
  BY <1>1, <1>2 DEF Last
<1>4. Blocks(calls) = {}  BY <1>1 DEF Blocks
<1>5. Len(stack) = 1 + Cardinality(Blocks(calls))
  BY <1>3, <1>4, FS_EmptySet
<1>6. Last(stack).constructed_time + Last(stack).skipping_time =< clock
  BY <1>1, <1>3 DEF Node
<1>7. NodesFit
  <2>1. 1..(Len(stack) - 1) = {}  BY <1>3
  <2> QED  BY <1>5, <1>6, <2>1 DEF NodesFit
<1>8. MeterTypeOK
  <2>1. calls \in Seq(Call)  BY <1>1, EmptySeq
  <2>2. clock \in Nat /\ recompute_time \in Int /\ result \in Int  BY <1>1
  <2>3. aborted \in BOOLEAN  BY <1>1
  <2> QED  BY <1>3, <2>1, <2>2, <2>3 DEF MeterTypeOK
<1> QED  BY <1>7, <1>8 DEF MeterInv

\* Types are kept.
LEMMA MeterStepTypes ==
  ASSUME MeterInv, MeterNext
  PROVE  MeterTypeOK'
<1>1. MeterTypeOK  BY DEF MeterInv
<1>2. time \in Int /\ clock \in Nat  BY TopOfStack
<1>3. ASSUME calls # <<>>
      PROVE  /\ Front(calls) \in Seq(Call)
             /\ Last(calls).before \in Int
  <2>1. calls \in Seq(Call)  BY <1>1 DEF MeterTypeOK
  <2>2. Last(calls) \in Call  BY <1>3, <2>1, LastFacts
  <2> QED  BY <1>3, <2>1, <2>2, FrontFacts DEF Call
<1>4. ASSUME NEW d \in Amounts, Elapse(d)  PROVE MeterTypeOK'
  <2>1. d \in Nat  BY TimeAssumption
  <2>2. clock + d \in Nat  BY <1>2, <2>1
  <2> QED  BY <1>1, <1>4, <2>2 DEF Elapse, MeterTypeOK
<1>5. ASSUME BeginMeasured  PROVE MeterTypeOK'
  <2>1. [kind |-> "measure", before |-> time] \in Call  BY <1>2 DEF Call
  <2>2. calls' \in Seq(Call)
    BY <1>1, <1>5, <2>1, AppendFacts DEF BeginMeasured, MeterTypeOK
  <2> QED  BY <1>1, <1>5, <2>2 DEF BeginMeasured, MeterTypeOK
<1>6. ASSUME EndMeasured  PROVE MeterTypeOK'
  <2>1. calls # <<>> /\ calls' = Front(calls) /\ result' = time - Last(calls).before
    BY <1>6 DEF EndMeasured
  <2>2. calls' \in Seq(Call) /\ result' \in Int  BY <1>2, <1>3, <2>1
  <2> QED  BY <1>1, <1>6, <2>2 DEF EndMeasured, MeterTypeOK
<1>7. ASSUME BeginBlock  PROVE MeterTypeOK'
  <2>1. [kind |-> "block", before |-> clock] \in Call  BY <1>2 DEF Call
  <2>2. Node(clock) \in Stamp  BY <1>2 DEF Node, Stamp
  <2>3. calls' \in Seq(Call)
    BY <1>1, <1>7, <2>1, AppendFacts DEF BeginBlock, MeterTypeOK
  <2>4. stack' \in Seq(Stamp) /\ stack' # <<>>
    BY <1>1, <1>7, <2>2, AppendFacts DEF BeginBlock, MeterTypeOK
  <2> QED  BY <1>1, <1>7, <2>3, <2>4 DEF BeginBlock, MeterTypeOK
<1>8. ASSUME EndBlock  PROVE MeterTypeOK'
  <2>1. /\ calls # <<>> /\ Last(calls).kind = "block" /\ calls' = Front(calls)
        /\ stack' = Unblocked(stack) /\ recompute_time' = Recomputed
        /\ clock' = clock /\ result' = result /\ aborted' = aborted
    BY <1>8 DEF EndBlock
  <2>2. calls' \in Seq(Call)  BY <1>3, <2>1
  <2>3. /\ Len(stack) - 1 \in Nat \ {0}
        /\ stack' \in Seq(Stamp) /\ Len(stack') = Len(stack) - 1
    BY <2>1, UnblockedFacts
  <2>4. stack' # <<>>  BY <2>3, EmptySeq
  <2>5. recompute_time' \in Int
    <3>1. recompute_time \in Int  BY <1>1 DEF MeterTypeOK
    <3> QED  BY <1>2, <1>3, <2>1, <3>1 DEF Recomputed
  <2> QED  BY <1>1, <2>1, <2>2, <2>3, <2>4, <2>5 DEF MeterTypeOK
<1>9. ASSUME Abort  PROVE MeterTypeOK'
  BY <1>1, <1>9 DEF Abort, MeterTypeOK
<1> QED  BY <1>4, <1>5, <1>6, <1>7, <1>8, <1>9 DEF MeterNext

\* The nodes keep to each other and to the open replays.
LEMMA MeterStepNodes ==
  ASSUME MeterInv, MeterNext
  PROVE  NodesFit'
<1>1. MeterTypeOK /\ NodesFit  BY DEF MeterInv
<1>2. calls \in Seq(Call) /\ stack \in Seq(Stamp) /\ stack # <<>> /\ clock \in Nat
  BY <1>1 DEF MeterTypeOK
<1>3. Len(stack) = 1 + Cardinality(Blocks(calls)) /\ Cardinality(Blocks(calls)) \in Nat
  BY <1>1, <1>2, BlocksFinite DEF NodesFit
<1>4. \A i \in 1..(Len(stack) - 1) :
        /\ stack[i].constructed_time =< stack[i + 1].constructed_time
        /\ stack[i].constructed_time + stack[i].skipping_time
             =< stack[i + 1].constructed_time
  BY <1>1 DEF NodesFit
<1>5. ASSUME stack' = stack, Cardinality(Blocks(calls')) = Cardinality(Blocks(calls)),
             clock' \in Nat, clock =< clock'
      PROVE  NodesFit'
  <2>1. /\ Len(stack) \in Nat \ {0} /\ Last(stack) = stack[Len(stack)]
        /\ Last(stack).constructed_time + Last(stack).skipping_time =< clock
    BY TopOfStack
  <2>2. Last(stack).constructed_time + Last(stack).skipping_time \in Nat
    BY <2>1, TopOfStack
  <2>3. Last(stack').constructed_time + Last(stack').skipping_time =< clock'
    BY <1>2, <1>5, <2>1, <2>2
  <2> QED  BY <1>3, <1>4, <1>5, <2>3 DEF NodesFit
<1>6. ASSUME NEW d \in Amounts, Elapse(d)  PROVE NodesFit'
  <2>1. d \in Nat  BY TimeAssumption
  <2> QED  BY <1>2, <1>5, <1>6, <2>1 DEF Elapse
<1>7. ASSUME BeginMeasured  PROVE NodesFit'
  <2>1. time \in Int  BY TopOfStack
  <2>2. [kind |-> "measure", before |-> time] \in Call  BY <2>1 DEF Call
  <2>3. Cardinality(Blocks(calls')) = Cardinality(Blocks(calls))
    BY <1>2, <1>7, <2>2, CountAppend DEF BeginMeasured
  <2> QED  BY <1>2, <1>5, <1>7, <2>3 DEF BeginMeasured
<1>8. ASSUME EndMeasured  PROVE NodesFit'
  <2>1. Cardinality(Blocks(calls')) = Cardinality(Blocks(calls))
    BY <1>2, <1>8, CountFront DEF EndMeasured
  <2> QED  BY <1>2, <1>5, <1>8, <2>1 DEF EndMeasured
<1>9. ASSUME BeginBlock  PROVE NodesFit'
  <2>1. [kind |-> "block", before |-> clock] \in Call  BY <1>2 DEF Call
  <2>2. Node(clock) \in Stamp  BY <1>2 DEF Node, Stamp
  <2>3. stack' = Append(stack, Node(clock)) /\ clock' = clock
        /\ calls' = Append(calls, [kind |-> "block", before |-> clock])
    BY <1>9 DEF BeginBlock
  <2>4. Cardinality(Blocks(calls')) = Cardinality(Blocks(calls)) + 1
    BY <1>2, <2>1, <2>3, CountAppend
  <2>5. /\ stack' \in Seq(Stamp) /\ stack' # <<>> /\ Len(stack') = Len(stack) + 1
        /\ stack'[Len(stack) + 1] = Node(clock)
        /\ \A i \in 1..Len(stack) : stack'[i] = stack[i]
    BY <1>2, <2>2, <2>3, AppendFacts
  <2>6. Last(stack') = Node(clock)  BY <2>5, LastFacts
  <2>7. Last(stack').constructed_time + Last(stack').skipping_time =< clock'
    BY <1>2, <2>3, <2>6 DEF Node
  <2>8. ASSUME NEW i \in 1..(Len(stack') - 1)
        PROVE  /\ stack'[i].constructed_time =< stack'[i + 1].constructed_time
               /\ stack'[i].constructed_time + stack'[i].skipping_time
                    =< stack'[i + 1].constructed_time
    <3>1. Len(stack) \in Nat \ {0} /\ i \in 1..Len(stack)  BY <2>5, TopOfStack
    <3>2. CASE i = Len(stack)
      <4>1. stack'[i] = Last(stack) /\ stack'[i + 1].constructed_time = clock
        BY <2>5, <3>1, <3>2, TopOfStack DEF Node
      <4>2. /\ Last(stack).constructed_time \in Nat
            /\ Last(stack).skipping_time \in Nat
            /\ Last(stack).constructed_time + Last(stack).skipping_time =< clock
        BY <3>1, <3>2, TopOfStack
      <4> QED  BY <1>2, <4>1, <4>2
    <3>3. CASE i # Len(stack)
      <4>1. i \in 1..(Len(stack) - 1) /\ i + 1 \in 1..Len(stack)
        BY <3>1, <3>3
      <4> QED  BY <1>4, <2>5, <3>1, <4>1
    <3> QED  BY <3>2, <3>3
  <2>9. Len(stack') = 1 + Cardinality(Blocks(calls'))  BY <1>3, <2>4, <2>5
  <2> QED  BY <2>7, <2>8, <2>9 DEF NodesFit
<1>10. ASSUME EndBlock  PROVE NodesFit'
  <2> DEFINE n == Len(stack) - 1
  <2>1. /\ calls # <<>> /\ Last(calls).kind = "block" /\ calls' = Front(calls)
        /\ stack' = Unblocked(stack) /\ clock' = clock
    BY <1>10 DEF EndBlock
  <2>2. Cardinality(Blocks(calls')) = Cardinality(Blocks(calls)) - 1
    BY <1>2, <2>1, CountFront
  <2>3. /\ n \in Nat \ {0} /\ Len(stack) = n + 1
        /\ stack' \in Seq(Stamp) /\ Len(stack') = n
        /\ \A i \in 1..(n - 1) : stack'[i] = stack[i]
        /\ stack'[n].constructed_time = stack[n].constructed_time
        /\ stack'[n].skipping_time =
             stack[n].skipping_time + (clock - stack[n + 1].constructed_time)
    BY <2>1, UnblockedFacts
  <2> HIDE DEF n
  <2>4. Len(stack') = 1 + Cardinality(Blocks(calls'))
    BY <1>3, <2>2, <2>3
  <2>5. n \in 1..(Len(stack) - 1) /\ n \in 1..Len(stack) /\ n + 1 \in 1..Len(stack)
    BY <2>3
  <2>6. /\ stack[n].constructed_time \in Nat /\ stack[n].skipping_time \in Nat
        /\ stack[n + 1].constructed_time \in Nat
        /\ stack[n].constructed_time + stack[n].skipping_time
             =< stack[n + 1].constructed_time
    BY <1>4, <2>5, TopOfStack
  <2>7. stack'[n].constructed_time + stack'[n].skipping_time =< clock'
    BY <1>2, <2>1, <2>3, <2>6
  <2>8. Last(stack') = stack'[n]  BY <2>3 DEF Last
  <2>9. ASSUME NEW i \in 1..(Len(stack') - 1)
        PROVE  /\ stack'[i].constructed_time =< stack'[i + 1].constructed_time
               /\ stack'[i].constructed_time + stack'[i].skipping_time
                    =< stack'[i + 1].constructed_time
    <3>1. i \in 1..(n - 1) /\ i \in 1..(Len(stack) - 1)  BY <2>3
    <3>2. stack'[i] = stack[i]  BY <2>3, <3>1
    <3>3. stack'[i + 1].constructed_time = stack[i + 1].constructed_time
      <4>1. i + 1 = n \/ i + 1 \in 1..(n - 1)  BY <2>3, <3>1
      <4> QED  BY <2>3, <4>1
    <3> QED  BY <1>4, <3>1, <3>2, <3>3
  <2> QED  BY <2>4, <2>7, <2>8, <2>9 DEF NodesFit
<1>11. ASSUME Abort  PROVE NodesFit'
  BY <1>2, <1>5, <1>11 DEF Abort
<1> QED  BY <1>6, <1>7, <1>8, <1>9, <1>10, <1>11 DEF MeterNext

\* MeterInv is inductive.
LEMMA MeterStepInv == MeterInv /\ [MeterNext]_meterVars => MeterInv'
<1>1. ASSUME MeterInv, UNCHANGED meterVars  PROVE MeterInv'
  <2>1. NodesFit'  BY <1>1 DEF MeterInv, NodesFit, meterVars
  <2>2. MeterTypeOK'  BY <1>1 DEF MeterInv, MeterTypeOK, meterVars
  <2> QED  BY <2>1, <2>2 DEF MeterInv
<1> QED  BY <1>1, MeterStepTypes, MeterStepNodes DEF MeterInv

\* The inductive invariant holds.
THEOREM MeterInvAlways == MeterSpec => []MeterInv
<1>1. MeterInv /\ [MeterNext]_meterVars => MeterInv'  BY MeterStepInv
<1> QED  BY <1>1, MeterInitInv, PTL DEF MeterSpec

\* There is one node for each open replay, and none is charged with more time
\* than has passed, however measurements and replays are nested (ZombieMeter).
THEOREM NodesAlwaysFit == MeterSpec => []NodesFit
<1>1. MeterInv => NodesFit  BY DEF MeterInv
<1> QED  BY <1>1, MeterInvAlways, PTL

(***************************************************************************)
(* What a measurement has counted                                          *)
(***************************************************************************)

\* The replays open around call i.
Around(s, i) == {j \in Blocks(s) : j < i}

\* A call is made under a node; under the top one if no replay has begun since.
LEMMA UnderFacts ==
  ASSUME MeterInv, NEW i \in 1..Len(calls)
  PROVE  /\ Under(i) \in 1..Len(stack)
         /\ calls[i].kind = "measure" =>
              (Under(i) = Len(stack) <=>
                 \A j \in (i + 1)..Len(calls) : calls[j].kind # "block")
         /\ Last(calls).kind = "block" /\ i # Len(calls) => Under(i) # Len(stack)
<1>1. calls \in Seq(Call)  BY DEF MeterInv, MeterTypeOK
<1>2. Len(calls) \in Nat /\ DOMAIN calls = 1..Len(calls)  BY <1>1, LenProperties
<1>3. Len(stack) = 1 + Cardinality(Blocks(calls))  BY DEF MeterInv, NodesFit
<1>4. IsFiniteSet(Blocks(calls)) /\ Cardinality(Blocks(calls)) \in Nat
  BY <1>1, BlocksFinite
<1>5. Around(calls, i) \in SUBSET Blocks(calls)  BY DEF Around
<1>6. /\ IsFiniteSet(Around(calls, i)) /\ Cardinality(Around(calls, i)) \in Nat
  BY <1>1, <1>5, BlocksFinite
<1>7. /\ Cardinality(Around(calls, i)) =< Cardinality(Blocks(calls))
      /\ Cardinality(Blocks(calls)) = Cardinality(Around(calls, i)) =>
           Blocks(calls) = Around(calls, i)
  BY <1>4, <1>5, FS_Subset
<1>8. Under(i) = 1 + Cardinality(Around(calls, i))  BY DEF Under, Around
<1>9. Under(i) = Len(stack) <=> Blocks(calls) = Around(calls, i)
  BY <1>3, <1>4, <1>6, <1>7, <1>8
<1>10. Blocks(calls) = Around(calls, i) <=> \A j \in Blocks(calls) : j < i
  BY DEF Around
<1>11. Under(i) \in 1..Len(stack)  BY <1>3, <1>4, <1>6, <1>7, <1>8
<1>12. ASSUME calls[i].kind = "measure"
       PROVE  (\A j \in Blocks(calls) : j < i) <=>
                \A j \in (i + 1)..Len(calls) : calls[j].kind # "block"
  <2>1. \A j \in Blocks(calls) : j \in 1..Len(calls) /\ calls[j].kind = "block"
    BY <1>2 DEF Blocks
  <2>2. \A j \in 1..Len(calls) : calls[j].kind = "block" => j \in Blocks(calls)
    BY <1>2 DEF Blocks
  <2>3. ASSUME \A j \in Blocks(calls) : j < i,
               NEW j \in (i + 1)..Len(calls), calls[j].kind = "block"
        PROVE  FALSE
    <3>1. j \in 1..Len(calls) /\ ~(j < i)  BY <1>2, <2>3
    <3> QED  BY <2>2, <2>3, <3>1
  <2>4. ASSUME \A j \in (i + 1)..Len(calls) : calls[j].kind # "block",
               NEW j \in Blocks(calls), ~(j < i)
        PROVE  FALSE
    <3>1. j \in 1..Len(calls) /\ calls[j].kind = "block"  BY <2>1
    <3>2. j # i  BY <1>12, <3>1
    <3>3. j \in (i + 1)..Len(calls)  BY <1>2, <2>4, <3>1, <3>2
    <3> QED  BY <2>4, <3>1, <3>3
  <2> QED  BY <2>3, <2>4
<1>13. ASSUME Last(calls).kind = "block", i # Len(calls)
       PROVE  ~ \A j \in Blocks(calls) : j < i
  <2>1. Len(calls) \in 1..Len(calls) /\ ~(Len(calls) < i)  BY <1>2
  <2>2. Len(calls) \in Blocks(calls)  BY <1>2, <1>13, <2>1 DEF Blocks, Last
  <2> QED  BY <2>1, <2>2
<1> QED  BY <1>9, <1>10, <1>11, <1>12, <1>13

\* What a measurement has counted, without the definitions.
LEMMA CountedFacts ==
  ASSUME MeterInv, NEW i \in 1..Len(calls)
  PROVE  /\ calls[i] \in Call /\ calls[i].before \in Int
         /\ StoodAt(Under(i)) \in Int
         /\ stack[Under(i)].skipping_time \in Int
         /\ Counted(i) = IF calls[i].kind = "block" THEN 0
                         ELSE StoodAt(Under(i)) - stack[Under(i)].skipping_time
                                - calls[i].before
         /\ Counted(i) \in Int
<1>1. calls[i] \in Call /\ calls[i].before \in Int
  <2>1. calls \in Seq(Call)  BY DEF MeterInv, MeterTypeOK
  <2>2. calls[i] \in Call  BY <2>1, ElementOfSeq
  <2> QED  BY <2>2 DEF Call
<1>2. Under(i) \in 1..Len(stack)  BY UnderFacts
<1>3. stack[Under(i)].skipping_time \in Int  BY <1>2, TopOfStack
<1>4. StoodAt(Under(i)) \in Int
  <2>1. clock \in Int /\ Len(stack) \in Nat  BY TopOfStack
  <2>2. Under(i) # Len(stack) => Under(i) + 1 \in 1..Len(stack)
    BY <1>2, <2>1
  <2>3. Under(i) # Len(stack) => stack[Under(i) + 1].constructed_time \in Int
    BY <2>2, TopOfStack
  <2> QED  BY <2>1, <2>3 DEF StoodAt
<1> QED  BY <1>1, <1>3, <1>4 DEF Counted

\* The replays around a call are those of when it was made.
LEMMA AroundKept ==
  ASSUME NEW s \in Seq(Call)
  PROVE  /\ \A c \in Call : \A i \in 1..Len(s) :
              Around(Append(s, c), i) = Around(s, i)
         /\ \A c \in Call : Around(Append(s, c), Len(s) + 1) = Blocks(s)
         /\ s # <<>> => \A i \in 1..(Len(s) - 1) :
              Around(Front(s), i) = Around(s, i)
<1>1. Len(s) \in Nat /\ DOMAIN s = 1..Len(s)  BY LenProperties
<1>2. \A j \in Blocks(s) : j \in 1..Len(s)  BY <1>1 DEF Blocks
<1>3. ASSUME NEW c \in Call, NEW i \in 1..Len(s)
      PROVE  Around(Append(s, c), i) = Around(s, i)
  <2>1. ~(Len(s) + 1 < i)  BY <1>1
  <2> QED  BY <2>1, BlocksAppend DEF Around
<1>4. ASSUME NEW c \in Call
      PROVE  Around(Append(s, c), Len(s) + 1) = Blocks(s)
  <2>1. ~(Len(s) + 1 < Len(s) + 1)  BY <1>1
  <2>2. \A j \in Blocks(s) : j < Len(s) + 1  BY <1>1, <1>2
  <2> QED  BY <2>1, <2>2, BlocksAppend DEF Around
<1>5. ASSUME s # <<>>, NEW i \in 1..(Len(s) - 1)
      PROVE  Around(Front(s), i) = Around(s, i)
  <2>1. ~(Len(s) < i)  BY <1>1
  <2> QED  BY <1>5, <2>1, BlocksFront DEF Around
<1> QED  BY <1>3, <1>4, <1>5

\* What the stopwatch sees of the open calls is a sequence.
Seen == [kind : {"measure", "block"}, own : Int]

OpenShape ==
  /\ Open \in Seq(Seen) /\ Len(Open) = Len(calls) /\ Len(calls) \in Nat
  /\ DOMAIN Open = 1..Len(calls) /\ DOMAIN calls = 1..Len(calls)
  /\ \A i \in 1..Len(calls) :
       /\ Open[i] = [kind |-> calls[i].kind, own |-> Counted(i)]
       /\ Open[i] \in Seen
  /\ calls = <<>> <=> Open = <<>>

\* Each open call is seen with what it has counted.
LEMMA OpenFacts == MeterInv => OpenShape
<1> SUFFICES ASSUME MeterInv  PROVE OpenShape
  OBVIOUS
<1>1. calls \in Seq(Call)  BY DEF MeterInv, MeterTypeOK
<1>2. Len(calls) \in Nat /\ DOMAIN calls = 1..Len(calls)  BY <1>1, LenProperties
<1>3. \A i \in 1..Len(calls) :
        /\ Open[i] = [kind |-> calls[i].kind, own |-> Counted(i)]
        /\ Open[i] \in Seen
  <2> SUFFICES ASSUME NEW i \in 1..Len(calls)
               PROVE  /\ Open[i] = [kind |-> calls[i].kind, own |-> Counted(i)]
                      /\ Open[i] \in Seen
    OBVIOUS
  <2>1. Open[i] = [kind |-> calls[i].kind, own |-> Counted(i)]
    BY <1>2 DEF Open
  <2>2. Counted(i) \in Int /\ calls[i] \in Call  BY CountedFacts
  <2> QED  BY <2>1, <2>2 DEF Seen, Call
<1>4. Open \in [1..Len(calls) -> Seen]
  <2>1. DOMAIN Open = 1..Len(calls)  BY <1>2 DEF Open
  <2>2. Open = [i \in 1..Len(calls) |-> Open[i]]  BY <1>2 DEF Open
  <2> QED  BY <1>3, <2>1, <2>2
<1>5. Open \in Seq(Seen)  BY <1>2, <1>4, SeqDef
<1>6. Len(Open) = Len(calls)
  <2>1. DOMAIN Open = 1..Len(calls)  BY <1>4
  <2>2. DOMAIN Open = 1..Len(Open) /\ Len(Open) \in Nat  BY <1>5, LenProperties
  <2> QED  BY <1>2, <2>1, <2>2
<1>7. calls = <<>> <=> Open = <<>>  BY <1>1, <1>5, <1>6, EmptySeq
<1> QED  BY <1>2, <1>3, <1>4, <1>5, <1>6, <1>7 DEF OpenShape

\* After a step it is one, too.
LEMMA OpenFactsNext == MeterInv' => OpenShape'
BY OpenFacts, PTL

\* The outermost replay is the one that began first.
LEMMA OutermostFacts ==
  ASSUME NEW s \in Seq(Call), Blocks(s) # {}
  PROVE  /\ Outermost(s) \in Blocks(s)
         /\ \A j \in Blocks(s) : Outermost(s) =< j
         /\ Outermost(s) \in 1..Len(s) /\ s[Outermost(s)].before \in Int
<1>1. Len(s) \in Nat /\ DOMAIN s = 1..Len(s)  BY LenProperties
<1>2. Blocks(s) \subseteq 1..Len(s)  BY <1>1 DEF Blocks
<1>3. Blocks(s) \in SUBSET Nat  BY <1>1, <1>2
<1>4. \E i \in Blocks(s) : \A j \in Blocks(s) : i =< j
  BY <1>3, LeastElement
<1>5. Outermost(s) \in Blocks(s) /\ \A j \in Blocks(s) : Outermost(s) =< j
  BY <1>4 DEF Outermost
<1>6. Outermost(s) \in 1..Len(s)  BY <1>2, <1>5
<1>7. s[Outermost(s)] \in Call  BY <1>6, ElementOfSeq
<1> QED  BY <1>5, <1>6, <1>7 DEF Call

\* There is but one such replay.
LEMMA OutermostIs ==
  ASSUME NEW s \in Seq(Call), NEW o \in Blocks(s), \A j \in Blocks(s) : o =< j
  PROVE  Outermost(s) = o
<1>1. /\ Outermost(s) \in Blocks(s) /\ \A j \in Blocks(s) : Outermost(s) =< j
  BY OutermostFacts
<1>2. Outermost(s) =< o /\ o =< Outermost(s)  BY <1>1
<1>3. \A j \in Blocks(s) : j \in Nat
  <2>1. Len(s) \in Nat /\ DOMAIN s = 1..Len(s)  BY LenProperties
  <2> QED  BY <2>1 DEF Blocks
<1> QED  BY <1>1, <1>2, <1>3

(***************************************************************************)
(* Every step of the meter is a step of the stopwatch                      *)
(***************************************************************************)

\* Time passes.
LEMMA PassStep ==
  ASSUME MeterInv, NEW d \in Amounts, Elapse(d)
  PROVE  sw!Pass(d)
<1>1. /\ calls' = calls /\ stack' = stack /\ clock' = clock + d
      /\ recompute_time' = recompute_time /\ result' = result
  BY DEF Elapse
<1>2. d \in Int /\ clock \in Int /\ recompute_time \in Int /\ calls \in Seq(Call)
  BY TimeAssumption DEF MeterInv, MeterTypeOK
<1>3. OpenShape  BY OpenFacts
<1>4. ASSUME NEW i \in 1..Len(calls)
      PROVE  /\ sw!Runs(i) <=> calls[i].kind = "measure" /\ Under(i) = Len(stack)
             /\ Counted(i)' = IF sw!Runs(i) THEN Counted(i) + d ELSE Counted(i)
  <2>1. Under(i)' = Under(i)  BY <1>1 DEF Under, Blocks
  <2>3. sw!Runs(i) <=> /\ calls[i].kind # "block"
                       /\ \A j \in (i + 1)..Len(calls) : calls[j].kind # "block"
    <3>1. Len(Open) = Len(calls) /\ Len(calls) \in Nat  BY <1>3 DEF OpenShape
    <3>2. \A j \in 1..Len(calls) : Open[j].kind = calls[j].kind
      BY <1>3 DEF OpenShape
    <3>3. \A j \in (i + 1)..Len(calls) : j \in 1..Len(calls)  BY <3>1
    <3> QED  BY <3>1, <3>2, <3>3 DEF sw!Runs, sw!IsBlock
  <2>4. calls[i].kind \in {"measure", "block"}  BY CountedFacts DEF Call
  <2>5. sw!Runs(i) <=> calls[i].kind = "measure" /\ Under(i) = Len(stack)
    BY <2>3, <2>4, UnderFacts
  <2>6. Counted(i)' = IF calls[i].kind = "block" THEN 0
                      ELSE (IF Under(i) = Len(stack) THEN clock + d
                            ELSE stack[Under(i) + 1].constructed_time)
                             - stack[Under(i)].skipping_time - calls[i].before
    BY <1>1, <2>1 DEF Counted, StoodAt
  <2>7. CASE calls[i].kind = "block"
    BY <2>5, <2>6, <2>7, CountedFacts
  <2>8. CASE calls[i].kind # "block" /\ Under(i) = Len(stack)
    <3>1. Counted(i) = clock - stack[Under(i)].skipping_time - calls[i].before
      BY <2>8, CountedFacts DEF StoodAt
    <3>2. stack[Under(i)].skipping_time \in Int /\ calls[i].before \in Int
      BY CountedFacts
    <3>3. Counted(i)' = Counted(i) + d  BY <1>2, <2>6, <2>8, <3>1, <3>2
    <3> QED  BY <2>4, <2>5, <2>8, <3>3
  <2>9. CASE calls[i].kind # "block" /\ Under(i) # Len(stack)
    <3>1. Counted(i)' = Counted(i)  BY <2>6, <2>9, CountedFacts DEF StoodAt
    <3> QED  BY <2>5, <2>9, <3>1
  <2> QED  BY <2>5, <2>7, <2>8, <2>9
<1>5. Open' = [i \in DOMAIN Open |->
                 IF sw!Runs(i) THEN [Open[i] EXCEPT !.own = @ + d] ELSE Open[i]]
  <2>1. DOMAIN Open = 1..Len(calls) /\ DOMAIN calls = 1..Len(calls)
    BY <1>3 DEF OpenShape
  <2>2. Open' = [i \in 1..Len(calls) |-> [kind |-> calls[i].kind, own |-> Counted(i)']]
    BY <1>1, <2>1 DEF Open
  <2>3. \A i \in 1..Len(calls) :
          [kind |-> calls[i].kind, own |-> Counted(i)'] =
            IF sw!Runs(i) THEN [Open[i] EXCEPT !.own = @ + d] ELSE Open[i]
    <3> SUFFICES ASSUME NEW i \in 1..Len(calls)
                 PROVE  [kind |-> calls[i].kind, own |-> Counted(i)'] =
                          IF sw!Runs(i) THEN [Open[i] EXCEPT !.own = @ + d]
                                        ELSE Open[i]
      OBVIOUS
    <3>1. Open[i] = [kind |-> calls[i].kind, own |-> Counted(i)]
      BY <1>3 DEF OpenShape
    <3> QED  BY <1>4, <3>1
  <2> QED  BY <2>1, <2>2, <2>3
<1>6. (recompute_time + Pending)' =
        IF \E i \in DOMAIN Open : sw!IsBlock(i)
        THEN (recompute_time + Pending) + d ELSE recompute_time + Pending
  <2>1. (\E i \in DOMAIN Open : sw!IsBlock(i)) <=> Blocks(calls) # {}
    <3>1. /\ DOMAIN Open = 1..Len(calls) /\ DOMAIN calls = 1..Len(calls)
          /\ \A i \in 1..Len(calls) : Open[i].kind = calls[i].kind
      BY <1>3 DEF OpenShape
    <3> QED  BY <3>1 DEF sw!IsBlock, Blocks
  <2>2. Pending' = IF Blocks(calls) = {} THEN 0
                   ELSE clock' - calls[Outermost(calls)].before
    <3>1. Blocks(calls)' = Blocks(calls)  BY <1>1
    <3>2. Outermost(calls)' = Outermost(calls)  BY <1>1
    <3>3. Pending' = IF Blocks(calls)' = {} THEN 0
                     ELSE clock' - calls'[Outermost(calls)'].before
      BY DEF Pending
    <3> QED  BY <1>1, <3>1, <3>2, <3>3
  <2>3. CASE Blocks(calls) = {}
    BY <1>1, <1>2, <2>1, <2>2, <2>3 DEF Pending
  <2>4. CASE Blocks(calls) # {}
    <3>1. calls[Outermost(calls)].before \in Int  BY <1>2, <2>4, OutermostFacts
    <3>2. Pending = clock - calls[Outermost(calls)].before  BY <2>4 DEF Pending
    <3>3. Pending' = Pending + d /\ Pending \in Int
      BY <1>1, <1>2, <2>2, <2>4, <3>1, <3>2
    <3> QED  BY <1>1, <1>2, <2>1, <2>4, <3>3
  <2> QED  BY <2>3, <2>4
<1> QED  BY <1>1, <1>5, <1>6 DEF sw!Pass

\* The outermost replay is the same as long as one is open.
LEMMA SameOutermost ==
  ASSUME NEW s \in Seq(Call), NEW r \in Seq(Call), Blocks(s) # {},
         Blocks(s) \subseteq Blocks(r),
         \A i \in Blocks(s) : r[i] = s[i],
         \A j \in Blocks(r) \ Blocks(s) : \A i \in Blocks(s) : i < j
  PROVE  r[Outermost(r)].before = s[Outermost(s)].before
<1>1. /\ Outermost(s) \in Blocks(s) /\ \A j \in Blocks(s) : Outermost(s) =< j
  BY OutermostFacts
<1>2. \A j \in Blocks(r) : j \in Nat
  <2>1. Len(r) \in Nat /\ DOMAIN r = 1..Len(r)  BY LenProperties
  <2> QED  BY <2>1 DEF Blocks
<1>3. \A j \in Blocks(r) : Outermost(s) =< j
  <2> SUFFICES ASSUME NEW j \in Blocks(r)  PROVE Outermost(s) =< j
    OBVIOUS
  <2>1. CASE j \in Blocks(s)  BY <1>1, <2>1
  <2>2. CASE j \notin Blocks(s)
    <3>1. Outermost(s) < j  BY <1>1, <2>2
    <3>2. Outermost(s) \in Nat /\ j \in Nat  BY <1>1, <1>2
    <3> QED  BY <3>1, <3>2
  <2> QED  BY <2>1, <2>2
<1>4. Outermost(r) = Outermost(s)  BY <1>1, <1>3, OutermostIs
<1> QED  BY <1>1, <1>4

\* What a new call adds to what the stopwatch sees.
LEMMA OpenGrown ==
  ASSUME OpenShape, OpenShape', NEW c \in Call, calls \in Seq(Call),
         calls' = Append(calls, c), NEW n, n = Len(calls) + 1,
         \A i \in 1..Len(calls) : Counted(i)' = Counted(i),
         Counted(n)' = 0
  PROVE  Open' = Append(Open, [kind |-> c.kind, own |-> 0])
<1> DEFINE new == [kind |-> c.kind, own |-> 0]
<1>1. /\ Open \in Seq(Seen) /\ Len(Open) = Len(calls) /\ Len(calls) \in Nat
      /\ \A i \in 1..Len(calls) :
           Open[i] = [kind |-> calls[i].kind, own |-> Counted(i)]
  BY DEF OpenShape
<1>2. /\ Open' \in Seq(Seen) /\ Len(Open') = Len(calls')
      /\ \A i \in 1..Len(calls') :
           Open'[i] = [kind |-> calls'[i].kind, own |-> Counted(i)']
  BY DEF OpenShape
<1>3. /\ Len(calls') = n /\ calls'[n] = c
      /\ \A i \in 1..Len(calls) : calls'[i] = calls[i]
  BY AppendFacts
<1>4. new \in Seen  BY DEF Seen, Call
<1>5. /\ Append(Open, new) \in Seq(Seen) /\ Len(Append(Open, new)) = n
      /\ Append(Open, new)[n] = new
      /\ \A i \in 1..Len(calls) : Append(Open, new)[i] = Open[i]
  <2> HIDE DEF new
  <2> QED  BY <1>1, <1>4, AppendFacts
<1>6. \A i \in 1..n : Open'[i] = Append(Open, new)[i]
  <2> SUFFICES ASSUME NEW i \in 1..n  PROVE Open'[i] = Append(Open, new)[i]
    OBVIOUS
  <2>1. CASE i = n  BY <1>2, <1>3, <1>5, <2>1
  <2>2. CASE i # n
    <3>1. i \in 1..Len(calls) /\ i \in 1..Len(calls')  BY <1>1, <1>3, <2>2
    <3> QED  BY <1>1, <1>2, <1>3, <1>5, <3>1
  <2> QED  BY <2>1, <2>2
<1> QED
  <2> HIDE DEF new
  <2>1. Open' = Append(Open, new)  BY <1>2, <1>3, <1>5, <1>6, SeqEqual
  <2> QED  BY <2>1 DEF new

\* What is left when a call has ended.
LEMMA OpenShrunk ==
  ASSUME OpenShape, OpenShape', calls \in Seq(Call), calls # <<>>,
         calls' = Front(calls),
         \A i \in 1..(Len(calls) - 1) : Counted(i)' = Counted(i)
  PROVE  /\ Open # <<>>
         /\ Open[Len(Open)].kind = Last(calls).kind
         /\ Open[Len(Open)].own = Counted(Len(calls))
         /\ Open' = SubSeq(Open, 1, Len(Open) - 1)
<1>1. /\ Open \in Seq(Seen) /\ Len(Open) = Len(calls) /\ Len(calls) \in Nat
      /\ \A i \in 1..Len(calls) :
           Open[i] = [kind |-> calls[i].kind, own |-> Counted(i)]
      /\ Open # <<>>
  BY DEF OpenShape
<1>2. /\ Open' \in Seq(Seen) /\ Len(Open') = Len(calls')
      /\ \A i \in 1..Len(calls') :
           Open'[i] = [kind |-> calls'[i].kind, own |-> Counted(i)']
  BY DEF OpenShape
<1>3. /\ Len(calls') = Len(calls) - 1
      /\ \A i \in 1..(Len(calls) - 1) : calls'[i] = calls[i]
  BY FrontFacts
<1>4. /\ Front(Open) \in Seq(Seen) /\ Len(Front(Open)) = Len(calls) - 1
      /\ \A i \in 1..(Len(calls) - 1) : Front(Open)[i] = Open[i]
  BY <1>1, FrontFacts
<1>5. \A i \in 1..(Len(calls) - 1) : Open'[i] = Front(Open)[i]
  <2> SUFFICES ASSUME NEW i \in 1..(Len(calls) - 1)
               PROVE  Open'[i] = Front(Open)[i]
    OBVIOUS
  <2>1. i \in 1..Len(calls) /\ i \in 1..Len(calls')  BY <1>1, <1>3
  <2> QED  BY <1>1, <1>2, <1>3, <1>4, <2>1
<1>6. Open' = Front(Open)  BY <1>2, <1>3, <1>4, <1>5, SeqEqual
<1>7. Len(calls) \in 1..Len(calls) /\ Last(calls) = calls[Len(calls)]
  BY LastFacts
<1>8. Open[Len(Open)] = [kind |-> Last(calls).kind, own |-> Counted(Len(calls))]
  BY <1>1, <1>7
<1>9. Open' = SubSeq(Open, 1, Len(Open) - 1)  BY <1>6 DEF Front
<1> QED  BY <1>1, <1>8, <1>9

\* The node a call was made under stays the same while it is open.
LEMMA UnderKept ==
  ASSUME calls \in Seq(Call), NEW i \in 1..Len(calls),
         \/ \E c \in Call : calls' = Append(calls, c)
         \/ calls # <<>> /\ calls' = Front(calls) /\ i \in 1..(Len(calls) - 1)
  PROVE  /\ Under(i)' = Under(i)
         /\ calls'[i] = calls[i]
<1>1. Around(calls', i) = Around(calls, i)  BY AroundKept
<1>2. calls'[i] = calls[i]  BY AppendFacts, FrontFacts
<1>3. Under(i) = 1 + Cardinality(Around(calls, i))  BY DEF Under, Around
<1>4. Under(i)' = 1 + Cardinality(Around(calls', i))  BY DEF Under, Around
<1> QED  BY <1>1, <1>2, <1>3, <1>4

\* A measurement begins.
LEMMA BeginMeasuredStep ==
  ASSUME MeterInv, MeterInv', BeginMeasured
  PROVE  sw!OpenMeasure
<1> DEFINE c == [kind |-> "measure", before |-> time]
           n == Len(calls) + 1
<1>1. /\ calls' = Append(calls, c) /\ stack' = stack /\ clock' = clock
      /\ recompute_time' = recompute_time /\ result' = result
  BY DEF BeginMeasured
<1>2. calls \in Seq(Call) /\ calls' \in Seq(Call) /\ c \in Call
  <2>1. time \in Int  BY TopOfStack
  <2> QED  BY <2>1 DEF MeterInv, MeterTypeOK, Call
<1>3. OpenShape /\ OpenShape'  BY OpenFacts, OpenFactsNext
<1>4. \A i \in 1..Len(calls) : Counted(i)' = Counted(i)
  <2> SUFFICES ASSUME NEW i \in 1..Len(calls)  PROVE Counted(i)' = Counted(i)
    OBVIOUS
  <2>1. Under(i)' = Under(i) /\ calls'[i] = calls[i]
    <3> HIDE DEF c
    <3> QED  BY <1>1, <1>2, UnderKept
  <2> HIDE DEF c
  <2> QED  BY <1>1, <2>1 DEF Counted, StoodAt
<1>5. calls'[n] = c  BY <1>1, <1>2, AppendFacts
<1>6. ASSUME NEW m, m = n  PROVE Counted(m)' = 0
  <2>1. Around(calls', m) = Blocks(calls)
    <3> HIDE DEF c
    <3> QED  BY <1>1, <1>2, <1>6, AroundKept
  <2>2. Under(m)' = 1 + Cardinality(Around(calls', m))  BY DEF Under, Around
  <2>3. Under(m)' = Len(stack)
    BY <2>1, <2>2 DEF MeterInv, NodesFit
  <2>4. Counted(m)' = clock - stack[Len(stack)].skipping_time - c.before
    BY <1>1, <1>5, <1>6, <2>3 DEF Counted, StoodAt
  <2>5. /\ c.before = clock - stack[Len(stack)].skipping_time
        /\ clock \in Int /\ stack[Len(stack)].skipping_time \in Int
    <3>1. Last(stack) = stack[Len(stack)] /\ Len(stack) \in 1..Len(stack)
      BY TopOfStack
    <3> QED  BY <3>1, TopOfStack DEF time
  <2> HIDE DEF c
  <2> QED  BY <2>4, <2>5
<1>7. Open' = Append(Open, [kind |-> "measure", own |-> 0])
  <2>2. PICK m : m = n  OBVIOUS
  <2>3. Counted(m)' = 0  BY <1>6, <2>2
  <2>4. c.kind = "measure"  OBVIOUS
  <2> HIDE DEF c
  <2> QED  BY <1>1, <1>2, <1>3, <1>4, <2>2, <2>3, <2>4, OpenGrown
<1>8. Pending' = Pending
  <2>1. Blocks(calls') = Blocks(calls)
    BY <1>1, <1>2, BlocksAppend
  <2>2. \A i \in Blocks(calls) : calls'[i] = calls[i]
    <3>1. DOMAIN calls = 1..Len(calls)  BY <1>2, LenProperties
    <3>2. \A i \in 1..Len(calls) : calls'[i] = calls[i]
      BY <1>1, <1>2, AppendFacts
    <3> QED  BY <3>1, <3>2 DEF Blocks
  <2>3. Blocks(calls) # {} =>
          calls'[Outermost(calls')].before = calls[Outermost(calls)].before
    BY <1>2, <2>1, <2>2, SameOutermost
  <2>4. Pending' = IF Blocks(calls') = {} THEN 0
                   ELSE clock' - calls'[Outermost(calls')].before
    BY DEF Pending
  <2> QED  BY <1>1, <2>1, <2>3, <2>4 DEF Pending
<1> QED  BY <1>1, <1>7, <1>8 DEF sw!OpenMeasure

\* A measurement ends: it answers what it has counted.
LEMMA EndMeasuredStep ==
  ASSUME MeterInv, MeterInv', EndMeasured
  PROVE  sw!CloseMeasure
<1> DEFINE m == Len(calls)
<1>1. /\ calls # <<>> /\ Last(calls).kind = "measure" /\ calls' = Front(calls)
      /\ result' = time - Last(calls).before
      /\ stack' = stack /\ clock' = clock /\ recompute_time' = recompute_time
  BY DEF EndMeasured
<1>2. calls \in Seq(Call) /\ calls' \in Seq(Call)
  BY DEF MeterInv, MeterTypeOK
<1>3. OpenShape /\ OpenShape'  BY OpenFacts, OpenFactsNext
<1>4. \A i \in 1..(Len(calls) - 1) : Counted(i)' = Counted(i)
  <2> SUFFICES ASSUME NEW i \in 1..(Len(calls) - 1)
               PROVE  Counted(i)' = Counted(i)
    OBVIOUS
  <2>1. i \in 1..Len(calls)  BY <1>2, LenProperties
  <2>2. Under(i)' = Under(i) /\ calls'[i] = calls[i]
    BY <1>1, <1>2, <2>1, UnderKept
  <2> QED  BY <1>1, <2>2 DEF Counted, StoodAt
<1>5. m \in 1..Len(calls) /\ Last(calls) = calls[m] /\ Len(calls) \in Nat
  BY <1>1, <1>2, LastFacts
<1>6. result' = Counted(m)
  <2>1. \A j \in (m + 1)..Len(calls) : calls[j].kind # "block"  BY <1>5
  <2>2. Under(m) = Len(stack)  BY <1>1, <1>5, <2>1, UnderFacts
  <2>3. Counted(m) = clock - stack[Len(stack)].skipping_time - calls[m].before
    BY <1>1, <1>5, <2>2, CountedFacts DEF StoodAt
  <2>4. time = clock - stack[Len(stack)].skipping_time
    BY TopOfStack DEF time
  <2> QED  BY <1>1, <1>5, <2>3, <2>4
<1>7. /\ Open # <<>>
      /\ Open[Len(Open)].kind = "measure"
      /\ Open[Len(Open)].own = Counted(Len(calls))
      /\ Open' = SubSeq(Open, 1, Len(Open) - 1)
  BY <1>1, <1>2, <1>3, <1>4, OpenShrunk
<1>8. Pending' = Pending
  <2>1. Blocks(calls') = Blocks(calls)
    <3>1. m \notin Blocks(calls)  BY <1>1, <1>5 DEF Blocks
    <3> QED  BY <1>1, <1>2, <3>1, BlocksFront
  <2>2. \A i \in Blocks(calls) : calls'[i] = calls[i]
    <3>1. DOMAIN calls' = 1..Len(calls') /\ Len(calls') = Len(calls) - 1
      BY <1>1, <1>2, LenProperties, FrontFacts
    <3>2. \A i \in 1..(Len(calls) - 1) : calls'[i] = calls[i]
      BY <1>1, <1>2, FrontFacts
    <3> QED  BY <2>1, <3>1, <3>2 DEF Blocks
  <2>3. Blocks(calls) # {} =>
          calls'[Outermost(calls')].before = calls[Outermost(calls)].before
    BY <1>2, <2>1, <2>2, SameOutermost
  <2>4. Pending' = IF Blocks(calls') = {} THEN 0
                   ELSE clock' - calls'[Outermost(calls')].before
    BY DEF Pending
  <2> QED  BY <1>1, <2>1, <2>3, <2>4 DEF Pending
<1> QED  BY <1>1, <1>6, <1>7, <1>8 DEF sw!CloseMeasure, sw!Closes

\* A replay begins: the time of the calls around it stands still.
LEMMA BeginBlockStep ==
  ASSUME MeterInv, MeterInv', BeginBlock
  PROVE  sw!OpenBlock
<1> DEFINE c == [kind |-> "block", before |-> clock]
<1>1. /\ calls' = Append(calls, c) /\ stack' = Append(stack, Node(clock))
      /\ clock' = clock /\ recompute_time' = recompute_time /\ result' = result
  BY DEF BeginBlock
<1>2. /\ calls \in Seq(Call) /\ calls' \in Seq(Call) /\ c \in Call
      /\ stack \in Seq(Stamp) /\ clock \in Nat /\ Node(clock) \in Stamp
  BY DEF MeterInv, MeterTypeOK, Call, Node, Stamp
<1>3. OpenShape /\ OpenShape'  BY OpenFacts, OpenFactsNext
<1>4. c.kind = "block" /\ c.before = clock  OBVIOUS
<1> HIDE DEF c
<1>5. /\ Len(stack') = Len(stack) + 1 /\ Len(stack) \in Nat
      /\ \A u \in 1..Len(stack) : stack'[u] = stack[u]
      /\ stack'[Len(stack) + 1].constructed_time = clock
  BY <1>1, <1>2, AppendFacts, LenProperties DEF Node
<1>6. PICK n : n = Len(calls) + 1  OBVIOUS
<1>7. /\ calls'[n] = c /\ Len(calls) \in Nat
      /\ \A i \in 1..Len(calls) : calls'[i] = calls[i]
  BY <1>1, <1>2, <1>6, AppendFacts, LenProperties
<1>8. ASSUME NEW i \in 1..Len(calls)  PROVE Counted(i)' = Counted(i)
  <2>1. Under(i)' = Under(i) /\ calls'[i] = calls[i]
    BY <1>1, <1>2, UnderKept
  <2>2. Under(i) \in 1..Len(stack)  BY UnderFacts
  <2>3. StoodAt(Under(i))' = IF Under(i) = Len(stack') THEN clock'
                             ELSE stack'[Under(i) + 1].constructed_time
    BY <2>1 DEF StoodAt
  <2>4. Under(i) # Len(stack')  BY <1>5, <2>2
  <2>5. StoodAt(Under(i))' = StoodAt(Under(i))
    <3>1. CASE Under(i) = Len(stack)
      BY <1>5, <2>3, <2>4, <3>1 DEF StoodAt
    <3>2. CASE Under(i) # Len(stack)
      <4>1. Under(i) + 1 \in 1..Len(stack)  BY <1>5, <2>2, <3>2
      <4> QED  BY <1>5, <2>3, <2>4, <3>2, <4>1 DEF StoodAt
    <3> QED  BY <3>1, <3>2
  <2>6. Counted(i)' = IF calls'[i].kind = "block" THEN 0
                      ELSE StoodAt(Under(i))' - stack'[Under(i)'].skipping_time
                             - calls'[i].before
    BY DEF Counted
  <2> QED  BY <1>5, <2>1, <2>2, <2>5, <2>6 DEF Counted
<1>9. Counted(n)' = 0
  <2>1. Counted(n)' = IF calls'[n].kind = "block" THEN 0
                      ELSE StoodAt(Under(n))' - stack'[Under(n)'].skipping_time
                             - calls'[n].before
    BY <1>6 DEF Counted
  <2> QED  BY <1>4, <1>7, <2>1
<1>10. Open' = Append(Open, [kind |-> "block", own |-> 0])
  BY <1>1, <1>2, <1>3, <1>4, <1>6, <1>8, <1>9, OpenGrown
<1>11. Pending' = IF Blocks(calls') = {} THEN 0
                  ELSE clock' - calls'[Outermost(calls')].before
  BY DEF Pending
<1>12. Blocks(calls') = Blocks(calls) \cup {n}
  BY <1>1, <1>2, <1>4, <1>6, BlocksAppend
<1>13. Pending' = Pending
  <2>1. CASE Blocks(calls) = {}
    <3>1. n \in Blocks(calls') /\ \A j \in Blocks(calls') : n =< j
      BY <1>6, <1>7, <1>12, <2>1
    <3>2. Outermost(calls') = n  BY <1>2, <3>1, OutermostIs
    <3>3. Pending' = clock - clock  BY <1>1, <1>4, <1>7, <1>11, <3>1, <3>2
    <3> QED  BY <1>2, <2>1, <3>3 DEF Pending
  <2>2. CASE Blocks(calls) # {}
    <3>1. \A i \in Blocks(calls) : i \in 1..Len(calls)
      BY <1>2, LenProperties DEF Blocks
    <3>2. /\ \A i \in Blocks(calls) : calls'[i] = calls[i]
          /\ \A j \in Blocks(calls') \ Blocks(calls) :
               \A i \in Blocks(calls) : i < j
      BY <1>6, <1>7, <1>12, <3>1
    <3>3. calls'[Outermost(calls')].before = calls[Outermost(calls)].before
      BY <1>2, <1>12, <2>2, <3>2, SameOutermost
    <3> QED  BY <1>1, <1>11, <1>12, <2>2, <3>3 DEF Pending
  <2> QED  BY <2>1, <2>2
<1> QED  BY <1>1, <1>10, <1>13 DEF sw!OpenBlock

\* A replay ends: the node below skips its time, so that nothing counts it.
LEMMA EndBlockStep ==
  ASSUME MeterInv, MeterInv', EndBlock
  PROVE  sw!CloseBlock
<1>1. /\ calls # <<>> /\ Last(calls).kind = "block" /\ calls' = Front(calls)
      /\ stack' = Unblocked(stack) /\ recompute_time' = Recomputed
      /\ clock' = clock /\ result' = result
  BY DEF EndBlock
<1>2. /\ calls \in Seq(Call) /\ calls' \in Seq(Call) /\ clock \in Nat
      /\ recompute_time \in Int
  BY DEF MeterInv, MeterTypeOK
<1>3. OpenShape /\ OpenShape'  BY OpenFacts, OpenFactsNext
<1>4. PICK n : n = Len(stack) - 1  OBVIOUS
<1>5. /\ n \in Nat \ {0} /\ Len(stack) = n + 1 /\ Len(stack') = n
      /\ \A u \in 1..(n - 1) : stack'[u] = stack[u]
      /\ stack'[n].constructed_time = stack[n].constructed_time
      /\ stack'[n].skipping_time =
           stack[n].skipping_time + (clock - stack[n + 1].constructed_time)
  BY <1>1, <1>4, UnblockedFacts
<1>6. Len(calls) \in 1..Len(calls) /\ Len(calls) \in Nat
      /\ Last(calls) = calls[Len(calls)] /\ Last(calls).before \in Int
  <2>1. Last(calls) \in Call  BY <1>1, <1>2, LastFacts
  <2> QED  BY <1>1, <1>2, <2>1, LastFacts DEF Call
<1>7. \A i \in 1..(Len(calls) - 1) : Counted(i)' = Counted(i)
  <2> SUFFICES ASSUME NEW i \in 1..(Len(calls) - 1)
               PROVE  Counted(i)' = Counted(i)
    OBVIOUS
  <2>1. i \in 1..Len(calls) /\ i # Len(calls)  BY <1>6
  <2>2. Under(i)' = Under(i) /\ calls'[i] = calls[i]
    BY <1>1, <1>2, <2>1, UnderKept
  <2>3. Under(i) \in 1..Len(stack) /\ Under(i) # Len(stack)
    BY <1>1, <2>1, UnderFacts
  <2>4. Counted(i)' = IF calls[i].kind = "block" THEN 0
                      ELSE (IF Under(i) = n THEN clock
                            ELSE stack'[Under(i) + 1].constructed_time)
                             - stack'[Under(i)].skipping_time - calls[i].before
    BY <1>1, <1>5, <2>2 DEF Counted, StoodAt
  <2>5. Counted(i) = IF calls[i].kind = "block" THEN 0
                     ELSE stack[Under(i) + 1].constructed_time
                            - stack[Under(i)].skipping_time - calls[i].before
    BY <2>3 DEF Counted, StoodAt
  <2>6. CASE Under(i) = n
    <3>1. n \in 1..Len(stack) /\ n + 1 \in 1..Len(stack)  BY <1>5
    <3>2. /\ stack[n].skipping_time \in Int
          /\ stack[n + 1].constructed_time \in Int
          /\ calls[i].before \in Int
      BY <2>1, <3>1, TopOfStack, CountedFacts
    <3>3. clock - (stack[n].skipping_time
                     + (clock - stack[n + 1].constructed_time)) - calls[i].before
            = stack[n + 1].constructed_time - stack[n].skipping_time
                - calls[i].before
      BY <1>2, <3>2
    <3> QED  BY <1>5, <2>4, <2>5, <2>6, <3>3
  <2>7. CASE Under(i) # n
    <3>1. Under(i) \in 1..(n - 1)  BY <1>5, <2>3, <2>7
    <3>2. stack'[Under(i)] = stack[Under(i)]  BY <1>5, <3>1
    <3>3. stack'[Under(i) + 1].constructed_time =
            stack[Under(i) + 1].constructed_time
      <4>1. Under(i) + 1 = n \/ Under(i) + 1 \in 1..(n - 1)  BY <1>5, <3>1
      <4> QED  BY <1>5, <4>1
    <3> QED  BY <2>4, <2>5, <2>7, <3>2, <3>3
  <2> QED  BY <2>6, <2>7
<1>8. /\ Open # <<>>
      /\ Open[Len(Open)].kind = "block"
      /\ Open' = SubSeq(Open, 1, Len(Open) - 1)
  BY <1>1, <1>2, <1>3, <1>7, OpenShrunk
<1>9. /\ Blocks(calls') = Blocks(calls) \ {Len(calls)}
      /\ Len(calls) \in Blocks(calls)
  <2>1. Len(calls) \in Blocks(calls)  BY <1>1, <1>6 DEF Blocks
  <2> QED  BY <1>1, <1>2, <2>1, BlocksFront
<1>10. Pending' = IF Blocks(calls') = {} THEN 0
                  ELSE clock' - calls'[Outermost(calls')].before
  BY DEF Pending
<1>11. (recompute_time + Pending)' = recompute_time + Pending
  <2>1. CASE Blocks(calls') = {}
    <3>1. \A j \in Blocks(calls) : Len(calls) =< j
      BY <1>6, <1>9, <2>1
    <3>2. Outermost(calls) = Len(calls)  BY <1>2, <1>9, <3>1, OutermostIs
    <3>3. Pending = clock - Last(calls).before
      BY <1>6, <1>9, <3>2 DEF Pending
    <3>4. recompute_time' = recompute_time + (clock - Last(calls).before)
      BY <1>1, <2>1 DEF Recomputed
    <3>5. Pending' = 0  BY <1>10, <2>1
    <3> QED  BY <1>2, <1>6, <3>3, <3>4, <3>5
  <2>2. CASE Blocks(calls') # {}
    <3>1. \A i \in Blocks(calls') : i \in 1..(Len(calls) - 1)
      <4>1. \A i \in Blocks(calls) : i \in 1..Len(calls)
        BY <1>2, LenProperties DEF Blocks
      <4> QED  BY <1>6, <1>9, <4>1
    <3>2. \A i \in Blocks(calls') : calls[i] = calls'[i]
      BY <1>1, <1>2, <3>1, FrontFacts
    <3>3. \A j \in Blocks(calls) \ Blocks(calls') :
            \A i \in Blocks(calls') : i < j
      BY <1>6, <1>9, <3>1
    <3>4. calls[Outermost(calls)].before = calls'[Outermost(calls')].before
      BY <1>2, <1>9, <2>2, <3>2, <3>3, SameOutermost
    <3>5. Pending' = Pending
      BY <1>1, <1>9, <1>10, <2>2, <3>4 DEF Pending
    <3>6. recompute_time' = recompute_time  BY <1>1, <2>2 DEF Recomputed
    <3> QED  BY <3>5, <3>6
  <2> QED  BY <2>1, <2>2
<1> QED  BY <1>1, <1>8, <1>11 DEF sw!CloseBlock, sw!Closes

\* Where the meter stays as it is, so does the stopwatch.
LEMMA MeterStutter ==
  ASSUME UNCHANGED <<clock, stack, calls, recompute_time, result>>
  PROVE  UNCHANGED sw!watchVars
<1>1. Open' = Open
  BY DEF Open, Counted, StoodAt, Under, Blocks
<1>2. Pending' = Pending  BY DEF Pending, Outermost, Blocks
<1> QED  BY <1>1, <1>2 DEF sw!watchVars

\* Every step of the meter is one of the stopwatch or stutters there.
LEMMA MeterStepWatch ==
  MeterInv /\ MeterInv' /\ [MeterNext]_meterVars => [sw!WatchNext]_sw!watchVars
<1> SUFFICES ASSUME MeterInv, MeterInv', [MeterNext]_meterVars
             PROVE  [sw!WatchNext]_sw!watchVars
  OBVIOUS
<1>1. ASSUME NEW d \in Amounts, Elapse(d)  PROVE sw!WatchNext
  BY <1>1, PassStep DEF sw!WatchNext
<1>2. CASE BeginMeasured  BY <1>2, BeginMeasuredStep DEF sw!WatchNext
<1>3. CASE EndMeasured    BY <1>3, EndMeasuredStep DEF sw!WatchNext
<1>4. CASE BeginBlock     BY <1>4, BeginBlockStep DEF sw!WatchNext
<1>5. CASE EndBlock       BY <1>5, EndBlockStep DEF sw!WatchNext
<1>6. CASE Abort          BY <1>6, MeterStutter DEF Abort
<1>7. CASE UNCHANGED meterVars  BY <1>7, MeterStutter DEF meterVars
<1> QED  BY <1>1, <1>2, <1>3, <1>4, <1>5, <1>6, <1>7 DEF MeterNext

\* The meter starts where the stopwatch does.
LEMMA MeterInitWatch == MeterInit => sw!WatchInit
<1> SUFFICES ASSUME MeterInit  PROVE sw!WatchInit
  OBVIOUS
<1>1. calls = <<>> /\ recompute_time = 0 /\ result = -1  BY DEF MeterInit
<1>2. OpenShape  BY MeterInitInv, OpenFacts
<1>3. Open = <<>>  BY <1>1, <1>2 DEF OpenShape
<1>4. Pending = 0  BY <1>1 DEF Pending, Blocks
<1> QED  BY <1>1, <1>3, <1>4 DEF sw!WatchInit

\* However measurements and replays are nested, a measurement answers the time
\* that passed in it outside of all replays, and recompute_time has the time
\* of each outermost replay, once (ZombieMeter::block, EZombie::shared_ptr).
THEOREM MeterIsStopwatch == MeterSpec => IsStopwatch
<1>1. MeterInit => sw!WatchInit  BY MeterInitWatch
<1>2. MeterInv /\ MeterInv' /\ [MeterNext]_meterVars =>
        [sw!WatchNext]_sw!watchVars
  BY MeterStepWatch
<1> QED  BY <1>1, <1>2, MeterInvAlways, PTL DEF MeterSpec, IsStopwatch, sw!WatchSpec
=============================================================================
