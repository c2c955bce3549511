----------------------------- MODULE Stopwatch -----------------------------
(***************************************************************************)
(* What ZombieMeter promises: nested measurements, each of which counts    *)
(* the time that passes while no block is open above it.  Time spent in    *)
(* any block counts once, for recompute_time.                              *)
(***************************************************************************)
EXTENDS Integers, Sequences

CONSTANTS Amounts      \* how much time may pass at once

VARIABLES open,        \* what is open, innermost last: [kind, own]
          away,        \* time during which some block was open
          told         \* what the measurement that ended last has answered

watchVars == <<open, away, told>>

WatchInit == open = <<>> /\ away = 0 /\ told = -1

IsBlock(i) == open[i].kind = "block"

\* Measurement i runs: no block is open above it.
Runs(i) == ~IsBlock(i) /\ \A j \in (i + 1)..Len(open) : ~IsBlock(j)

Pass(d) ==
  /\ open' = [i \in DOMAIN open |->
                IF Runs(i) THEN [open[i] EXCEPT !.own = @ + d] ELSE open[i]]
  /\ away' = IF \E i \in DOMAIN open : IsBlock(i) THEN away + d ELSE away
  /\ UNCHANGED told

OpenMeasure ==
  /\ open' = Append(open, [kind |-> "measure", own |-> 0])
  /\ UNCHANGED <<away, told>>

OpenBlock ==
  /\ open' = Append(open, [kind |-> "block", own |-> 0])
  /\ UNCHANGED <<away, told>>

\* Calls end innermost first.
Closes(kind) ==
  /\ open # <<>>
  /\ open[Len(open)].kind = kind
  /\ open' = SubSeq(open, 1, Len(open) - 1)

CloseMeasure ==
  /\ Closes("measure")
  /\ told' = open[Len(open)].own
  /\ UNCHANGED away

CloseBlock ==
  /\ Closes("block")
  /\ UNCHANGED <<away, told>>

WatchNext ==
  \/ \E d \in Amounts : Pass(d)
  \/ OpenMeasure \/ OpenBlock
  \/ CloseMeasure \/ CloseBlock

WatchSpec == WatchInit /\ [][WatchNext]_watchVars
=============================================================================
