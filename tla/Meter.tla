------------------------------- MODULE Meter -------------------------------
(***************************************************************************)
(* ZombieClock and ZombieMeter of meter.hpp, with the one caller of block: *)
(* EZombie::shared_ptr, which blocks the meter while it replays and adds   *)
(* what an outermost replay took to recompute_time.  Bodies may measure,   *)
(* ask for values, and take any time, down to none that the clock shows.   *)
(***************************************************************************)
EXTENDS Integers, Sequences, FiniteSets, SequencesExt

CONSTANTS MaxTime,     \* bound on the clock
          MaxDepth,    \* bound on the calls that are open at once
          Amounts      \* how much time may pass at once

ASSUME TimeAssumption == MaxTime \in Nat /\ Amounts \subseteq Nat

VARIABLES
  clock,            \* ZombieClock::time()
  stack,            \* ZombieMeter::stack: [constructed_time, skipping_time]
  calls,            \* open calls of measured and shared_ptr, innermost last
  recompute_time,   \* Trailokya::recompute_time
  result,           \* what measured has answered last
  aborted           \* has an assertion failed?

meterVars == <<clock, stack, calls, recompute_time, result, aborted>>

Node(now) == [constructed_time |-> now, skipping_time |-> 0]

\* ZombieMeter::time, for the node on top.
time == clock - Last(stack).skipping_time

\* What the clock shows later: time has passed, or fast_forward was called.
Elapse(d) ==
  /\ ~aborted
  /\ clock + d =< MaxTime
  /\ clock' = clock + d
  /\ UNCHANGED <<stack, calls, recompute_time, result, aborted>>

\* measured, up to f().
BeginMeasured ==
  /\ ~aborted
  /\ Len(calls) < MaxDepth
  /\ calls' = Append(calls, [kind |-> "measure", before |-> time])
  /\ UNCHANGED <<clock, stack, recompute_time, result, aborted>>

\* measured, after f().
EndMeasured ==
  /\ ~aborted
  /\ calls # <<>>
  /\ Last(calls).kind = "measure"
  /\ result' = time - Last(calls).before
  /\ calls' = Front(calls)
  /\ UNCHANGED <<clock, stack, recompute_time, aborted>>

\* shared_ptr of a value that is gone, and block, up to the replay.
BeginBlock ==
  /\ ~aborted
  /\ Len(calls) < MaxDepth
  /\ calls' = Append(calls, [kind |-> "block", before |-> clock])
  /\ stack' = Append(stack, Node(clock))
  /\ UNCHANGED <<clock, recompute_time, result, aborted>>

\* Mutant of Unblocked: what blocks within have skipped is left out.
UnblockedOwn(s) ==
  LET inner == Last(s)
      taken == clock - inner.skipping_time - inner.constructed_time
      rest  == Front(s)
  IN  [rest EXCEPT ![Len(rest)].skipping_time = @ + taken]

\* Mutant of Unblocked: the node's own skipping is not subtracted first.
UnblockedTwice(s) ==
  LET inner == Last(s)
      taken == clock - inner.constructed_time
      rest  == Front(s)
  IN  [rest EXCEPT ![Len(rest)].skipping_time = @ + taken + inner.skipping_time]

\* The end of block: the node goes, and the one below skips its time.
Unblocked(s) ==
  LET inner == Last(s)
      taken == clock - inner.skipping_time - inner.constructed_time
      rest  == Front(s)
  IN  [rest EXCEPT ![Len(rest)].skipping_time = @ + taken + inner.skipping_time]

\* assert(current_time > constructed_time).
TookTime == time > Last(stack).constructed_time

\* Replays that are still open when the last one has ended.
Blocks(s) == {i \in DOMAIN s : s[i].kind = "block"}

\* Mutant of Recomputed: every replay adds its time.
RecomputedAll == recompute_time + (clock - Last(calls).before)

\* shared_ptr, after the replay: only the outermost one adds its time.
Recomputed ==
  IF Blocks(Front(calls)) = {}
  THEN recompute_time + (clock - Last(calls).before)
  ELSE recompute_time

EndBlock ==
  /\ ~aborted
  /\ calls # <<>>
  /\ Last(calls).kind = "block"
  /\ TookTime
  /\ stack' = Unblocked(stack)
  /\ recompute_time' = Recomputed
  /\ calls' = Front(calls)
  /\ UNCHANGED <<clock, result, aborted>>

\* A replay all of whose time the clock shows was spent in replays within.
Abort ==
  /\ ~aborted
  /\ calls # <<>>
  /\ Last(calls).kind = "block"
  /\ ~TookTime
  /\ aborted' = TRUE
  /\ UNCHANGED <<clock, stack, calls, recompute_time, result>>

MeterInit ==
  /\ clock = 0
  /\ stack = <<Node(0)>>
  /\ calls = <<>>
  /\ recompute_time = 0
  /\ result = -1
  /\ aborted = FALSE

MeterNext ==
  \/ \E d \in Amounts : Elapse(d)
  \/ BeginMeasured \/ EndMeasured
  \/ BeginBlock \/ EndBlock \/ Abort

MeterSpec == MeterInit /\ [][MeterNext]_meterVars

(***************************************************************************)
(* Properties                                                              *)
(***************************************************************************)

\* Nodes and open replays correspond, whatever is measured in between (the
\* assertions of measured and block), no node is older than the one it blocks,
\* and none skips more than has passed since the node above it was made.
NodesFit ==
  /\ Len(stack) = 1 + Cardinality(Blocks(calls))
  /\ \A i \in 1..(Len(stack) - 1) :
       LET above == stack[i + 1].constructed_time
       IN  /\ stack[i].constructed_time =< above
           /\ stack[i].constructed_time + stack[i].skipping_time =< above
  /\ Last(stack).constructed_time + Last(stack).skipping_time =< clock
=============================================================================
