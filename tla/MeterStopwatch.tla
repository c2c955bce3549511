--------------------------- MODULE MeterStopwatch ---------------------------
(***************************************************************************)
(* Meter implements Stopwatch: what a measurement has counted so far can   *)
(* be read off the node it was made under.                                 *)
(***************************************************************************)
EXTENDS Meter

\* The node under which call i was made.
Under(i) == 1 + Cardinality({j \in Blocks(calls) : j < i})

\* Where the time of a node stands still while it is blocked.
StoodAt(n) ==
  IF n = Len(stack) THEN clock ELSE stack[n + 1].constructed_time

Counted(i) ==
  IF calls[i].kind = "block" THEN 0
  ELSE StoodAt(Under(i)) - stack[Under(i)].skipping_time - calls[i].before

\* The replay around all others, and the time it has taken so far.
Outermost(s) == CHOOSE i \in Blocks(s) : \A j \in Blocks(s) : i =< j

Pending ==
  IF Blocks(calls) = {} THEN 0 ELSE clock - calls[Outermost(calls)].before

Open == [i \in DOMAIN calls |-> [kind |-> calls[i].kind, own |-> Counted(i)]]

sw == INSTANCE Stopwatch WITH
        open <- Open,
        away <- recompute_time + Pending,
        told <- result

\* A measurement answers the time that has passed in it outside of all blocks,
\* however they are nested, and recompute_time counts the time of nested
\* replays once (ZombieMeter::block, EZombie::shared_ptr; test/time_test.cc).
IsStopwatch == sw!WatchSpec
=============================================================================
