----------------------------- MODULE ZombieMemo -----------------------------
(***************************************************************************)
(* The engine keeps the promise of Memo to the root code: evictions,       *)
(* replays and replays within replays are steps the root code cannot tell  *)
(* from doing nothing.                                                     *)
(***************************************************************************)
EXTENDS Zombie

\* The zombie made at tock k has as its value the event that made it.
TableOf(h) ==
  LET makes == {p \in DOMAIN h : h[p].op = "make"}
  IN  [k \in {h[p].tock : p \in makes} |->
         CHOOSE p \in makes : h[p].tock = k]

memo == INSTANCE Memo WITH
          Tock  <- 1..(2 * MaxEvents + 3),   \* every event and every return ticks at most once
          Value <- 1..(MaxEvents + 1),
          table <- TableOf(log),
          asked <- ToSet(records[1].todo),
          given <- records[1].held

\* What the root code sees of the engine is a table that is never evicted
\* (EZombie::shared_ptr, ContextNode::replay), and it is answered every time.
KeepsPromise == memo!FairPromise
=============================================================================
