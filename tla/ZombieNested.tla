---------------------------- MODULE ZombieNested ----------------------------
(***************************************************************************)
(* The engine with the one call Zombie leaves out: bindZombie from within  *)
(* a body.  The tests ask for it; the code ends in an assertion.           *)
(***************************************************************************)
EXTENDS Zombie

VARIABLE aborted   \* an assertion of the code has failed, the process is gone

nestedVars == <<vars, aborted>>

\* bindZombie in a body: records.back()->suspend(rep) is the head's suspend,
\* and HeadRecordNode::suspended is assert(false).
BindInBody(in) ==
  /\ InBody
  /\ Replaying => current_tock < Target.at
  /\ Does("bind", in)
  /\ aborted' = TRUE
  /\ UNCHANGED <<current_tock, akasha, records, replays>>

NestedInit == Init /\ aborted = FALSE

NestedNext ==
  /\ ~aborted
  /\ \/ Next /\ UNCHANGED aborted
     \/ \E in \in Args : BindInBody(in)

NestedSpec == NestedInit /\ [][NestedNext]_nestedVars

\* A body may call bindZombie, and the outer call goes on when the inner one
\* returns (test/zombie_test.cc, ZombieRematWithSmallestFunction and
\* SkipZombieAliveRecursiveFunction).
NestedBindReturns == ~aborted
=============================================================================
