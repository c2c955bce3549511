-------------------------------- MODULE Memo --------------------------------
(***************************************************************************)
(* What the zombie library promises its root code: a table of values that  *)
(* is only ever extended, and a get_value that answers from that table.    *)
(* Nothing here is evicted, replayed or made twice.                        *)
(***************************************************************************)
EXTENDS Integers

CONSTANTS Tock,    \* the keys
          Value    \* the values

VARIABLES table,   \* tock -> the value of the zombie made at it
          asked,   \* the zombies whose value the root code waits for
          given    \* the values it has been given and keeps

memoVars == <<table, asked, given>>

MemoInit ==
  /\ table = [k \in {} |-> 0]
  /\ asked = {}
  /\ given = {}

\* The program makes its next zombie.
MakeNew(k, v) ==
  /\ asked = {}
  /\ \A j \in DOMAIN table : j < k
  /\ table' = [j \in DOMAIN table \cup {k} |-> IF j = k THEN v ELSE table[j]]
  /\ UNCHANGED <<asked, given>>

Ask(k) ==
  /\ asked = {}
  /\ asked' = {k}
  /\ UNCHANGED <<table, given>>

\* The answer is the value in the table, and only that.
Answer ==
  \E k \in asked :
    /\ given' = given \cup {[tock |-> k, val |-> table[k]]}
    /\ asked' = {}
    /\ UNCHANGED table

Drop(g) ==
  /\ asked = {}
  /\ given' = given \ {g}
  /\ UNCHANGED <<table, asked>>

MemoNext ==
  \/ \E k \in Tock, v \in Value : MakeNew(k, v)
  \/ \E k \in DOMAIN table : Ask(k)
  \/ Answer
  \/ \E g \in given : Drop(g)

Promise == MemoInit /\ [][MemoNext]_memoVars

\* Every question is answered.
FairPromise == Promise /\ WF_memoVars(Answer)
=============================================================================
