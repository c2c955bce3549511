----------------------------- MODULE OrderedMap -----------------------------
(***************************************************************************)
(* What a SplayList promises: a map over ordered keys which takes one call *)
(* at a time and answers with the greatest key at or below the one asked   *)
(* for.  There is no tree here and no list.                                *)
(***************************************************************************)
EXTENDS Integers

CONSTANTS Calls,      \* the calls: records of an op, a key k and a value x
          Missing     \* the answer that there is no such key

VARIABLES map,        \* key -> value
          asked,      \* the call that has still to take effect, if any
          answer      \* what the call that ended last has answered

mapVars == <<map, asked, answer>>

MapInit == map = [k \in {} |-> 0] /\ asked = {} /\ answer = Missing

Ask(c) ==
  /\ asked = {}
  /\ asked' = {c}
  /\ answer' = Missing
  /\ UNCHANGED map

\* a is the greatest key at or below k, or there is none.
Below(a, k) ==
  \/ a \in DOMAIN map /\ a =< k /\ \A j \in DOMAIN map : j =< k => j =< a
  \/ a = Missing /\ \A j \in DOMAIN map : j > k

At(a, k) == a = IF k \in DOMAIN map THEN k ELSE Missing

Reply(c) ==
  /\ \/ c.op = "le" /\ Below(answer', c.k)
     \/ c.op = "precise" /\ At(answer', c.k)
  /\ UNCHANGED map

Put(c) ==
  /\ c.op = "insert"
  /\ map' = [j \in DOMAIN map \cup {c.k} |-> IF j = c.k THEN c.x ELSE map[j]]
  /\ UNCHANGED answer

Drop(c, a) ==
  /\ \/ c.op = "remove_le" /\ Below(a, c.k)
     \/ c.op = "remove_precise" /\ At(a, c.k)
  /\ map' = [j \in DOMAIN map \ {a} |-> map[j]]
  /\ UNCHANGED answer

\* The call takes effect.
Effect ==
  \E c \in asked :
    /\ asked' = {}
    /\ Reply(c) \/ Put(c) \/ \E a \in DOMAIN map \cup {Missing} : Drop(c, a)

MapNext == Effect \/ \E c \in Calls : Ask(c)

MapSpec == MapInit /\ [][MapNext]_mapVars
=============================================================================
