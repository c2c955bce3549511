---------------------------- MODULE SplayListMap ----------------------------
(***************************************************************************)
(* SplayList implements OrderedMap: searches, rotations and the joining of *)
(* two trees are steps its user does not see.                              *)
(***************************************************************************)
EXTENDS SplayList

\* The call that has not taken effect, under the name its caller gave it.
Asked ==
  IF call.op \in {"none", "settle"} THEN {}
  ELSE {[call EXCEPT !.op = IF call.op = "max" THEN "le"
                            ELSE IF call.op = "remove max" THEN "remove_le"
                            ELSE call.op]}

om == INSTANCE OrderedMap WITH
        Missing <- nullptr, map <- v, asked <- Asked

\* find_le_node answers with the greatest key at or below the one it is given,
\* find_precise_node with that key only; insert and the removals change the one
\* entry they name (test/splay_list_test.cc).
IsMap == om!MapSpec
=============================================================================
