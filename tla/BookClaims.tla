----------------------------- MODULE BookClaims -----------------------------
(***************************************************************************)
(* What the repository says of the book and the reaper, and the code does  *)
(* not do.                                                                 *)
(***************************************************************************)
EXTENDS Book

VARIABLE loop   \* the loop of test/uf_test.cc: "before", "in", "done", "aborted"

claimVars == <<bookVars, loop>>

\* while (t.reaper.have_soul()) {
LoopTest ==
  /\ InUser
  /\ loop \in {"before", "in"}
  /\ loop' = IF ~have_soul THEN "done"
             ELSE IF size + Len(waiting) > 0 THEN "in" ELSE "aborted"
  /\ IF loop' = "in" THEN Murder ELSE UNCHANGED bookVars

ClaimInit == BookInit /\ loop = "before"

ClaimNext ==
  \/ loop = "before" /\ BookNext /\ UNCHANGED loop
  \/ loop = "in" /\ LibraryStep /\ UNCHANGED loop
  \/ LoopTest

ClaimSpec == ClaimInit /\ [][ClaimNext]_claimVars

\* A test empties the book with while (have_soul()) murder(): the loop ends
\* when nothing is left (test/uf_test.cc).
LoopReapsAll ==
  /\ loop # "aborted"
  /\ loop = "done" /\ Idle => size + Len(waiting) = 0

\* default_config's approx_factor.
ApproxFactor == 2

Within(a, b) == a =< ApproxFactor * b /\ b =< ApproxFactor * a

\* When the actual cost is within approx_factor of the stored one the
\* difference is ignored: such an entry is not filed anew (config.hpp).
ApproxIgnored ==
  [][\A n \in popped :
       phase = "weigh" /\ phase' = "reap" => ~Within(n.key, CostNow(n.id))]_bookVars
=============================================================================
