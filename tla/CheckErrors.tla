----------------------------- MODULE CheckErrors -----------------------------
(***************************************************************************)
(* How the cluster checks of pkg/check gather problems.  Most of them walk *)
(* over a list; the body of the loop either appends the problems it finds  *)
(* to errs and goes on, or returns, and then what was appended before is   *)
(* dropped.  A problem is a tuple; an error is a set of problems, and the  *)
(* error nil is the empty set.                                             *)
(***************************************************************************)
EXTENDS Integers, Sequences, FiniteSets, FiniteSetsExt

GoOn(problems) == [problems |-> problems, returns |-> FALSE]
ReturnNow(problems) == [problems |-> problems, returns |-> TRUE]

\* The loop, given what its body does for each element, and join(errs) after it.
ForEach(steps) ==
  LET returning == {i \in DOMAIN steps : steps[i].returns} IN
  IF returning = {} THEN UNION {steps[i].problems : i \in DOMAIN steps}
                    ELSE steps[Min(returning)].problems

\* The problem p exactly if the condition holds.
If(condition, p) == IF condition THEN {p} ELSE {}

\* JoinErrors: how many problems the message announces and how many it lists.
\* With five or more it says "listing first 5" and joins errs[0:4].
JoinErrors(problems) ==
  LET n == Cardinality(problems) IN
  [found |-> n, listed |-> IF n < 5 THEN n ELSE 4]

=============================================================================
