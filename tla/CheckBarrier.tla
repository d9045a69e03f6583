---------------------------- MODULE CheckBarrier ----------------------------
(***************************************************************************)
(* What CheckThreadPool (pkg/operator/pool.go) promises the check round    *)
(* that uses it, stated without wait group, channel or goroutines: a unit  *)
(* of work is submitted once, at most Parallelism units run at a time, and *)
(* Wait answers nil only when no submitted unit is waiting or running.     *)
(***************************************************************************)
EXTENDS Naturals, FiniteSets

CONSTANTS Task,         \* the units of work a round may submit
          Parallelism   \* the number of units that may run at the same time

VARIABLES waiting,      \* submitted, not yet started
          running,      \* started, not yet over
          over,         \* over: returned, or ended by a panic
          verdict       \* what the round was told: "none" while it goes on

vars == <<waiting, running, over, verdict>>

Init ==
  /\ waiting = {}
  /\ running = {}
  /\ over = {}
  /\ verdict = "none"

Submit(t) ==
  /\ verdict = "none"
  /\ t \notin waiting \cup running \cup over
  /\ waiting' = waiting \cup {t}
  /\ UNCHANGED <<running, over, verdict>>

Start(t) ==
  /\ t \in waiting
  /\ Cardinality(running) < Parallelism
  /\ waiting' = waiting \ {t}
  /\ running' = running \cup {t}
  /\ UNCHANGED <<over, verdict>>

End(t) ==
  /\ t \in running
  /\ running' = running \ {t}
  /\ over' = over \cup {t}
  /\ UNCHANGED <<waiting, verdict>>

\* Wait returned nil: nothing the round submitted is left.
Complete ==
  /\ verdict = "none"
  /\ waiting = {}
  /\ running = {}
  /\ verdict' = "nil"
  /\ UNCHANGED <<waiting, running, over>>

\* The round gave up, with work possibly left: the context expired, or the
\* round never called Wait.
GiveUp ==
  /\ verdict = "none"
  /\ verdict' \in {"ctxErr", "abandoned"}
  /\ UNCHANGED <<waiting, running, over>>

Next ==
  \/ \E t \in Task : Submit(t) \/ Start(t) \/ End(t)
  \/ Complete
  \/ GiveUp

Spec == Init /\ [][Next]_vars

=============================================================================
