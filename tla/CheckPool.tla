------------------------------ MODULE CheckPool ------------------------------
(***************************************************************************)
(* CheckThreadPool of pkg/operator/pool.go: one check round enqueues units *)
(* of work (a cluster check, or all checks of a node) into a buffered      *)
(* channel, a fixed set of worker goroutines drains it, and Wait starts a  *)
(* goroutine that turns the wait group into a channel the round can select *)
(* on together with its context.                                           *)
(*                                                                         *)
(* Goroutines: the submitter (vSphereChecker.runChecks), the workers and,  *)
(* once Wait was called, the waiter.  One action is one operation on the   *)
(* wait group or on a channel.                                             *)
(***************************************************************************)
EXTENDS Integers, Sequences, FiniteSets

CONSTANTS Task,        \* units of work the round may submit
          Worker,      \* the worker goroutines: parallelVSPhereCalls of them
          BufferSize,  \* capacity of workCh: channelBufferSize
          NoTask       \* "no work in hand"

ASSUME TaskAssumption   == NoTask \notin Task
ASSUME WorkerAssumption == IsFiniteSet(Worker)
ASSUME BufferAssumption == BufferSize \in Nat \ {0}

VARIABLES
  submitter,   \* where the goroutine of runChecks is
  pending,     \* the work it is sending: wg.Add is done, the send is not
  verdict,     \* how the round ended
  wg,          \* counter of the wait group
  workCh,      \* contents of the buffered channel
  closed,      \* workCh is closed
  done,        \* the channel made by Wait is closed
  waiter,      \* the goroutine started by Wait
  wpc,         \* where each worker is
  work,        \* the work each worker has in hand
  submitted,   \* work the round called RunGoroutine for
  completed,   \* work whose function returned
  ctxDone,     \* the context of the round is cancelled
  crashed      \* the process died of an unrecovered panic

poolVars == <<wg, workCh, closed, done, waiter, wpc, work>>
vars == <<submitter, pending, verdict, poolVars, submitted, completed,
          ctxDone, crashed>>

Init ==
  /\ submitter = "enqueueing"
  /\ pending = NoTask
  /\ verdict = "none"
  /\ wg = 0
  /\ workCh = <<>>
  /\ closed = FALSE
  /\ done = FALSE
  /\ waiter = "none"
  /\ wpc = [w \in Worker |-> "receiving"]
  /\ work = [w \in Worker |-> NoTask]
  /\ submitted = {}
  /\ completed = {}
  /\ ctxDone = FALSE
  /\ crashed = FALSE

-----------------------------------------------------------------------------
(* The submitter.                                                          *)

\* Mutant: the wait group is not told.
MutantNoAdd(t) ==
  /\ submitter = "enqueueing"
  /\ t \notin submitted
  /\ pending' = t
  /\ submitted' = submitted \cup {t}
  /\ submitter' = "sending"
  /\ UNCHANGED <<verdict, poolVars, completed, ctxDone, crashed>>

\* Mutant: the same function is enqueued again.
MutantAddAgain(t) ==
  /\ submitter = "enqueueing"
  /\ wg' = wg + 1
  /\ pending' = t
  /\ submitted' = submitted \cup {t}
  /\ submitter' = "sending"
  /\ UNCHANGED <<verdict, workCh, closed, done, waiter, wpc, work,
                 completed, ctxDone, crashed>>

\* RunGoroutine, wg.Add(1).  Each closure is enqueued once.
RunGoroutineAdd(t) ==
  /\ submitter = "enqueueing"
  /\ t \notin submitted
  /\ wg' = wg + 1
  /\ pending' = t
  /\ submitted' = submitted \cup {t}
  /\ submitter' = "sending"
  /\ UNCHANGED <<verdict, workCh, closed, done, waiter, wpc, work,
                 completed, ctxDone, crashed>>

\* RunGoroutine, workCh <- check.  Blocks while the buffer is full; the
\* context is not consulted.  A send on the closed channel would panic.
RunGoroutineSend ==
  /\ submitter = "sending"
  /\ ~closed
  /\ Len(workCh) < BufferSize
  /\ workCh' = Append(workCh, pending)
  /\ pending' = NoTask
  /\ submitter' = "enqueueing"
  /\ UNCHANGED <<verdict, wg, closed, done, waiter, wpc, work, submitted,
                 completed, ctxDone, crashed>>

\* runChecks returns because enqueueNodeChecks failed: the cluster checks are
\* in the pool and Wait is never called.
Abandon ==
  /\ submitter = "enqueueing"
  /\ submitter' = "returned"
  /\ verdict' = "abandoned"
  /\ UNCHANGED <<pending, poolVars, submitted, completed, ctxDone, crashed>>

\* Wait: make the done channel and start the goroutine that closes it.
WaitStart ==
  /\ submitter = "enqueueing"
  /\ submitter' = "waiting"
  /\ waiter' = "blocked"
  /\ UNCHANGED <<pending, verdict, wg, workCh, closed, done, wpc, work,
                 submitted, completed, ctxDone, crashed>>

\* Wait, case <-done.
WaitDone ==
  /\ submitter = "waiting"
  /\ done
  /\ submitter' = "returned"
  /\ verdict' = "nil"
  /\ UNCHANGED <<pending, poolVars, submitted, completed, ctxDone, crashed>>

\* Mutant: the select is in a loop that the context does not end.
MutantWaitGoesOn ==
  /\ submitter = "waiting"
  /\ ctxDone
  /\ verdict' = "ctxErr"
  /\ UNCHANGED <<submitter, pending, poolVars, submitted, completed,
                 ctxDone, crashed>>

\* Wait, case <-ctx.Done().
WaitExpired ==
  /\ submitter = "waiting"
  /\ ctxDone
  /\ submitter' = "returned"
  /\ verdict' = "ctxErr"
  /\ UNCHANGED <<pending, poolVars, submitted, completed, ctxDone, crashed>>

-----------------------------------------------------------------------------
(* The goroutine started by Wait.                                          *)

\* Mutant: wg.Wait() is left out.
MutantNoWgWait ==
  /\ waiter = "blocked"
  /\ waiter' = "woken"
  /\ UNCHANGED <<submitter, pending, verdict, wg, workCh, closed, done, wpc,
                 work, submitted, completed, ctxDone, crashed>>

WaiterWgWait ==
  /\ waiter = "blocked"
  /\ wg = 0
  /\ waiter' = "woken"
  /\ UNCHANGED <<submitter, pending, verdict, wg, workCh, closed, done, wpc,
                 work, submitted, completed, ctxDone, crashed>>

\* Mutant: the done channel is not closed.
MutantDoneStaysOpen ==
  /\ waiter = "woken"
  /\ waiter' = "closing"
  /\ UNCHANGED <<submitter, pending, verdict, wg, workCh, closed, done, wpc,
                 work, submitted, completed, ctxDone, crashed>>

WaiterCloseDone ==
  /\ waiter = "woken"
  /\ done' = TRUE
  /\ waiter' = "closing"
  /\ UNCHANGED <<submitter, pending, verdict, wg, workCh, closed, wpc, work,
                 submitted, completed, ctxDone, crashed>>

\* Mutant: workCh is not closed.
MutantWorkChStaysOpen ==
  /\ waiter = "closing"
  /\ waiter' = "exited"
  /\ UNCHANGED <<submitter, pending, verdict, wg, workCh, closed, done, wpc,
                 work, submitted, completed, ctxDone, crashed>>

WaiterCloseWorkCh ==
  /\ waiter = "closing"
  /\ closed' = TRUE
  /\ waiter' = "exited"
  /\ UNCHANGED <<submitter, pending, verdict, wg, workCh, done, wpc, work,
                 submitted, completed, ctxDone, crashed>>

-----------------------------------------------------------------------------
(* The workers.                                                            *)

\* for work := range r.workCh: take the oldest element, ...
WorkerReceive(w) ==
  /\ wpc[w] = "receiving"
  /\ workCh # <<>>
  /\ work' = [work EXCEPT ![w] = Head(workCh)]
  /\ workCh' = Tail(workCh)
  /\ wpc' = [wpc EXCEPT ![w] = "working"]
  /\ UNCHANGED <<submitter, pending, verdict, wg, closed, done, waiter,
                 submitted, completed, ctxDone, crashed>>

\* Mutant: a worker leaves when it finds the channel empty.
MutantExitWhenEmpty(w) ==
  /\ wpc[w] = "receiving"
  /\ workCh = <<>>
  /\ wpc' = [wpc EXCEPT ![w] = "exited"]
  /\ UNCHANGED <<submitter, pending, verdict, wg, workCh, closed, done,
                 waiter, work, submitted, completed, ctxDone, crashed>>

\* ... or leave the loop when the channel is closed and drained.
WorkerExit(w) ==
  /\ wpc[w] = "receiving"
  /\ workCh = <<>>
  /\ closed
  /\ wpc' = [wpc EXCEPT ![w] = "exited"]
  /\ UNCHANGED <<submitter, pending, verdict, wg, workCh, closed, done,
                 waiter, work, submitted, completed, ctxDone, crashed>>

\* Mutant: Done is called by the work and by the deferred function.
MutantDoneTwice(w) ==
  /\ wpc[w] = "working"
  /\ wg' = wg - 2
  /\ completed' = completed \cup {work[w]}
  /\ work' = [work EXCEPT ![w] = NoTask]
  /\ wpc' = [wpc EXCEPT ![w] = "receiving"]
  /\ UNCHANGED <<submitter, pending, verdict, workCh, closed, done, waiter,
                 submitted, ctxDone, crashed>>

\* Mutant: the worker that finishes the last work closes the channel.
MutantWorkerCloses(w) ==
  /\ wpc[w] = "working"
  /\ wg' = wg - 1
  /\ closed' = (closed \/ wg' = 0)
  /\ completed' = completed \cup {work[w]}
  /\ work' = [work EXCEPT ![w] = NoTask]
  /\ wpc' = [wpc EXCEPT ![w] = "receiving"]
  /\ UNCHANGED <<submitter, pending, verdict, workCh, done, waiter,
                 submitted, ctxDone, crashed>>

\* work() returned; the deferred wg.Done() runs.
WorkerDone(w) ==
  /\ wpc[w] = "working"
  /\ wg' = wg - 1
  /\ completed' = completed \cup {work[w]}
  /\ work' = [work EXCEPT ![w] = NoTask]
  /\ wpc' = [wpc EXCEPT ![w] = "receiving"]
  /\ UNCHANGED <<submitter, pending, verdict, workCh, closed, done, waiter,
                 submitted, ctxDone, crashed>>

\* work() panicked: the deferred wg.Done() runs while the stack unwinds.
\* Nothing recovers the panic, so the process is about to die.
WorkerPanic(w) ==
  /\ wpc[w] = "working"
  /\ wg' = wg - 1
  /\ wpc' = [wpc EXCEPT ![w] = "panicking"]
  /\ UNCHANGED <<submitter, pending, verdict, workCh, closed, done, waiter,
                 work, submitted, completed, ctxDone, crashed>>

Crash(w) ==
  /\ wpc[w] = "panicking"
  /\ crashed' = TRUE
  /\ UNCHANGED <<submitter, pending, verdict, poolVars, submitted,
                 completed, ctxDone>>

\* The controller is shut down.
Cancel ==
  /\ ~ctxDone
  /\ ctxDone' = TRUE
  /\ UNCHANGED <<submitter, pending, verdict, poolVars, submitted,
                 completed, crashed>>

-----------------------------------------------------------------------------
Submitter == (\E t \in Task : RunGoroutineAdd(t)) \/ RunGoroutineSend
             \/ Abandon \/ WaitStart \/ WaitDone \/ WaitExpired
Waiter == WaiterWgWait \/ WaiterCloseDone \/ WaiterCloseWorkCh
Work(w) == WorkerReceive(w) \/ WorkerExit(w) \/ WorkerDone(w)
           \/ WorkerPanic(w) \/ Crash(w)

\* The process is gone, or the round is over and the process goes on with
\* something else.
Quiet == crashed \/ submitter = "returned"

Next ==
  \/ ~crashed /\ (Submitter \/ Waiter \/ Cancel \/ \E w \in Worker : Work(w))
  \/ Quiet /\ UNCHANGED vars

\* What the Go scheduler alone makes a worker do: everything but the end of the
\* check that it runs.
Scheduled(w) == WorkerReceive(w) \/ WorkerExit(w) \/ Crash(w)

\* The Go scheduler runs every goroutine that can run.  Nothing makes a check
\* return: it may hang in a call that has no timeout (comparePrivileges in
\* permissions.go, Configuration in cluster_host_group.go and util.go,
\* ObjectName in node_resource_pool_permissions.go), and even after the context
\* is cancelled (the library frees what folder.go waits with in a call without
\* context).  The context may never be cancelled.
Fairness ==
  /\ WF_vars(~crashed /\ Submitter)
  /\ WF_vars(~crashed /\ Waiter)
  /\ \A w \in Worker : WF_vars(~crashed /\ Scheduled(w))

Spec == Init /\ [][Next]_vars
FairSpec == Spec /\ Fairness

-----------------------------------------------------------------------------
(* Properties.                                                             *)

TypeOK ==
  /\ submitter \in {"enqueueing", "sending", "waiting", "returned"}
  /\ pending \in Task \cup {NoTask}
  /\ verdict \in {"none", "nil", "ctxErr", "abandoned"}
  /\ wg \in Nat
  /\ workCh \in Seq(Task)
  /\ closed \in BOOLEAN
  /\ done \in BOOLEAN
  /\ waiter \in {"none", "blocked", "woken", "closing", "exited"}
  /\ wpc \in [Worker -> {"receiving", "working", "panicking", "exited"}]
  /\ work \in [Worker -> Task \cup {NoTask}]
  /\ submitted \in SUBSET Task
  /\ completed \in SUBSET Task
  /\ ctxDone \in BOOLEAN
  /\ crashed \in BOOLEAN

Busy == {w \in Worker : wpc[w] = "working"}
Queued == {workCh[i] : i \in DOMAIN workCh}
Panicked == {work[w] : w \in {v \in Worker : wpc[v] = "panicking"}}

\* The wait group counts exactly the work that is being sent, is in the
\* channel, or is in a worker's hands.  A counter that ran low would release
\* Wait early (or go negative and panic), one that ran high would block it.
WgExact ==
  wg = (IF submitter = "sending" THEN 1 ELSE 0) + Len(workCh)
       + Cardinality(Busy)

\* workCh is closed only when RunGoroutine has nothing to send any more: a
\* send on a closed channel panics.
NoSendOnClosed == submitter = "sending" => ~closed

\* Wait answers nil only when every function handed to RunGoroutine is over:
\* finishNodeChecks and FinishedAllChecks, which follow, see all results.
NilMeansAllOver == verdict = "nil" => submitted = completed \cup Panicked

\* No submitted work is lost or run twice: it is in exactly one of the hands
\* of the submitter, a slot of the channel, a worker, or completed.
Places(t) ==
  Cardinality({w \in Worker : work[w] = t})
  + Cardinality({i \in DOMAIN workCh : workCh[i] = t})
  + (IF pending = t THEN 1 ELSE 0) + (IF t \in completed THEN 1 ELSE 0)
EachWorkOnce ==
  \A t \in Task : Places(t) = IF t \in submitted THEN 1 ELSE 0

\* Workers leave their loop only after all work is done, so that none is
\* missing while work is left.
ExitOnlyWhenDrained ==
  (\E w \in Worker : wpc[w] = "exited") => wg = 0 /\ workCh = <<>>

\* Worker w is never stuck in a check.
ChecksReturn(w) == []<>(wpc[w] # "working")

\* A round that waits is answered when its context is cancelled, although checks
\* may hang, and without a cancelled context if no check hangs: the answer
\* depends on nothing else, neither on the buffer nor on who takes which work.
WaitAnswers ==
  /\ submitter = "waiting" /\ ctxDone ~> (submitter = "returned" \/ crashed)
  /\ (\A w \in Worker : ChecksReturn(w)) =>
       (submitter = "waiting" ~> (submitter = "returned" \/ crashed))

\* Once Wait was called all worker goroutines end if no check hangs, also when
\* Wait returned early because the context was cancelled.  A check that hangs
\* costs its worker only: one worker whose checks return is enough for the
\* channel to be drained, so that all other work is started.
AllExited == \A w \in Worker : wpc[w] = "exited"
WorkersFinish ==
  /\ (\A w \in Worker : ChecksReturn(w)) =>
       (waiter # "none" ~> (AllExited \/ crashed))
  /\ \A w \in Worker :
       ChecksReturn(w) => (waiter # "none" ~> (workCh = <<>> \/ crashed))

\* pool.go: "Finish all workers when all work is done".  Said of every round:
\* when the round is over and its work is done, its workers end.
AllWorkDone == submitter = "returned" /\ wg = 0
WorkersFinishWhenDone == AllWorkDone ~> (AllExited \/ crashed)

\* The pool keeps the promises of CheckBarrier.
Barrier == INSTANCE CheckBarrier WITH
  waiting <- Queued \cup ({pending} \ {NoTask}),
  running <- {work[w] : w \in Busy},
  over <- completed \cup Panicked,
  verdict <- verdict,
  Parallelism <- Cardinality(Worker)
BarrierSpec == Barrier!Spec

=============================================================================
