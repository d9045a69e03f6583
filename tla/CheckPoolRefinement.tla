------------------------- MODULE CheckPoolRefinement -------------------------
(***************************************************************************)
(* CheckThreadPool runs each unit of work once and implements the barrier  *)
(* of CheckBarrier, for any number of workers, any channel buffer and any  *)
(* set of work.                                                            *)
(***************************************************************************)
EXTENDS CheckPoolProofs

-----------------------------------------------------------------------------
(* The invariant: work is in one place only.                               *)

\* No two slots of the channel and no two workers hold the same work.
NoTwins ==
  /\ \A i, j \in DOMAIN workCh : workCh[i] = workCh[j] => i = j
  /\ \A v, w \in Worker : work[v] = work[w] /\ work[v] # NoTask => v = w

\* The submitter, the channel, the workers and the completed work are apart.
Apart ==
  /\ pending \notin Queued \cup InHand \cup completed
  /\ Queued \cap InHand = {}
  /\ (Queued \cup InHand) \cap completed = {}

VerdictInv == submitter = "returned" <=> verdict # "none"

OnceInv == PoolInv /\ NoTwins /\ Apart /\ VerdictInv

-----------------------------------------------------------------------------
(* Facts about channels and sets of workers.                               *)

\* A send of something new leaves no twins in the channel.
LEMMA AppendNoTwins ==
  ASSUME NEW S, NEW q \in Seq(S), NEW e \in S,
         \A i, j \in DOMAIN q : q[i] = q[j] => i = j,
         e \notin {q[i] : i \in DOMAIN q}
  PROVE  \A i, j \in DOMAIN Append(q, e) :
           Append(q, e)[i] = Append(q, e)[j] => i = j
<1>1. /\ DOMAIN q = 1..Len(q) /\ Len(q) \in Nat
      /\ DOMAIN Append(q, e) = 1..(Len(q) + 1)
      /\ \A i \in 1..Len(q) : Append(q, e)[i] = q[i]
      /\ Append(q, e)[Len(q) + 1] = e
  OBVIOUS
<1>2. \A i \in 1..(Len(q) + 1) : i \in 1..Len(q) \/ i = Len(q) + 1
  BY <1>1
<1>. QED  BY <1>1, <1>2

\* A receive leaves no twins, and not what was received.
LEMMA TailNoTwins ==
  ASSUME NEW S, NEW q \in Seq(S), q # <<>>,
         \A i, j \in DOMAIN q : q[i] = q[j] => i = j
  PROVE  /\ \A i, j \in DOMAIN Tail(q) : Tail(q)[i] = Tail(q)[j] => i = j
         /\ Head(q) \notin {Tail(q)[i] : i \in DOMAIN Tail(q)}
<1>1. /\ Head(q) = q[1]
      /\ Len(q) \in Nat \ {0}
      /\ DOMAIN q = 1..Len(q)
      /\ DOMAIN Tail(q) = 1..(Len(q) - 1)
      /\ \A i \in 1..(Len(q) - 1) : Tail(q)[i] = q[i + 1]
  OBVIOUS
<1>2. \A i \in 1..(Len(q) - 1) : i + 1 \in DOMAIN q /\ i + 1 # 1
  BY <1>1
<1>3. 1 \in DOMAIN q
  BY <1>1
<1>4. ASSUME NEW i \in DOMAIN Tail(q), NEW j \in DOMAIN Tail(q),
             Tail(q)[i] = Tail(q)[j]
      PROVE  i = j
  <2>1. i + 1 = j + 1
    BY <1>1, <1>2, <1>4
  <2>. QED  BY <1>1, <2>1
<1>5. \A i \in DOMAIN Tail(q) : Tail(q)[i] # Head(q)
  BY <1>1, <1>2, <1>3
<1>. QED  BY <1>4, <1>5

\* A set with at most one element has one exactly if it is not empty.
LEMMA CountAtMostOne ==
  ASSUME NEW S, \A x, y \in S : x = y
  PROVE  Cardinality(S) = IF S = {} THEN 0 ELSE 1
<1>1. CASE S = {}
  BY <1>1, FS_EmptySet
<1>2. CASE S # {}
  <2>1. PICK x \in S : TRUE
    BY <1>2
  <2>2. S = {x}
    BY <2>1
  <2>. QED  BY <1>2, <2>2, FS_Singleton
<1>. QED  BY <1>1, <1>2

\* While one worker is free, less work runs than there are workers.
LEMMA RunningFits ==
  ASSUME NEW w \in Worker, wpc[w] # "working"
  PROVE  Cardinality({work[v] : v \in Busy}) < Cardinality(Worker)
<1>. DEFINE R == {work[v] : v \in Busy}
            f == [v \in Busy |-> work[v]]
<1>1. f \in Surjection(Busy, R)
  BY DEF Surjection
<1>2. IsFiniteSet(R) /\ Cardinality(R) <= Cardinality(Busy)
  BY <1>1, BusyFinite, FS_Surjection
<1>3. Busy \in SUBSET Worker /\ Busy # Worker
  BY DEF Busy
<1>4. /\ Cardinality(Busy) <= Cardinality(Worker)
      /\ Cardinality(Worker) # Cardinality(Busy)
  BY <1>3, WorkerAssumption, FS_Subset
<1>5. /\ Cardinality(R) \in Nat /\ Cardinality(Busy) \in Nat
      /\ Cardinality(Worker) \in Nat
  BY <1>2, BusyFinite, WorkerAssumption, FS_CardinalityType
<1>. QED  BY <1>2, <1>4, <1>5

-----------------------------------------------------------------------------
LEMMA OnceInvInit == Init => OnceInv
<1>1. Init => NoTwins /\ VerdictInv
  BY DEF Init, NoTwins, VerdictInv
<1>2. Init => Apart
  BY DEF Init, Apart, Queued, InHand
<1>. QED  BY <1>1, <1>2, PoolInvInit DEF OnceInv

\* Steps that move no work.
LEMMA StillOnce ==
  ASSUME OnceInv, UNCHANGED <<pending, workCh, work, completed>>
  PROVE  NoTwins' /\ Apart'
BY DEF OnceInv, NoTwins, Apart, Queued, InHand

LEMMA OnceStep ==
  ASSUME OnceInv, [Next]_vars
  PROVE  OnceInv'
<1>. USE DEF OnceInv
<1>1. PoolInv'
  BY SubmitterStep, WaiterStep, WorkerStep, QuietStep DEF Next
<1>2. VerdictInv'
  BY DEF VerdictInv, Next, vars, poolVars, Submitter, RunGoroutineAdd,
         RunGoroutineSend, Abandon, WaitStart, WaitDone, WaitExpired, Waiter,
         WaiterWgWait, WaiterCloseDone, WaiterCloseWorkCh, Cancel, Work,
         WorkerReceive, WorkerExit, WorkerDone, WorkerPanic, Crash
<1>3. ASSUME NEW t \in Task, RunGoroutineAdd(t)
      PROVE  NoTwins' /\ Apart'
  <2>. USE <1>3 DEF RunGoroutineAdd
  <2>1. NoTwins'
    BY DEF NoTwins
  <2>2. Queued' = Queued /\ InHand' = InHand
    BY DEF Queued, InHand
  <2>3. t \notin Queued \cup InHand \cup completed
    BY DEF PoolInv, CoverInv
  <2>. QED  BY <2>1, <2>2, <2>3 DEF Apart
<1>4. ASSUME RunGoroutineSend
      PROVE  NoTwins' /\ Apart'
  <2>. USE <1>4 DEF RunGoroutineSend
  <2>1. pending \in Task
    BY DEF PoolInv, SendInv, TypeOK
  <2>2. Queued' = Queued \cup {pending} /\ InHand' = InHand
    BY <2>1, AppendContent DEF PoolInv, TypeOK, Queued, InHand
  <2>3. NoTwins'
    BY <2>1, AppendNoTwins DEF PoolInv, TypeOK, NoTwins, Apart, Queued
  <2>4. NoTask \notin Queued' \cup InHand' \cup completed'
    <3>1. NoTask \notin Queued
      BY TaskAssumption DEF PoolInv, TypeOK, Queued
    <3>. QED  BY <2>1, <2>2, <3>1, TaskAssumption
              DEF PoolInv, TypeOK, InHand
  <2>. QED  BY <2>2, <2>3, <2>4 DEF Apart
<1>5. ASSUME NEW w \in Worker, WorkerReceive(w)
      PROVE  NoTwins' /\ Apart'
  <2>. USE <1>5 DEF WorkerReceive
  <2>1. /\ Head(workCh) \in Task
        /\ Queued = Queued' \cup {Head(workCh)}
    BY TailContent DEF PoolInv, TypeOK, Queued
  <2>2. /\ \A i, j \in DOMAIN workCh' : workCh'[i] = workCh'[j] => i = j
        /\ Head(workCh) \notin Queued'
    BY TailNoTwins DEF PoolInv, TypeOK, NoTwins, Queued
  <2>3. work[w] = NoTask
    BY DEF PoolInv, HandInv
  <2>4. InHand' = InHand \cup {Head(workCh)}
    BY <2>1, <2>3, TaskAssumption DEF PoolInv, InHand, TypeOK
  <2>5. Head(workCh) \notin InHand \cup completed
    BY <2>1 DEF Apart
  <2>6. NoTwins'
    BY <2>1, <2>2, <2>5, TaskAssumption DEF NoTwins, PoolInv, TypeOK, InHand
  <2>7. Apart'
    BY <2>1, <2>2, <2>4, <2>5 DEF Apart
  <2>. QED  BY <2>6, <2>7
<1>6. ASSUME NEW w \in Worker, WorkerDone(w)
      PROVE  NoTwins' /\ Apart'
  <2>. USE <1>6 DEF WorkerDone
  <2>1. work[w] \in Task /\ work[w] \in InHand
    BY DEF PoolInv, HandInv, TypeOK, InHand
  <2>2. NoTwins'
    BY DEF NoTwins, PoolInv, TypeOK
  <2>3. Queued' = Queued /\ InHand' = InHand \ {work[w]}
    BY <2>1, TaskAssumption DEF Queued, InHand, NoTwins, PoolInv, TypeOK
  <2>4. Apart'
    BY <2>1, <2>3 DEF Apart
  <2>. QED  BY <2>2, <2>4
<1>7. ASSUME \/ Abandon \/ WaitStart \/ WaitDone \/ WaitExpired
             \/ Waiter \/ Cancel \/ UNCHANGED vars
             \/ \E w \in Worker : WorkerExit(w) \/ WorkerPanic(w) \/ Crash(w)
      PROVE  NoTwins' /\ Apart'
  <2>1. UNCHANGED <<pending, workCh, work, completed>>
    BY <1>7 DEF Abandon, WaitStart, WaitDone, WaitExpired, Waiter,
                WaiterWgWait, WaiterCloseDone, WaiterCloseWorkCh, Cancel,
                vars, poolVars, WorkerExit, WorkerPanic, Crash
  <2>. QED  BY <2>1, StillOnce
<1>8. NoTwins' /\ Apart'
  BY <1>3, <1>4, <1>5, <1>6, <1>7 DEF Next, Submitter, Work
<1>. QED  BY <1>1, <1>2, <1>8

\* OnceInv holds in every reachable state of the pool.
THEOREM OnceInvariant == Spec => []OnceInv
<1>1. OnceInv /\ [Next]_vars => OnceInv'
  BY OnceStep
<1>. QED  BY OnceInvInit, <1>1, PTL DEF Spec

-----------------------------------------------------------------------------
(* No work is lost or run twice.                                           *)

\* Where the work is, counted: at most once in each place.
LEMMA PlacesCounted ==
  ASSUME OnceInv, NEW t \in Task
  PROVE  Places(t) = (IF t \in InHand THEN 1 ELSE 0)
                     + (IF t \in Queued THEN 1 ELSE 0)
                     + (IF pending = t THEN 1 ELSE 0)
                     + (IF t \in completed THEN 1 ELSE 0)
<1>. DEFINE W == {w \in Worker : work[w] = t}
            Q == {i \in DOMAIN workCh : workCh[i] = t}
<1>1. t # NoTask
  BY TaskAssumption
<1>2. Cardinality(W) = IF W = {} THEN 0 ELSE 1
  <2>1. \A x, y \in W : x = y
    BY <1>1 DEF OnceInv, NoTwins
  <2>. QED  BY <2>1, CountAtMostOne
<1>3. Cardinality(Q) = IF Q = {} THEN 0 ELSE 1
  <2>1. \A x, y \in Q : x = y
    BY DEF OnceInv, NoTwins
  <2>. QED  BY <2>1, CountAtMostOne
<1>4. (W = {} <=> t \notin InHand) /\ (Q = {} <=> t \notin Queued)
  BY <1>1 DEF InHand, Queued
<1>. QED  BY <1>2, <1>3, <1>4 DEF Places

\* Submitted work is in exactly one place and other work in none, whatever
\* the number of workers and the size of the buffer.
THEOREM OnceCorrect == Spec => []EachWorkOnce
<1>1. ASSUME OnceInv, NEW t \in Task
      PROVE  Places(t) = IF t \in submitted THEN 1 ELSE 0
  <2>1. t # NoTask
    BY TaskAssumption
  <2>2. t \in submitted <=> \/ t \in completed \/ t = pending
                            \/ t \in Queued \/ t \in InHand
    BY <1>1, <2>1 DEF OnceInv, PoolInv, CoverInv
  <2>3. /\ t = pending => t \notin Queued \cup InHand \cup completed
        /\ t \in Queued => t \notin InHand \cup completed
        /\ t \in InHand => t \notin completed
    BY <1>1 DEF OnceInv, Apart
  <2>. QED  BY <1>1, <2>2, <2>3, PlacesCounted
<1>2. OnceInv => EachWorkOnce
  BY <1>1 DEF EachWorkOnce
<1>. QED  BY <1>2, OnceInvariant, PTL

-----------------------------------------------------------------------------
(* The pool implements the barrier.                                        *)

Waiting == Queued \cup ({pending} \ {NoTask})
Running == {work[w] : w \in Busy}
Over == completed \cup Panicked

\* The barrier counts as the pool does.
LEMMA BarrierCounts == \A S : Barrier!Cardinality(S) = Cardinality(S)
BY Zenon DEF Barrier!Cardinality, Cardinality

LEMMA BarrierInit == Init => Barrier!Init
BY DEF Init, Barrier!Init, Queued, Busy, Panicked

\* The submitter: RunGoroutine submits, Wait completes or gives up.
LEMMA BarrierSubmitter ==
  ASSUME OnceInv, Submitter
  PROVE  Barrier!Next \/ UNCHANGED Barrier!vars
<1>. USE DEF OnceInv
<1>1. ASSUME NEW t \in Task, RunGoroutineAdd(t)
      PROVE  Barrier!Submit(t)
  <2>. USE <1>1 DEF RunGoroutineAdd
  <2>1. verdict = "none" /\ pending = NoTask /\ t # NoTask
    BY TaskAssumption DEF VerdictInv, PoolInv, SendInv
  <2>2. Waiting' = Waiting \cup {t}
    BY <2>1 DEF Waiting, Queued
  <2>3. t \notin Waiting \cup Running \cup Over
    <3>1. Running \cup Panicked \subseteq InHand
      BY DEF Running, Panicked, InHand, Busy, PoolInv, HandInv
    <3>. QED  BY <3>1 DEF Waiting, Over, PoolInv, CoverInv
  <2>4. UNCHANGED <<Running, Over, verdict>>
    BY DEF Running, Over, Busy, Panicked
  <2>. QED  BY ONLY <2>1, <2>2, <2>3, <2>4
            DEF Barrier!Submit, Waiting, Running, Over
<1>2. ASSUME RunGoroutineSend
      PROVE  UNCHANGED Barrier!vars
  <2>. USE <1>2 DEF RunGoroutineSend
  <2>1. pending \in Task /\ pending # NoTask
    BY DEF PoolInv, SendInv, TypeOK
  <2>2. Queued' = Queued \cup {pending}
    BY <2>1, AppendContent DEF PoolInv, TypeOK, Queued
  <2>3. UNCHANGED <<Waiting, Running, Over, verdict>>
    BY <2>1, <2>2 DEF Waiting, Running, Over, Busy, Panicked
  <2>. QED  BY ONLY <2>3 DEF Barrier!vars, Waiting, Running, Over
<1>3. ASSUME WaitStart
      PROVE  UNCHANGED Barrier!vars
  BY <1>3 DEF WaitStart, Barrier!vars, Queued, Busy, Panicked
<1>4. ASSUME Abandon \/ WaitExpired
      PROVE  Barrier!GiveUp
  <2>1. verdict = "none" /\ verdict' \in {"ctxErr", "abandoned"}
    BY <1>4 DEF Abandon, WaitExpired, VerdictInv
  <2>2. UNCHANGED <<Waiting, Running, Over>>
    BY <1>4 DEF Abandon, WaitExpired, poolVars, Waiting, Running, Over,
                Queued, Busy, Panicked
  <2>. QED  BY ONLY <2>1, <2>2 DEF Barrier!GiveUp, Waiting, Running, Over
<1>5. ASSUME WaitDone
      PROVE  Barrier!Complete
  <2>. USE <1>5 DEF WaitDone
  <2>1. verdict = "none" /\ verdict' = "nil"
    BY DEF VerdictInv
  <2>2. wg = 0
    BY DEF PoolInv, WaiterInv
  <2>3. workCh = <<>> /\ Busy = {} /\ pending = NoTask
    BY <2>2, ZeroMeansIdle DEF PoolInv, SendInv
  <2>4. Waiting = {} /\ Running = {}
    BY <2>3 DEF Waiting, Running, Queued
  <2>5. UNCHANGED <<Waiting, Running, Over>>
    BY DEF poolVars, Waiting, Running, Over, Queued, Busy, Panicked
  <2>. QED  BY ONLY <2>1, <2>4, <2>5
            DEF Barrier!Complete, Waiting, Running, Over
<1>. QED  BY <1>1, <1>2, <1>3, <1>4, <1>5 DEF Submitter, Barrier!Next

\* The workers: a receive starts the work, a return or a panic ends it.
LEMMA BarrierWorker ==
  ASSUME OnceInv, NEW w \in Worker, Work(w)
  PROVE  Barrier!Next \/ UNCHANGED Barrier!vars
<1>. USE DEF OnceInv
<1>1. ASSUME WorkerReceive(w)
      PROVE  Barrier!Next
  <2>. USE <1>1 DEF WorkerReceive
  <2>. DEFINE t == Head(workCh)
  <2>1. t \in Task /\ Queued = Queued' \cup {t}
    BY TailContent DEF PoolInv, TypeOK, Queued
  <2>2. t \notin Queued'
    BY TailNoTwins DEF PoolInv, TypeOK, NoTwins, Queued
  <2>3. t # pending
    BY <2>1 DEF Apart
  <2>4. t \in Waiting /\ Waiting' = Waiting \ {t}
    BY <2>1, <2>2, <2>3 DEF Waiting
  <2>5. Cardinality(Running) < Cardinality(Worker)
    BY RunningFits DEF Running
  <2>6. Running' = Running \cup {t}
    BY DEF Running, Busy, PoolInv, TypeOK
  <2>7. UNCHANGED <<Over, verdict>>
    BY DEF Over, Panicked, PoolInv, TypeOK
  <2>8. \E u \in Task : Barrier!Start(u)
    BY ONLY <2>1, <2>4, <2>5, <2>6, <2>7, BarrierCounts, Zenon
       DEF Barrier!Start, Waiting, Running, Over
  <2>. QED  BY ONLY <2>8, Zenon DEF Barrier!Next
<1>2. ASSUME WorkerDone(w) \/ WorkerPanic(w)
      PROVE  Barrier!Next
  <2>. USE <1>2 DEF WorkerDone, WorkerPanic
  <2>. DEFINE t == work[w]
  <2>1. t \in Task /\ t # NoTask /\ t \in Running
    BY TaskAssumption DEF PoolInv, HandInv, TypeOK, Running, Busy
  <2>2. Running' = Running \ {t}
    <3>1. Busy' = Busy \ {w}
      BY DEF Busy, PoolInv, TypeOK
    <3>2. \A v \in Busy' : work'[v] = work[v] /\ work[v] # t
      BY <2>1, <3>1 DEF Busy, NoTwins, PoolInv, TypeOK
    <3>. QED  BY <3>1, <3>2 DEF Running
  <2>3. Over' = Over \cup {t}
    BY DEF Over, Panicked, PoolInv, TypeOK
  <2>4. UNCHANGED <<Waiting, verdict>>
    BY DEF Waiting, Queued
  <2>5. \E u \in Task : Barrier!End(u)
    BY ONLY <2>1, <2>2, <2>3, <2>4, Zenon
       DEF Barrier!End, Waiting, Running, Over
  <2>. QED  BY ONLY <2>5, Zenon DEF Barrier!Next
<1>3. ASSUME WorkerExit(w) \/ Crash(w)
      PROVE  UNCHANGED Barrier!vars
  <2>1. UNCHANGED <<Waiting, Running, Over, verdict>>
    BY <1>3 DEF WorkerExit, Crash, poolVars, Waiting, Running, Over, Queued,
                Busy, Panicked, PoolInv, TypeOK
  <2>. QED  BY ONLY <2>1 DEF Barrier!vars, Waiting, Running, Over
<1>. QED  BY <1>1, <1>2, <1>3, Zenon DEF Work

\* The waiter, the context and the rest of the process are not seen.
LEMMA BarrierOther ==
  ASSUME Waiter \/ Cancel \/ UNCHANGED vars
  PROVE  UNCHANGED Barrier!vars
BY DEF Waiter, WaiterWgWait, WaiterCloseDone, WaiterCloseWorkCh, Cancel, vars,
       poolVars, Barrier!vars, Queued, Busy, Panicked

\* Every behaviour of the pool is one of the barrier: at most as many units
\* run as there are workers, and Wait answers nil only when all are over.
THEOREM PoolImplementsBarrier == Spec => BarrierSpec
<1>1. OnceInv /\ [Next]_vars => [Barrier!Next]_(Barrier!vars)
  BY BarrierSubmitter, BarrierWorker, BarrierOther DEF Next
<1>. QED  BY BarrierInit, <1>1, OnceInvariant, PTL
          DEF Spec, BarrierSpec, Barrier!Spec

=============================================================================
