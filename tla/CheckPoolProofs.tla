--------------------------- MODULE CheckPoolProofs ---------------------------
(***************************************************************************)
(* Safety of CheckThreadPool for any number of workers, any channel buffer *)
(* and any set of work.                                                    *)
(***************************************************************************)
EXTENDS CheckPool, FiniteSetTheorems, TLAPS

-----------------------------------------------------------------------------
(* The inductive invariant.                                                *)

\* Work is in the submitter's hands exactly while it sends.
SendInv == submitter = "sending" <=> pending # NoTask

\* A worker has work in hand from the receive until work() returned.
HandInv ==
  \A w \in Worker : wpc[w] \in {"working", "panicking"} <=> work[w] # NoTask

\* The waiter runs only after the last RunGoroutine of the round, and from
\* the moment wg.Wait lets it go the counter stays zero.
WaiterInv ==
  /\ waiter # "none" => submitter \in {"waiting", "returned"}
  /\ waiter \in {"woken", "closing", "exited"} => wg = 0
  /\ done => waiter \in {"closing", "exited"}
  /\ closed => waiter = "exited"
  /\ verdict = "nil" => done
  /\ \A w \in Worker : wpc[w] = "exited" => closed

\* Submitted work is on its way, in a worker's hands, or completed.
InHand == {work[w] : w \in Worker} \ {NoTask}
CoverInv ==
  submitted = completed \cup ({pending} \ {NoTask}) \cup Queued \cup InHand

PoolInv == TypeOK /\ WgExact /\ SendInv /\ HandInv /\ WaiterInv /\ CoverInv

-----------------------------------------------------------------------------
(* Facts about sequences and cardinalities the steps rest on.              *)

\* What a buffered channel holds after a send: the old content and the new.
LEMMA AppendContent ==
  ASSUME NEW S, NEW q \in Seq(S), NEW e \in S
  PROVE  /\ Append(q, e) \in Seq(S)
         /\ Len(Append(q, e)) = Len(q) + 1
         /\ {Append(q, e)[i] : i \in DOMAIN Append(q, e)}
              = {q[i] : i \in DOMAIN q} \cup {e}
<1>1. /\ Append(q, e) \in Seq(S)
      /\ Len(Append(q, e)) = Len(q) + 1
      /\ \A i \in 1..Len(q) : Append(q, e)[i] = q[i]
      /\ Append(q, e)[Len(q) + 1] = e
  OBVIOUS
<1>2. /\ DOMAIN q = 1..Len(q)
      /\ DOMAIN Append(q, e) = 1..(Len(q) + 1)
      /\ Len(q) \in Nat
  BY <1>1
<1>3. DOMAIN Append(q, e) = DOMAIN q \cup {Len(q) + 1}
  BY <1>2
<1>. QED  BY <1>1, <1>2, <1>3

\* What a buffered channel holds before a receive: the head and the rest.
LEMMA TailContent ==
  ASSUME NEW S, NEW q \in Seq(S), q # <<>>
  PROVE  /\ Head(q) \in S
         /\ Tail(q) \in Seq(S)
         /\ Len(q) = Len(Tail(q)) + 1
         /\ {q[i] : i \in DOMAIN q}
              = {Tail(q)[i] : i \in DOMAIN Tail(q)} \cup {Head(q)}
<1>1. /\ Head(q) \in S /\ Head(q) = q[1]
      /\ Tail(q) \in Seq(S)
      /\ Len(q) \in Nat \ {0}
      /\ Len(Tail(q)) = Len(q) - 1
      /\ \A i \in 1..Len(Tail(q)) : Tail(q)[i] = q[i + 1]
  OBVIOUS
<1>2. DOMAIN q = 1..Len(q) /\ DOMAIN Tail(q) = 1..(Len(q) - 1)
  BY <1>1
<1>3. ASSUME NEW i \in DOMAIN q
      PROVE  q[i] \in {Tail(q)[j] : j \in DOMAIN Tail(q)} \cup {Head(q)}
  <2>1. CASE i = 1
    BY <2>1, <1>1
  <2>2. CASE i # 1
    <3>1. i - 1 \in DOMAIN Tail(q) /\ Tail(q)[i - 1] = q[i]
      BY <2>2, <1>1, <1>2
    <3>. QED  BY <3>1
  <2>. QED  BY <2>1, <2>2
<1>4. ASSUME NEW j \in DOMAIN Tail(q)
      PROVE  Tail(q)[j] \in {q[i] : i \in DOMAIN q}
  <2>1. j + 1 \in DOMAIN q /\ Tail(q)[j] = q[j + 1]
    BY <1>1, <1>2
  <2>. QED  BY <2>1
<1>5. Head(q) \in {q[i] : i \in DOMAIN q}
  BY <1>1, <1>2
<1>. QED  BY <1>1, <1>3, <1>4, <1>5

\* The busy workers are finitely many, and a worker that starts or stops
\* working changes their number by one.
LEMMA BusyFinite == IsFiniteSet(Busy) /\ Cardinality(Busy) \in Nat
<1>1. IsFiniteSet(Busy)
  BY WorkerAssumption, FS_Subset DEF Busy
<1>. QED  BY <1>1, FS_CardinalityType

LEMMA BusyGrows ==
  ASSUME TypeOK, NEW w \in Worker, wpc[w] # "working",
         wpc' = [wpc EXCEPT ![w] = "working"]
  PROVE  Cardinality(Busy') = Cardinality(Busy) + 1
<1>1. Busy' = Busy \cup {w} /\ w \notin Busy
  BY DEF Busy, TypeOK
<1>. QED  BY <1>1, BusyFinite, FS_AddElement

LEMMA BusyShrinks ==
  ASSUME TypeOK, NEW w \in Worker, wpc[w] = "working",
         NEW s, s # "working", wpc' = [wpc EXCEPT ![w] = s]
  PROVE  /\ Cardinality(Busy') = Cardinality(Busy) - 1
         /\ Cardinality(Busy) >= 1
<1>1. Busy' = Busy \ {w} /\ w \in Busy
  BY DEF Busy, TypeOK
<1>2. Cardinality(Busy \ {w}) = Cardinality(Busy) - 1
  BY <1>1, BusyFinite, FS_RemoveElement
<1>3. Cardinality(Busy \ {w}) \in Nat
  BY BusyFinite, FS_Subset, FS_CardinalityType
<1>. QED  BY <1>1, <1>2, <1>3, BusyFinite

\* A wait group at zero means that nothing is being sent, queued or run.
LEMMA ZeroMeansIdle ==
  ASSUME TypeOK, WgExact, wg = 0
  PROVE  submitter # "sending" /\ workCh = <<>> /\ Busy = {}
<1>1. Len(workCh) \in Nat /\ Cardinality(Busy) \in Nat
  BY BusyFinite DEF TypeOK
<1>2. submitter # "sending" /\ Len(workCh) = 0 /\ Cardinality(Busy) = 0
  BY <1>1 DEF WgExact
<1>3. workCh = <<>>
  BY <1>2 DEF TypeOK
<1>. QED  BY <1>2, <1>3, BusyFinite, FS_EmptySet

-----------------------------------------------------------------------------
(* PoolInv is an invariant: one lemma per group of actions.                *)

LEMMA PoolInvInit == Init => PoolInv
<1>. SUFFICES ASSUME Init PROVE PoolInv
  OBVIOUS
<1>. USE DEF Init
<1>1. Busy = {} /\ Cardinality(Busy) = 0
  BY FS_EmptySet DEF Busy
<1>2. TypeOK
  <2>1. workCh \in Seq(Task) /\ wg \in Nat
    OBVIOUS
  <2>2. /\ closed \in BOOLEAN /\ done \in BOOLEAN
        /\ ctxDone \in BOOLEAN /\ crashed \in BOOLEAN
    BY Zenon
  <2>. QED  BY <2>1, <2>2, Zenon DEF TypeOK
<1>3. WgExact
  BY <1>1 DEF WgExact
<1>4. SendInv /\ HandInv /\ WaiterInv
  BY DEF SendInv, HandInv, WaiterInv
<1>5. Queued = {} /\ InHand = {}
  BY DEF Queued, InHand
<1>6. CoverInv
  BY <1>5 DEF CoverInv
<1>. QED  BY <1>2, <1>3, <1>4, <1>6 DEF PoolInv

\* Steps that touch neither the channel nor a worker's hands keep its content.
LEMMA SameContent ==
  ASSUME UNCHANGED <<workCh, work, wpc>>
  PROVE  Queued' = Queued /\ InHand' = InHand /\ Busy' = Busy
BY DEF Queued, InHand, Busy

LEMMA SubmitterStep ==
  ASSUME PoolInv, Submitter
  PROVE  PoolInv'
<1>. USE DEF PoolInv
<1>1. ASSUME NEW t \in Task, RunGoroutineAdd(t)
      PROVE  PoolInv'
  <2>. USE <1>1 DEF RunGoroutineAdd
  <2>1. TypeOK'
    BY DEF TypeOK
  <2>2. Queued' = Queued /\ InHand' = InHand /\ Busy' = Busy
    BY SameContent
  <2>3. WgExact'
    BY <2>2, BusyFinite DEF WgExact, TypeOK
  <2>4. SendInv' /\ HandInv' /\ WaiterInv'
    BY TaskAssumption DEF SendInv, HandInv, WaiterInv
  <2>5. CoverInv'
    BY <2>2, TaskAssumption DEF CoverInv, SendInv
  <2>. QED  BY <2>1, <2>3, <2>4, <2>5
<1>2. ASSUME RunGoroutineSend
      PROVE  PoolInv'
  <2>. USE <1>2 DEF RunGoroutineSend
  <2>1. pending \in Task
    BY DEF SendInv, TypeOK
  <2>2. /\ workCh' \in Seq(Task)
        /\ Len(workCh') = Len(workCh) + 1
        /\ Queued' = Queued \cup {pending}
    BY <2>1, AppendContent DEF TypeOK, Queued
  <2>3. InHand' = InHand /\ Busy' = Busy
    BY DEF InHand, Busy
  <2>4. TypeOK'
    BY <2>2 DEF TypeOK
  <2>5. WgExact'
    BY <2>2, <2>3, BusyFinite DEF WgExact, TypeOK
  <2>6. SendInv' /\ HandInv' /\ WaiterInv'
    BY DEF SendInv, HandInv, WaiterInv
  <2>7. CoverInv'
    BY <2>1, <2>2, <2>3, TaskAssumption DEF CoverInv
  <2>. QED  BY <2>4, <2>5, <2>6, <2>7
<1>3. ASSUME Abandon \/ WaitStart \/ WaitDone \/ WaitExpired
      PROVE  PoolInv'
  <2>. USE <1>3 DEF Abandon, WaitStart, WaitDone, WaitExpired, poolVars
  <2>1. TypeOK'
    BY DEF TypeOK
  <2>2. Queued' = Queued /\ InHand' = InHand /\ Busy' = Busy
    BY SameContent
  <2>3. WgExact'
    BY <2>2 DEF WgExact
  <2>4. SendInv' /\ HandInv'
    BY DEF SendInv, HandInv
  <2>5. WaiterInv'
    BY DEF WaiterInv
  <2>6. CoverInv'
    BY <2>2 DEF CoverInv
  <2>. QED  BY <2>1, <2>3, <2>4, <2>5, <2>6
<1>. QED  BY <1>1, <1>2, <1>3 DEF Submitter

LEMMA WaiterStep ==
  ASSUME PoolInv, Waiter
  PROVE  PoolInv'
<1>. USE DEF PoolInv, Waiter, WaiterWgWait, WaiterCloseDone, WaiterCloseWorkCh
<1>1. TypeOK'
  BY DEF TypeOK
<1>2. Queued' = Queued /\ InHand' = InHand /\ Busy' = Busy
  BY SameContent
<1>3. WgExact' /\ CoverInv'
  BY <1>2 DEF WgExact, CoverInv
<1>4. SendInv' /\ HandInv' /\ WaiterInv'
  BY DEF SendInv, HandInv, WaiterInv
<1>. QED  BY <1>1, <1>3, <1>4

LEMMA WorkerStep ==
  ASSUME PoolInv, NEW w \in Worker, Work(w)
  PROVE  PoolInv'
<1>. USE DEF PoolInv
<1>1. ASSUME WorkerReceive(w)
      PROVE  PoolInv'
  <2>. USE <1>1 DEF WorkerReceive
  <2>1. /\ Head(workCh) \in Task
        /\ workCh' \in Seq(Task)
        /\ Len(workCh) = Len(workCh') + 1
        /\ Queued = Queued' \cup {Head(workCh)}
    BY TailContent DEF TypeOK, Queued
  <2>2. Cardinality(Busy') = Cardinality(Busy) + 1
    BY BusyGrows
  <2>3. TypeOK'
    BY <2>1 DEF TypeOK
  <2>4. WgExact'
    <3>1. Len(workCh') \in Nat /\ wg' = wg /\ submitter' = submitter
      BY <2>1
    <3>2. wg' = (IF submitter' = "sending" THEN 1 ELSE 0)
                  + (Len(workCh') + 1) + Cardinality(Busy)
      BY <2>1, <3>1 DEF WgExact
    <3>. QED  BY ONLY <2>2, <3>1, <3>2, BusyFinite DEF WgExact
  <2>5. SendInv' /\ WaiterInv'
    BY DEF SendInv, WaiterInv
  <2>6. HandInv'
    BY <2>1, TaskAssumption DEF HandInv, TypeOK
  <2>7. work[w] = NoTask
    BY DEF HandInv
  <2>8. InHand' = InHand \cup {Head(workCh)}
    BY <2>1, <2>7, TaskAssumption DEF InHand, TypeOK
  <2>9. CoverInv'
    BY <2>1, <2>8 DEF CoverInv
  <2>. QED  BY <2>3, <2>4, <2>5, <2>6, <2>9
<1>2. ASSUME WorkerExit(w)
      PROVE  PoolInv'
  <2>. USE <1>2 DEF WorkerExit
  <2>1. TypeOK'
    BY DEF TypeOK
  <2>2. Queued' = Queued /\ InHand' = InHand /\ Busy' = Busy
    BY DEF Queued, InHand, Busy, TypeOK
  <2>3. WgExact' /\ CoverInv'
    BY <2>2 DEF WgExact, CoverInv
  <2>4. SendInv' /\ HandInv' /\ WaiterInv'
    BY DEF SendInv, HandInv, WaiterInv, TypeOK
  <2>. QED  BY <2>1, <2>3, <2>4
<1>3. ASSUME WorkerDone(w)
      PROVE  PoolInv'
  <2>. USE <1>3 DEF WorkerDone
  <2>1. /\ Cardinality(Busy') = Cardinality(Busy) - 1
        /\ Cardinality(Busy) >= 1
    BY BusyShrinks
  <2>2. wg \in Nat /\ wg >= 1
    BY <2>1, BusyFinite DEF WgExact, TypeOK
  <2>3. work[w] \in Task
    BY DEF HandInv, TypeOK
  <2>4. TypeOK'
    BY <2>2, <2>3 DEF TypeOK
  <2>5. WgExact'
    BY <2>1, BusyFinite DEF WgExact, TypeOK
  <2>6. SendInv' /\ HandInv' /\ WaiterInv'
    BY <2>2 DEF SendInv, HandInv, WaiterInv, TypeOK
  <2>7. Queued' = Queued /\ InHand' \cup {work[w]} = InHand
    BY <2>3, TaskAssumption DEF Queued, InHand, TypeOK
  <2>8. CoverInv'
    BY <2>7 DEF CoverInv
  <2>. QED  BY <2>4, <2>5, <2>6, <2>8
<1>4. ASSUME WorkerPanic(w)
      PROVE  PoolInv'
  <2>. USE <1>4 DEF WorkerPanic
  <2>1. /\ Cardinality(Busy') = Cardinality(Busy) - 1
        /\ Cardinality(Busy) >= 1
    BY BusyShrinks
  <2>2. wg \in Nat /\ wg >= 1
    BY <2>1, BusyFinite DEF WgExact, TypeOK
  <2>3. TypeOK'
    BY <2>2 DEF TypeOK
  <2>4. WgExact'
    BY <2>1, BusyFinite DEF WgExact, TypeOK
  <2>5. SendInv' /\ HandInv' /\ WaiterInv'
    BY <2>2 DEF SendInv, HandInv, WaiterInv, TypeOK
  <2>6. CoverInv'
    BY DEF CoverInv, Queued, InHand
  <2>. QED  BY <2>3, <2>4, <2>5, <2>6
<1>5. ASSUME Crash(w)
      PROVE  PoolInv'
  <2>. USE <1>5 DEF Crash, poolVars
  <2>1. TypeOK'
    BY DEF TypeOK
  <2>2. Queued' = Queued /\ InHand' = InHand /\ Busy' = Busy
    BY SameContent
  <2>3. WgExact' /\ CoverInv'
    BY <2>2 DEF WgExact, CoverInv
  <2>4. SendInv' /\ HandInv' /\ WaiterInv'
    BY DEF SendInv, HandInv, WaiterInv
  <2>. QED  BY <2>1, <2>3, <2>4
<1>. QED  BY <1>1, <1>2, <1>3, <1>4, <1>5 DEF Work

\* Cancelling the context and stuttering change nothing the invariant is about.
LEMMA QuietStep ==
  ASSUME PoolInv, Cancel \/ UNCHANGED vars
  PROVE  PoolInv'
<1>. USE DEF PoolInv, Cancel, vars, poolVars
<1>1. TypeOK'
  <2>1. ctxDone' \in BOOLEAN
    BY Zenon DEF TypeOK
  <2>. QED  BY <2>1 DEF TypeOK
<1>2. Queued' = Queued /\ InHand' = InHand /\ Busy' = Busy
  BY SameContent
<1>3. WgExact' /\ CoverInv'
  BY <1>2 DEF WgExact, CoverInv
<1>4. SendInv' /\ HandInv' /\ WaiterInv'
  BY DEF SendInv, HandInv, WaiterInv
<1>. QED  BY <1>1, <1>3, <1>4

\* PoolInv holds in every reachable state of the pool.
THEOREM PoolInvariant == Spec => []PoolInv
<1>1. PoolInv /\ [Next]_vars => PoolInv'
  BY SubmitterStep, WaiterStep, WorkerStep, QuietStep DEF Next
<1>. QED  BY PoolInvInit, <1>1, PTL DEF Spec

-----------------------------------------------------------------------------
(* What the invariant gives.                                               *)

\* Every variable keeps its type; in particular the wait group counter of
\* sync.WaitGroup never goes negative, which would panic.
THEOREM TypeCorrect == Spec => []TypeOK
BY PoolInvariant, PTL DEF PoolInv

\* The wait group counts exactly the work that is not over.
THEOREM WgCorrect == Spec => []WgExact
BY PoolInvariant, PTL DEF PoolInv

\* RunGoroutine never sends on the closed channel.
THEOREM NeverSendOnClosed == Spec => []NoSendOnClosed
<1>1. PoolInv => NoSendOnClosed
  BY DEF PoolInv, WaiterInv, NoSendOnClosed
<1>. QED  BY <1>1, PoolInvariant, PTL

\* Wait returns nil only when all work the round submitted is over.
THEOREM WaitCorrect == Spec => []NilMeansAllOver
<1>1. ASSUME PoolInv, verdict = "nil"
      PROVE  submitted = completed \cup Panicked
  <2>. USE <1>1 DEF PoolInv
  <2>1. wg = 0
    BY DEF WaiterInv
  <2>2. submitter # "sending" /\ workCh = <<>> /\ Busy = {}
    BY <2>1, ZeroMeansIdle
  <2>3. Queued = {} /\ pending = NoTask
    BY <2>2 DEF Queued, SendInv
  <2>4. \A w \in Worker : work[w] # NoTask <=> wpc[w] = "panicking"
    BY <2>2 DEF HandInv, Busy
  <2>5. InHand = Panicked
    BY <2>4 DEF InHand, Panicked
  <2>. QED  BY <2>3, <2>5 DEF CoverInv
<1>2. PoolInv => NilMeansAllOver
  BY <1>1 DEF NilMeansAllOver
<1>. QED  BY <1>2, PoolInvariant, PTL

\* A worker leaves its loop only when no work is left for it.
THEOREM ExitCorrect == Spec => []ExitOnlyWhenDrained
<1>1. PoolInv => ExitOnlyWhenDrained
  BY ZeroMeansIdle DEF PoolInv, WaiterInv, ExitOnlyWhenDrained
<1>. QED  BY <1>1, PoolInvariant, PTL

=============================================================================
