--------------------------- MODULE CheckRoundProofs ---------------------------
(***************************************************************************)
(* Safety of rounds of checks for any sets of checks and nodes, any number *)
(* of workers and any number of rounds.                                    *)
(***************************************************************************)
EXTENDS CheckRound, FiniteSetTheorems, TLAPS

-----------------------------------------------------------------------------
(* The inductive invariant.                                                *)

Pending == todo \cup running
Known == todo \cup running \cup over
Enqueueing == {"clusterChecks", "nodeChecks"}

\* Past rounds have a verdict and the others none; a round that expired was
\* the last one.
VerdictInv ==
  /\ pc # "idle" => round >= 1
  /\ \A r \in Round :
       /\ verdict[r] # "none" <=> r < round \/ (r = round /\ pc = "idle")
       /\ verdict[r] = "ctxErr" => r = round /\ pc = "idle" /\ ctxDone

\* The sessions are open from connect until the round returns.
SessionInv ==
  pc \notin {"idle", "connecting"} => session[round] = "open"

\* What a round has still to enqueue is not in its pool yet.
EnqueueInv ==
  /\ pc \notin Enqueueing => toEnqueue = {}
  /\ pc = "clusterChecks" => toEnqueue \subseteq ClusterCheck
  /\ pc = "nodeChecks" => toEnqueue \subseteq Node
  /\ \A x \in toEnqueue : <<round, x>> \notin Known

\* The pool holds no work of rounds to come; node checks enter it in the last
\* phase of a round, so an abandoned round has none.
UnitInv ==
  /\ \A u \in Known :
       /\ u[1] <= round
       /\ u[1] = round => pc \notin {"connecting", "connected"}
       /\ u[1] = round /\ pc = "clusterChecks" => u[2] \in ClusterCheck
       /\ verdict[u[1]] = "abandoned" => u[2] \in ClusterCheck
  /\ hasVM \subseteq running \cup over
  /\ \A u \in hasVM : u[2] \in Node

\* Work is left only by the current round while it enqueues and waits, and by
\* rounds that were given up.
PendingInv ==
  \A u \in Pending : \/ u[1] = round /\ pc \in Enqueueing
                     \/ verdict[u[1]] \in {"abandoned", "ctxErr"}

\* Every cluster check passes through the pool before a round ends with nil.
ClusterInv ==
  \A c \in ClusterCheck :
    /\ pc = "clusterChecks" => c \in toEnqueue \/ <<round, c>> \in Known
    /\ pc = "nodeChecks" => <<round, c>> \in Known
    /\ pc = "finishing" => <<round, c>> \in over
    /\ \A r \in Round : verdict[r] = "nil" => <<r, c>> \in over

\* A cluster check that is over has its result; a node check has one when the
\* node is over, none before the VM was read, and never two.
ResultInv ==
  \A r \in Round :
    /\ \A c \in ClusterCheck :
         Len(results[r][c]) = IF <<r, c>> \in over THEN 1 ELSE 0
    /\ \A k \in NodeCheck, n \in Node :
         /\ Len(results[r][<<k, n>>]) <= 1
         /\ <<r, n>> \in over => Len(results[r][<<k, n>>]) = 1
         /\ <<r, n>> \notin over \cup (running \cap hasVM)
              => Len(results[r][<<k, n>>]) = 0

\* Metrics are collected only by the last step of a round.
MetricInv == pc # "idle" => inProgress = {}

\* The gauges tell the results of the current round as far as they are known,
\* those of cluster checks unless a round was abandoned before.
NoneAbandoned == \A r \in Round : r < round => verdict[r] # "abandoned"
NodeGaugeInv ==
  round >= 1 => \A k \in NodeCheck, n \in Node :
    <<round, n>> \in hasVM /\ results[round][<<k, n>>] # <<>> =>
      nodeGauge[<<k, n>>] = GaugeOf(results[round][<<k, n>>])
ClusterGaugeInv ==
  round >= 1 /\ NoneAbandoned => \A c \in ClusterCheck :
    <<round, c>> \in over => clusterGauge[c] = GaugeOf(results[round][c])
TypesGaugeInv ==
  NoneAbandoned /\ <<round, StorageCheck>> \in running \cup over =>
    typesGauge \subseteq {round}

RoundInv ==
  /\ TypeOK /\ VerdictInv /\ SessionInv /\ EnqueueInv /\ UnitInv
  /\ PendingInv /\ ClusterInv /\ ResultInv /\ MetricInv /\ MetricsOfOneRound
  /\ NodeGaugeInv /\ ClusterGaugeInv /\ TypesGaugeInv

-----------------------------------------------------------------------------
(* Rounds, units and results.                                              *)

\* Round numbers are integers, and a round that was started is one of them.
LEMMA RoundType ==
  /\ \A r \in Round : r \in Int /\ r >= 1 /\ r <= MaxRounds
  /\ TypeOK => round \in Int /\ round >= 0
  /\ TypeOK /\ round >= 1 => round \in Round
  /\ MaxRounds \in Int /\ MaxRounds >= 1
BY RoundAssumption DEF Round, TypeOK

\* A unit is a pair of a round and a check or node.
LEMMA UnitPair ==
  \A u \in Unit : u = <<u[1], u[2]>> /\ u[1] \in Round /\ u[2] \in Subject
BY DEF Unit

\* The slots of cluster checks and of node checks.
LEMMA SlotType ==
  /\ \A c \in ClusterCheck : c \in Slot /\ c \notin NodeCheck \X Node
                               /\ c \notin Node
  /\ \A k \in NodeCheck, n \in Node : <<k, n>> \in Slot /\ <<k, n>> \notin ClusterCheck
BY NameAssumption DEF Slot

\* AddResult appends to the slots it is given and to no others.
LEMMA Added ==
  ASSUME TypeOK, NEW r \in Round, NEW slots, NEW o \in Outcome,
         AddResult(r, slots, o)
  PROVE  /\ results' \in [Round -> [Slot -> Seq(Outcome)]]
         /\ \A q \in Round, s \in Slot :
              results'[q][s] = IF q = r /\ s \in slots
                               THEN Append(results[q][s], o)
                               ELSE results[q][s]
<1>. DEFINE new == [s \in Slot |-> IF s \in slots THEN Append(results[r][s], o)
                                                 ELSE results[r][s]]
<1>1. results' = [results EXCEPT ![r] = new]
  BY DEF AddResult
<1>2. results[r] \in [Slot -> Seq(Outcome)]
  BY DEF TypeOK
<1>3. new \in [Slot -> Seq(Outcome)]
  <2>1. \A s \in Slot : Append(results[r][s], o) \in Seq(Outcome)
    BY <1>2
  <2>. QED  BY <1>2, <2>1
<1>4. \A s \in Slot : new[s] = IF s \in slots THEN Append(results[r][s], o)
                                              ELSE results[r][s]
  OBVIOUS
<1>. HIDE DEF new
<1>. QED  BY <1>1, <1>3, <1>4 DEF TypeOK

\* What a single result is worth.
LEMMA SingleResult ==
  ASSUME NEW q \in Seq(Outcome), NEW o \in Outcome
  PROVE  /\ Len(Append(q, o)) = Len(q) + 1 /\ Append(q, o) # <<>>
         /\ Len(q) = 0 => Append(q, o) = <<o>>
         /\ Len(q) = 0 <=> q = <<>>
         /\ Len(q) <= 1 /\ q # <<>> => Len(q) = 1
<1>1. /\ Len(q) \in Nat /\ (Len(q) = 0 <=> q = <<>>)
      /\ Append(q, o) \in Seq(Outcome) /\ Len(Append(q, o)) = Len(q) + 1
  OBVIOUS
<1>2. Append(q, o) # <<>>
  BY <1>1
<1>3. q = <<>> => Append(q, o) = <<o>>
  OBVIOUS
<1>4. Len(q) <= 1 /\ Len(q) # 0 => Len(q) = 1
  <2>1. \A n \in Nat : n <= 1 /\ n # 0 => n = 1
    OBVIOUS
  <2>. QED  BY ONLY <1>1, <2>1, Zenon
<1>5. Len(q) <= 1 /\ q # <<>> => Len(q) = 1
  BY <1>1, <1>4, Zenon
<1>. QED  BY ONLY <1>1, <1>2, <1>3, <1>5, Zenon

-----------------------------------------------------------------------------
LEMMA RoundInvInit == Init => RoundInv
<1>. SUFFICES ASSUME Init PROVE RoundInv
  OBVIOUS
<1>. USE RoundType DEF Init
<1>1. TypeOK
  <2>1. ctxDone \in BOOLEAN
    BY Zenon
  <2>2. /\ DOMAIN reported \in SUBSET (ClusterCheck \cup NodeCheck)
        /\ \A n \in DOMAIN reported : reported[n] \in Outcome
    OBVIOUS
  <2>3. results \in [Round -> [Slot -> Seq(Outcome)]]
    OBVIOUS
  <2>4. round \in 0..MaxRounds
    OBVIOUS
  <2>. QED  BY <2>1, <2>2, <2>3, <2>4 DEF TypeOK
<1>2. VerdictInv /\ SessionInv /\ EnqueueInv /\ MetricInv
  BY DEF VerdictInv, SessionInv, EnqueueInv, MetricInv
<1>3. UnitInv /\ PendingInv /\ ClusterInv
  BY DEF UnitInv, PendingInv, ClusterInv, Known, Pending
<1>4. ResultInv
  BY SlotType DEF ResultInv
<1>5. MetricsOfOneRound /\ NodeGaugeInv /\ ClusterGaugeInv /\ TypesGaugeInv
  BY DEF MetricsOfOneRound, NodeGaugeInv, ClusterGaugeInv, TypesGaugeInv
<1>. QED  BY <1>1, <1>2, <1>3, <1>4, <1>5 DEF RoundInv

-----------------------------------------------------------------------------
(* The steps of runChecks.                                                 *)

\* A step of runChecks within a round leaves results and gauges as they are.
LEMMA SameResults ==
  ASSUME RoundInv, UNCHANGED <<round, running, over, hasVM, results, gauges>>,
         \A r \in Round : r < round => verdict'[r] = verdict[r]
  PROVE  ResultInv' /\ NodeGaugeInv' /\ ClusterGaugeInv' /\ TypesGaugeInv'
<1>. USE DEF RoundInv, gauges
<1>1. NoneAbandoned' <=> NoneAbandoned
  BY DEF NoneAbandoned
<1>2. ResultInv' /\ NodeGaugeInv'
  BY DEF ResultInv, NodeGaugeInv
<1>3. ClusterGaugeInv' /\ TypesGaugeInv'
  BY <1>1 DEF ClusterGaugeInv, TypesGaugeInv
<1>. QED  BY <1>2, <1>3

\* The step that starts a round.
LEMMA StartStep ==
  ASSUME RoundInv, RoundStarts
  PROVE  RoundInv'
<1>. USE RoundType DEF RoundInv, RoundStarts, StartMetricCollection, pool,
                       gauges
<1>1. round + 1 \in Round /\ round' = round + 1
  BY DEF Round, TypeOK
<1>2. TypeOK'
  BY <1>1 DEF TypeOK, Round
<1>3. \A r \in Round : verdict[r] # "none" <=> r < round'
  <2>1. \A r \in Round : r < round' <=> r < round \/ r = round
    BY ONLY <1>1, RoundType, TypeOK
  <2>. QED  BY <2>1, pc = "idle", Zenon DEF VerdictInv
<1>4. \A r \in Round : verdict[r] # "ctxErr"
  BY DEF VerdictInv
<1>5. VerdictInv'
  BY <1>1, <1>3, <1>4 DEF VerdictInv, TypeOK
<1>6. SessionInv' /\ MetricInv' /\ MetricsOfOneRound'
  BY DEF SessionInv, MetricInv, MetricsOfOneRound
<1>7. EnqueueInv'
  BY DEF EnqueueInv, Enqueueing
<1>8. \A u \in Known \cup hasVM : u \in Unit /\ u[1] < round'
  BY <1>1, UnitPair DEF UnitInv, Known, TypeOK
<1>9. UnitInv' /\ PendingInv' /\ ClusterInv'
  BY <1>8, UnitPair DEF UnitInv, PendingInv, ClusterInv, Known, Pending,
                        Enqueueing, TypeOK
<1>10. ResultInv'
  BY DEF ResultInv
<1>11. \A x : <<round', x>> \notin Known \cup hasVM
  BY <1>1, <1>8
<1>12. NodeGaugeInv' /\ ClusterGaugeInv' /\ TypesGaugeInv'
  BY <1>11 DEF NodeGaugeInv, ClusterGaugeInv, TypesGaugeInv, Known
<1>. QED  BY <1>2, <1>5, <1>6, <1>7, <1>9, <1>10, <1>12

\* A step that goes on within the round keeps the verdicts.
LEMMA SameVerdicts ==
  ASSUME RoundInv, UNCHANGED <<round, verdict, ctxDone>>,
         pc # "idle", pc' # "idle"
  PROVE  VerdictInv' /\ \A r \in Round : verdict'[r] = verdict[r]
BY DEF RoundInv, VerdictInv

\* A return gives the round its verdict.
LEMMA Returned ==
  ASSUME RoundInv, pc # "idle",
         NEW v \in {"nil", "ctxErr", "abandoned", "runError"}, Return(v),
         v = "ctxErr" => ctxDone, UNCHANGED <<round, ctxDone>>
  PROVE  /\ VerdictInv' /\ pc' = "idle"
         /\ verdict' \in [Round -> {"none", "nil", "ctxErr", "abandoned",
                                    "runError"}]
         /\ \A r \in Round : verdict'[r] = IF r = round THEN v ELSE verdict[r]
         /\ verdict[round] = "none"
<1>. USE DEF RoundInv, Return
<1>1. round \in Round /\ round \in Int
  BY RoundType DEF VerdictInv
<1>2. /\ verdict' \in [Round -> {"none", "nil", "ctxErr", "abandoned",
                                 "runError"}]
      /\ \A r \in Round : verdict'[r] = IF r = round THEN v ELSE verdict[r]
  BY <1>1 DEF TypeOK
<1>3. \A r \in Round : verdict[r] # "none" <=> r < round
  BY Zenon DEF VerdictInv
<1>4. verdict[round] = "none"
  BY <1>1, <1>3
<1>5. \A r \in Round : verdict[r] # "ctxErr"
  BY DEF VerdictInv
<1>6. VerdictInv'
  BY <1>1, <1>2, <1>3, <1>5 DEF VerdictInv
<1>. QED  BY <1>2, <1>4, <1>6

\* Connecting and setting up, successfully or not.
LEMMA SetupStep ==
  ASSUME RoundInv, Connect \/ ConnectFails \/ Setup \/ SetupFails
  PROVE  RoundInv'
<1>. USE DEF RoundInv
<1>1. pc \in {"connecting", "connected"} /\ round \in Round /\ round \in Int
  BY RoundType DEF Connect, ConnectFails, Setup, SetupFails, VerdictInv
<1>2. \A u \in Known \cup hasVM : u \in Unit /\ u[1] \in Round /\ u[1] < round
  BY <1>1, UnitPair, RoundType DEF UnitInv, Known, TypeOK
<1>3. \A x : <<round, x>> \notin Known \cup hasVM
  BY <1>1, <1>2
<1>4. UNCHANGED <<round, todo, running, over, hasVM, results, reported,
                  clusterGauge, nodeGauge, typesGauge, inProgress, published,
                  ctxDone>>
  BY DEF Connect, ConnectFails, Setup, SetupFails, pool, gauges, collector
<1>5. ASSUME Connect \/ Setup
      PROVE  RoundInv'
  <2>. USE <1>1, <1>4, <1>5 DEF Connect, Setup
  <2>1. TypeOK'
    BY DEF TypeOK, Subject
  <2>2. VerdictInv' /\ \A r \in Round : verdict'[r] = verdict[r]
    BY SameVerdicts
  <2>3. SessionInv' /\ MetricInv' /\ MetricsOfOneRound'
    BY DEF SessionInv, MetricInv, MetricsOfOneRound, TypeOK
  <2>4. EnqueueInv'
    BY <1>3 DEF EnqueueInv, Enqueueing, Known
  <2>5. UnitInv'
    BY <1>2 DEF UnitInv, Known
  <2>6. PendingInv' /\ ClusterInv'
    BY <1>2 DEF PendingInv, ClusterInv, Known, Pending, Enqueueing
  <2>7. ResultInv' /\ NodeGaugeInv' /\ ClusterGaugeInv' /\ TypesGaugeInv'
    BY <2>2, SameResults DEF gauges
  <2>. QED  BY <2>1, <2>2, <2>3, <2>4, <2>5, <2>6, <2>7
<1>6. ASSUME ConnectFails \/ SetupFails
      PROVE  RoundInv'
  <2>. USE <1>1, <1>4, <1>6 DEF ConnectFails, SetupFails
  <2>1. /\ VerdictInv' /\ pc' = "idle"
        /\ verdict' \in [Round -> {"none", "nil", "ctxErr", "abandoned",
                                   "runError"}]
        /\ \A r \in Round :
             verdict'[r] = IF r = round THEN "runError" ELSE verdict[r]
        /\ verdict[round] = "none"
    BY Returned
  <2>2. TypeOK'
    BY <2>1 DEF TypeOK, Logout
  <2>3. SessionInv' /\ MetricInv'
    BY <2>1 DEF SessionInv, MetricInv
  <2>4. MetricsOfOneRound'
    BY <2>1 DEF MetricsOfOneRound
  <2>5. EnqueueInv'
    BY <2>1 DEF EnqueueInv, Enqueueing
  <2>6. UnitInv'
    BY <1>2, <2>1 DEF UnitInv, Known
  <2>7. PendingInv' /\ ClusterInv'
    BY <1>2, <2>1 DEF PendingInv, ClusterInv, Known, Pending, Enqueueing
  <2>8. ResultInv' /\ NodeGaugeInv' /\ ClusterGaugeInv' /\ TypesGaugeInv'
    BY <2>1, SameResults DEF gauges
  <2>. QED  BY <2>1, <2>2, <2>3, <2>4, <2>5, <2>6, <2>7, <2>8
<1>. QED  BY <1>5, <1>6

\* RunGoroutine.
LEMMA EnqueueStep ==
  ASSUME RoundInv, NEW x \in Subject, Enqueue(x)
  PROVE  RoundInv'
<1>. USE DEF RoundInv, Enqueue
<1>1. round \in Round /\ round \in Int /\ <<round, x>> \in Unit
  BY RoundType DEF VerdictInv, Unit
<1>2. <<round, x>> \notin Known
  BY DEF EnqueueInv
<1>3. Known' = Known \cup {<<round, x>>} /\ Pending' = Pending \cup {<<round, x>>}
  BY DEF Known, Pending
<1>. USE <1>1
<1>4. TypeOK'
  BY <1>2 DEF TypeOK, Known, gauges, collector
<1>5. VerdictInv' /\ SessionInv' /\ MetricInv' /\ MetricsOfOneRound'
  BY DEF VerdictInv, SessionInv, MetricInv, MetricsOfOneRound, collector
<1>6. EnqueueInv'
  BY <1>3 DEF EnqueueInv, Enqueueing
<1>7. UnitInv'
  <2>1. pc = "clusterChecks" => x \in ClusterCheck
    BY DEF EnqueueInv
  <2>2. verdict[round] # "abandoned"
    BY DEF VerdictInv
  <2>. QED  BY <1>3, <2>1, <2>2 DEF UnitInv
<1>8. PendingInv' /\ ClusterInv'
  BY <1>3 DEF PendingInv, ClusterInv, Enqueueing
<1>9. ResultInv' /\ NodeGaugeInv' /\ ClusterGaugeInv' /\ TypesGaugeInv'
  BY SameResults
<1>. QED  BY <1>4, <1>5, <1>6, <1>7, <1>8, <1>9

\* ListNodes and the end of Wait: runChecks goes on.
LEMMA GoOnStep ==
  ASSUME RoundInv, WaitDone \/ \E nodes \in SUBSET Node : ListNodes(nodes)
  PROVE  RoundInv'
<1>. USE DEF RoundInv
<1>1. /\ pc \in Enqueueing /\ toEnqueue = {} /\ pc' \in {"nodeChecks", "finishing"}
      /\ pc = "nodeChecks" <=> pc' = "finishing"
      /\ toEnqueue' \subseteq Node /\ (pc' = "finishing" => toEnqueue' = {})
      /\ UNCHANGED <<round, verdict, session, todo, running, over, hasVM, results,
                     reported, clusterGauge, nodeGauge, typesGauge, inProgress,
                     published, ctxDone>>
  BY DEF WaitDone, ListNodes, Enqueueing, pool, gauges, collector
<1>2. pc = "nodeChecks" => OfRound(round, Pending) = {}
  BY DEF WaitDone, ListNodes, Pending
<1>3. round \in Round /\ round \in Int
  BY <1>1, RoundType DEF VerdictInv, Enqueueing
<1>. USE <1>1, <1>3 DEF Enqueueing
<1>4. TypeOK'
  BY DEF TypeOK, Subject
<1>5. VerdictInv' /\ \A r \in Round : verdict'[r] = verdict[r]
  BY SameVerdicts
<1>6. SessionInv' /\ MetricInv' /\ MetricsOfOneRound'
  BY DEF SessionInv, MetricInv, MetricsOfOneRound
<1>7. EnqueueInv'
  <2>1. pc = "clusterChecks" => \A n \in Node : <<round, n>> \notin Known
    BY SlotType DEF UnitInv
  <2>. QED  BY <2>1 DEF EnqueueInv, Known
<1>8. UnitInv'
  BY DEF UnitInv, Known
<1>9. PendingInv'
  BY <1>2 DEF PendingInv, Pending, OfRound
<1>10. ClusterInv'
  <2>1. pc = "nodeChecks" => \A c \in ClusterCheck : <<round, c>> \in over
    BY <1>2 DEF ClusterInv, Known, Pending, OfRound
  <2>. QED  BY <2>1 DEF ClusterInv, Known
<1>11. ResultInv' /\ NodeGaugeInv' /\ ClusterGaugeInv' /\ TypesGaugeInv'
  BY <1>5, SameResults DEF gauges
<1>. QED  BY <1>4, <1>5, <1>6, <1>7, <1>8, <1>9, <1>10, <1>11

\* ListNodes fails, or Wait gives up: the round returns and leaves its work.
LEMMA GiveUpStep ==
  ASSUME RoundInv, ListNodesFails \/ WaitExpires
  PROVE  RoundInv'
<1>. USE DEF RoundInv
<1>1. PICK v \in {"abandoned", "ctxErr"} :
        /\ pc \in Enqueueing /\ toEnqueue = {} /\ Return(v) /\ Logout
        /\ v = "ctxErr" => ctxDone
        /\ v = "abandoned" => pc = "clusterChecks"
        /\ published' = inProgress
        /\ UNCHANGED <<round, toEnqueue, todo, running, over, hasVM, results,
                       reported, clusterGauge, nodeGauge, typesGauge,
                       inProgress, ctxDone>>
  BY DEF ListNodesFails, WaitExpires, FinishedAllChecks, Enqueueing, pool, gauges
<1>2. round \in Round /\ round \in Int /\ inProgress = {}
  BY <1>1, RoundType DEF VerdictInv, MetricInv, Enqueueing
<1>3. /\ VerdictInv' /\ pc' = "idle"
      /\ verdict' \in [Round -> {"none", "nil", "ctxErr", "abandoned",
                                 "runError"}]
      /\ \A r \in Round : verdict'[r] = IF r = round THEN v ELSE verdict[r]
      /\ verdict[round] = "none"
  BY <1>1, Returned DEF Enqueueing
<1>. USE <1>1, <1>2, <1>3
<1>4. TypeOK'
  BY DEF TypeOK, Logout
<1>5. SessionInv' /\ MetricInv' /\ MetricsOfOneRound'
  BY DEF SessionInv, MetricInv, MetricsOfOneRound
<1>6. EnqueueInv'
  BY DEF EnqueueInv, Enqueueing
<1>7. \A u \in Known : u \in Unit /\ u[1] \in Round
  BY UnitPair DEF Known, TypeOK
<1>8. UnitInv'
  BY <1>7 DEF UnitInv, Known
<1>9. PendingInv'
  BY <1>7 DEF PendingInv, Pending, Known
<1>10. ClusterInv'
  BY DEF ClusterInv
<1>11. ResultInv' /\ NodeGaugeInv' /\ ClusterGaugeInv' /\ TypesGaugeInv'
  BY SameResults DEF gauges
<1>. QED  BY <1>3, <1>4, <1>5, <1>6, <1>8, <1>9, <1>10, <1>11

\* What Collect returns names checks and outcomes.
LEMMA Collected ==
  ASSUME NEW res
  PROVE  /\ DOMAIN Collect(res) \subseteq ClusterCheck \cup NodeCheck
         /\ \A n \in DOMAIN Collect(res) : Collect(res)[n] \in Outcome
<1>1. \A s \in Slot : (IF s \in ClusterCheck THEN s ELSE s[1])
                         \in ClusterCheck \cup NodeCheck
  BY DEF Slot
<1>. QED  BY <1>1 DEF Collect, Outcome

\* The round ends with all checks done.
LEMMA FinishStep ==
  ASSUME RoundInv, Finish
  PROVE  RoundInv'
<1>. USE DEF RoundInv
<1>1. /\ pc = "finishing" /\ Return("nil") /\ Logout
      /\ inProgress' = inProgress \cup {<<round, k>> : k \in NodeCheck}
      /\ published' = inProgress'
      /\ reported' = Collect(results[round])
      /\ UNCHANGED <<round, toEnqueue, todo, running, over, hasVM, results,
                     clusterGauge, nodeGauge, typesGauge, ctxDone>>
  BY DEF Finish, finishNodeChecks, pool, gauges
<1>2. round \in Round /\ round \in Int /\ inProgress = {}
  BY <1>1, RoundType DEF VerdictInv, MetricInv
<1>3. /\ VerdictInv' /\ pc' = "idle"
      /\ verdict' \in [Round -> {"none", "nil", "ctxErr", "abandoned",
                                 "runError"}]
      /\ \A r \in Round : verdict'[r] = IF r = round THEN "nil" ELSE verdict[r]
      /\ verdict[round] = "none"
  BY <1>1, Returned
<1>4. published' = {round} \X NodeCheck /\ inProgress' = {round} \X NodeCheck
  BY <1>1, <1>2
<1>. USE <1>2, <1>3
<1>5. TypeOK'
  <2>1. /\ DOMAIN reported' \in SUBSET (ClusterCheck \cup NodeCheck)
        /\ \A n \in DOMAIN reported' : reported'[n] \in Outcome
    BY <1>1, Collected
  <2>. QED  BY <1>1, <1>4, <2>1 DEF TypeOK, Logout
<1>6. SessionInv' /\ MetricInv'
  BY <1>1 DEF SessionInv, MetricInv
<1>7. MetricsOfOneRound'
  BY <1>1, <1>4 DEF MetricsOfOneRound
<1>8. EnqueueInv'
  BY <1>1 DEF EnqueueInv, Enqueueing
<1>9. \A u \in Known : u \in Unit /\ u[1] \in Round
  BY UnitPair DEF Known, TypeOK
<1>10. UnitInv'
  BY <1>1, <1>9 DEF UnitInv, Known
<1>11. PendingInv'
  BY <1>1, <1>9 DEF PendingInv, Pending, Known, Enqueueing
<1>12. ClusterInv'
  BY <1>1 DEF ClusterInv
<1>13. ResultInv' /\ NodeGaugeInv' /\ ClusterGaugeInv' /\ TypesGaugeInv'
  <2>1. \A r \in Round : r < round => verdict'[r] = verdict[r]
    OBVIOUS
  <2>2. UNCHANGED <<round, running, over, hasVM, results, gauges>>
    BY <1>1 DEF gauges
  <2>. QED  BY <2>1, <2>2, SameResults
<1>. QED  BY <1>3, <1>5, <1>6, <1>7, <1>8, <1>10, <1>11, <1>12, <1>13

-----------------------------------------------------------------------------
(* The steps of the workers.                                               *)

\* What a worker leaves alone.
RunChecksState == <<round, pc, verdict, session, toEnqueue, reported,
                    inProgress, published, ctxDone>>

\* A step that moves units on through the pool keeps what runChecks relies on.
LEMMA WorkerFrame ==
  ASSUME RoundInv, UNCHANGED RunChecksState,
         Known' = Known, Pending' \subseteq Pending, over \subseteq over'
  PROVE  /\ VerdictInv' /\ SessionInv' /\ EnqueueInv' /\ PendingInv'
         /\ ClusterInv' /\ MetricInv' /\ MetricsOfOneRound'
         /\ NoneAbandoned' <=> NoneAbandoned
<1>. USE DEF RoundInv, RunChecksState
<1>1. VerdictInv' /\ SessionInv' /\ MetricInv' /\ MetricsOfOneRound'
  BY DEF VerdictInv, SessionInv, MetricInv, MetricsOfOneRound
<1>2. EnqueueInv'
  BY DEF EnqueueInv
<1>3. PendingInv'
  BY DEF PendingInv
<1>4. ClusterInv'
  BY DEF ClusterInv
<1>5. NoneAbandoned' <=> NoneAbandoned
  BY DEF NoneAbandoned
<1>. QED  BY <1>1, <1>2, <1>3, <1>4, <1>5

\* Work of a round that has gone is of a round that was abandoned, and is not
\* the work of a node: only such rounds leave work to the rounds after them.
LEMMA Leftover ==
  ASSUME RoundInv, NEW u \in Pending
  PROVE  /\ u \in Unit /\ u[1] \in Round /\ u[2] \in Subject
         /\ u[2] \in Node => u[1] = round
         /\ NoneAbandoned => u[1] = round
         /\ u \notin over
<1>. USE DEF RoundInv
<1>1. u \in Unit /\ u[1] \in Round /\ u[2] \in Subject /\ u \notin over
  BY UnitPair DEF Pending, TypeOK
<1>2. u[1] <= round /\ (verdict[u[1]] = "abandoned" => u[2] \in ClusterCheck)
  BY DEF UnitInv, Known, Pending
<1>3. u[1] = round \/ verdict[u[1]] = "abandoned"
  BY <1>1 DEF PendingInv, VerdictInv
<1>4. u[2] \in Node => u[1] = round
  BY <1>2, <1>3, SlotType
<1>5. NoneAbandoned => u[1] = round
  BY <1>1, <1>2, <1>3, RoundType DEF NoneAbandoned
<1>. QED  BY <1>1, <1>4, <1>5

\* A worker takes a unit.
LEMMA StartUnitStep ==
  ASSUME RoundInv, NEW u \in Unit, StartUnit(u)
  PROVE  RoundInv'
<1>. USE DEF RoundInv
<1>1. /\ u \in todo /\ todo' = todo \ {u} /\ running' = running \cup {u}
      /\ typesGauge' = IF u[2] = StorageCheck THEN {} ELSE typesGauge
      /\ UNCHANGED RunChecksState
      /\ UNCHANGED <<over, hasVM, results, clusterGauge, nodeGauge>>
  BY DEF StartUnit, collector, RunChecksState
<1>2. Known' = Known /\ Pending' = Pending
  BY <1>1 DEF Known, Pending
<1>3. /\ VerdictInv' /\ SessionInv' /\ EnqueueInv' /\ PendingInv'
      /\ ClusterInv' /\ MetricInv' /\ MetricsOfOneRound'
      /\ NoneAbandoned' <=> NoneAbandoned
  BY <1>1, <1>2, WorkerFrame
<1>. USE <1>1 DEF RunChecksState
<1>4. TypeOK'
  BY DEF TypeOK
<1>5. UnitInv'
  BY <1>2 DEF UnitInv
<1>6. ResultInv'
  BY DEF ResultInv
<1>7. NodeGaugeInv' /\ ClusterGaugeInv'
  BY <1>3 DEF NodeGaugeInv, ClusterGaugeInv
<1>8. TypesGaugeInv'
  BY <1>3 DEF TypesGaugeInv
<1>. QED  BY <1>3, <1>4, <1>5, <1>6, <1>7, <1>8

\* The VM of a node is read.
LEMMA getVMStep ==
  ASSUME RoundInv, NEW u \in Unit, getVM(u)
  PROVE  RoundInv'
<1>. USE DEF RoundInv
<1>1. /\ u \in running /\ u \notin hasVM /\ u[2] \in Node
      /\ hasVM' = hasVM \cup {u}
      /\ UNCHANGED RunChecksState
      /\ UNCHANGED <<todo, running, over, results, clusterGauge, nodeGauge,
                     typesGauge>>
  BY DEF getVM, collector, pool, gauges, RunChecksState
<1>2. Known' = Known /\ Pending' = Pending
  BY <1>1 DEF Known, Pending
<1>3. /\ VerdictInv' /\ SessionInv' /\ EnqueueInv' /\ PendingInv'
      /\ ClusterInv' /\ MetricInv' /\ MetricsOfOneRound'
      /\ NoneAbandoned' <=> NoneAbandoned
  BY <1>1, <1>2, WorkerFrame
<1>. USE <1>1 DEF RunChecksState
<1>4. TypeOK'
  BY DEF TypeOK
<1>5. UnitInv'
  BY <1>2 DEF UnitInv
<1>6. ResultInv'
  BY DEF ResultInv
<1>7. NodeGaugeInv'
  <2>1. \A k \in NodeCheck : results[u[1]][<<k, u[2]>>] = <<>>
    <3>1. u = <<u[1], u[2]>> /\ u[1] \in Round /\ u \notin over
      BY UnitPair DEF TypeOK
    <3>2. \A k \in NodeCheck : Len(results[u[1]][<<k, u[2]>>]) = 0
      BY <3>1 DEF ResultInv
    <3>3. \A k \in NodeCheck : results[u[1]][<<k, u[2]>>] \in Seq(Outcome)
      BY <3>1, SlotType DEF TypeOK
    <3>. QED  BY <3>2, <3>3
  <2>. QED  BY <2>1 DEF NodeGaugeInv
<1>8. ClusterGaugeInv' /\ TypesGaugeInv'
  BY <1>3 DEF ClusterGaugeInv, TypesGaugeInv
<1>. QED  BY <1>3, <1>4, <1>5, <1>6, <1>7, <1>8

\* The VM of a node cannot be read.
LEMMA getVMFailsStep ==
  ASSUME RoundInv, NEW u \in Unit, getVMFails(u)
  PROVE  RoundInv'
<1>. USE DEF RoundInv
<1>1. /\ u \in running /\ u \notin hasVM /\ u[2] \in Node
      /\ AddResult(u[1], NodeCheck \X {u[2]}, "err")
      /\ running' = running \ {u} /\ over' = over \cup {u}
      /\ UNCHANGED RunChecksState
      /\ UNCHANGED <<todo, hasVM, clusterGauge, nodeGauge, typesGauge>>
  BY DEF getVMFails, UnitOver, collector, gauges, RunChecksState
<1>2. Known' = Known /\ Pending' \subseteq Pending /\ over \subseteq over'
  BY <1>1 DEF Known, Pending
<1>3. /\ VerdictInv' /\ SessionInv' /\ EnqueueInv' /\ PendingInv'
      /\ ClusterInv' /\ MetricInv' /\ MetricsOfOneRound'
      /\ NoneAbandoned' <=> NoneAbandoned
  BY <1>1, <1>2, WorkerFrame
<1>4. u = <<u[1], u[2]>> /\ u[1] \in Round /\ u \notin over /\ u \notin todo
  BY <1>1, UnitPair DEF TypeOK
<1>5. /\ results' \in [Round -> [Slot -> Seq(Outcome)]]
      /\ \A q \in Round, s \in Slot :
           results'[q][s] = IF q = u[1] /\ s \in NodeCheck \X {u[2]}
                            THEN Append(results[q][s], "err")
                            ELSE results[q][s]
  BY <1>1, <1>4, Added DEF Outcome
<1>6. \A q \in Round, c \in ClusterCheck : results'[q][c] = results[q][c]
  BY <1>1, <1>5, SlotType
<1>7. \A q \in Round, k \in NodeCheck, n \in Node : <<q, n>> # u =>
        results'[q][<<k, n>>] = results[q][<<k, n>>]
  BY <1>4, <1>5, SlotType
<1>8. \A k \in NodeCheck : Len(results'[u[1]][<<k, u[2]>>]) = 1
  <2>1. \A k \in NodeCheck : /\ Len(results[u[1]][<<k, u[2]>>]) = 0
                              /\ results[u[1]][<<k, u[2]>>] \in Seq(Outcome)
    BY <1>1, <1>4, SlotType DEF ResultInv, TypeOK
  <2>2. \A k \in NodeCheck : results'[u[1]][<<k, u[2]>>]
                               = Append(results[u[1]][<<k, u[2]>>], "err")
    BY <1>1, <1>4, <1>5, SlotType
  <2>. QED  BY <2>1, <2>2, SingleResult DEF Outcome
<1>9. TypeOK'
  BY <1>1, <1>5 DEF TypeOK, RunChecksState
<1>10. UnitInv'
  BY <1>1, <1>2 DEF UnitInv, RunChecksState
<1>11. ResultInv'
  <2>1. \A c \in ClusterCheck : c # u[2]
    BY <1>1, SlotType
  <2>2. \A q \in Round, c \in ClusterCheck :
          <<q, c>> \in over' <=> <<q, c>> \in over
    BY <1>1, <1>4, <2>1
  <2>3. \A q \in Round, c \in ClusterCheck :
          Len(results'[q][c]) = IF <<q, c>> \in over' THEN 1 ELSE 0
    BY <1>6, <2>2 DEF ResultInv
  <2>4. ASSUME NEW q \in Round, NEW k \in NodeCheck, NEW n \in Node
        PROVE  /\ Len(results'[q][<<k, n>>]) <= 1
               /\ <<q, n>> \in over' => Len(results'[q][<<k, n>>]) = 1
               /\ <<q, n>> \notin over' \cup (running' \cap hasVM')
                    => Len(results'[q][<<k, n>>]) = 0
    <3>1. CASE <<q, n>> = u
      <4>1. q = u[1] /\ n = u[2] /\ <<q, n>> \in over'
        BY <1>1, <1>4, <3>1
      <4>2. Len(results'[q][<<k, n>>]) = 1
        BY <1>8, <4>1
      <4>. QED  BY <4>1, <4>2
    <3>2. CASE <<q, n>> # u
      BY <1>1, <1>7, <3>2 DEF ResultInv
    <3>. QED  BY <3>1, <3>2
  <2>. QED  BY <2>3, <2>4 DEF ResultInv
<1>12. NodeGaugeInv'
  BY <1>1, <1>7, RoundType DEF NodeGaugeInv, RunChecksState
<1>13. ClusterGaugeInv'
  BY <1>1, <1>3, <1>4, <1>6, SlotType, RoundType DEF ClusterGaugeInv, RunChecksState
<1>14. TypesGaugeInv'
  BY <1>1, <1>3 DEF TypesGaugeInv, RunChecksState
<1>. QED  BY <1>3, <1>9, <1>10, <1>11, <1>12, <1>13, <1>14

\* A cluster check is done.
LEMMA ClusterCheckStep ==
  ASSUME RoundInv, NEW u \in Unit, NEW o \in Outcome, runSingleClusterCheck(u, o)
  PROVE  RoundInv'
<1>. USE DEF RoundInv
<1>1. /\ u \in running /\ u[2] \in ClusterCheck
      /\ clusterGauge' = [clusterGauge EXCEPT ![u[2]] =
                            IF o = "ok" THEN "0" ELSE "1"]
      /\ AddResult(u[1], {u[2]}, o)
      /\ running' = running \ {u} /\ over' = over \cup {u}
      /\ typesGauge' \in SetTypes(u, o)
      /\ UNCHANGED RunChecksState
      /\ UNCHANGED <<todo, hasVM, nodeGauge>>
  BY DEF runSingleClusterCheck, UnitOver, collector, RunChecksState
<1>2. Known' = Known /\ Pending' \subseteq Pending /\ over \subseteq over'
  BY <1>1 DEF Known, Pending
<1>3. /\ VerdictInv' /\ SessionInv' /\ EnqueueInv' /\ PendingInv'
      /\ ClusterInv' /\ MetricInv' /\ MetricsOfOneRound'
      /\ NoneAbandoned' <=> NoneAbandoned
  BY <1>1, <1>2, WorkerFrame
<1>4. /\ u = <<u[1], u[2]>> /\ u[1] \in Round /\ u \notin over
      /\ u[2] \notin Node /\ (NoneAbandoned => u[1] = round)
  <2>1. u \in Pending
    BY <1>1 DEF Pending
  <2>. QED  BY <1>1, <2>1, UnitPair, Leftover, SlotType
<1>5. /\ results' \in [Round -> [Slot -> Seq(Outcome)]]
      /\ \A q \in Round, s \in Slot :
           results'[q][s] = IF q = u[1] /\ s \in {u[2]}
                            THEN Append(results[q][s], o)
                            ELSE results[q][s]
  BY <1>1, <1>4, Added
<1>6. \A q \in Round, c \in ClusterCheck : <<q, c>> # u =>
        results'[q][c] = results[q][c]
  BY <1>4, <1>5, SlotType
<1>7. \A q \in Round, k \in NodeCheck, n \in Node :
        results'[q][<<k, n>>] = results[q][<<k, n>>]
  <2>1. \A k \in NodeCheck, n \in Node : <<k, n>> \in Slot /\ <<k, n>> # u[2]
    BY <1>1, SlotType, Zenon
  <2>. QED  BY <1>5, <2>1
<1>8. results'[u[1]][u[2]] = <<o>>
  <2>1. Len(results[u[1]][u[2]]) = 0 /\ results[u[1]][u[2]] \in Seq(Outcome)
    BY <1>1, <1>4, SlotType DEF ResultInv, TypeOK
  <2>2. results'[u[1]][u[2]] = Append(results[u[1]][u[2]], o)
    BY <1>1, <1>4, <1>5, SlotType
  <2>. QED  BY <2>1, <2>2, SingleResult
<1>9. \A q \in Round, n \in Node : <<q, n>> # u
  BY <1>4
<1>10. TypeOK'
  <2>1. typesGauge' \in SUBSET Round
    BY <1>1, <1>4 DEF SetTypes, TypeOK
  <2>2. clusterGauge' \in [ClusterCheck -> {"unset", "0", "1"}]
    BY <1>1 DEF TypeOK
  <2>. QED  BY <1>1, <1>5, <2>1, <2>2 DEF TypeOK, RunChecksState
<1>11. UnitInv'
  BY <1>1, <1>2 DEF UnitInv, RunChecksState
<1>12. ResultInv'
  <2>1. ASSUME NEW q \in Round, NEW c \in ClusterCheck
        PROVE  Len(results'[q][c]) = IF <<q, c>> \in over' THEN 1 ELSE 0
    <3>1. CASE <<q, c>> = u
      <4>1. q = u[1] /\ c = u[2] /\ <<q, c>> \in over'
        BY <1>1, <1>4, <3>1
      <4>2. Len(<<o>>) = 1
        OBVIOUS
      <4>. QED  BY <1>8, <4>1, <4>2
    <3>2. CASE <<q, c>> # u
      BY <1>1, <1>6, <3>2 DEF ResultInv
    <3>. QED  BY <3>1, <3>2
  <2>2. \A q \in Round, n \in Node :
          /\ <<q, n>> \in over' <=> <<q, n>> \in over
          /\ <<q, n>> \in running' <=> <<q, n>> \in running
    BY <1>1, <1>9
  <2>. QED  BY <1>1, <1>7, <2>1, <2>2 DEF ResultInv
<1>13. NodeGaugeInv'
  BY <1>1, <1>7, RoundType DEF NodeGaugeInv, RunChecksState
<1>14. ClusterGaugeInv'
  <2>. SUFFICES ASSUME round >= 1, NoneAbandoned, NEW c \in ClusterCheck,
                       <<round, c>> \in over'
                PROVE  clusterGauge'[c] = GaugeOf(results'[round][c])
    BY <1>1, <1>3 DEF ClusterGaugeInv, RunChecksState
  <2>1. round \in Round /\ u[1] = round
    BY <1>4, RoundType
  <2>2. CASE c = u[2]
    <3>1. clusterGauge'[c] = IF o = "ok" THEN "0" ELSE "1"
      BY <1>1, <2>2 DEF TypeOK
    <3>2. GaugeOf(<<o>>) = IF o = "ok" THEN "0" ELSE "1"
      BY DEF GaugeOf, Outcome
    <3>. QED  BY <1>8, <2>1, <2>2, <3>1, <3>2
  <2>3. CASE c # u[2]
    <3>1. <<round, c>> # u /\ <<round, c>> \in over
      BY <1>1, <1>4, <2>3
    <3>2. clusterGauge'[c] = clusterGauge[c]
      BY <1>1, <2>3 DEF TypeOK
    <3>. QED  BY <1>6, <2>1, <3>1, <3>2 DEF ClusterGaugeInv
  <2>. QED  BY <2>2, <2>3
<1>15. TypesGaugeInv'
  <2>. SUFFICES ASSUME NoneAbandoned, <<round, StorageCheck>> \in running \cup over
                PROVE  typesGauge' \subseteq {round}
    BY <1>1, <1>3 DEF TypesGaugeInv, RunChecksState
  <2>. QED  BY <1>1, <1>4 DEF TypesGaugeInv, SetTypes
<1>. QED  BY <1>3, <1>10, <1>11, <1>12, <1>13, <1>14, <1>15

\* A node check is done on a node; after the last one the node is over.
LEMMA NodeCheckStep ==
  ASSUME RoundInv, NEW u \in Unit, NEW i \in DOMAIN NodeChecks,
         NEW o \in Outcome, runSingleNodeSingleCheck(u, i, o)
  PROVE  RoundInv'
<1>. USE DEF RoundInv
<1>. DEFINE mine == <<NodeChecks[i], u[2]>>
<1>1. /\ u \in running /\ u \in hasVM
      /\ \A j \in DOMAIN NodeChecks :
           results[u[1]][<<NodeChecks[j], u[2]>>] # <<>> <=> j < i
      /\ nodeGauge' = [nodeGauge EXCEPT ![mine] = IF o = "ok" THEN "0" ELSE "1"]
      /\ AddResult(u[1], {mine}, o)
      /\ UNCHANGED RunChecksState
      /\ UNCHANGED <<todo, hasVM, clusterGauge, typesGauge>>
  BY DEF runSingleNodeSingleCheck, Turn, UnitOver, collector, RunChecksState, pool
<1>2. \/ running' = running /\ over' = over
      \/ i = Len(NodeChecks) /\ running' = running \ {u} /\ over' = over \cup {u}
  BY DEF runSingleNodeSingleCheck, UnitOver, pool
<1>3. Known' = Known /\ Pending' \subseteq Pending /\ over \subseteq over'
  BY <1>1, <1>2 DEF Known, Pending
<1>4. /\ VerdictInv' /\ SessionInv' /\ EnqueueInv' /\ PendingInv'
      /\ ClusterInv' /\ MetricInv' /\ MetricsOfOneRound'
      /\ NoneAbandoned' <=> NoneAbandoned
  BY <1>1, <1>3, WorkerFrame
<1>5. /\ u = <<u[1], u[2]>> /\ u[1] \in Round /\ u \notin over
      /\ u[2] \in Node /\ u[1] = round
  <2>1. u \in Pending /\ u[2] \in Node
    BY <1>1 DEF Pending, UnitInv
  <2>. QED  BY <2>1, UnitPair, Leftover
<1>6. i \in Int /\ \A j \in DOMAIN NodeChecks : j \in Int /\ j <= Len(NodeChecks)
  BY NameAssumption
<1>7. NodeChecks[i] \in NodeCheck /\ mine \in NodeCheck \X Node
  BY <1>5 DEF NodeCheck
<1>8. /\ results' \in [Round -> [Slot -> Seq(Outcome)]]
      /\ \A q \in Round, s \in Slot :
           results'[q][s] = IF q = u[1] /\ s \in {mine}
                            THEN Append(results[q][s], o)
                            ELSE results[q][s]
  BY <1>1, <1>5, Added
<1>9. \A q \in Round, c \in ClusterCheck : results'[q][c] = results[q][c]
  BY <1>7, <1>8, SlotType
<1>10. \A q \in Round, k \in NodeCheck, n \in Node :
         q # u[1] \/ <<k, n>> # mine => results'[q][<<k, n>>] = results[q][<<k, n>>]
  BY <1>8, SlotType
<1>11. results'[u[1]][mine] = <<o>>
  <2>1. results[u[1]][mine] = <<>>
    BY <1>1, <1>6
  <2>2. results[u[1]][mine] \in Seq(Outcome)
    BY <1>5, <1>7, SlotType DEF TypeOK
  <2>3. results'[u[1]][mine] = Append(results[u[1]][mine], o)
    BY <1>5, <1>7, <1>8, SlotType
  <2>. QED  BY <2>1, <2>2, <2>3, SingleResult
<1>12. Len(<<o>>) = 1 /\ <<o>> # <<>>
  OBVIOUS
<1>. HIDE DEF mine
<1>13. TypeOK'
  <2>1. nodeGauge' \in [NodeCheck \X Node -> {"unset", "0", "1"}]
    BY <1>1, <1>7 DEF TypeOK
  <2>2. /\ running' \in SUBSET Unit /\ over' \in SUBSET Unit
        /\ todo' \cap running' = {} /\ (todo' \cup running') \cap over' = {}
    BY <1>1, <1>2 DEF TypeOK
  <2>. QED  BY <1>1, <1>8, <2>1, <2>2 DEF TypeOK, RunChecksState
<1>14. UnitInv'
  BY <1>1, <1>2, <1>3 DEF UnitInv, RunChecksState
<1>15. \A q \in Round, c \in ClusterCheck : <<q, c>> \in over' <=> <<q, c>> \in over
  <2>1. \A c \in ClusterCheck : c # u[2]
    BY <1>5, SlotType
  <2>. QED  BY <1>2, <1>5, <2>1
<1>16. ResultInv'
  <2>1. \A q \in Round, c \in ClusterCheck :
          Len(results'[q][c]) = IF <<q, c>> \in over' THEN 1 ELSE 0
    BY <1>9, <1>15 DEF ResultInv
  <2>2. ASSUME NEW q \in Round, NEW k \in NodeCheck, NEW n \in Node, <<q, n>> # u
        PROVE  /\ Len(results'[q][<<k, n>>]) <= 1
               /\ <<q, n>> \in over' => Len(results'[q][<<k, n>>]) = 1
               /\ <<q, n>> \notin over' \cup (running' \cap hasVM')
                    => Len(results'[q][<<k, n>>]) = 0
    <3>1. q # u[1] \/ <<k, n>> # mine
      BY <1>5, <2>2 DEF mine
    <3>2. results'[q][<<k, n>>] = results[q][<<k, n>>]
      BY <1>10, <3>1
    <3>. QED  BY <1>1, <1>2, <2>2, <3>2 DEF ResultInv
  <2>3. ASSUME NEW k \in NodeCheck
        PROVE  /\ Len(results'[u[1]][<<k, u[2]>>]) <= 1
               /\ u \in over' => Len(results'[u[1]][<<k, u[2]>>]) = 1
    <3>1. CASE <<k, u[2]>> = mine
      <4>1. Len(results'[u[1]][<<k, u[2]>>]) = 1
        BY <1>11, <1>12, <3>1
      <4>. QED  BY <4>1
    <3>2. CASE <<k, u[2]>> # mine
      <4>1. results'[u[1]][<<k, u[2]>>] = results[u[1]][<<k, u[2]>>]
        BY <1>5, <1>10, <3>2
      <4>2. Len(results[u[1]][<<k, u[2]>>]) <= 1
        BY <1>5 DEF ResultInv
      <4>3. PICK j \in DOMAIN NodeChecks : k = NodeChecks[j]
        BY DEF NodeCheck
      <4>4. j # i
        BY <3>2, <4>3 DEF mine
      <4>5. i = Len(NodeChecks) => j < i
        BY <1>6, <4>4
      <4>6. i = Len(NodeChecks) => results[u[1]][<<k, u[2]>>] # <<>>
        BY <1>1, <4>3, <4>5
      <4>7. results[u[1]][<<k, u[2]>>] \in Seq(Outcome)
        BY <1>5, SlotType DEF TypeOK
      <4>8. u \in over' => i = Len(NodeChecks)
        BY <1>2, <1>5
      <4>9. results[u[1]][<<k, u[2]>>] # <<>> =>
              Len(results[u[1]][<<k, u[2]>>]) = 1
        BY <4>2, <4>7, SingleResult, Zenon
      <4>. QED  BY <4>1, <4>2, <4>6, <4>8, <4>9
    <3>. QED  BY <3>1, <3>2
  <2>4. u \in over' \cup (running' \cap hasVM')
    BY <1>1, <1>2
  <2>5. ASSUME NEW q \in Round, NEW k \in NodeCheck, NEW n \in Node, <<q, n>> = u
        PROVE  /\ Len(results'[q][<<k, n>>]) <= 1
               /\ <<q, n>> \in over' => Len(results'[q][<<k, n>>]) = 1
               /\ <<q, n>> \notin over' \cup (running' \cap hasVM')
                    => Len(results'[q][<<k, n>>]) = 0
    <3>1. q = u[1] /\ n = u[2]
      BY <1>5, <2>5
    <3>. QED  BY <2>3, <2>4, <2>5, <3>1
  <2>. QED  BY <2>1, <2>2, <2>5 DEF ResultInv
<1>17. NodeGaugeInv'
  <2>. SUFFICES ASSUME round >= 1, NEW k \in NodeCheck, NEW n \in Node,
                       <<round, n>> \in hasVM, results'[round][<<k, n>>] # <<>>
                PROVE  nodeGauge'[<<k, n>>] = GaugeOf(results'[round][<<k, n>>])
    BY <1>1 DEF NodeGaugeInv, RunChecksState
  <2>1. CASE <<k, n>> = mine
    <3>1. nodeGauge'[mine] = IF o = "ok" THEN "0" ELSE "1"
      BY <1>1, <1>7 DEF TypeOK
    <3>2. GaugeOf(<<o>>) = IF o = "ok" THEN "0" ELSE "1"
      BY DEF GaugeOf, Outcome
    <3>. QED  BY <1>5, <1>11, <2>1, <3>1, <3>2
  <2>2. CASE <<k, n>> # mine
    <3>1. nodeGauge'[<<k, n>>] = nodeGauge[<<k, n>>]
      BY <1>1, <2>2 DEF TypeOK
    <3>2. results'[round][<<k, n>>] = results[round][<<k, n>>]
      BY <1>5, <1>10, <2>2
    <3>. QED  BY <3>1, <3>2 DEF NodeGaugeInv
  <2>. QED  BY <2>1, <2>2
<1>18. ClusterGaugeInv'
  BY <1>1, <1>4, <1>9, <1>15, RoundType DEF ClusterGaugeInv, RunChecksState
<1>19. TypesGaugeInv'
  BY <1>1, <1>2, <1>4 DEF TypesGaugeInv, RunChecksState
<1>. QED  BY <1>4, <1>13, <1>14, <1>16, <1>17, <1>18, <1>19

\* The context is cancelled.
LEMMA CancelStep ==
  ASSUME RoundInv, Cancel
  PROVE  RoundInv'
<1>. USE DEF RoundInv
<1>1. /\ ~ctxDone /\ ctxDone' = TRUE
      /\ UNCHANGED <<round, pc, verdict, session, toEnqueue, todo, running, over,
                     hasVM, results, reported, clusterGauge, nodeGauge,
                     typesGauge, inProgress, published>>
  BY DEF Cancel, pool, gauges, collector
<1>2. TypeOK'
  <2>1. ctxDone' \in BOOLEAN
    BY <1>1, Zenon
  <2>. QED  BY <1>1, <2>1 DEF TypeOK
<1>3. VerdictInv' /\ SessionInv' /\ EnqueueInv' /\ UnitInv' /\ PendingInv'
  BY <1>1 DEF VerdictInv, SessionInv, EnqueueInv, UnitInv, PendingInv, Known,
              Pending
<1>4. ClusterInv' /\ MetricInv' /\ MetricsOfOneRound'
  BY <1>1 DEF ClusterInv, MetricInv, MetricsOfOneRound, Known
<1>5. ResultInv' /\ NodeGaugeInv' /\ ClusterGaugeInv' /\ TypesGaugeInv'
  <2>1. \A r \in Round : r < round => verdict'[r] = verdict[r]
    BY <1>1
  <2>2. UNCHANGED <<round, running, over, hasVM, results, gauges>>
    BY <1>1 DEF gauges
  <2>. QED  BY <2>1, <2>2, SameResults
<1>. QED  BY <1>2, <1>3, <1>4, <1>5

-----------------------------------------------------------------------------
(* The theorems.                                                           *)

LEMMA RoundInvNext ==
  ASSUME RoundInv, [Next]_vars
  PROVE  RoundInv'
<1>1. CASE RunChecks
  BY <1>1, StartStep, SetupStep, EnqueueStep, GoOnStep, GiveUpStep, FinishStep
     DEF RunChecks
<1>2. CASE \E u \in Unit : Worker(u)
  BY <1>2, StartUnitStep, getVMStep, getVMFailsStep, ClusterCheckStep,
     NodeCheckStep DEF Worker
<1>3. CASE Cancel
  BY <1>3, CancelStep
<1>4. CASE UNCHANGED vars
  <2>1. UNCHANGED <<RunChecksState, Known, Pending, todo, running, over, hasVM,
                    results, gauges>>
    BY <1>4 DEF vars, RunChecksState, pool, collector, Known, Pending
  <2>2. TypeOK' /\ UnitInv'
    BY <2>1 DEF RoundInv, TypeOK, UnitInv, RunChecksState, gauges
  <2>3. /\ VerdictInv' /\ SessionInv' /\ EnqueueInv' /\ PendingInv'
        /\ ClusterInv' /\ MetricInv' /\ MetricsOfOneRound'
    BY <2>1, WorkerFrame
  <2>4. ResultInv' /\ NodeGaugeInv' /\ ClusterGaugeInv' /\ TypesGaugeInv'
    BY <2>1, SameResults DEF RunChecksState
  <2>. QED  BY <2>2, <2>3, <2>4 DEF RoundInv
<1>. QED  BY <1>1, <1>2, <1>3, <1>4 DEF Next

\* The inductive invariant holds in every reachable state of every number of
\* rounds of runChecks, whatever work the rounds before left in their pools.
THEOREM RoundInvariant == Spec => []RoundInv
<1>1. Init => RoundInv
  BY RoundInvInit
<1>2. RoundInv /\ [Next]_vars => RoundInv'
  BY RoundInvNext
<1>. QED  BY <1>1, <1>2, PTL DEF Spec

\* Every variable of runChecks, its pools, its result collectors and the
\* gauges keeps its type.
THEOREM RoundTypeCorrect == Spec => []TypeOK
<1>1. RoundInv => TypeOK
  BY DEF RoundInv
<1>. QED  BY <1>1, RoundInvariant, PTL

\* A round that returns nil has one result of every cluster check and of every
\* node check of every node it enqueued (ResultCollector.AddResult, Wait).
THEOREM ResultsCorrect == Spec => []ResultsComplete
<1>1. RoundInv => ResultsComplete
  <2>. SUFFICES ASSUME RoundInv, NEW r \in Round, verdict[r] = "nil"
                PROVE  /\ \A c \in ClusterCheck : Len(results[r][c]) = 1
                       /\ \A k \in NodeCheck, n \in Node :
                            Len(results[r][<<k, n>>])
                              = IF <<r, n>> \in over THEN 1 ELSE 0
    BY DEF ResultsComplete
  <2>. USE DEF RoundInv
  <2>1. \A c \in ClusterCheck : Len(results[r][c]) = 1
    BY DEF ClusterInv, ResultInv
  <2>2. \A n \in Node : <<r, n>> \notin running
    <3>1. r < round \/ (r = round /\ pc = "idle")
      BY DEF VerdictInv
    <3>2. ~(r = round /\ pc \in Enqueueing)
      BY <3>1, RoundType DEF Enqueueing
    <3>3. \A n \in Node : <<r, n>>[1] = r
      OBVIOUS
    <3>. QED  BY <3>2, <3>3 DEF PendingInv, Pending
  <2>3. \A k \in NodeCheck, n \in Node :
          Len(results[r][<<k, n>>]) = IF <<r, n>> \in over THEN 1 ELSE 0
    BY <2>2 DEF ResultInv
  <2>. QED  BY <2>1, <2>3
<1>. QED  BY <1>1, RoundInvariant, PTL

\* The deferred Logout of a round that waited for its checks comes after all
\* of them.
THEOREM SessionsCorrect == Spec => []SessionOutlivesChecks
<1>1. RoundInv => SessionOutlivesChecks
  BY DEF RoundInv, SessionOutlivesChecks, PendingInv, Pending, SessionInv,
         Enqueueing
<1>. QED  BY <1>1, RoundInvariant, PTL

\* Collector.Collect exposes the metrics of one completed round or none.
THEOREM MetricsCorrect == Spec => []MetricsOfOneRound
<1>1. RoundInv => MetricsOfOneRound
  BY DEF RoundInv
<1>. QED  BY <1>1, RoundInvariant, PTL

\* When a round has ended with nil, all its node units are over, and so are
\* those of the rounds before.
LEMMA EndedNodes ==
  ASSUME RoundInv, Ended
  PROVE  /\ round \in Round
         /\ \A n \in Node : <<round, n>> \notin Pending
<1>1. round \in Round
  BY RoundType DEF RoundInv, Ended, TypeOK
<1>2. \A n \in Node : <<round, n>> \notin Pending
  BY DEF RoundInv, Ended, PendingInv, Enqueueing
<1>. QED  BY <1>1, <1>2

\* vsphere_node_check_errors tells the outcomes of the round that has ended.
THEOREM NodeGaugeCorrect == Spec => []NodeGaugeTellsRound
<1>1. RoundInv => NodeGaugeTellsRound
  <2>. SUFFICES ASSUME RoundInv, Ended, NEW k \in NodeCheck, NEW n \in Node,
                       <<round, n>> \in hasVM
                PROVE  nodeGauge[<<k, n>>] = GaugeOf(results[round][<<k, n>>])
    BY DEF NodeGaugeTellsRound
  <2>. USE DEF RoundInv
  <2>1. round \in Round /\ <<round, n>> \in over
    BY EndedNodes DEF UnitInv, Pending
  <2>2. Len(results[round][<<k, n>>]) = 1
    BY <2>1 DEF ResultInv
  <2>3. results[round][<<k, n>>] # <<>>
    BY <2>2
  <2>. QED  BY <2>1, <2>3, RoundType DEF NodeGaugeInv
<1>. QED  BY <1>1, RoundInvariant, PTL

\* vsphere_cluster_check_errors tells the outcomes of the round that has ended
\* when no earlier round was abandoned.
THEOREM ClusterGaugeCorrect == Spec => []ClusterGaugeTellsRound
<1>1. RoundInv => ClusterGaugeTellsRound
  <2>. SUFFICES ASSUME RoundInv, Undisturbed, NEW c \in ClusterCheck
                PROVE  clusterGauge[c] = GaugeOf(results[round][c])
    BY DEF ClusterGaugeTellsRound
  <2>. USE DEF RoundInv
  <2>1. round \in Round /\ <<round, c>> \in over
    BY EndedNodes DEF Undisturbed, Ended, ClusterInv
  <2>2. NoneAbandoned
    BY <2>1, RoundType DEF NoneAbandoned, Undisturbed, Round
  <2>. QED  BY <2>1, <2>2, RoundType DEF ClusterGaugeInv
<1>. QED  BY <1>1, RoundInvariant, PTL

\* vsphere_datastore_total then holds values of that round only.
THEOREM TypesGaugeCorrect == Spec => []DatastoreTypesOfRound
<1>1. RoundInv => DatastoreTypesOfRound
  <2>. SUFFICES ASSUME RoundInv, Undisturbed
                PROVE  typesGauge \subseteq {round}
    BY DEF DatastoreTypesOfRound
  <2>. USE DEF RoundInv
  <2>1. round \in Round /\ <<round, StorageCheck>> \in over
    BY EndedNodes, RoundAssumption DEF Undisturbed, Ended, ClusterInv
  <2>2. NoneAbandoned
    BY <2>1, RoundType DEF NoneAbandoned, Undisturbed, Round
  <2>. QED  BY <2>1, <2>2 DEF TypesGaugeInv
<1>. QED  BY <1>1, RoundInvariant, PTL

\* StartCheck of a round comes when no node check of any round is left, and
\* FinishCheck after all of them (the contract of check.NodeCheck).
THEOREM NodeCheckRoundsCorrect == Spec => NodeCheckRounds
<1>. DEFINE Quiescent == (todo \cup running) \cap NodeUnits = {}
<1>. DEFINE Contract ==
       /\ pc # "nodeChecks" /\ pc' = "nodeChecks" => Quiescent
       /\ pc = "finishing" /\ pc' = "idle" => Quiescent
<1>1. ASSUME RoundInv, [Next]_vars
      PROVE  [Contract]_vars
  <2>. USE <1>1 DEF RoundInv
  <2>1. ASSUME pc = "clusterChecks" \/ pc = "finishing", NEW u \in Pending,
               u \in NodeUnits
        PROVE  FALSE
    <3>1. u[2] \in Node /\ u[1] = round /\ u[2] \notin ClusterCheck
      BY <2>1, Leftover, SlotType DEF NodeUnits
    <3>2. verdict[round] = "none"
      BY <2>1, RoundType DEF VerdictInv
    <3>3. pc \in Enqueueing
      BY <2>1, <3>1, <3>2 DEF PendingInv
    <3>. QED  BY <2>1, <3>1, <3>3 DEF UnitInv, Known, Pending, Enqueueing
  <2>2. pc # "nodeChecks" /\ pc' = "nodeChecks" => pc = "clusterChecks"
    BY DEF Next, RunChecks, Worker, RoundStarts, Connect, ConnectFails, Setup,
           SetupFails, Enqueue, ListNodes, ListNodesFails, WaitDone,
           WaitExpires, Finish, Return, StartUnit, getVM, getVMFails,
           runSingleClusterCheck, runSingleNodeSingleCheck, Cancel, vars
  <2>. QED  BY <2>1, <2>2 DEF Pending
<1>. QED  BY <1>1, RoundInvariant, PTL DEF Spec, NodeCheckRounds

-----------------------------------------------------------------------------
(* The pool of the first round is a CheckBarrier.                          *)

First(units) == {u[2] : u \in OfRound(1, units)}
FirstVerdict == IF verdict[1] = "none" /\ round = 1 /\ pc = "finishing"
                THEN "nil"
                ELSE IF verdict[1] = "runError" THEN "abandoned" ELSE verdict[1]

\* The barrier counts as the round does.
LEMMA FirstPoolCounts == \A S : FirstPool!Cardinality(S) = Cardinality(S)
BY Zenon DEF FirstPool!Cardinality, Cardinality

\* What the barrier sees of a set of units.
LEMMA FirstOf ==
  ASSUME NEW units \in SUBSET Unit
  PROVE  First(units) = {x \in Subject : <<1, x>> \in units}
<1>1. \A u \in units : u = <<u[1], u[2]>> /\ u[2] \in Subject
  BY UnitPair
<1>2. ASSUME NEW x \in First(units)
      PROVE  x \in Subject /\ <<1, x>> \in units
  <2>1. PICK u \in OfRound(1, units) : x = u[2]
    BY DEF First
  <2>2. u \in units /\ u[1] = 1
    BY DEF OfRound
  <2>. QED  BY <1>1, <2>1, <2>2
<1>3. ASSUME NEW x \in Subject, <<1, x>> \in units
      PROVE  x \in First(units)
  <2>1. <<1, x>> \in OfRound(1, units) /\ <<1, x>>[2] = x
    BY <1>3 DEF OfRound
  <2>. QED  BY <2>1 DEF First
<1>. QED  BY <1>2, <1>3

\* A unit that is added to a set, or taken from it.
LEMMA FirstChange ==
  ASSUME NEW units \in SUBSET Unit, NEW u \in Unit
  PROVE  /\ u[1] = 1 => /\ First(units \cup {u}) = First(units) \cup {u[2]}
                        /\ First(units \ {u}) = First(units) \ {u[2]}
                        /\ u \in units => u[2] \in First(units)
         /\ u[1] # 1 => /\ First(units \cup {u}) = First(units)
                        /\ First(units \ {u}) = First(units)
<1>1. u = <<u[1], u[2]>> /\ u[2] \in Subject
  BY UnitPair
<1>2. /\ First(units) = {x \in Subject : <<1, x>> \in units}
      /\ First(units \cup {u}) = {x \in Subject : <<1, x>> \in units \cup {u}}
      /\ First(units \ {u}) = {x \in Subject : <<1, x>> \in units \ {u}}
  BY FirstOf
<1>3. \A x : <<1, x>> = u <=> u[1] = 1 /\ x = u[2]
  BY <1>1
<1>. QED  BY ONLY <1>1, <1>2, <1>3

\* No more tasks than units are running.
LEMMA FirstCount ==
  ASSUME NEW units \in SUBSET Unit, Cardinality(OfRound(1, units)) < Parallelism
  PROVE  Cardinality(First(units)) < Parallelism
<1>. DEFINE S == OfRound(1, units)
<1>. DEFINE T == First(units)
<1>. DEFINE f == [u \in S |-> u[2]]
<1>1. IsFiniteSet(Unit)
  <2>1. IsFiniteSet(Round)
    BY RoundAssumption, FS_Interval DEF Round
  <2>2. IsFiniteSet(Subject)
    BY RoundAssumption, FS_Union DEF Subject
  <2>. QED  BY <2>1, <2>2, FS_Product DEF Unit
<1>2. IsFiniteSet(S)
  BY <1>1, FS_Subset DEF OfRound
<1>3. f \in Surjection(S, T)
  BY DEF Surjection, First
<1>4. IsFiniteSet(T) /\ Cardinality(T) <= Cardinality(S)
  BY <1>2, <1>3, FS_Surjection
<1>5. Cardinality(T) \in Int /\ Cardinality(S) \in Int /\ Parallelism \in Int
  BY <1>2, <1>4, FS_CardinalityType, RoundAssumption
<1>. HIDE DEF S, T
<1>6. Cardinality(S) < Parallelism
  BY DEF S
<1>7. Cardinality(T) < Parallelism
  BY <1>4, <1>5, <1>6
<1>. QED  BY <1>7 DEF T

\* The barrier stutters when the first round and its pool stay as they are.
LEMMA FirstStutter ==
  ASSUME UNCHANGED <<First(todo), First(running), First(over), FirstVerdict>>
  PROVE  UNCHANGED FirstPool!vars
BY DEF FirstPool!vars, First, FirstVerdict

LEMMA FirstPoolInit == Init => FirstPool!Init
BY RoundAssumption DEF Init, FirstPool!Init, OfRound, Round

\* runChecks: RunGoroutine submits, Wait completes or gives up.
LEMMA FirstRunChecks ==
  ASSUME RoundInv, RunChecks
  PROVE  FirstPool!Next \/ UNCHANGED FirstPool!vars
<1>. USE DEF RoundInv
<1>1. /\ 1 \in Round /\ (TypeOK => round \in Int)
      /\ pc # "idle" => round \in Round /\ verdict[round] = "none"
  BY RoundType DEF VerdictInv, Round
<1>2. ASSUME RoundStarts \/ Connect \/ Setup
               \/ \E nodes \in SUBSET Node : ListNodes(nodes)
      PROVE  UNCHANGED FirstPool!vars
  <2>1. /\ UNCHANGED <<todo, running, over, verdict>>
        /\ pc # "finishing" /\ pc' # "finishing"
    BY <1>2 DEF RoundStarts, Connect, Setup, ListNodes, pool
  <2>. QED  BY <2>1, FirstStutter DEF FirstVerdict
<1>3. ASSUME NEW v \in {"runError", "abandoned", "ctxErr"},
             pc # "finishing", pc # "idle", Return(v),
             UNCHANGED <<todo, running, over, round>>
      PROVE  FirstPool!Next \/ UNCHANGED FirstPool!vars
  <2>1. UNCHANGED <<First(todo), First(running), First(over)>>
    BY <1>3
  <2>2. CASE round = 1
    <3>1. FirstVerdict = "none" /\ FirstVerdict' \in {"ctxErr", "abandoned"}
      BY <1>1, <1>3, <2>2 DEF FirstVerdict, Return, TypeOK
    <3>2. FirstPool!GiveUp
      BY <2>1, <3>1 DEF FirstPool!GiveUp, First, FirstVerdict
    <3>. QED  BY <3>2 DEF FirstPool!Next
  <2>3. CASE round # 1
    <3>1. verdict'[1] = verdict[1] /\ pc' # "finishing"
      BY <1>1, <1>3, <2>3 DEF Return, TypeOK
    <3>. QED  BY <1>3, <2>1, <3>1, FirstStutter DEF FirstVerdict
  <2>. QED  BY <2>2, <2>3
<1>4. ASSUME ConnectFails \/ SetupFails \/ ListNodesFails \/ WaitExpires
      PROVE  FirstPool!Next \/ UNCHANGED FirstPool!vars
  BY <1>3, <1>4 DEF ConnectFails, SetupFails, ListNodesFails, WaitExpires, pool
<1>5. ASSUME NEW x \in Subject, Enqueue(x)
      PROVE  FirstPool!Next \/ UNCHANGED FirstPool!vars
  <2>. USE <1>5 DEF Enqueue
  <2>1. /\ UNCHANGED <<First(running), First(over), FirstVerdict>>
        /\ <<round, x>> \notin Known
    BY DEF FirstVerdict, EnqueueInv
  <2>2. <<round, x>> \in Unit /\ {todo, running, over} \subseteq SUBSET Unit
    BY <1>1 DEF Unit, TypeOK
  <2>3. CASE round = 1
    <3>1. First(todo') = First(todo) \cup {x}
      BY <2>2, <2>3, FirstOf
    <3>2. x \notin First(todo) \cup First(running) \cup First(over)
      BY <2>1, <2>2, <2>3, FirstOf DEF Known
    <3>3. FirstVerdict = "none"
      BY <1>1, <2>3 DEF FirstVerdict
    <3>4. FirstPool!Submit(x)
      BY <2>1, <3>1, <3>2, <3>3 DEF FirstPool!Submit, First, FirstVerdict
    <3>. QED  BY <3>4 DEF FirstPool!Next
  <2>4. CASE round # 1
    <3>1. First(todo') = First(todo)
      BY <2>2, <2>4, FirstOf
    <3>. QED  BY <2>1, <3>1, FirstStutter
  <2>. QED  BY <2>3, <2>4
<1>6. ASSUME WaitDone
      PROVE  FirstPool!Next \/ UNCHANGED FirstPool!vars
  <2>. USE <1>6 DEF WaitDone
  <2>1. UNCHANGED <<First(todo), First(running), First(over)>>
    BY DEF pool
  <2>2. CASE round = 1
    <3>1. First(todo) = {} /\ First(running) = {}
      BY <2>2 DEF First, OfRound
    <3>2. FirstVerdict = "none" /\ FirstVerdict' = "nil"
      BY <1>1, <2>2 DEF FirstVerdict
    <3>3. FirstPool!Complete
      BY <2>1, <3>1, <3>2 DEF FirstPool!Complete, First, FirstVerdict
    <3>. QED  BY <3>3 DEF FirstPool!Next
  <2>3. CASE round # 1
    BY <2>1, <2>3, FirstStutter DEF FirstVerdict
  <2>. QED  BY <2>2, <2>3
<1>7. ASSUME Finish
      PROVE  UNCHANGED FirstPool!vars
  <2>1. /\ UNCHANGED <<todo, running, over, round>> /\ pc' = "idle"
        /\ verdict' = [verdict EXCEPT ![round] = "nil"] /\ pc = "finishing"
    BY <1>7 DEF Finish, Return, pool
  <2>2. UNCHANGED FirstVerdict
    BY <1>1, <2>1 DEF FirstVerdict, TypeOK
  <2>. QED  BY <2>1, <2>2, FirstStutter
<1>. QED  BY <1>2, <1>4, <1>5, <1>6, <1>7 DEF RunChecks

\* Workers start and end units.
LEMMA FirstWorker ==
  ASSUME RoundInv, NEW u \in Unit, Worker(u)
  PROVE  FirstPool!Next \/ UNCHANGED FirstPool!vars
<1>. USE DEF RoundInv
<1>1. UNCHANGED FirstVerdict
  BY DEF Worker, StartUnit, getVM, getVMFails, runSingleClusterCheck,
         runSingleNodeSingleCheck, FirstVerdict
<1>2. /\ u = <<u[1], u[2]>> /\ u[2] \in Subject
      /\ {todo, running, over} \subseteq SUBSET Unit
  BY UnitPair DEF TypeOK
<1>3. ASSUME StartUnit(u)
      PROVE  FirstPool!Next \/ UNCHANGED FirstPool!vars
  <2>. USE <1>3 DEF StartUnit
  <2>1. UNCHANGED First(over)
    OBVIOUS
  <2>2. CASE u[1] = 1
    <3>1. u[2] \in First(todo)
      BY <1>2, <2>2, FirstChange
    <3>2. First(todo') = First(todo) \ {u[2]}
      BY <1>2, <2>2, FirstChange
    <3>3. First(running') = First(running) \cup {u[2]}
      BY <1>2, <2>2, FirstChange
    <3>4. Cardinality(First(running)) < Parallelism
      BY <1>2, <2>2, FirstCount
    <3>5. FirstPool!Start(u[2])
      BY ONLY <1>1, <2>1, <3>1, <3>2, <3>3, <3>4, FirstPoolCounts, Zenon
         DEF FirstPool!Start, First, FirstVerdict
    <3>. QED  BY <1>2, <3>5 DEF FirstPool!Next
  <2>3. CASE u[1] # 1
    <3>1. First(todo') = First(todo) /\ First(running') = First(running)
      BY <1>2, <2>3, FirstChange
    <3>. QED  BY <1>1, <2>1, <3>1, FirstStutter
  <2>. QED  BY <2>2, <2>3
<1>4. ASSUME u \in running, UnitOver(u)
      PROVE  FirstPool!Next \/ UNCHANGED FirstPool!vars
  <2>. USE <1>4 DEF UnitOver
  <2>1. UNCHANGED First(todo)
    OBVIOUS
  <2>2. CASE u[1] = 1
    <3>1. u[2] \in First(running)
      BY <1>2, <2>2, FirstChange
    <3>2. First(running') = First(running) \ {u[2]}
      BY <1>2, <2>2, FirstChange
    <3>3. First(over') = First(over) \cup {u[2]}
      BY <1>2, <2>2, FirstChange
    <3>4. FirstPool!End(u[2])
      BY ONLY <1>1, <2>1, <3>1, <3>2, <3>3, Zenon
         DEF FirstPool!End, First, FirstVerdict
    <3>. QED  BY <1>2, <3>4 DEF FirstPool!Next
  <2>3. CASE u[1] # 1
    <3>1. First(over') = First(over) /\ First(running') = First(running)
      BY <1>2, <2>3, FirstChange
    <3>. QED  BY <1>1, <2>1, <3>1, FirstStutter
  <2>. QED  BY <2>2, <2>3
<1>5. ASSUME UNCHANGED pool
      PROVE  UNCHANGED FirstPool!vars
  BY <1>1, <1>5, FirstStutter DEF pool
<1>. QED  BY <1>3, <1>4, <1>5 DEF Worker, getVM, getVMFails,
             runSingleClusterCheck, runSingleNodeSingleCheck

\* The pool of the first round, as runChecks and the workers use it, is a
\* CheckBarrier for any sets of checks and nodes: what the round relies on is
\* what CheckPoolRefinement proves of the pool of pool.go.
THEOREM FirstPoolCorrect == Spec => FirstPoolIsBarrier
<1>1. ASSUME RoundInv, [Next]_vars
      PROVE  [FirstPool!Next]_(FirstPool!vars)
  <2>1. CASE RunChecks
    BY <1>1, <2>1, FirstRunChecks
  <2>2. CASE \E u \in Unit : Worker(u)
    BY <1>1, <2>2, FirstWorker
  <2>3. CASE Cancel \/ UNCHANGED vars
    <3>1. UNCHANGED <<todo, running, over, verdict, round, pc>>
      BY <2>3 DEF Cancel, vars, pool
    <3>. QED  BY <3>1, FirstStutter DEF FirstVerdict
  <2>. QED  BY <1>1, <2>1, <2>2, <2>3 DEF Next
<1>. QED  BY <1>1, FirstPoolInit, RoundInvariant, PTL
          DEF Spec, FirstPoolIsBarrier, FirstPool!Spec

=============================================================================
