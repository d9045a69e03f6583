----------------------------- MODULE CheckRound -----------------------------
(***************************************************************************)
(* vSphereChecker.runChecks of pkg/operator/vsphere_check.go, with the     *)
(* result collector (pool.go), the gauges (metrics.go) and the metrics     *)
(* collector (pkg/metrics/collector.go): rounds of checks follow each      *)
(* other in one controller, and work of a round that was given up may      *)
(* still run in a later one.                                               *)
(*                                                                         *)
(* A unit of work is one cluster check, or all node checks of one node.    *)
(* The thread pool is used only through what CheckBarrier promises (every  *)
(* unit runs once, Wait returns when none is left); CheckPool shows that   *)
(* the pool of pool.go keeps those promises.                               *)
(***************************************************************************)
EXTENDS Integers, Sequences, FiniteSets

CONSTANTS
  ClusterCheck,   \* names of the cluster-level checks
  StorageCheck,   \* the one that is CheckStorageClasses
  NodeChecks,     \* sequence of the node-level checks: DefaultNodeChecks
  Node,           \* node objects that may exist
  VSphereNode,    \* those whose providerID starts with vsphere://
  Parallelism,    \* parallelVSPhereCalls
  MaxRounds       \* bound: number of rounds

ASSUME RoundAssumption ==
  /\ StorageCheck \in ClusterCheck
  /\ VSphereNode \subseteq Node
  /\ IsFiniteSet(ClusterCheck) /\ IsFiniteSet(Node)
  /\ Parallelism \in Nat \ {0}
  /\ MaxRounds \in Nat \ {0}

Round == 1..MaxRounds
NodeCheck == {NodeChecks[i] : i \in DOMAIN NodeChecks}
Subject == ClusterCheck \cup Node
Unit == Round \X Subject
Slot == ClusterCheck \cup (NodeCheck \X Node)
Outcome == {"ok", "err"}

\* DefaultNodeChecks is not empty and names no check twice; results of cluster
\* checks and of node checks are told apart.
ASSUME NameAssumption ==
  /\ NodeChecks \in Seq(NodeCheck) /\ NodeChecks # <<>>
  /\ \A i, j \in DOMAIN NodeChecks : NodeChecks[i] = NodeChecks[j] => i = j
  /\ ClusterCheck \cap Node = {}
  /\ \A k \in NodeCheck, n \in Node : <<k, n>> \notin ClusterCheck

VARIABLES
  round,        \* number of the current or last round
  pc,           \* where runChecks is; "idle" outside
  verdict,      \* how each round ended
  session,      \* the vCenter sessions of each round
  toEnqueue,    \* what the current round has still to hand to the pool
  todo,         \* units in the pool, not started
  running,      \* units started by a worker
  over,         \* units that are over
  hasVM,        \* node units that have read their VM
  results,      \* the result collector of each round
  reported,     \* per check, what Collect told the controller last
  clusterGauge, \* vsphere_cluster_check_errors
  nodeGauge,    \* vsphere_node_check_errors
  typesGauge,   \* vsphere_datastore_total: rounds that set one of its labels
  inProgress,   \* Collector.inProgressMetrics: round and check they are of
  published,    \* Collector.currentMetrics
  ctxDone       \* the controller is being shut down

pool == <<todo, running, over>>
gauges == <<clusterGauge, nodeGauge, typesGauge>>
collector == <<inProgress, published>>
vars == <<round, pc, verdict, session, toEnqueue, pool, hasVM, results,
          reported, gauges, collector, ctxDone>>

Init ==
  /\ round = 0
  /\ pc = "idle"
  /\ verdict = [r \in Round |-> "none"]
  /\ session = [r \in Round |-> "none"]
  /\ toEnqueue = {}
  /\ todo = {} /\ running = {} /\ over = {}
  /\ hasVM = {}
  /\ results = [r \in Round |-> [s \in Slot |-> <<>>]]
  /\ reported = <<>>
  /\ clusterGauge = [c \in ClusterCheck |-> "unset"]
  /\ nodeGauge = [s \in NodeCheck \X Node |-> "unset"]
  /\ typesGauge = {}
  /\ inProgress = {} /\ published = {}
  /\ ctxDone = FALSE

-----------------------------------------------------------------------------
(* runChecks                                                               *)

\* The deferred Logout of every vCenter.  A failure, sure with a cancelled
\* context, is only logged: the round gives up the sessions either way, and
\* "ended" is a session that is closed or left behind (Connect has the two).
Logout == session' = [session EXCEPT ![round] = "ended"]

Return(v) ==
  /\ pc' = "idle"
  /\ verdict' = [verdict EXCEPT ![round] = v]

StartMetricCollection == inProgress' = {}
FinishedAllChecks == published' = inProgress

\* FinishCheck of every node check adds its metrics.
finishNodeChecks == inProgress' = inProgress \cup {<<round, k>> : k \in NodeCheck}

\* Mutant: StartMetricCollection is not called.
MutantKeepMetrics ==
  /\ pc = "idle"
  /\ ~ctxDone
  /\ round < MaxRounds
  /\ round' = round + 1
  /\ pc' = "connecting"
  /\ UNCHANGED <<verdict, session, toEnqueue, pool, hasVM, results, reported,
                 gauges, collector, ctxDone>>

\* StartMetricCollection, then connect.  The worker of the controller starts
\* no round once its context is cancelled.
RoundStarts ==
  /\ pc = "idle"
  /\ ~ctxDone
  /\ round < MaxRounds
  /\ round' = round + 1
  /\ pc' = "connecting"
  /\ StartMetricCollection
  /\ UNCHANGED <<verdict, session, toEnqueue, pool, hasVM, results, reported,
                 gauges, published, ctxDone>>

\* Mutant: connect is tried again until it succeeds.
MutantConnectRetries == pc = "connecting" /\ UNCHANGED vars

ConnectFails ==
  /\ pc = "connecting"
  /\ Return("runError")
  /\ UNCHANGED <<round, session, toEnqueue, pool, hasVM, results, reported,
                 gauges, collector, ctxDone>>

Connect ==
  /\ pc = "connecting"
  /\ ~ctxDone
  /\ pc' = "connected"
  /\ session' = [session EXCEPT ![round] = "open"]
  /\ UNCHANGED <<round, verdict, toEnqueue, pool, hasVM, results, reported,
                 gauges, collector, ctxDone>>

\* UserSession or GetInfrastructure fails.
SetupFails ==
  /\ pc = "connected"
  /\ Logout
  /\ Return("runError")
  /\ UNCHANGED <<round, toEnqueue, pool, hasVM, results, reported, gauges,
                 collector, ctxDone>>

\* The pool is made and enqueueClusterChecks begins.
Setup ==
  /\ pc = "connected"
  /\ pc' = "clusterChecks"
  /\ toEnqueue' = ClusterCheck
  /\ UNCHANGED <<round, verdict, session, pool, hasVM, results, reported,
                 gauges, collector, ctxDone>>

\* RunGoroutine, in enqueueClusterChecks or enqueueSingleNodeChecks.
Enqueue(x) ==
  /\ pc \in {"clusterChecks", "nodeChecks"}
  /\ x \in toEnqueue
  /\ toEnqueue' = toEnqueue \ {x}
  /\ todo' = todo \cup {<<round, x>>}
  /\ UNCHANGED <<round, pc, verdict, session, running, over, hasVM, results,
                 reported, gauges, collector, ctxDone>>

\* Mutant: Logout is called, not deferred.
MutantLogoutEarly(nodes) ==
  /\ pc = "clusterChecks"
  /\ toEnqueue = {}
  /\ pc' = "nodeChecks"
  /\ toEnqueue' = nodes \cap VSphereNode
  /\ Logout
  /\ UNCHANGED <<round, verdict, pool, hasVM, results, reported, gauges,
                 collector, ctxDone>>

\* enqueueNodeChecks: ListNodes, StartCheck of every node check, and nodes
\* that are not vSphere VMs are skipped.
ListNodes(nodes) ==
  /\ pc = "clusterChecks"
  /\ toEnqueue = {}
  /\ pc' = "nodeChecks"
  /\ toEnqueue' = nodes \cap VSphereNode
  /\ UNCHANGED <<round, verdict, session, pool, hasVM, results, reported,
                 gauges, collector, ctxDone>>

\* ListNodes fails: the round returns, the cluster checks stay in the pool.
ListNodesFails ==
  /\ pc = "clusterChecks"
  /\ toEnqueue = {}
  /\ FinishedAllChecks
  /\ Logout
  /\ Return("abandoned")
  /\ UNCHANGED <<round, toEnqueue, pool, hasVM, results, reported, gauges,
                 inProgress, ctxDone>>

OfRound(r, units) == {u \in units : u[1] = r}

\* Mutant: Wait gives up after some time, whatever the context says.
MutantWaitTimesOut ==
  /\ pc = "nodeChecks"
  /\ toEnqueue = {}
  /\ FinishedAllChecks
  /\ Logout
  /\ Return("ctxErr")
  /\ UNCHANGED <<round, toEnqueue, pool, hasVM, results, reported, gauges,
                 inProgress, ctxDone>>

WaitExpires ==
  /\ pc = "nodeChecks"
  /\ toEnqueue = {}
  /\ ctxDone
  /\ FinishedAllChecks
  /\ Logout
  /\ Return("ctxErr")
  /\ UNCHANGED <<round, toEnqueue, pool, hasVM, results, reported, gauges,
                 inProgress, ctxDone>>

WaitDone ==
  /\ pc = "nodeChecks"
  /\ toEnqueue = {}
  /\ OfRound(round, todo \cup running) = {}
  /\ pc' = "finishing"
  /\ UNCHANGED <<round, verdict, session, toEnqueue, pool, hasVM, results,
                 reported, gauges, collector, ctxDone>>

\* Collect merges the results of each check that has any.
Collect(res) ==
  LET name(s) == IF s \in ClusterCheck THEN s ELSE s[1]
      found == {s \in Slot : res[s] # <<>>}
      Failed(n) == \E s \in found : name(s) = n
                     /\ \E i \in DOMAIN res[s] : res[s][i] = "err"
  IN  [n \in {name(s) : s \in found} |-> IF Failed(n) THEN "err" ELSE "ok"]

\* FinishedAllChecks publishes what finishNodeChecks added, the sessions are
\* logged out and the controller collects.
Finish ==
  /\ pc = "finishing"
  /\ finishNodeChecks
  /\ published' = inProgress'
  /\ reported' = Collect(results[round])
  /\ Logout
  /\ Return("nil")
  /\ UNCHANGED <<round, toEnqueue, pool, hasVM, results, gauges, ctxDone>>

-----------------------------------------------------------------------------
(* The workers of the pool of some round.                                  *)

\* Mutant: a goroutine for each unit.
MutantNoLimit(u) ==
  /\ u \in todo
  /\ todo' = todo \ {u}
  /\ running' = running \cup {u}
  /\ typesGauge' = IF u[2] = StorageCheck THEN {} ELSE typesGauge
  /\ UNCHANGED <<round, pc, verdict, session, toEnqueue, over, hasVM, results,
                 reported, clusterGauge, nodeGauge, collector, ctxDone>>

\* Mutant: the workers of a round end with it.
MutantWorkersEnd(u) ==
  /\ u \in todo
  /\ u[1] = round /\ pc # "idle"
  /\ Cardinality(OfRound(u[1], running)) < Parallelism
  /\ todo' = todo \ {u}
  /\ running' = running \cup {u}
  /\ typesGauge' = IF u[2] = StorageCheck THEN {} ELSE typesGauge
  /\ UNCHANGED <<round, pc, verdict, session, toEnqueue, over, hasVM, results,
                 reported, clusterGauge, nodeGauge, collector, ctxDone>>

\* Mutant: the gauge is not reset at all.
MutantNoReset(u) ==
  /\ u \in todo
  /\ Cardinality(OfRound(u[1], running)) < Parallelism
  /\ todo' = todo \ {u}
  /\ running' = running \cup {u}
  /\ UNCHANGED <<round, pc, verdict, session, toEnqueue, over, hasVM,
                 results, reported, gauges, collector, ctxDone>>

\* A worker takes the unit.  CheckStorageClasses begins with
\* dataStoreTypesMetric.Reset().
StartUnit(u) ==
  /\ u \in todo
  /\ Cardinality(OfRound(u[1], running)) < Parallelism
  /\ todo' = todo \ {u}
  /\ running' = running \cup {u}
  /\ typesGauge' = IF u[2] = StorageCheck THEN {} ELSE typesGauge
  /\ UNCHANGED <<round, pc, verdict, session, toEnqueue, over, hasVM, results,
                 reported, clusterGauge, nodeGauge, collector, ctxDone>>

UnitOver(u) ==
  /\ running' = running \ {u}
  /\ over' = over \cup {u}
  /\ UNCHANGED todo

\* A vSphere call of round r needs a session, which a failed Logout leaves
\* usable, and a context that is not cancelled.
Possible(r) == IF session[r] # "none" /\ ~ctxDone THEN Outcome ELSE {"err"}

AddResult(r, slots, o) ==
  results' = [results EXCEPT ![r] =
                [s \in Slot |-> IF s \in slots THEN Append(@[s], o) ELSE @[s]]]

\* CheckStorageClasses ends by setting the gauge, for the types it found; it
\* does not get there when the infrastructure or the classes cannot be read.
SetTypes(u, o) ==
  IF u[2] # StorageCheck THEN {typesGauge}
  ELSE {typesGauge \cup {u[1]}} \cup (IF o = "err" THEN {typesGauge} ELSE {})

\* Mutant: the gauge is not reset when the check passes.
MutantClusterGaugeStays(u, o) ==
  /\ u \in running
  /\ u[2] \in ClusterCheck
  /\ clusterGauge' = [clusterGauge EXCEPT ![u[2]] = IF o = "ok" THEN @ ELSE "1"]
  /\ AddResult(u[1], {u[2]}, o)
  /\ UnitOver(u)
  /\ typesGauge' \in SetTypes(u, o)
  /\ UNCHANGED <<round, pc, verdict, session, toEnqueue, hasVM, reported,
                 nodeGauge, collector, ctxDone>>

\* runSingleClusterCheck.  A check that makes no vSphere call may pass
\* whatever the session is, so both outcomes are possible.
runSingleClusterCheck(u, o) ==
  /\ u \in running
  /\ u[2] \in ClusterCheck
  /\ clusterGauge' = [clusterGauge EXCEPT ![u[2]] = IF o = "ok" THEN "0" ELSE "1"]
  /\ AddResult(u[1], {u[2]}, o)
  /\ UnitOver(u)
  /\ typesGauge' \in SetTypes(u, o)
  /\ UNCHANGED <<round, pc, verdict, session, toEnqueue, hasVM, reported,
                 nodeGauge, collector, ctxDone>>

\* Mutant: only the first check is marked as failed.
MutantOneResult(u) ==
  /\ u \in running \ hasVM
  /\ u[2] \in Node
  /\ AddResult(u[1], {<<NodeChecks[1], u[2]>>}, "err")
  /\ UnitOver(u)
  /\ UNCHANGED <<round, pc, verdict, session, toEnqueue, hasVM, reported,
                 gauges, collector, ctxDone>>

\* enqueueSingleNodeChecks, the closure: getVM fails, and all checks of the
\* node are marked as failed.
getVMFails(u) ==
  /\ u \in running \ hasVM
  /\ u[2] \in Node
  /\ AddResult(u[1], NodeCheck \X {u[2]}, "err")
  /\ UnitOver(u)
  /\ UNCHANGED <<round, pc, verdict, session, toEnqueue, hasVM, reported,
                 gauges, collector, ctxDone>>

getVM(u) ==
  /\ u \in running \ hasVM
  /\ u[2] \in Node
  /\ "ok" \in Possible(u[1])
  /\ hasVM' = hasVM \cup {u}
  /\ UNCHANGED <<round, pc, verdict, session, toEnqueue, pool, results,
                 reported, gauges, collector, ctxDone>>

\* The node checks of one node run one after the other.
Turn(u, i) ==
  /\ u \in hasVM
  /\ \A j \in DOMAIN NodeChecks :
       results[u[1]][<<NodeChecks[j], u[2]>>] # <<>> <=> j < i

\* Mutant: the gauge is not reset when the check passes.
MutantNodeGaugeStays(u, i, o) ==
  /\ u \in running
  /\ Turn(u, i)
  /\ nodeGauge' = [nodeGauge EXCEPT ![<<NodeChecks[i], u[2]>>] =
                     IF o = "ok" THEN @ ELSE "1"]
  /\ AddResult(u[1], {<<NodeChecks[i], u[2]>>}, o)
  /\ IF i = Len(NodeChecks) THEN UnitOver(u) ELSE UNCHANGED pool
  /\ UNCHANGED <<round, pc, verdict, session, toEnqueue, hasVM, reported,
                 clusterGauge, typesGauge, collector, ctxDone>>

runSingleNodeSingleCheck(u, i, o) ==
  /\ u \in running
  /\ Turn(u, i)
  /\ nodeGauge' = [nodeGauge EXCEPT ![<<NodeChecks[i], u[2]>>] =
                     IF o = "ok" THEN "0" ELSE "1"]
  /\ AddResult(u[1], {<<NodeChecks[i], u[2]>>}, o)
  /\ IF i = Len(NodeChecks) THEN UnitOver(u) ELSE UNCHANGED pool
  /\ UNCHANGED <<round, pc, verdict, session, toEnqueue, hasVM, reported,
                 clusterGauge, typesGauge, collector, ctxDone>>

Cancel ==
  /\ ~ctxDone
  /\ ctxDone' = TRUE
  /\ UNCHANGED <<round, pc, verdict, session, toEnqueue, pool, hasVM,
                 results, reported, gauges, collector>>

-----------------------------------------------------------------------------
RunChecks ==
  \/ RoundStarts \/ Connect \/ ConnectFails \/ Setup \/ SetupFails
  \/ \E x \in Subject : Enqueue(x)
  \/ \E nodes \in SUBSET Node : ListNodes(nodes)
  \/ ListNodesFails \/ WaitDone \/ WaitExpires \/ Finish

Worker(u) ==
  \/ StartUnit(u) \/ getVM(u) \/ getVMFails(u)
  \/ \E o \in Outcome :
       \/ runSingleClusterCheck(u, o)
       \/ \E i \in DOMAIN NodeChecks : runSingleNodeSingleCheck(u, i, o)

\* The last round is over; the process goes on with other things.
Quiet == pc = "idle" /\ (ctxDone \/ round = MaxRounds)

Next ==
  \/ RunChecks
  \/ \E u \in Unit : Worker(u)
  \/ Cancel
  \/ Quiet /\ UNCHANGED vars

\* runChecks has handed over all its work and waits.
Waits == pc = "nodeChecks" /\ toEnqueue = {}

\* The Go scheduler starts what can start.  Nothing makes a call to vCenter
\* return, and runChecks has no deadline: UserSession, Logout and calls of
\* several checks have no timeout.  But the select of Wait sees a cancelled
\* context, and Logout with that context returns.
Fairness ==
  /\ WF_vars(RoundStarts \/ WaitDone)
  /\ WF_vars(ctxDone /\ (Waits \/ pc = "finishing") /\ RunChecks)
  /\ \A u \in Unit : WF_vars(StartUnit(u))

Spec == Init /\ [][Next]_vars
FairSpec == Spec /\ Fairness

-----------------------------------------------------------------------------
(* Properties.                                                             *)

TypeOK ==
  /\ round \in 0..MaxRounds
  /\ pc \in {"idle", "connecting", "connected", "clusterChecks",
             "nodeChecks", "finishing"}
  /\ verdict \in [Round -> {"none", "nil", "ctxErr", "abandoned", "runError"}]
  /\ session \in [Round -> {"none", "open", "ended"}]
  /\ toEnqueue \in SUBSET Subject
  /\ todo \in SUBSET Unit
  /\ running \in SUBSET Unit
  /\ over \in SUBSET Unit
  /\ todo \cap running = {} /\ (todo \cup running) \cap over = {}
  /\ hasVM \in SUBSET Unit
  /\ results \in [Round -> [Slot -> Seq(Outcome)]]
  /\ DOMAIN reported \in SUBSET (ClusterCheck \cup NodeCheck)
  /\ \A n \in DOMAIN reported : reported[n] \in Outcome
  /\ clusterGauge \in [ClusterCheck -> {"unset", "0", "1"}]
  /\ nodeGauge \in [NodeCheck \X Node -> {"unset", "0", "1"}]
  /\ typesGauge \in SUBSET Round
  /\ inProgress \in SUBSET (Round \X NodeCheck)
  /\ published \in SUBSET (Round \X NodeCheck)
  /\ ctxDone \in BOOLEAN

NodeUnits == {u \in Unit : u[2] \in Node}

\* The promise of ResultCollector.results: when a round ends with nil, each
\* cluster check has one result, and each node check one for every node that
\* was handed to the pool, although many goroutines added them.
ResultsComplete ==
  \A r \in Round : verdict[r] = "nil" =>
    /\ \A c \in ClusterCheck : Len(results[r][c]) = 1
    /\ \A k \in NodeCheck, n \in Node :
         Len(results[r][<<k, n>>]) = IF <<r, n>> \in over THEN 1 ELSE 0

\* The contract of NodeCheck (check/interface.go): StartCheck comes before
\* and FinishCheck after every CheckNode of the round, and only one round is
\* running at a time, although rounds are given up with work left in the pool.
NodeCheckRounds ==
  [][/\ pc # "nodeChecks" /\ pc' = "nodeChecks"
          => (todo \cup running) \cap NodeUnits = {}
     /\ pc = "finishing" /\ pc' = "idle"
          => (todo \cup running) \cap NodeUnits = {}]_vars

\* Only the work of an abandoned or expired round runs without a session: a
\* round that waited for its checks logs out after the last of them.
SessionOutlivesChecks ==
  \A u \in todo \cup running :
    session[u[1]] # "open" => verdict[u[1]] \in {"abandoned", "ctxErr"}

\* What a scrape sees is nothing, or all node metrics of one round that ran
\* to its end: never of two rounds, never of a round that is still going on.
MetricsOfOneRound ==
  published # {} =>
    \E r \in Round : verdict[r] = "nil" /\ published = {r} \X NodeCheck

\* Every call to vCenter returns: no step of the round and no unit of work
\* stays for ever where it is.
CallsReturn == WF_vars(RunChecks) /\ \A u \in Unit : WF_vars(Worker(u))

\* A round that was started ends if no call hangs, however connect, the API
\* server and the checks answer.  A round that waits for its checks ends when
\* the context is cancelled, although checks may hang.
RoundsEnd ==
  /\ CallsReturn => (pc # "idle" ~> pc = "idle")
  /\ ctxDone /\ Waits ~> pc = "idle"

\* If no call hangs no work is left in a pool for ever, in that of a round that
\* was given up neither: the workers outlive the round.
WorkEnds == CallsReturn => <>[](todo \cup running = {})

Ended == pc = "idle" /\ round > 0 /\ verdict[round] = "nil"
Undisturbed == Ended /\ \A r \in 1..(round - 1) : verdict[r] # "abandoned"
GaugeOf(res) == IF res = <<"err">> THEN "1" ELSE "0"

\* After a round that ran to its end, vsphere_node_check_errors of a node tells
\* the outcome of each check the round ran on the node, in spite of what
\* earlier rounds left in their pools.  (When the VM could not be read no check
\* ran: all are reported as failed, and the gauges keep their old values.)
NodeGaugeTellsRound ==
  Ended => \A k \in NodeCheck, n \in Node : <<round, n>> \in hasVM =>
    nodeGauge[<<k, n>>] = GaugeOf(results[round][<<k, n>>])

\* After a round that ran to its end, vsphere_cluster_check_errors tells its
\* outcome, unless an earlier round was abandoned: cluster checks of that one
\* may still run, and write the gauge last.
ClusterGaugeTellsRound ==
  Undisturbed =>
    \A c \in ClusterCheck : clusterGauge[c] = GaugeOf(results[round][c])

\* After such a round vsphere_datastore_total holds no type that only an
\* earlier round found: the reset at the beginning of CheckStorageClasses and
\* the values set at its end are of one round.
DatastoreTypesOfRound == Undisturbed => typesGauge \subseteq {round}

\* The pool of the first round, as the round uses it, is a CheckBarrier: the
\* round relies on nothing that CheckPool does not provide.
FirstPool == INSTANCE CheckBarrier WITH
  Task <- Subject,
  waiting <- {u[2] : u \in OfRound(1, todo)},
  running <- {u[2] : u \in OfRound(1, running)},
  over <- {u[2] : u \in OfRound(1, over)},
  verdict <- IF verdict[1] = "none" /\ round = 1 /\ pc = "finishing"
             THEN "nil"
             ELSE IF verdict[1] = "runError" THEN "abandoned" ELSE verdict[1]
FirstPoolIsBarrier == FirstPool!Spec

=============================================================================
