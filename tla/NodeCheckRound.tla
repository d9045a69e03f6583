--------------------------- MODULE NodeCheckRound ---------------------------
(***************************************************************************)
(* The node-level checks of one round, running in parallel for different   *)
(* nodes and sharing state: the ClusterInfo of the round                   *)
(* (pkg/util/cluster_info.go, behind one lock), the performance counters of *)
(* CheckNodeDiskPerf (filled under a lock, read without) and the maps in   *)
(* which CheckComputeClusterPermissions and CheckResourcePoolPermissions   *)
(* remember what they looked at (no lock).                                 *)
(*                                                                         *)
(* The checks of a node run in the order of DefaultNodeChecks.  Those that *)
(* only look at the VM or the node (disk UUID, provider ID) keep no state  *)
(* and are left out.  Whether the performance or a permission check        *)
(* reports an error changes nothing for the other checks: CheckRound has   *)
(* both outcomes.                                                          *)
(*                                                                         *)
(* A host of vCenter v is named by its managed object reference value, for *)
(* instance host-10: unique in a vCenter, not between vCenters.            *)
(***************************************************************************)
EXTENDS Integers, FiniteSets

CONSTANTS
  Node,       \* the vSphere nodes of the round
  Master,     \* those that are labelled as masters
  VCenter,    \* the connected vCenters
  HostRef,    \* managed object reference values of hosts
  NoHost,     \* vm.runtime.host is empty
  HwVersion,  \* hardware versions of VMs
  EsxiVersion \* versions of hosts

\* The version of a host that was marked and whose version is not known yet.
InProgress == ""

ASSUME NodeAssumption ==
  /\ IsFiniteSet(Node)
  /\ Master \subseteq Node
  /\ NoHost \notin HostRef
  /\ InProgress \notin EsxiVersion

CbtKey == {"enabled", "disabled"}

VARIABLES
  \* The cluster: where the VM of each node runs.
  vCenterOf, hostOf,
  \* ClusterInfo.
  esxiVersions,   \* host reference -> version
  hwVersions, cbtEnabled,
  perfFilled,     \* perfMetricIDMap has entries; it survives the round
  \* Fields of the two permission checks.
  computeClusters, \* cluster names
  resourcePools,   \* resource pool paths
  \* The goroutines.
  pc,             \* where the work of each node is
  failed,         \* nodes whose CollectNodeESXiVersion returned an error
  crashed,        \* the process died
  loaded,         \* nodes whose check loaded the properties of their host
  esxiMetric      \* what FinishCheck reports: number of hosts per version

topology == <<vCenterOf, hostOf>>
clusterInfo == <<esxiVersions, hwVersions, cbtEnabled>>
maps == <<perfFilled, computeClusters, resourcePools>>
vars == <<topology, clusterInfo, maps, pc, failed, crashed, loaded, esxiMetric>>

\* The compute cluster of a host.  Each vCenter has one, and all have the
\* same name: names are unique in a datacenter only.
ClusterName == "cluster"

RealHost(n) == <<vCenterOf[n], hostOf[n]>>

\* A round: NewClusterInfo, and StartCheck of both permission checks.
Init ==
  /\ vCenterOf \in [Node -> VCenter]
  /\ hostOf \in [Node -> HostRef \cup {NoHost}]
  /\ esxiVersions = [h \in {} |-> InProgress]
  /\ hwVersions = [v \in HwVersion |-> 0]
  /\ cbtEnabled = [k \in CbtKey |-> 0]
  /\ perfFilled \in BOOLEAN
  /\ computeClusters = {}
  /\ resourcePools = {}
  /\ pc = [n \in Node |-> "hw"]
  /\ failed = {}
  /\ crashed = FALSE
  /\ loaded = {}
  /\ esxiMetric = [v \in {} |-> 0]

Goto(n, to) == pc' = [pc EXCEPT ![n] = to]
Fails(n) == failed' = failed \cup {n}

-----------------------------------------------------------------------------
(* CollectNodeHWVersion and CollectNodeCBT count under the lock.            *)

SetHardwareVersion(n, v) ==
  /\ pc[n] = "hw"
  /\ hwVersions' = [hwVersions EXCEPT ![v] = @ + 1]
  /\ Goto(n, "esxi")
  /\ UNCHANGED <<topology, esxiVersions, cbtEnabled, maps, failed, crashed,
                 loaded, esxiMetric>>

SetCbtData(n, k) ==
  /\ pc[n] = "cbt"
  /\ cbtEnabled' = [cbtEnabled EXCEPT ![k] = @ + 1]
  /\ Goto(n, "done")
  /\ UNCHANGED <<topology, esxiVersions, hwVersions, maps, failed, crashed,
                 loaded, esxiMetric>>

-----------------------------------------------------------------------------
(* CollectNodeESXiVersion.                                                 *)

EsxiNoHost(n) ==
  /\ pc[n] = "esxi"
  /\ hostOf[n] = NoHost
  /\ Fails(n)
  /\ Goto(n, "perf")
  /\ UNCHANGED <<topology, clusterInfo, maps, crashed, loaded,
                 esxiMetric>>

\* Mutant: the host is looked up and not marked.
MutantNoMark(n) ==
  /\ pc[n] = "esxi"
  /\ hostOf[n] # NoHost
  /\ Goto(n, IF hostOf[n] \in DOMAIN esxiVersions THEN "perf" ELSE "esxiLoad")
  /\ UNCHANGED <<topology, clusterInfo, maps, failed, crashed, loaded, esxiMetric>>

\* One critical section: look the host up, and mark it when it is new.
MarkHostForProcessing(n) ==
  /\ pc[n] = "esxi"
  /\ hostOf[n] # NoHost
  /\ IF hostOf[n] \in DOMAIN esxiVersions
     THEN Goto(n, "perf") /\ UNCHANGED esxiVersions
     ELSE /\ esxiVersions' = [h \in DOMAIN esxiVersions \cup {hostOf[n]} |->
                                IF h = hostOf[n] THEN InProgress
                                ELSE esxiVersions[h]]
          /\ Goto(n, "esxiLoad")
  /\ UNCHANGED <<topology, hwVersions, cbtEnabled, maps, failed, crashed,
                 loaded, esxiMetric>>

\* The properties are loaded from the vCenter of the node, then stored.
SetHostVersion(n, version) ==
  /\ pc[n] = "esxiLoad"
  /\ esxiVersions' = [esxiVersions EXCEPT ![hostOf[n]] = version]
  /\ loaded' = loaded \cup {n}
  /\ Goto(n, "perf")
  /\ UNCHANGED <<topology, hwVersions, cbtEnabled, maps, failed, crashed, esxiMetric>>

\* Mutants: the error is only logged; it ends the checks of the node.
MutantLoadErrorLogged(n) ==
  /\ pc[n] = "esxiLoad"
  /\ Goto(n, "perf")
  /\ UNCHANGED <<topology, clusterInfo, maps, failed, crashed, loaded, esxiMetric>>

MutantLoadErrorEnds(n) ==
  /\ pc[n] = "esxiLoad"
  /\ Fails(n)
  /\ Goto(n, "done")
  /\ UNCHANGED <<topology, clusterInfo, maps, crashed, loaded,
                 esxiMetric>>

\* The property collector fails, or host.config is nil.  (GetVCenter answers
\* as it did when the VM of the node was read.)
EsxiLoadFails(n) ==
  /\ pc[n] = "esxiLoad"
  /\ Fails(n)
  /\ Goto(n, "perf")
  /\ UNCHANGED <<topology, clusterInfo, maps, crashed, loaded,
                 esxiMetric>>

-----------------------------------------------------------------------------
(* CheckNodeDiskPerf.  BuildCounterIdMap fills the global map under         *)
(* buildCounterIDMapLock, unless it has entries; GetPerfMetric reads it     *)
(* after the unlock.  Errors end the check with success.                    *)

\* The only metric is checked on masters, schedulable or not.
checkNodePerf(n) == n \in Master

PerfSkipped(n) ==
  /\ pc[n] = "perf"
  /\ ~checkNodePerf(n)
  /\ Goto(n, "cluster")
  /\ UNCHANGED <<topology, clusterInfo, maps, failed, crashed, loaded, esxiMetric>>

PerfLocked == \E m \in Node : pc[m] \in {"perfBuild", "perfWrite"}

\* Mutant: the map is built by every node.
MutantBuildAgain(n) ==
  /\ pc[n] = "perf"
  /\ checkNodePerf(n)
  /\ ~PerfLocked
  /\ Goto(n, "perfBuild")
  /\ UNCHANGED <<topology, clusterInfo, maps, failed, crashed, loaded, esxiMetric>>

\* Lock, and unlock at once when the map has entries.
PerfLock(n) ==
  /\ pc[n] = "perf"
  /\ checkNodePerf(n)
  /\ ~PerfLocked
  /\ Goto(n, IF perfFilled THEN "perfRead" ELSE "perfBuild")
  /\ UNCHANGED <<topology, clusterInfo, maps, failed, crashed, loaded, esxiMetric>>

\* One of the two queries fails; or they answer, and the VM has counters to
\* write or none.
PerfBuild(n) ==
  /\ pc[n] = "perfBuild"
  /\ \E to \in {"cluster", "perfWrite", "perfRead"} : Goto(n, to)
  /\ UNCHANGED <<topology, clusterInfo, maps, failed, crashed, loaded, esxiMetric>>

PerfWrite(n) ==
  /\ pc[n] = "perfWrite"
  /\ perfFilled' = TRUE
  /\ Goto(n, "perfRead")
  /\ UNCHANGED <<topology, clusterInfo, computeClusters, resourcePools, failed,
                 crashed, loaded, esxiMetric>>

\* GetPerfMetric after the unlock, the query and the comparison.
PerfRead(n) ==
  /\ pc[n] = "perfRead"
  /\ Goto(n, "cluster")
  /\ UNCHANGED <<topology, clusterInfo, maps, failed, crashed, loaded, esxiMetric>>

-----------------------------------------------------------------------------
(* CheckComputeClusterPermissions.  The map is read, then written; another *)
(* node may be in the middle of its own access.                            *)

\* vm.Runtime.Host.Reference() on an empty host is a nil dereference.
ClusterNoHost(n) ==
  /\ pc[n] = "cluster"
  /\ hostOf[n] = NoHost
  /\ crashed' = TRUE
  /\ UNCHANGED <<topology, clusterInfo, maps, pc, failed, loaded,
                 esxiMetric>>

\* The cluster cannot be obtained (reported as success), or reading it was
\* all that was wanted because the config gives the node a resource pool.
ClusterSkipped(n) ==
  /\ pc[n] = "cluster"
  /\ hostOf[n] # NoHost
  /\ Goto(n, "pool")
  /\ UNCHANGED <<topology, clusterInfo, maps, failed, crashed, loaded, esxiMetric>>

ClusterObtained(n) ==
  /\ pc[n] = "cluster"
  /\ hostOf[n] # NoHost
  /\ Goto(n, "clusterRead")
  /\ UNCHANGED <<topology, clusterInfo, maps, failed, crashed, loaded, esxiMetric>>

ClusterLookup(n) ==
  /\ pc[n] = "clusterRead"
  /\ Goto(n, IF ClusterName \in computeClusters THEN "pool" ELSE "clusterWrite")
  /\ UNCHANGED <<topology, clusterInfo, maps, failed, crashed, loaded, esxiMetric>>

\* Write, then compare the privileges.
ClusterRemember(n) ==
  /\ pc[n] = "clusterWrite"
  /\ computeClusters' = computeClusters \cup {ClusterName}
  /\ Goto(n, "pool")
  /\ UNCHANGED <<topology, clusterInfo, perfFilled, resourcePools, failed,
                 crashed, loaded, esxiMetric>>

-----------------------------------------------------------------------------
(* CheckResourcePoolPermissions.  The lookup only chooses a log message.   *)

\* The VM is in no pool or in the root pool of its cluster, the pool cannot be
\* obtained, or reading its name fails.
PoolSkipped(n) ==
  /\ pc[n] = "pool"
  /\ Goto(n, "cbt")
  /\ UNCHANGED <<topology, clusterInfo, maps, failed, crashed, loaded,
                 esxiMetric>>

PoolObtained(n) ==
  /\ pc[n] = "pool"
  /\ Goto(n, "poolRead")
  /\ UNCHANGED <<topology, clusterInfo, maps, failed, crashed, loaded, esxiMetric>>

PoolLookup(n) ==
  /\ pc[n] = "poolRead"
  /\ Goto(n, "poolWrite")
  /\ UNCHANGED <<topology, clusterInfo, maps, failed, crashed, loaded, esxiMetric>>

PoolRemember(n) ==
  /\ pc[n] = "poolWrite"
  /\ resourcePools' = resourcePools \cup {"pool"}
  /\ Goto(n, "cbt")
  /\ UNCHANGED <<topology, clusterInfo, perfFilled, computeClusters, failed,
                 crashed, loaded, esxiMetric>>

-----------------------------------------------------------------------------
\* Two goroutines are inside a map at the same time and one of them writes.
MapRace ==
  \E n, m \in Node : n # m /\
    \/ pc[n] = "perfWrite" /\ pc[m] = "perfRead"
    \/ pc[n] = "clusterWrite" /\ pc[m] \in {"clusterRead", "clusterWrite"}
    \/ pc[n] = "poolWrite" /\ pc[m] \in {"poolRead", "poolWrite"}

\* The Go runtime may notice ("concurrent map read and map write") and end
\* the process; or the accesses go through.
RaceDetected ==
  /\ MapRace
  /\ crashed' = TRUE
  /\ UNCHANGED <<topology, clusterInfo, maps, pc, failed, loaded,
                 esxiMetric>>

AllDone == \A n \in Node : pc[n] = "done"

\* Mutant: the hosts of a version are set to one and not added up.
MutantCountVersions ==
  /\ AllDone
  /\ LET versions == {esxiVersions[h] : h \in DOMAIN esxiVersions} IN
     esxiMetric' = [v \in versions |-> 1]
  /\ pc' = [n \in Node |-> "finished"]
  /\ UNCHANGED <<topology, clusterInfo, maps, failed, crashed, loaded>>

\* finishNodeChecks, for CollectNodeESXiVersion: count the hosts per version.
FinishCheck ==
  /\ AllDone
  /\ LET versions == {esxiVersions[h] : h \in DOMAIN esxiVersions} IN
     esxiMetric' = [v \in versions |->
       Cardinality({h \in DOMAIN esxiVersions : esxiVersions[h] = v})]
  /\ pc' = [n \in Node |-> "finished"]
  /\ UNCHANGED <<topology, clusterInfo, maps, failed, crashed, loaded>>

Finished == \A n \in Node : pc[n] = "finished"

CheckNode(n) ==
  \/ \E v \in HwVersion : SetHardwareVersion(n, v)
  \/ EsxiNoHost(n) \/ MarkHostForProcessing(n) \/ EsxiLoadFails(n)
  \/ \E version \in EsxiVersion : SetHostVersion(n, version)
  \/ PerfSkipped(n) \/ PerfLock(n) \/ PerfBuild(n) \/ PerfWrite(n) \/ PerfRead(n)
  \/ ClusterNoHost(n) \/ ClusterSkipped(n) \/ ClusterObtained(n)
  \/ ClusterLookup(n) \/ ClusterRemember(n)
  \/ PoolSkipped(n) \/ PoolObtained(n) \/ PoolLookup(n) \/ PoolRemember(n)
  \/ \E k \in CbtKey : SetCbtData(n, k)

Next ==
  \/ ~crashed /\ ((\E n \in Node : CheckNode(n)) \/ RaceDetected \/ FinishCheck)
  \/ (crashed \/ Finished) /\ UNCHANGED vars

Spec == Init /\ [][Next]_vars

-----------------------------------------------------------------------------
(* Properties.                                                             *)

TypeOK ==
  /\ vCenterOf \in [Node -> VCenter]
  /\ hostOf \in [Node -> HostRef \cup {NoHost}]
  /\ DOMAIN esxiVersions \in SUBSET HostRef
  /\ \A h \in DOMAIN esxiVersions :
       esxiVersions[h] \in EsxiVersion \cup {InProgress}
  /\ hwVersions \in [HwVersion -> 0..Cardinality(Node)]
  /\ cbtEnabled \in [CbtKey -> 0..Cardinality(Node)]
  /\ perfFilled \in BOOLEAN
  /\ computeClusters \in SUBSET {ClusterName}
  /\ resourcePools \in SUBSET {"pool"}
  /\ pc \in [Node -> {"hw", "esxi", "esxiLoad", "perf", "perfBuild", "perfWrite",
                      "perfRead", "cluster", "clusterRead",
                      "clusterWrite", "pool", "poolRead",
                      "poolWrite", "cbt", "done", "finished"}]
  /\ failed \in SUBSET Node
  /\ crashed \in BOOLEAN
  /\ loaded \in SUBSET Node

\* However the nodes of a host interleave, the properties of the host are
\* loaded for one of them only.
HostLoadedOnce ==
  \A n, m \in Node : n # m /\ hostOf[n] = hostOf[m] /\ hostOf[n] # NoHost =>
    ~({n, m} \subseteq loaded \cup {k \in Node : pc[k] = "esxiLoad"})

\* A host whose version stays empty, because the node that marked it could
\* not load it while others relied on the mark, is not passed over in
\* silence: one of its nodes has a failed check in the round.
EmptyVersionReported ==
  AllDone => \A h \in DOMAIN esxiVersions : esxiVersions[h] = InProgress =>
    \E n \in Node : hostOf[n] = h /\ n \in failed

\* One mark for everything that was counted: there are as many as the counts
\* add up to.
Tally(counts) == UNION {{k} \X (1..counts[k]) : k \in DOMAIN counts}

\* At the end of a round each node is counted under one hardware version and
\* one CBT setting, whatever the other nodes did meanwhile and whichever of
\* its other checks failed.
CountsExact ==
  AllDone =>
    /\ Cardinality(Tally(hwVersions)) = Cardinality(Node)
    /\ Cardinality(Tally(cbtEnabled)) = Cardinality(Node)

\* The metric counts each ESXi host that runs a node once, when no load failed
\* and no two hosts have the same reference value, as in a single vCenter.
HostsCounted ==
  LET unique == \A n, m \in Node :
                  hostOf[n] = hostOf[m] => vCenterOf[n] = vCenterOf[m]
  IN  Finished /\ unique /\ failed = {} =>
        Cardinality(Tally(esxiMetric)) = Cardinality({RealHost(n) : n \in Node})

\* A node that was told its counters are there (by the length of the map, or
\* because it wrote them) reads them while nobody writes: the only reader a
\* writer can meet is a node whose own build found nothing.
PerfMapGuarded ==
  \A n, m \in Node : n # m /\ pc[n] = "perfWrite" =>
    pc[m] # "perfWrite" /\ (pc[m] = "perfRead" => ~perfFilled)

\* interface.go: "Multiple CheckNodes can run in parallel, each for a
\* different node!"  So two of them never race for the state of a check.
NoMapRace == ~crashed => ~MapRace

=============================================================================
