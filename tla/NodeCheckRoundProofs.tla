------------------------- MODULE NodeCheckRoundProofs -------------------------
(***************************************************************************)
(* Safety of the node checks of one round, for any set of nodes and any    *)
(* placement of their VMs on hosts and vCenters.                           *)
(***************************************************************************)
EXTENDS NodeCheckRound, FiniteSetTheorems, FunctionTheorems, TLAPS

-----------------------------------------------------------------------------
(* The inductive invariant.                                                *)

Locked == {"perfBuild", "perfWrite"}
Mid == {"perf", "perfBuild", "perfWrite", "perfRead", "cluster", "clusterRead",
        "clusterWrite", "pool", "poolRead", "poolWrite", "cbt"}
Control == {"hw", "esxi", "esxiLoad", "done", "finished"} \cup Mid

NodeTypes ==
  /\ vCenterOf \in [Node -> VCenter]
  /\ hostOf \in [Node -> HostRef \cup {NoHost}]
  /\ DOMAIN esxiVersions \in SUBSET HostRef
  /\ \A h \in DOMAIN esxiVersions :
       esxiVersions[h] \in EsxiVersion \cup {InProgress}
  /\ hwVersions \in [HwVersion -> Nat]
  /\ cbtEnabled \in [CbtKey -> Nat]
  /\ perfFilled \in BOOLEAN
  /\ computeClusters \in SUBSET {ClusterName}
  /\ resourcePools \in SUBSET {"pool"}
  /\ pc \in [Node -> Control]
  /\ failed \in SUBSET Node
  /\ crashed \in BOOLEAN
  /\ loaded \in SUBSET Node

\* Every member of S was counted once.
Counted(counts, S) ==
  /\ IsFiniteSet(Tally(counts)) /\ Cardinality(Tally(counts)) = Cardinality(S)
  /\ \A k \in DOMAIN counts : counts[k] <= Cardinality(S)

HwDone == {n \in Node : pc[n] # "hw"}
CbtDone == {n \in Node : pc[n] \in {"done", "finished"}}
CountInv == Counted(hwVersions, HwDone) /\ Counted(cbtEnabled, CbtDone)

\* The host of a node is marked from MarkHostForProcessing on, and only hosts
\* of nodes are.
MarkInv ==
  /\ \A n \in Node : pc[n] \notin {"hw", "esxi"} =>
       n \in failed \/ hostOf[n] \in DOMAIN esxiVersions
  /\ \A n \in Node : n \in loaded \/ pc[n] = "esxiLoad" =>
       hostOf[n] \in DOMAIN esxiVersions
  /\ \A h \in DOMAIN esxiVersions : \E n \in Node : hostOf[n] = h

\* A version that is not known is still being loaded, or the load failed.
EmptyInv ==
  \A h \in DOMAIN esxiVersions : esxiVersions[h] = InProgress =>
    \E n \in Node : hostOf[n] = h /\ (n \in failed \/ pc[n] = "esxiLoad")

\* One node holds buildCounterIDMapLock, and then the map has no entries.
LockInv ==
  \A n \in Node : pc[n] \in Locked =>
    ~perfFilled /\ \A m \in Node : m # n => pc[m] \notin Locked

HostsPerVersion ==
  [v \in {esxiVersions[h] : h \in DOMAIN esxiVersions} |->
     Cardinality({h \in DOMAIN esxiVersions : esxiVersions[h] = v})]
EsxiMetricInv == Finished => esxiMetric = HostsPerVersion

NodeInv ==
  /\ NodeTypes /\ CountInv /\ MarkInv /\ EmptyInv /\ HostLoadedOnce /\ LockInv
  /\ EsxiMetricInv

-----------------------------------------------------------------------------
(* Counting.                                                               *)

LEMMA TallyMember ==
  ASSUME NEW c
  PROVE  \A x : x \in Tally(c) <=> \E k \in DOMAIN c : \E i \in 1..c[k] : x = <<k, i>>
BY DEF Tally

\* Nothing is counted yet.
LEMMA CountedNone ==
  ASSUME NEW K
  PROVE  Counted([k \in K |-> 0], {})
<1>1. Tally([k \in K |-> 0]) = {}
  BY TallyMember
<1>. QED  BY <1>1, FS_EmptySet DEF Counted

\* One more is counted, under any key.
LEMMA CountedOneMore ==
  ASSUME NEW K, NEW c \in [K -> Nat], NEW k \in K, NEW S, NEW n, n \notin S,
         IsFiniteSet(S), Counted(c, S)
  PROVE  Counted([c EXCEPT ![k] = @ + 1], S \cup {n})
<1>. DEFINE d == [c EXCEPT ![k] = @ + 1]
<1>. DEFINE mark == <<k, c[k] + 1>>
<1>1. /\ d \in [K -> Nat] /\ d[k] = c[k] + 1 /\ c[k] \in Nat
      /\ \A j \in K : j # k => d[j] = c[j]
  OBVIOUS
<1>2. /\ IsFiniteSet(S \cup {n}) /\ Cardinality(S \cup {n}) = Cardinality(S) + 1
      /\ Cardinality(S) \in Nat
  BY FS_AddElement, FS_CardinalityType
<1>3. mark \notin Tally(c)
  BY <1>1, TallyMember
<1>. HIDE DEF d
<1>4. Tally(d) = Tally(c) \cup {mark}
  <2>1. ASSUME NEW x \in Tally(d)
        PROVE  x \in Tally(c) \cup {mark}
    <3>0. PICK j \in K : \E i \in 1..d[j] : x = <<j, i>>
      BY <1>1, TallyMember
    <3>1. PICK i \in 1..d[j] : x = <<j, i>>
      BY <3>0
    <3>2. CASE j # k
      BY <1>1, <3>1, <3>2, TallyMember
    <3>3. CASE j = k
      <4>1. i = c[k] + 1 \/ i \in 1..c[k]
        BY <1>1, <3>1, <3>3
      <4>. QED  BY <3>1, <3>3, <4>1, TallyMember
    <3>. QED  BY <3>2, <3>3
  <2>2. ASSUME NEW x \in Tally(c)
        PROVE  x \in Tally(d)
    <3>0. PICK j \in K : \E i \in 1..c[j] : x = <<j, i>>
      BY TallyMember
    <3>1. PICK i \in 1..c[j] : x = <<j, i>>
      BY <3>0
    <3>2. i \in 1..d[j]
      BY <1>1, <3>1
    <3>. QED  BY <1>1, <3>1, <3>2, TallyMember
  <2>3. mark \in Tally(d)
    <3>1. c[k] + 1 \in 1..d[k]
      BY <1>1
    <3>. QED  BY <1>1, <3>1, TallyMember
  <2>. QED  BY <2>1, <2>2, <2>3
<1>5. /\ IsFiniteSet(Tally(d)) /\ Cardinality(Tally(d)) = Cardinality(Tally(c)) + 1
  BY <1>3, <1>4, FS_AddElement DEF Counted
<1>6. \A j \in K : d[j] <= Cardinality(S) + 1
  BY <1>1, <1>2 DEF Counted
<1>. QED  BY <1>1, <1>2, <1>5, <1>6 DEF Counted, d

\* The members of D counted by class add up to the members of D.
LEMMA TallyOfClasses ==
  ASSUME NEW D, NEW class, IsFiniteSet(D)
  PROVE  LET counts == [v \in {class[h] : h \in D} |->
                          Cardinality({h \in D : class[h] = v})]
         IN  Cardinality(Tally(counts)) = Cardinality(D)
<1>. DEFINE V == {class[h] : h \in D}
<1>. DEFINE Part(v) == {h \in D : class[h] = v}
<1>. DEFINE counts == [v \in V |-> Cardinality(Part(v))]
<1>. DEFINE number == [v \in V |->
              CHOOSE b : b \in Bijection(Part(v), 1..Cardinality(Part(v)))]
<1>. DEFINE markOf == [h \in D |-> <<class[h], number[class[h]][h]>>]
<1>1. ASSUME NEW v \in V
      PROVE  number[v] \in Bijection(Part(v), 1..Cardinality(Part(v)))
  <2>1. IsFiniteSet(Part(v))
    BY FS_Subset
  <2>2. ExistsBijection(1..Cardinality(Part(v)), Part(v))
    BY <2>1, FS_CardinalityType
  <2>3. ExistsBijection(Part(v), 1..Cardinality(Part(v)))
    BY <2>2, Fun_ExistsBijSymmetric
  <2>. QED  BY <2>3 DEF ExistsBijection
<1>. HIDE DEF number
<1>2. ASSUME NEW v \in V
      PROVE  /\ \A h \in Part(v) : number[v][h] \in 1..counts[v]
             /\ \A h, g \in Part(v) : number[v][h] = number[v][g] => h = g
             /\ \A i \in 1..counts[v] : \E h \in Part(v) : number[v][h] = i
  <2>1. counts[v] = Cardinality(Part(v))
    OBVIOUS
  <2>. HIDE DEF counts, Part, V
  <2>2. number[v] \in Bijection(Part(v), 1..counts[v])
    BY <1>1, <2>1
  <2>. QED  BY <2>2 DEF Bijection, Injection, Surjection, IsInjective
<1>3. \A h \in D : class[h] \in V /\ h \in Part(class[h])
  OBVIOUS
<1>4. \A v \in V : \A h \in Part(v) : h \in D /\ class[h] = v
  OBVIOUS
<1>5. DOMAIN counts = V
  OBVIOUS
<1>. HIDE DEF counts, Part, V
<1>6. \A h \in D : markOf[h] = <<class[h], number[class[h]][h]>>
  OBVIOUS
<1>7. ASSUME NEW T, \A h \in D : markOf[h] \in T
      PROVE  markOf \in [D -> T]
  BY <1>7
<1>. HIDE DEF markOf
<1>8. ASSUME NEW h \in D
      PROVE  markOf[h] \in Tally(counts)
  <2>. DEFINE v == class[h]
  <2>. DEFINE i == number[v][h]
  <2>1. v \in DOMAIN counts /\ h \in Part(v)
    BY <1>3, <1>5
  <2>2. i \in 1..counts[v]
    BY <1>2, <1>3, <2>1
  <2>3. markOf[h] = <<v, i>>
    BY <1>6
  <2>. HIDE DEF v, i
  <2>. QED  BY <2>1, <2>2, <2>3, TallyMember
<1>9. \A h, g \in D : markOf[h] = markOf[g] => h = g
  BY <1>2, <1>3, <1>6
<1>10. ASSUME NEW x \in Tally(counts)
       PROVE  \E h \in D : markOf[h] = x
  <2>0. PICK v \in V : \E i \in 1..counts[v] : x = <<v, i>>
    BY <1>5, TallyMember
  <2>1. PICK i \in 1..counts[v] : x = <<v, i>>
    BY <2>0
  <2>2. PICK h \in Part(v) : number[v][h] = i
    BY <1>2
  <2>. QED  BY <1>4, <1>6, <2>1, <2>2
<1>11. markOf \in Bijection(D, Tally(counts))
  BY <1>7, <1>8, <1>9, <1>10 DEF Bijection, Injection, Surjection, IsInjective
<1>12. Cardinality(Tally(counts)) = Cardinality(D)
  BY <1>11, FS_Bijection DEF ExistsBijection
<1>. QED  BY <1>12 DEF counts, V, Part

-----------------------------------------------------------------------------
LEMMA NodeInvInit == Init => NodeInv
<1>. SUFFICES ASSUME Init PROVE NodeInv
  OBVIOUS
<1>. USE DEF Init
<1>1. NodeTypes
  <2>1. crashed \in BOOLEAN /\ perfFilled \in BOOLEAN
    BY Zenon
  <2>2. pc \in [Node -> Control]
    BY DEF Control
  <2>. QED  BY <2>1, <2>2 DEF NodeTypes
<1>2. CountInv
  <2>1. HwDone = {} /\ CbtDone = {}
    BY DEF HwDone, CbtDone
  <2>. QED  BY <2>1, CountedNone DEF CountInv
<1>3. MarkInv /\ EmptyInv /\ LockInv
  BY DEF MarkInv, EmptyInv, LockInv, Locked
<1>4. HostLoadedOnce
  BY DEF HostLoadedOnce
<1>5. EsxiMetricInv
  <2>1. Finished => Node = {}
    BY DEF Finished
  <2>2. DOMAIN esxiVersions = {}
    OBVIOUS
  <2>3. HostsPerVersion = [v \in {} |-> 0]
    BY <2>2 DEF HostsPerVersion
  <2>. QED  BY <2>3 DEF EsxiMetricInv
<1>. QED  BY <1>1, <1>2, <1>3, <1>4, <1>5 DEF NodeInv

-----------------------------------------------------------------------------
(* The steps of one node.                                                  *)

LEMMA GotoFacts ==
  ASSUME NodeTypes, NEW n \in Node, NEW to \in Control, Goto(n, to)
  PROVE  /\ pc' \in [Node -> Control] /\ pc'[n] = to
         /\ \A m \in Node : m # n => pc'[m] = pc[m]
BY DEF NodeTypes, Goto

\* Sets of nodes stay finite.
LEMMA DoneFinite == IsFiniteSet(HwDone) /\ IsFiniteSet(CbtDone)
BY NodeAssumption, FS_Subset DEF HwDone, CbtDone

\* Any step of a node that is not the last of the round.
LEMMA NotFinished ==
  ASSUME NEW n \in Node, pc'[n] # "finished"
  PROVE  EsxiMetricInv'
BY DEF EsxiMetricInv, Finished

\* What a node does between its ESXi check and its last one.
MidStep(n) ==
  /\ pc[n] \in Mid
  /\ \E to \in Mid : Goto(n, to)
  /\ UNCHANGED <<vCenterOf, hostOf, esxiVersions, hwVersions, cbtEnabled,
                 failed, crashed, loaded, esxiMetric>>

LEMMA MidFrame ==
  ASSUME NodeInv, NEW n \in Node, MidStep(n)
  PROVE  /\ pc' \in [Node -> Control]
         /\ CountInv' /\ MarkInv' /\ EmptyInv' /\ HostLoadedOnce'
         /\ EsxiMetricInv'
<1>. USE DEF NodeInv
<1>1. PICK to \in Mid : Goto(n, to)
  BY DEF MidStep
<1>2. /\ pc' \in [Node -> Control] /\ pc'[n] = to
      /\ \A m \in Node : m # n => pc'[m] = pc[m]
  BY <1>1, GotoFacts DEF Control
<1>3. to \notin {"hw", "esxi", "esxiLoad", "done", "finished"}
  BY DEF Mid
<1>4. pc[n] \notin {"hw", "esxi", "esxiLoad", "done", "finished"}
  BY DEF Mid, MidStep
<1>5. \A m \in Node : \A l \in {"hw", "esxi", "esxiLoad", "done", "finished"} :
        pc'[m] = l <=> pc[m] = l
  BY <1>2, <1>3, <1>4
<1>. USE <1>5 DEF MidStep
<1>6. CountInv'
  <2>1. HwDone' = HwDone /\ CbtDone' = CbtDone
    BY DEF HwDone, CbtDone
  <2>. QED  BY <2>1 DEF CountInv
<1>7. MarkInv' /\ EmptyInv'
  BY DEF MarkInv, EmptyInv
<1>8. HostLoadedOnce'
  BY DEF HostLoadedOnce
<1>9. EsxiMetricInv'
  BY <1>2, <1>3, NotFinished
<1>. QED  BY <1>2, <1>6, <1>7, <1>8, <1>9

\* A step that takes no lock and leaves perfMetricIDMap alone.
LEMMA LockFrame ==
  ASSUME LockInv, NEW n \in Node, UNCHANGED perfFilled, pc'[n] \notin Locked,
         \A m \in Node : m # n => pc'[m] = pc[m]
  PROVE  LockInv'
BY DEF LockInv

\* CheckNodeDiskPerf, the only check that takes the lock.
LEMMA PerfStep ==
  ASSUME NodeInv, NEW n \in Node,
         PerfSkipped(n) \/ PerfLock(n) \/ PerfBuild(n) \/ PerfWrite(n)
           \/ PerfRead(n)
  PROVE  NodeInv'
<1>. USE DEF NodeInv
<1>1. MidStep(n)
  BY DEF MidStep, Mid, PerfSkipped, PerfLock, PerfBuild, PerfWrite, PerfRead,
         topology, clusterInfo
<1>2. /\ pc' \in [Node -> Control]
      /\ CountInv' /\ MarkInv' /\ EmptyInv' /\ HostLoadedOnce' /\ EsxiMetricInv'
  BY <1>1, MidFrame
<1>3. NodeTypes'
  <2>1. perfFilled' \in BOOLEAN
    BY Zenon DEF PerfSkipped, PerfLock, PerfBuild, PerfWrite, PerfRead, maps,
                 NodeTypes
  <2>2. UNCHANGED <<computeClusters, resourcePools>>
    BY DEF PerfSkipped, PerfLock, PerfBuild, PerfWrite, PerfRead, maps
  <2>. QED  BY <1>1, <1>2, <2>1, <2>2 DEF NodeTypes, MidStep
<1>4. \A m \in Node : m # n => pc'[m] = pc[m]
  BY <1>1, GotoFacts DEF MidStep, Control
<1>5. LockInv'
  <2>1. CASE PerfLock(n)
    <3>1. pc'[n] = IF perfFilled THEN "perfRead" ELSE "perfBuild"
      BY <2>1 DEF PerfLock, Goto, NodeTypes
    <3>2. UNCHANGED perfFilled /\ \A m \in Node : pc[m] \notin Locked
      BY <2>1 DEF PerfLock, PerfLocked, maps, Locked
    <3>. QED  BY <1>4, <3>1, <3>2 DEF LockInv, Locked
  <2>2. CASE PerfBuild(n)
    <3>1. UNCHANGED perfFilled /\ pc[n] \in Locked
      BY <2>2 DEF PerfBuild, maps, Locked
    <3>. QED  BY <1>4, <3>1 DEF LockInv
  <2>3. CASE PerfWrite(n)
    <3>1. pc[n] \in Locked /\ pc'[n] = "perfRead"
      BY <2>3 DEF PerfWrite, Goto, NodeTypes, Locked
    <3>. QED  BY <1>4, <3>1 DEF LockInv, Locked
  <2>4. CASE PerfSkipped(n) \/ PerfRead(n)
    <3>1. UNCHANGED perfFilled /\ pc'[n] = "cluster"
      BY <2>4 DEF PerfSkipped, PerfRead, Goto, maps, NodeTypes
    <3>. QED  BY <1>4, <3>1, LockFrame DEF Locked
  <2>. QED  BY <2>1, <2>2, <2>3, <2>4
<1>. QED  BY <1>2, <1>3, <1>5

\* The two permission checks.
LEMMA PermissionStep ==
  ASSUME NodeInv, NEW n \in Node,
         \/ ClusterSkipped(n) \/ ClusterObtained(n) \/ ClusterLookup(n)
         \/ ClusterRemember(n) \/ PoolSkipped(n) \/ PoolObtained(n)
         \/ PoolLookup(n) \/ PoolRemember(n)
  PROVE  NodeInv'
<1>. USE DEF NodeInv
<1>1. MidStep(n)
  BY DEF MidStep, Mid, ClusterSkipped, ClusterObtained, ClusterLookup,
         ClusterRemember, PoolSkipped, PoolObtained, PoolLookup, PoolRemember,
         topology, clusterInfo
<1>2. /\ pc' \in [Node -> Control]
      /\ CountInv' /\ MarkInv' /\ EmptyInv' /\ HostLoadedOnce' /\ EsxiMetricInv'
  BY <1>1, MidFrame
<1>3. /\ UNCHANGED perfFilled
      /\ computeClusters' \in SUBSET {ClusterName}
      /\ resourcePools' \in SUBSET {"pool"}
      /\ pc'[n] \notin Locked
  <2>1. UNCHANGED perfFilled
    BY DEF ClusterSkipped, ClusterObtained, ClusterLookup, ClusterRemember,
         PoolSkipped, PoolObtained, PoolLookup, PoolRemember, maps
  <2>2. /\ computeClusters' \in SUBSET {ClusterName}
        /\ resourcePools' \in SUBSET {"pool"}
    BY DEF ClusterSkipped, ClusterObtained, ClusterLookup, ClusterRemember,
         PoolSkipped, PoolObtained, PoolLookup, PoolRemember, maps, NodeTypes
  <2>3. \E to \in Mid \ Locked : Goto(n, to)
    BY DEF ClusterSkipped, ClusterObtained, ClusterLookup, ClusterRemember,
         PoolSkipped, PoolObtained, PoolLookup, PoolRemember, Mid, Locked
  <2>4. pc'[n] \notin Locked
    BY <2>3 DEF Goto, NodeTypes
  <2>. QED  BY <2>1, <2>2, <2>4
<1>4. NodeTypes'
  BY <1>1, <1>2, <1>3 DEF NodeTypes, MidStep
<1>5. \A m \in Node : m # n => pc'[m] = pc[m]
  BY <1>1, GotoFacts DEF MidStep, Control
<1>6. LockInv'
  BY <1>3, <1>5, LockFrame
<1>. QED  BY <1>2, <1>4, <1>6

\* CollectNodeHWVersion and CollectNodeCBT count the node.
LEMMA CountStep ==
  ASSUME NodeInv, NEW n \in Node,
         \/ \E v \in HwVersion : SetHardwareVersion(n, v)
         \/ \E k \in CbtKey : SetCbtData(n, k)
  PROVE  NodeInv'
<1>. USE DEF NodeInv
<1>1. /\ UNCHANGED <<vCenterOf, hostOf, esxiVersions, perfFilled,
                     computeClusters, resourcePools, failed, crashed, loaded,
                     esxiMetric>>
      /\ \/ pc[n] = "hw" /\ Goto(n, "esxi")
         \/ pc[n] = "cbt" /\ Goto(n, "done")
  BY DEF SetHardwareVersion, SetCbtData, topology, maps
<1>2. /\ pc' \in [Node -> Control]
      /\ \/ pc[n] = "hw" /\ pc'[n] = "esxi"
         \/ pc[n] = "cbt" /\ pc'[n] = "done"
      /\ \A m \in Node : m # n => pc'[m] = pc[m]
  <2>1. PICK to \in {"esxi", "done"} :
          Goto(n, to) /\ pc[n] = IF to = "esxi" THEN "hw" ELSE "cbt"
    BY <1>1
  <2>2. to \in Control
    BY DEF Control
  <2>. QED  BY <2>1, <2>2, GotoFacts
<1>3. hwVersions' \in [HwVersion -> Nat] /\ cbtEnabled' \in [CbtKey -> Nat]
  BY DEF SetHardwareVersion, SetCbtData, NodeTypes
<1>4. NodeTypes'
  BY <1>1, <1>2, <1>3 DEF NodeTypes
<1>5. CountInv'
  <2>1. ASSUME NEW v \in HwVersion, SetHardwareVersion(n, v)
        PROVE  CountInv'
    <3>1. /\ pc[n] = "hw" /\ pc'[n] = "esxi" /\ cbtEnabled' = cbtEnabled
          /\ hwVersions' = [hwVersions EXCEPT ![v] = @ + 1]
      BY <1>2, <2>1 DEF SetHardwareVersion
    <3>2. HwDone' = HwDone \cup {n} /\ n \notin HwDone /\ CbtDone' = CbtDone
      BY <1>2, <3>1 DEF HwDone, CbtDone
    <3>3. hwVersions \in [HwVersion -> Nat]
      BY DEF NodeTypes
    <3>4. Counted([hwVersions EXCEPT ![v] = @ + 1], HwDone \cup {n})
      BY <3>2, <3>3, CountedOneMore, DoneFinite DEF CountInv
    <3>. QED  BY <3>1, <3>2, <3>4 DEF CountInv
  <2>2. ASSUME NEW k \in CbtKey, SetCbtData(n, k)
        PROVE  CountInv'
    <3>1. /\ pc[n] = "cbt" /\ pc'[n] = "done" /\ hwVersions' = hwVersions
          /\ cbtEnabled' = [cbtEnabled EXCEPT ![k] = @ + 1]
      BY <1>2, <2>2 DEF SetCbtData
    <3>2. CbtDone' = CbtDone \cup {n} /\ n \notin CbtDone /\ HwDone' = HwDone
      BY <1>2, <3>1 DEF HwDone, CbtDone
    <3>3. cbtEnabled \in [CbtKey -> Nat]
      BY DEF NodeTypes
    <3>4. Counted([cbtEnabled EXCEPT ![k] = @ + 1], CbtDone \cup {n})
      BY <3>2, <3>3, CountedOneMore, DoneFinite DEF CountInv
    <3>. QED  BY <3>1, <3>2, <3>4 DEF CountInv
  <2>. QED  BY <2>1, <2>2
<1>6. MarkInv'
  BY <1>1, <1>2 DEF MarkInv
<1>7. EmptyInv'
  BY <1>1, <1>2 DEF EmptyInv
<1>8. HostLoadedOnce'
  BY <1>1, <1>2 DEF HostLoadedOnce
<1>9. LockInv'
  BY <1>1, <1>2, LockFrame DEF Locked
<1>10. EsxiMetricInv'
  BY <1>2, NotFinished
<1>. QED  BY <1>4, <1>5, <1>6, <1>7, <1>8, <1>9, <1>10

\* What the steps of CollectNodeESXiVersion leave alone, and where they go.
EsxiStep(n) ==
  /\ pc[n] \in {"esxi", "esxiLoad"}
  /\ \E to \in {"esxiLoad", "perf"} : Goto(n, to)
  /\ UNCHANGED <<vCenterOf, hostOf, hwVersions, cbtEnabled, perfFilled,
                 computeClusters, resourcePools, crashed, esxiMetric>>

LEMMA EsxiFrame ==
  ASSUME NodeInv, NEW n \in Node, EsxiStep(n)
  PROVE  /\ pc' \in [Node -> Control] /\ \A m \in Node : m # n => pc'[m] = pc[m]
         /\ CountInv' /\ LockInv' /\ EsxiMetricInv'
<1>. USE DEF NodeInv
<1>1. PICK to \in {"esxiLoad", "perf"} : Goto(n, to)
  BY DEF EsxiStep
<1>2. to \in Control
  BY DEF Control, Mid
<1>3. /\ pc' \in [Node -> Control] /\ pc'[n] = to
      /\ \A m \in Node : m # n => pc'[m] = pc[m]
  BY <1>1, <1>2, GotoFacts
<1>4. CountInv'
  <2>1. HwDone' = HwDone /\ CbtDone' = CbtDone
    BY <1>3 DEF HwDone, CbtDone, EsxiStep
  <2>. QED  BY <2>1 DEF CountInv, EsxiStep
<1>5. LockInv'
  BY <1>3, LockFrame DEF EsxiStep, Locked
<1>6. EsxiMetricInv'
  BY <1>3, NotFinished
<1>. QED  BY <1>3, <1>4, <1>5, <1>6

\* The host is looked up, and marked when it is new.
LEMMA MarkStep ==
  ASSUME NodeInv, NEW n \in Node, MarkHostForProcessing(n)
  PROVE  NodeInv'
<1>. USE DEF NodeInv
<1>1. EsxiStep(n) /\ UNCHANGED <<failed, loaded>>
  BY DEF EsxiStep, MarkHostForProcessing, topology, maps
<1>2. /\ pc' \in [Node -> Control] /\ \A m \in Node : m # n => pc'[m] = pc[m]
      /\ CountInv' /\ LockInv' /\ EsxiMetricInv'
  BY <1>1, EsxiFrame
<1>3. CASE hostOf[n] \in DOMAIN esxiVersions
  <2>1. UNCHANGED esxiVersions /\ pc[n] = "esxi" /\ pc'[n] = "perf"
    BY <1>3 DEF MarkHostForProcessing, Goto, NodeTypes
  <2>. USE <1>1, <1>2, <2>1 DEF EsxiStep
  <2>2. NodeTypes'
    BY DEF NodeTypes
  <2>3. MarkInv' /\ EmptyInv'
    BY <1>3 DEF MarkInv, EmptyInv
  <2>4. HostLoadedOnce'
    BY DEF HostLoadedOnce
  <2>. QED  BY <2>2, <2>3, <2>4
<1>4. CASE hostOf[n] \notin DOMAIN esxiVersions
  <2>1. /\ pc[n] = "esxi" /\ pc'[n] = "esxiLoad" /\ hostOf[n] # NoHost
        /\ DOMAIN esxiVersions' = DOMAIN esxiVersions \cup {hostOf[n]}
        /\ esxiVersions'[hostOf[n]] = InProgress
        /\ \A h \in DOMAIN esxiVersions : esxiVersions'[h] = esxiVersions[h]
    BY <1>4 DEF MarkHostForProcessing, Goto, NodeTypes
  <2>. USE <1>1, <1>2, <2>1 DEF EsxiStep
  <2>2. NodeTypes'
    <3>1. hostOf[n] \in HostRef
      BY DEF NodeTypes
    <3>. QED  BY <3>1 DEF NodeTypes
  <2>3. MarkInv'
    BY DEF MarkInv
  <2>4. EmptyInv'
    BY DEF EmptyInv
  <2>5. HostLoadedOnce'
    <3>. SUFFICES ASSUME NEW i \in Node, NEW j \in Node, i # j,
                         hostOf[i] = hostOf[j], hostOf[i] # NoHost,
                         i \in loaded \/ pc'[i] = "esxiLoad",
                         j \in loaded \/ pc'[j] = "esxiLoad"
                  PROVE  FALSE
      BY DEF HostLoadedOnce
    <3>1. CASE i = n \/ j = n
      BY <1>4, <3>1 DEF MarkInv
    <3>2. CASE i # n /\ j # n
      BY <3>2 DEF HostLoadedOnce
    <3>. QED  BY <3>1, <3>2
  <2>. QED  BY <2>2, <2>3, <2>4, <2>5
<1>. QED  BY <1>3, <1>4

\* The version of a marked host is stored.
LEMMA SetHostVersionStep ==
  ASSUME NodeInv, NEW n \in Node, NEW version \in EsxiVersion,
         SetHostVersion(n, version)
  PROVE  NodeInv'
<1>. USE DEF NodeInv
<1>1. EsxiStep(n) /\ UNCHANGED failed /\ loaded' = loaded \cup {n}
  BY DEF EsxiStep, SetHostVersion, topology, maps
<1>2. /\ pc' \in [Node -> Control] /\ \A m \in Node : m # n => pc'[m] = pc[m]
      /\ CountInv' /\ LockInv' /\ EsxiMetricInv'
  BY <1>1, EsxiFrame
<1>3. /\ pc[n] = "esxiLoad" /\ pc'[n] = "perf"
      /\ esxiVersions' = [esxiVersions EXCEPT ![hostOf[n]] = version]
  BY DEF SetHostVersion, Goto, NodeTypes
<1>4. /\ DOMAIN esxiVersions' = DOMAIN esxiVersions
      /\ hostOf[n] \in DOMAIN esxiVersions /\ esxiVersions'[hostOf[n]] = version
      /\ \A h \in DOMAIN esxiVersions :
           h # hostOf[n] => esxiVersions'[h] = esxiVersions[h]
  BY <1>3 DEF MarkInv
<1>5. version # InProgress
  BY NodeAssumption
<1>. USE <1>1, <1>2, <1>4, <1>5 DEF EsxiStep
<1>6. NodeTypes'
  BY DEF NodeTypes
<1>7. MarkInv'
  BY <1>3 DEF MarkInv
<1>8. EmptyInv'
  BY <1>3 DEF EmptyInv
<1>9. HostLoadedOnce'
  BY <1>3 DEF HostLoadedOnce
<1>. QED  BY <1>6, <1>7, <1>8, <1>9

\* There is no host, or its properties cannot be loaded.
LEMMA EsxiFailsStep ==
  ASSUME NodeInv, NEW n \in Node, EsxiNoHost(n) \/ EsxiLoadFails(n)
  PROVE  NodeInv'
<1>. USE DEF NodeInv
<1>1. EsxiStep(n) /\ failed' = failed \cup {n} /\ UNCHANGED <<loaded, esxiVersions>>
  BY DEF EsxiStep, EsxiNoHost, EsxiLoadFails, Fails, topology, clusterInfo, maps
<1>2. /\ pc' \in [Node -> Control] /\ \A m \in Node : m # n => pc'[m] = pc[m]
      /\ CountInv' /\ LockInv' /\ EsxiMetricInv'
  BY <1>1, EsxiFrame
<1>3. pc'[n] = "perf"
  BY DEF EsxiNoHost, EsxiLoadFails, Goto, NodeTypes
<1>. USE <1>1, <1>2, <1>3 DEF EsxiStep
<1>4. NodeTypes'
  BY DEF NodeTypes
<1>5. MarkInv' /\ EmptyInv'
  BY DEF MarkInv, EmptyInv
<1>6. HostLoadedOnce'
  BY DEF HostLoadedOnce
<1>. QED  BY <1>4, <1>5, <1>6

\* A crash, or nothing at all.
LEMMA CrashStep ==
  ASSUME NodeInv,
         \/ RaceDetected \/ UNCHANGED vars
         \/ \E n \in Node : ClusterNoHost(n)
  PROVE  NodeInv'
<1>. USE DEF NodeInv
<1>1. UNCHANGED <<vCenterOf, hostOf, esxiVersions, hwVersions, cbtEnabled,
                  perfFilled, computeClusters, resourcePools, pc, failed,
                  loaded, esxiMetric>>
  BY DEF RaceDetected, ClusterNoHost, vars, topology, clusterInfo, maps
<1>2. crashed' \in BOOLEAN
  BY Zenon DEF RaceDetected, ClusterNoHost, vars, NodeTypes
<1>3. NodeTypes'
  BY <1>1, <1>2 DEF NodeTypes
<1>4. CountInv'
  BY <1>1 DEF CountInv, HwDone, CbtDone
<1>5. MarkInv' /\ EmptyInv' /\ LockInv'
  BY <1>1 DEF MarkInv, EmptyInv, LockInv
<1>6. HostLoadedOnce'
  BY <1>1 DEF HostLoadedOnce
<1>7. EsxiMetricInv'
  BY <1>1 DEF EsxiMetricInv, Finished, HostsPerVersion
<1>. QED  BY <1>3, <1>4, <1>5, <1>6, <1>7

\* FinishCheck, when all nodes are done.
LEMMA FinishCheckStep ==
  ASSUME NodeInv, FinishCheck
  PROVE  NodeInv'
<1>. USE DEF NodeInv
<1>1. /\ \A n \in Node : pc[n] = "done" /\ pc'[n] = "finished"
      /\ pc' = [n \in Node |-> "finished"]
      /\ esxiMetric' = HostsPerVersion
      /\ UNCHANGED <<vCenterOf, hostOf, esxiVersions, hwVersions, cbtEnabled,
                     perfFilled, computeClusters, resourcePools, failed,
                     crashed, loaded>>
  BY DEF FinishCheck, AllDone, HostsPerVersion, topology, clusterInfo, maps
<1>2. NodeTypes'
  <2>1. pc' \in [Node -> Control]
    BY <1>1 DEF Control
  <2>. QED  BY <1>1, <2>1 DEF NodeTypes
<1>3. CountInv'
  <2>1. HwDone' = HwDone /\ CbtDone' = CbtDone
    BY <1>1 DEF HwDone, CbtDone
  <2>. QED  BY <1>1, <2>1 DEF CountInv
<1>4. MarkInv' /\ EmptyInv'
  BY <1>1 DEF MarkInv, EmptyInv
<1>5. LockInv'
  BY <1>1 DEF LockInv, Locked
<1>6. HostLoadedOnce'
  BY <1>1 DEF HostLoadedOnce
<1>7. EsxiMetricInv'
  BY <1>1 DEF EsxiMetricInv, HostsPerVersion
<1>. QED  BY <1>2, <1>3, <1>4, <1>5, <1>6, <1>7

-----------------------------------------------------------------------------
(* The theorems.                                                           *)

\* The inductive invariant holds however the goroutines of the nodes
\* interleave, up to a crash.
THEOREM NodeInvariant == Spec => []NodeInv
<1>1. ASSUME NodeInv, [Next]_vars
      PROVE  NodeInv'
  <2>1. ASSUME NEW n \in Node, CheckNode(n)
        PROVE  NodeInv'
    BY <1>1, <2>1, PerfStep, PermissionStep, CountStep, MarkStep,
       SetHostVersionStep, EsxiFailsStep, CrashStep DEF CheckNode
  <2>. QED  BY <1>1, <2>1, CrashStep, FinishCheckStep DEF Next
<1>. QED  BY <1>1, NodeInvInit, PTL DEF Spec

\* Every field of ClusterInfo and of the checks keeps its type, and no counter
\* exceeds the number of nodes.
THEOREM NodeTypeCorrect == Spec => []TypeOK
<1>1. NodeInv => TypeOK
  <2>. SUFFICES ASSUME NodeInv PROVE TypeOK
    OBVIOUS
  <2>. USE DEF NodeInv
  <2>1. /\ Cardinality(HwDone) <= Cardinality(Node)
        /\ Cardinality(CbtDone) <= Cardinality(Node)
        /\ Cardinality(HwDone) \in Nat /\ Cardinality(CbtDone) \in Nat
        /\ Cardinality(Node) \in Nat
    BY NodeAssumption, DoneFinite, FS_Subset, FS_CardinalityType
       DEF HwDone, CbtDone
  <2>2. hwVersions \in [HwVersion -> 0..Cardinality(Node)]
    BY <2>1 DEF CountInv, Counted, NodeTypes
  <2>3. cbtEnabled \in [CbtKey -> 0..Cardinality(Node)]
    BY <2>1 DEF CountInv, Counted, NodeTypes
  <2>. QED  BY <2>2, <2>3 DEF NodeTypes, TypeOK, Control, Mid
<1>. QED  BY <1>1, NodeInvariant, PTL

\* ClusterInfo.MarkHostForProcessing lets one node per host load its version.
THEOREM HostLoadedOnceCorrect == Spec => []HostLoadedOnce
<1>1. NodeInv => HostLoadedOnce
  BY DEF NodeInv
<1>. QED  BY <1>1, NodeInvariant, PTL

\* A host version that stays empty is reported by one of the nodes of the host.
THEOREM EmptyVersionCorrect == Spec => []EmptyVersionReported
<1>1. NodeInv => EmptyVersionReported
  BY DEF NodeInv, EmptyVersionReported, EmptyInv, AllDone
<1>. QED  BY <1>1, NodeInvariant, PTL

\* buildCounterIDMapLock keeps writers of perfMetricIDMap from each other and
\* from those who read what they were told is there.
THEOREM PerfMapCorrect == Spec => []PerfMapGuarded
<1>1. NodeInv => PerfMapGuarded
  BY DEF NodeInv, PerfMapGuarded, LockInv, Locked
<1>. QED  BY <1>1, NodeInvariant, PTL

\* No update of the counters of ClusterInfo is lost, and none made twice.
THEOREM CountsCorrect == Spec => []CountsExact
<1>1. NodeInv => CountsExact
  <2>. SUFFICES ASSUME NodeInv, AllDone PROVE CountsExact
    BY DEF CountsExact
  <2>1. HwDone = Node /\ CbtDone = Node
    BY DEF AllDone, HwDone, CbtDone
  <2>. QED  BY <2>1 DEF NodeInv, CountInv, Counted, CountsExact
<1>. QED  BY <1>1, NodeInvariant, PTL

\* What FinishCheck of CollectNodeESXiVersion reports adds up to the hosts
\* that run nodes, where references name hosts and no load failed.
THEOREM HostsCorrect == Spec => []HostsCounted
<1>1. ASSUME NodeInv, Finished, failed = {},
             \A n, m \in Node : hostOf[n] = hostOf[m] => vCenterOf[n] = vCenterOf[m]
      PROVE  Cardinality(Tally(esxiMetric)) = Cardinality({RealHost(n) : n \in Node})
  <2>. USE <1>1 DEF NodeInv
  <2>. DEFINE D == DOMAIN esxiVersions
  <2>. DEFINE Real == {RealHost(n) : n \in Node}
  <2>. DEFINE refOf == [r \in Real |-> r[2]]
  <2>. DEFINE realOf == [n \in Node |-> RealHost(n)]
  <2>1. \A n \in Node : hostOf[n] \in D
    BY DEF MarkInv, Finished
  <2>2. \A h \in D : \E n \in Node : hostOf[n] = h
    BY DEF MarkInv
  <2>3. \A r \in Real : \E n \in Node : r = <<vCenterOf[n], hostOf[n]>>
    BY DEF RealHost
  <2>4. \A n \in Node : <<vCenterOf[n], hostOf[n]>> \in Real
    BY DEF RealHost
  <2>5. realOf \in Surjection(Node, Real)
    BY DEF Surjection
  <2>6. IsFiniteSet(Real)
    BY <2>5, FS_Surjection, NodeAssumption
  <2>. HIDE DEF Real, D
  <2>7. refOf \in Bijection(Real, D)
    <3>1. refOf \in [Real -> D]
      BY <2>1, <2>3
    <3>2. \A r, s \in Real : refOf[r] = refOf[s] => r = s
      BY <2>3
    <3>3. \A h \in D : \E r \in Real : refOf[r] = h
      BY <2>2, <2>4
    <3>. HIDE DEF refOf
    <3>. QED  BY <3>1, <3>2, <3>3 DEF Bijection, Injection, Surjection, IsInjective
  <2>8. IsFiniteSet(D) /\ Cardinality(D) = Cardinality(Real)
    BY <2>6, <2>7, FS_Bijection DEF ExistsBijection
  <2>9. Cardinality(Tally(esxiMetric)) = Cardinality(D)
    BY <2>8, TallyOfClasses DEF EsxiMetricInv, HostsPerVersion, D
  <2>. QED  BY <2>8, <2>9 DEF Real
<1>2. NodeInv => HostsCounted
  BY <1>1 DEF HostsCounted
<1>. QED  BY <1>2, NodeInvariant, PTL

=============================================================================
