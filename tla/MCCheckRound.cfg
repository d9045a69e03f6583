\* Two rounds, so that the work of a round that was given up meets the next
\* one; two node checks on two vSphere nodes, and a node of another platform.
CONSTANTS
  c1 = c1  k1 = k1  k2 = k2  n1 = n1  n2 = n2  bm = bm
  ClusterCheck = {c1}
  StorageCheck = c1
  NodeChecks <- MCNodeChecks
  Node = {n1, n2, bm}
  VSphereNode = {n1, n2}
  Parallelism = 2
  MaxRounds = 2
SPECIFICATION FairSpec
INVARIANTS
  ResultsComplete
  SessionOutlivesChecks
  MetricsOfOneRound
  NodeGaugeTellsRound
  ClusterGaugeTellsRound
  DatastoreTypesOfRound
PROPERTIES
  NodeCheckRounds
  FirstPoolIsBarrier
  RoundsEnd
  WorkEnds
