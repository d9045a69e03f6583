\* Two goroutines, one datacenter with up to two datastores, and any change
\* of the inventory at any moment.
CONSTANTS
  Check = {c1, c2}
  Datacenter = {dc1}
  Datastore = {ds1, ds2}
SPECIFICATION FairSpec
INVARIANTS
  ConsistentAnswers
PROPERTY CallsReturn
