\* Two vCenters, datacenters and label values, up to two failure domains:
\* every branch of the checks, and every pair of them, has its inputs.
CONSTANTS
  VCenter = {"vc1", "vc2"}
  Datacenter = {"dc1", "dc2"}
  Label = {"a", "b"}
  MaxFDs = 2
  Checks = {"infra", "domains", "storage", "deprecation", "lookup"}
  InfraCall <- MCInfraCall
  DomainCall <- MCDomainCall
  StorageCall <- MCStorageCall
  DeprecationCall <- MCDeprecationCall
  LookupCall <- MCLookupCall
SPECIFICATION Spec
INVARIANTS
  MismatchReported
  AllClearMeansUsable
  HostGroupsImplyZoneTags
  StorageVerdict
  OldVersionBlocks
  NoGuessing
  LabelsDecide
