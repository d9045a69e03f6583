\* A failure domain was removed; its nodes and its vCenter are still there.
CONSTANTS
  VCenter = {"vc1", "vc2"}
  Datacenter = {"dc1", "dc2"}
  Label = {"a", "b"}
  MaxFDs = 1
  Checks = {"lookup"}
  InfraCall <- MCInfraCall
  DomainCall <- MCDomainCall
  StorageCall <- MCStorageCall
  DeprecationCall <- MCDeprecationCall
  LookupCall <- MCRemovedCall
SPECIFICATION Spec
INVARIANT UnmatchedIsError
