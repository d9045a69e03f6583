\* Storage classes that name datastores in several ways.
CONSTANTS
  VCenter = {"vc1", "vc2"}
  Datacenter = {"dc1", "dc2"}
  Label = {"a", "b"}
  MaxFDs = 2
  Checks = {"storage"}
  InfraCall <- MCInfraCall
  DomainCall <- MCDomainCall
  StorageCall <- MCStorageCall
  DeprecationCall <- MCDeprecationCall
  LookupCall <- MCLookupCall
SPECIFICATION Spec
INVARIANT DatastoreTotalExact
