------------------------- MODULE FailureDomainChecks -------------------------
(***************************************************************************)
(* The cluster checks of pkg/check that walk over the failure domains:     *)
(* CheckZoneTags (zones.go), CheckHostGroups (cluster_host_group.go),      *)
(* CheckAccountPermissions (permissions.go), CheckFolderPermissions        *)
(* (folder.go) and CheckDefaultDatastore (datastore.go).                   *)
(*                                                                         *)
(* ctx is what the checks see of the cluster:                              *)
(*   infra       the infrastructure object: "read", "unreadable", or       *)
(*               "noSpec" when it has no vSphere section                   *)
(*   vcs         the connected vCenters                                    *)
(*   categories  per vCenter, the tag categories that exist                *)
(*   fds         the failure domains, each with what vCenter answers on it *)
(* A failure domain fd:                                                    *)
(*   server, dc, cluster, ds    its vCenter; are its datacenter, compute   *)
(*               cluster and datastore found                               *)
(*   lacks       the permission groups for which comparePrivileges fails   *)
(*   folder      "none" configured, "found" or "missing"                   *)
(*   root, kubevols             how listing these two directories ends     *)
(*   region, zone               type of the affinity, or "none"            *)
(*   regionOn, zoneOn           types of the ancestors that carry a tag of *)
(*               the category; tagsRead: the tags can be read              *)
(*   group       the host group: read (the configuration of the cluster is *)
(*               read), found, hosts (each with its zone tag: none, one of *)
(*               another zone, or its own), vmGroup, vmHostRule            *)
(***************************************************************************)
EXTENDS CheckErrors

TagCategoryRegion == "openshift-region"
TagCategoryZone == "openshift-zone"
HostTag == {"none", "other", "own"}

-----------------------------------------------------------------------------
(* Tags.                                                                   *)

validateTagCategories(ctx, vc) ==
  {TagCategoryRegion, TagCategoryZone} \subseteq ctx.categories[vc]

\* Mutant: the hosts of the host group are not looked at.
MutantNoHosts(fd) == fd.zoneOn

\* The types of the objects that carry a zone tag: the cluster, its ancestors
\* and, with getAncestors, the hosts of the host group.
ZoneTagged(fd) ==
  fd.zoneOn \cup
  If(fd.zone = "HostGroup" /\ fd.group.found
       /\ \E h \in DOMAIN fd.group.hosts : fd.group.hosts[h] # "none",
     "HostSystem")

\* With an affinity only a tag on an object of that type counts.
validateTagAttachment(fd) ==
  LET regionTagAttached ==
        CASE fd.region = "Datacenter"     -> "Datacenter" \in fd.regionOn
          [] fd.region = "ComputeCluster" -> "ClusterComputeResource" \in fd.regionOn
          [] OTHER                        -> fd.regionOn # {}
      zoneTagAttached ==
        IF fd.zone = "ComputeCluster"
        THEN "ClusterComputeResource" \in ZoneTagged(fd)
        ELSE ZoneTagged(fd) # {}
  IN  IF ~fd.tagsRead \/ (fd.zone = "HostGroup" /\ ~fd.group.read)
      THEN {"tags unreadable"}
      ELSE If(~regionTagAttached, "region tag") \cup If(~zoneTagAttached, "zone tag")

CheckZoneTags(ctx) ==
  LET body(i) ==
        LET fd == ctx.fds[i] IN
        IF fd.server \notin ctx.vcs THEN ReturnNow({<<i, "vCenter">>})
        ELSE IF ~fd.dc THEN GoOn({<<i, "datacenter">>})
        ELSE IF ~fd.cluster THEN GoOn({<<i, "cluster">>})
        ELSE GoOn({<<i, p>> : p \in validateTagAttachment(fd)})
  IN  IF ctx.infra = "unreadable" THEN {<<0, "infrastructure">>}
      ELSE IF ctx.infra = "noSpec" \/ Len(ctx.fds) < 2 THEN {}
      ELSE IF \E vc \in ctx.vcs : ~validateTagCategories(ctx, vc)
           THEN {<<0, "categories">>}
      ELSE ForEach([i \in DOMAIN ctx.fds |-> body(i)])

\* Mutant: a host is content with a tag of any zone.
MutantAnyZone(fd, h) == fd.tagsRead /\ fd.group.hosts[h] # "none"

\* Every host of the group needs the tag of this zone, by name.
HostMatched(fd, h) == fd.tagsRead /\ fd.group.hosts[h] = "own"

HostGroupProblems(fd) ==
  LET group == fd.group IN
  If(~group.found, "host group")
    \cup If(group.found /\ DOMAIN group.hosts = {}, "no hosts")
    \cup If(group.found /\ \E h \in DOMAIN group.hosts : ~HostMatched(fd, h),
            "host tag")
    \cup If(~group.vmGroup, "vm group") \cup If(~group.vmHostRule, "vm host rule")

CheckHostGroups(ctx) ==
  LET body(i) ==
        LET fd == ctx.fds[i] IN
        IF fd.zone # "HostGroup" THEN GoOn({})
        ELSE IF fd.server \notin ctx.vcs THEN ReturnNow({<<i, "vCenter">>})
        ELSE IF ~validateTagCategories(ctx, fd.server)
             THEN ReturnNow({<<i, "categories">>})
        ELSE IF ~fd.dc THEN ReturnNow({<<i, "datacenter">>})
        ELSE IF ~fd.cluster THEN ReturnNow({<<i, "cluster">>})
        ELSE IF ~fd.group.read THEN ReturnNow({<<i, "configuration">>})
        ELSE GoOn({<<i, p>> : p \in HostGroupProblems(fd)})
  IN  IF ctx.infra = "unreadable" THEN {<<0, "infrastructure">>}
      ELSE IF ctx.infra = "noSpec" THEN {}
      ELSE ForEach([i \in DOMAIN ctx.fds |-> body(i)])

-----------------------------------------------------------------------------
(* Permissions, folders, the default datastore.                            *)

\* checkFolderPrivileges of the configured folder.
FolderProblem(fd) ==
  \/ fd.folder = "missing"
  \/ fd.folder = "found" /\ "folder" \in fd.lacks

CheckAccountPermissions(ctx) ==
  LET body(i) ==
        LET fd == ctx.fds[i] IN
        IF fd.server \notin ctx.vcs THEN ReturnNow({<<i, "vCenter">>})
        ELSE IF ~fd.dc THEN ReturnNow({<<i, "datacenter">>})
        ELSE GoOn(If(~fd.ds, <<i, "datastore">>)
               \cup If(fd.ds /\ "datastore" \in fd.lacks, <<i, "datastore privileges">>)
               \cup If("datacenter" \in fd.lacks, <<i, "datacenter privileges">>)
               \cup If("vcenter" \in fd.lacks, <<i, "vCenter privileges">>)
               \cup If(FolderProblem(fd), <<i, "folder privileges">>))
  IN  ForEach([i \in DOMAIN ctx.fds |-> body(i)])

\* listDirectory.  A search that vCenter refuses is no problem; a directory
\* that is missing is one unless that is tolerated.
Listing == {"listed", "refused", "missing", "failed"}
listDirectory(listing, tolerateNotFound) ==
  listing = "failed" \/ (listing = "missing" /\ ~tolerateNotFound)

CheckFolderPermissions(ctx) ==
  LET body(i) ==
        LET fd == ctx.fds[i] IN
        IF fd.server \notin ctx.vcs THEN ReturnNow({<<i, "vCenter">>})
        ELSE IF ~fd.dc THEN ReturnNow({<<i, "datacenter">>})
        ELSE IF ~fd.ds THEN ReturnNow({<<i, "datastore">>})
        ELSE IF listDirectory(fd.root, FALSE) THEN ReturnNow({<<i, "/">>})
        ELSE IF listDirectory(fd.kubevols, TRUE) THEN ReturnNow({<<i, "/kubevols">>})
        ELSE GoOn({})
  IN  ForEach([i \in DOMAIN ctx.fds |-> body(i)])

\* checkDataStore of the datastore of each failure domain.  Storage pods that
\* cannot be read are taken for none (GetStoragePods), so they never fail it.
CheckDefaultDatastore(ctx) ==
  LET body(i) ==
        LET fd == ctx.fds[i] IN
        IF fd.server \notin ctx.vcs THEN ReturnNow({<<i, "vCenter">>})
        ELSE IF ~fd.dc \/ ~fd.ds THEN ReturnNow({<<i, "datastore">>})
        ELSE IF "datastore" \in fd.lacks
             THEN ReturnNow({<<i, "datastore privileges">>})
        ELSE GoOn({})
  IN  ForEach([i \in DOMAIN ctx.fds |-> body(i)])

=============================================================================
