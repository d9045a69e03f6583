----------------------------- MODULE CheckCalls -----------------------------
(***************************************************************************)
(* One call of the sequential check functions, in every configuration of   *)
(* an instance: the checks that compare the infrastructure object with the *)
(* cloud config, those that walk over the failure domains, the storage     *)
(* class check, checkForDeprecation, and the choice of the vCenter of a    *)
(* node.  The functions share no state; what they are given and what they  *)
(* answer is all there is.                                                 *)
(***************************************************************************)
EXTENDS InfraConfig, FailureDomainChecks, StorageClasses, Deprecation,
        VCenterLookup

CONSTANTS Checks,        \* the calls of this instance
          InfraCall,     \* their inputs
          DomainCall,
          StorageCall,
          DeprecationCall,
          LookupCall

\* The affinities of region and zone that the API admits together.
Affinities == {<<"none", "none">>, <<"Datacenter", "none">>,
               <<"ComputeCluster", "none">>, <<"Datacenter", "ComputeCluster">>,
               <<"ComputeCluster", "HostGroup">>}

\* What the inputs are, as far as the functions rely on it: a failure domain
\* has a datacenter, what vCenter answers is one of its answers, and hardware
\* versions have up to two digits.
ASSUME InfraInput ==
  \A c \in InfraCall :
    /\ IsFiniteSet(DOMAIN c.infra.vcs) /\ IsFiniteSet(DOMAIN c.cfg)
    /\ \A i \in DOMAIN c.infra.fds : c.infra.fds[i].dc \in Datacenter
ASSUME DomainInput ==
  \A c \in DomainCall :
    /\ \A vc \in c.vcs :
         c.categories[vc] \subseteq {TagCategoryRegion, TagCategoryZone}
    /\ DOMAIN c.fds = 1..Len(c.fds) /\ Len(c.fds) \in Nat
    /\ \A i \in DOMAIN c.fds :
         LET fd == c.fds[i] IN
         /\ {fd.dc, fd.cluster, fd.ds, fd.tagsRead, fd.group.read, fd.group.found,
             fd.group.vmGroup, fd.group.vmHostRule} \subseteq BOOLEAN
         /\ fd.lacks \subseteq {"datastore", "datacenter", "vcenter", "folder"}
         /\ fd.folder \in {"none", "found", "missing"}
         /\ fd.root \in Listing /\ fd.kubevols \in Listing
         /\ <<fd.region, fd.zone>> \in Affinities
ASSUME StorageInput ==
  \A c \in StorageCall :
    /\ c.vcs \subseteq VCenter /\ c.vcs # {}
    /\ DOMAIN c.fds = 1..Len(c.fds) /\ Len(c.fds) \in Nat
    /\ \A vc \in VCenter :
         c.datastore[vc] \in {"ok", "absent", "unlisted", "unusable"}
    /\ \A k \in DOMAIN c.classes :
         \A key \in DOMAIN c.classes[k].parameters :
           c.classes[k].parameters[key] \in VCenter
ASSUME DeprecationInput ==
  \A c \in DeprecationCall :
    /\ \A v \in c.esxi \cup c.vcenters : v \in Seq(Nat)
    /\ \A h \in c.hardware : h \in Seq(0..9) /\ Len(h) <= 2
ASSUME LookupInput == LookupCall \subseteq [cfg : Config, node : NodeLabels]

VARIABLES check, in, done, answer

vars == <<check, in, done, answer>>

Init ==
  /\ check \in Checks
  /\ \/ check = "infra" /\ in \in InfraCall
     \/ check = "domains" /\ in \in DomainCall
     \/ check = "storage" /\ in \in StorageCall
     \/ check = "deprecation" /\ in \in DeprecationCall
     \/ check = "lookup" /\ in \in LookupCall
  /\ done = FALSE
  /\ answer = <<>>

Call(name) == check = name /\ ~done /\ done' = TRUE /\ UNCHANGED <<check, in>>

InfraChecks ==
  /\ Call("infra")
  /\ answer' = [vCenters |-> CheckInfraConfig(in.infra, in.cfg),
                datacenters |-> CheckDatacenterConsistency(in.infra, in.cfg)]

DomainChecks ==
  /\ Call("domains")
  /\ answer' = [zoneTags |-> CheckZoneTags(in), hostGroups |-> CheckHostGroups(in),
                account |-> CheckAccountPermissions(in),
                folder |-> CheckFolderPermissions(in),
                datastore |-> CheckDefaultDatastore(in)]

StorageCheck ==
  /\ Call("storage")
  /\ \E orders \in [DOMAIN in.classes -> Orders(in.vcs)] :
       answer' = CheckStorageClasses(in, orders)

DeprecationCheck ==
  /\ Call("deprecation")
  /\ answer' = [blockUpgrade |->
                  checkForDeprecation(in.esxi, in.hardware, in.vcenters)]

\* The conversion at the start of a round, then GetVCenter for a node.
LookupVCenter ==
  /\ Call("lookup")
  /\ \E spec \in ConvertToPlatformSpec(in.cfg) :
       answer' = [fds |-> spec.fds,
                  vCenter |-> GetVCenter(in.cfg.vcs, spec.fds, in.node)]

Next ==
  \/ InfraChecks \/ DomainChecks \/ StorageCheck \/ DeprecationCheck
  \/ LookupVCenter
  \/ done /\ UNCHANGED vars

Spec == Init /\ [][Next]_vars

Done(name) == check = name /\ done

-----------------------------------------------------------------------------
(* Properties.                                                             *)

\* CheckInfraConfig and CheckDatacenterConsistency miss nothing together and
\* raise no false alarm: both are silent exactly if both sides have the same
\* vCenters, the failure domains use all of them and no others, and each
\* finds its datacenter on both sides.  CheckDatacenterConsistency skips a
\* vCenter that the config lacks and relies on CheckInfraConfig for it.
MismatchReported ==
  Done("infra") /\ in.infra.read /\ in.infra.fds # <<>> =>
    LET fds == {in.infra.fds[i] : i \in DOMAIN in.infra.fds}
        written(vc) == {in.cfg[vc][i].name : i \in DOMAIN in.cfg[vc]}
        consistent ==
          /\ {fd.server : fd \in fds} = DOMAIN in.infra.vcs
          /\ DOMAIN in.infra.vcs = DOMAIN in.cfg
          /\ \A fd \in fds : fd.dc \in in.infra.vcs[fd.server] \cap written(fd.server)
    IN  consistent <=> answer.vCenters = {} /\ answer.datacenters = {}

\* What a VM of the failure domain needs: the objects the domain names exist,
\* the account may use them, the region and the zone of the domain can be
\* told from tags at the place that its affinities say, and every host of a
\* host group belongs to the zone by name.
UsableButForListing(fd, several) ==
  /\ fd.server \in in.vcs /\ fd.dc /\ fd.ds
  /\ fd.lacks \subseteq {"folder"} /\ fd.folder # "missing"
  /\ "folder" \in fd.lacks => fd.folder = "none"
  /\ several => /\ fd.cluster /\ fd.tagsRead
                /\ fd.region = "none" /\ fd.zone = "none" =>
                     fd.regionOn # {} /\ fd.zoneOn # {}
                /\ fd.region = "Datacenter" => "Datacenter" \in fd.regionOn
                /\ fd.region = "ComputeCluster" =>
                     "ClusterComputeResource" \in fd.regionOn
                /\ fd.zone = "ComputeCluster" => "ClusterComputeResource" \in fd.zoneOn
                /\ fd.zone = "none" => fd.zoneOn # {}
  /\ fd.zone = "HostGroup" =>
       /\ fd.cluster /\ fd.tagsRead /\ fd.group.read /\ fd.group.found
       /\ fd.group.vmGroup /\ fd.group.vmHostRule
       /\ DOMAIN fd.group.hosts # {}
       /\ \A h \in DOMAIN fd.group.hosts : fd.group.hosts[h] = "own"

\* Files can be listed: folder.go calls it "necessary to create volumes".  The
\* directory /kubevols may be missing: it "will be created by OCP on the first
\* provisioning".
Listable(fd) == fd.root = "listed" /\ fd.kubevols \in {"listed", "missing"}

\* vCenter refuses to search a directory, and nothing else is wrong with the
\* two.
SearchRefused(fd) ==
  /\ "refused" \in {fd.root, fd.kubevols}
  /\ fd.root \in {"listed", "refused"} /\ fd.kubevols # "failed"

Usable(fd, several) == UsableButForListing(fd, several) /\ Listable(fd)

\* The checks are silent about this domain although it is not usable: the only
\* fault is a refused search, for which listDirectory returns nil ("we may not
\* have sufficient permissions to browse datastore path").
Overlooked(fd, several) == UsableButForListing(fd, several) /\ SearchRefused(fd)

\* When the five checks that walk over the failure domains are all silent,
\* every failure domain is usable, with one exception: a domain where vCenter
\* refuses to search the datastore is overlooked, although folder.go says that
\* listing is "necessary to create volumes".  When all domains are usable, or
\* overlooked, none of the checks complains.  Early returns and the errors
\* they drop hide no other unusable domain.
AllClearMeansUsable ==
  Done("domains") /\ in.infra = "read" =>
    LET several == Len(in.fds) > 1
        tagged(vc) == {"openshift-region", "openshift-zone"} = in.categories[vc]
        usable ==
          /\ \A i \in DOMAIN in.fds :
               /\ Usable(in.fds[i], several) \/ Overlooked(in.fds[i], several)
               /\ in.fds[i].zone = "HostGroup" => tagged(in.fds[i].server)
          /\ several => \A vc \in in.vcs : tagged(vc)
    IN  usable <=> \A name \in DOMAIN answer : answer[name] = {}

\* CheckHostGroups and CheckZoneTags agree on failure domains whose zone is a
\* host group: when the first is content with the hosts, the second, which
\* reads the tags of the same hosts another way, misses no zone tag.
HostGroupsImplyZoneTags ==
  Done("domains") /\ answer.hostGroups = {} =>
    \A i \in DOMAIN in.fds :
      in.fds[i].zone = "HostGroup" => <<i, "zone tag">> \notin answer.zoneTags

\* CheckStorageClasses with a readable API reports a problem only if a
\* datastore, a policy or a vCenter is not as it should be.  If it is silent,
\* every datastore a checked class names by URL, or by name in a legacy
\* config, is there and usable, and every vCenter has the storage policy and
\* usable datastores for it, unless a vCenter did not list them: that ends
\* the walk over the vCenters with nil, and depending on the order of the map
\* hides a missing policy in another.  The message counts every problem.
StorageVerdict ==
  Done("storage") /\ in.api =>
    LET fine(vc) == in.datastore[vc] = "ok"
        reachable(vc) == vc \in in.vcs /\ \E i \in DOMAIN in.fds : in.fds[i] = vc
        checked == {c \in DOMAIN in.classes : in.classes[c].provisioner # "other"}
        named(key) == {in.classes[c].parameters[key] :
          c \in {k \in checked : key \in DOMAIN in.classes[k].parameters}}
        byName == IF in.legacy THEN named("datastore") ELSE {}
        byPolicy == IF named("storagepolicyname") = {} THEN {} ELSE in.vcs
        unlisted == \E vc \in in.vcs : in.policy[vc] = "unlisted"
    IN  /\ answer.problems = {} =>
             /\ \A vc \in named("datastoreurl") : fine(vc) /\ reachable(vc)
             /\ \A vc \in byName : fine(vc) /\ in.vcs = {vc}
             /\ \A vc \in byPolicy : \/ unlisted
                                     \/ in.policy[vc] = "none"
                                     \/ in.policy[vc] = "any" /\ fine(vc) /\ reachable(vc)
        /\ answer.problems # {} =>
             \/ \E i \in DOMAIN in.fds : ~fine(in.fds[i]) \/ in.fds[i] \notin in.vcs
             \/ \E vc \in named("datastoreurl") : ~reachable(vc)
             \/ \E vc \in byName : ~fine(vc) \/ in.vcs # {vc}
             \/ \E vc \in byPolicy :
                  in.policy[vc] # "none" /\ (in.policy[vc] # "any" \/ ~reachable(vc))
        /\ answer.message.found = Cardinality(answer.problems)

\* checkForDeprecation asks to block upgrades exactly if some ESXi host or
\* vCenter is older than 6.7.3, or some VM has hardware older than 15, among
\* the versions that parse.  The versions vmx-08 and vmx-09 do not: with base
\* 0 they are malformed octal numbers, and pass although they are older.
OldVersionBlocks ==
  Done("deprecation") =>
    LET number(v) == [i \in 1..3 |-> IF i <= Len(v) THEN v[i] ELSE 0]
        oldVersion(v) ==
          /\ v # <<>>
          /\ \/ number(v)[1] < 6
             \/ number(v)[1] = 6 /\ number(v)[2] < 7
             \/ number(v)[1] = 6 /\ number(v)[2] = 7 /\ number(v)[3] < 3
        oldHardware(h) == \/ Len(h) = 1
                          \/ Len(h) = 2 /\ h[1] = 1 /\ h[2] < 5
                          \/ Len(h) = 2 /\ h[1] = 0 /\ h[2] \notin {8, 9}
    IN  answer.blockUpgrade <=>
          \/ \E v \in in.esxi \cup in.vcenters : oldVersion(v)
          \/ \E h \in in.hardware : oldHardware(h)

\* vsphere_datastore_total, whose help text (datastore.go) is "Number of
\* DataStores used by the cluster.", counts a datastore that the classes use
\* once, in whatever way they name it.
DatastoreTotalExact ==
  Done("storage") =>
    Cardinality(answer.dsTypes) = Cardinality({key[2] : key \in answer.dsTypes})

\* GetVCenter never guesses between failure domains: with several of them it
\* answers only when the labels of the node name one, and then with the
\* vCenter of the first that they name.
NoGuessing ==
  Done("lookup") /\ answer.vCenter # Error /\ Len(answer.fds) > 1 =>
    LET node == in.node
        fds == answer.fds
        names(i) == fds[i].region = Region(node) /\ fds[i].zone = Zone(node)
    IN  /\ Labelled(node)
        /\ \E i \in DOMAIN fds : /\ names(i) /\ fds[i].server = answer.vCenter
                                 /\ \A j \in 1..(i - 1) : ~names(j)

\* A labelled node whose labels name a failure domain of a connected vCenter
\* is found there, whatever the conversion of a legacy config added.
LabelsDecide ==
  Done("lookup") /\ Labelled(in.node) =>
    LET m == Matches(in.node, in.cfg.fds)
        server == in.cfg.fds[First(m)].server
    IN  m # {} /\ server \in in.cfg.vcs => answer.vCenter = server

\* util.go: "This can happen when the cluster has more than one vCenter and
\* the node's labels don't correspond to any configured FD (e.g. the FD was
\* removed).  Return an error so the caller knows the node is unresolvable
\* rather than silently returning the wrong vCenter."
UnmatchedIsError ==
  Done("lookup") /\ Labelled(in.node) /\ Matches(in.node, answer.fds) = {}
    /\ Cardinality(in.cfg.vcs) > 1 => answer.vCenter = Error

=============================================================================
