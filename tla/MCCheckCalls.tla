---------------------------- MODULE MCCheckCalls ----------------------------
(* Model-checking instance of CheckCalls: the inputs of the calls.          *)
EXTENDS CheckCalls, SequencesExt

PartialFunctions(S, T) == UNION {[D -> T] : D \in SUBSET S}

-----------------------------------------------------------------------------
(* "infra": all vCenters and datacenters on both sides, up to two failure   *)
(* domains.  The config text is empty, or has names with and without spaces *)
(* and an empty field after a last comma.                                   *)

Text(name) == [name |-> name, spaces |-> FALSE]
Padded(name) == [name |-> name, spaces |-> TRUE]
MCText == {<<Text(Blank)>>, <<Text("dc1")>>, <<Text("dc1"), Padded("dc2")>>,
           <<Padded("dc2"), Text(Blank)>>}

MCInfraCall ==
  [infra : [read : {TRUE}, vcs : PartialFunctions(VCenter, SUBSET Datacenter),
            fds : BoundedSeq([server : VCenter, dc : Datacenter], 2)],
   cfg : PartialFunctions(VCenter, MCText)]
  \cup
  [infra : [read : {FALSE}, vcs : {<<>>}, fds : {<<>>}], cfg : {<<>>}]

-----------------------------------------------------------------------------
(* "domains": a failure domain that departs from a sound one in its         *)
(* inventory and permissions, or in its tags and host group, alone or with  *)
(* a second one before or behind it.                                        *)

Sound ==
  [server |-> "vc1", dc |-> TRUE, cluster |-> TRUE, ds |-> TRUE,
   lacks |-> {}, folder |-> "found", root |-> "listed", kubevols |-> "listed",
   region |-> "none", zone |-> "none",
   regionOn |-> {"Datacenter"}, zoneOn |-> {"ClusterComputeResource"},
   tagsRead |-> TRUE,
   group |-> [read |-> TRUE, found |-> TRUE, hosts |-> [h \in {} |-> "own"],
              vmGroup |-> TRUE, vmHostRule |-> TRUE]]

Inventories ==
  {[Sound EXCEPT !.dc = d, !.cluster = c, !.ds = s, !.lacks = l,
                 !.folder = f] :
     d \in BOOLEAN, c \in BOOLEAN, s \in BOOLEAN,
     l \in {{}, {"datastore"}, {"datacenter"}, {"vcenter"}, {"folder"}},
     f \in {"none", "found", "missing"}}
  \cup
  {[Sound EXCEPT !.root = r, !.kubevols = k, !.ds = s] :
     r \in Listing, k \in Listing, s \in BOOLEAN}

Groups ==
  [read : BOOLEAN, found : BOOLEAN, hosts : PartialFunctions({"h1", "h2"}, HostTag),
   vmGroup : {TRUE}, vmHostRule : {TRUE}]
  \cup
  [read : {TRUE}, found : {TRUE}, hosts : {[h \in {"h1"} |-> "own"]},
   vmGroup : BOOLEAN, vmHostRule : BOOLEAN]

\* The pairs of affinities that the API admits.
Ancestor == {"Datacenter", "ClusterComputeResource", "Folder"}
Taggings ==
  {[Sound EXCEPT !.region = a[1], !.zone = a[2], !.regionOn = r, !.zoneOn = z,
                 !.tagsRead = t] :
     a \in {<<"none", "none">>, <<"Datacenter", "none">>, <<"ComputeCluster", "none">>,
            <<"Datacenter", "ComputeCluster">>},
     r \in SUBSET Ancestor, z \in SUBSET Ancestor, t \in BOOLEAN}
  \cup
  {[Sound EXCEPT !.region = "ComputeCluster", !.zone = "HostGroup", !.regionOn = r,
                 !.zoneOn = z, !.tagsRead = t, !.group = g, !.cluster = c] :
     r \in {{}, {"Datacenter"}, {"ClusterComputeResource"}},
     z \in {{}, {"Datacenter"}}, t \in BOOLEAN, g \in Groups, c \in BOOLEAN}

Second == {Sound, [Sound EXCEPT !.server = "vc2"], [Sound EXCEPT !.dc = FALSE],
           [Sound EXCEPT !.zoneOn = {}, !.lacks = {"vcenter"}]}

Both == {"openshift-region", "openshift-zone"}
MCDomainCall ==
  LET varied == Inventories \cup Taggings
      calls(lists) == [infra : {"read"}, vcs : {{"vc1"}, {"vc1", "vc2"}}, fds : lists,
                       categories : {[vc \in VCenter |-> Both]}]
  IN  calls([1..1 -> varied]) \cup calls(varied \X Second) \cup calls(Second \X varied)
      \cup
      [infra : {"read", "noSpec", "unreadable"}, vcs : {{"vc1"}},
       fds : {<<Sound, Sound>>} \cup [1..1 -> Taggings],
       categories : [{"vc1"} -> SUBSET Both]]

-----------------------------------------------------------------------------
(* "storage": any state of two datastores and of the policy in two vCenters, *)
(* one class with any parameters, or one with a second that has all.         *)

Params == PartialFunctions({"datastore", "datastoreurl", "storagepolicyname", "fstype"},
                           VCenter)
MCClasses ==
  LET class(p, params) == [provisioner |-> p, parameters |-> params]
      all == class("csi.vsphere.vmware.com",
                   [k \in {"datastore", "datastoreurl", "storagepolicyname"} |-> "vc1"])
  IN  {<<class(p, params)>> : p \in {"kubernetes.io/vsphere-volume", "other"},
                              params \in {q \in Params : \A k \in DOMAIN q :
                                 k \in {"storagepolicyname", "fstype"} => q[k] = "vc1"}}
      \cup {<<all, all>>}

MCStorageCall ==
  LET ctxs == [api : {TRUE}, legacy : BOOLEAN, vcs : {{"vc1"}, {"vc1", "vc2"}},
               fds : {<<"vc1">>, <<"vc1", "vc2">>, <<"vc2", "vc1">>},
               datastore : [VCenter -> {"ok", "absent", "unlisted", "unusable"}],
               policy : [VCenter -> {"unreadable", "absent", "ambiguous",
                                     "unlisted", "any", "none"}],
               classes : MCClasses]
      hasPolicy(c) == \E i \in DOMAIN c.classes :
                        "storagepolicyname" \in DOMAIN c.classes[i].parameters
      plain == [vc \in VCenter |-> "none"]
  IN  {c \in ctxs : /\ c.legacy => c.vcs = {"vc1"}
                    /\ hasPolicy(c) \/ c.policy = plain}
      \cup
      [api : {FALSE}, legacy : {FALSE}, vcs : {VCenter}, fds : {<<"vc1">>},
       datastore : [VCenter -> {"ok"}], policy : [VCenter -> {"any"}],
       classes : MCClasses]

-----------------------------------------------------------------------------
(* "deprecation": up to two versions of each kind, around the minima.        *)

MCVersions == {<<>>, <<6>>, <<6, 7>>, <<6, 7, 2>>, <<6, 7, 3>>, <<6, 7, 3, 0>>,
               <<7, 0>>, <<8, 0, 1, 0>>, <<5, 9, 9>>}
MCHardware == {<<>>, <<0, 4>>, <<0, 7>>, <<0, 8>>, <<0, 9>>, <<1, 0>>, <<1, 4>>,
               <<1, 5>>, <<2, 1>>}
UpTo(n, S) == UNION {kSubset(k, S) : k \in 0..n}
MCDeprecationCall == [esxi : UpTo(2, MCVersions), hardware : UpTo(2, MCHardware),
                      vcenters : UpTo(1, MCVersions)]

-----------------------------------------------------------------------------
(* "lookup": all inputs, or those where one failure domain is left.          *)

MCLookupCall == [cfg : Config, node : NodeLabels]
MCRemovedCall == [cfg : {c \in Config : ~c.legacy /\ Len(c.fds) = 1},
                  node : NodeLabels]

=============================================================================
