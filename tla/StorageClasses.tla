--------------------------- MODULE StorageClasses ---------------------------
(***************************************************************************)
(* CheckStorageClasses of pkg/check/datastore.go, with getDatastoreByURL   *)
(* of util.go.  Every vCenter has one datastore here, and the datastore is *)
(* called by the name of its vCenter.                                      *)
(*                                                                         *)
(* ctx is what the check sees of the cluster:                              *)
(*   api         the infrastructure object and the classes can be read     *)
(*   legacy      the cloud config is in the old format                     *)
(*   vcs         the connected vCenters                                    *)
(*   fds         the vCenters of the failure domains, in their order       *)
(*   datastore   per vCenter, its datastore: "ok", "absent", "unlisted"    *)
(*               (the datastores of its datacenter cannot be listed), or   *)
(*               "unusable": the account lacks privileges on it            *)
(*   policy      per vCenter, the storage policy: "unreadable", "absent",  *)
(*               "ambiguous", "unlisted" (its compatible datastores cannot *)
(*               be listed), "any" (the datastore is compatible) or "none" *)
(*   classes     each the provisioner and a map of parameters, a datastore *)
(*               being named by its value                                  *)
(***************************************************************************)
EXTENDS CheckErrors

Provisioner == {"kubernetes.io/vsphere-volume", "csi.vsphere.vmware.com", "other"}

\* What a step of the check finds: problems, and the keys under which
\* dataStoreTypeCollector has the datastores it inspected, as each is named.
Finding(problems, keys) == [problems |-> problems, keys |-> keys]
Nothing == Finding({}, {})

\* checkDataStore: by name, in one vCenter.
checkDataStore(ctx, vc, ds) ==
  IF ds = vc /\ ctx.datastore[ds] \in {"ok", "unusable"}
  THEN Finding(If(ctx.datastore[ds] = "unusable", "unusable"), {<<"name", ds>>})
  ELSE Finding({"not found"}, {})

\* checkDataStoreWithURL: getDatastoreByURL asks the datacenter of each failure
\* domain in turn and stops where it gets an answer or an error.
checkDataStoreWithURL(ctx, ds) ==
  LET connected(i) == ctx.fds[i] \in ctx.vcs
      listed(i) == ctx.datastore[ctx.fds[i]] # "unlisted"
      has(i) == ctx.fds[i] = ds /\ ctx.datastore[ds] # "absent"
      stop == {i \in DOMAIN ctx.fds : ~connected(i) \/ ~listed(i) \/ has(i)}
      at == Min(stop)
  IN  IF stop # {} /\ connected(at) /\ listed(at)
      THEN Finding(If(ctx.datastore[ds] = "unusable", "unusable"), {<<"url", ds>>})
      ELSE Finding({"not found"}, {})

\* Mutant: a vCenter without the policy is passed over.
MutantPolicyOptional(policy) == policy \notin {"any", "none", "absent"}

\* The vCenter ends the walk of checkStoragePolicy.
EndsWalk(policy) == policy \notin {"any", "none"}

\* checkStoragePolicy, for vCenters in the order of the map iteration.  The
\* walk ends with an error at a vCenter that does not have exactly one such
\* policy, and with nil at one whose datastores cannot be listed.
checkStoragePolicy(ctx, order) ==
  LET ending == {i \in DOMAIN order : EndsWalk(ctx.policy[order[i]])}
      walked == IF ending = {} THEN DOMAIN order ELSE 1..(Min(ending) - 1)
      found == {checkDataStoreWithURL(ctx, order[i]) :
                  i \in {j \in walked : ctx.policy[order[j]] = "any"}}
  IN  Finding(IF ending = {} THEN UNION {f.problems : f \in found}
              ELSE If(ctx.policy[order[Min(ending)]] # "unlisted", "policy"),
              UNION {f.keys : f \in found})

\* checkDefaultDatastoreWithDSType up to its first error, which is only logged.
collectDefaultDatastores(ctx) ==
  LET inspect(i) == checkDataStore(ctx, ctx.fds[i], ctx.fds[i])
      fails(i) == ctx.fds[i] \notin ctx.vcs \/ inspect(i).problems # {}
      failing == {i \in DOMAIN ctx.fds : fails(i)}
      last == IF failing = {} THEN Len(ctx.fds) ELSE Min(failing)
      seen == {i \in 1..last : ctx.fds[i] \in ctx.vcs}
  IN  Finding({}, UNION {inspect(i).keys : i \in seen})

\* The problems of a finding, joined to one error.
Joined(found) == Finding(If(found.problems # {}, "joined"), found.keys)

\* One parameter of a class, with the errors it appends to errs: one for every
\* vCenter that fails the parameter datastore, otherwise at most one.  The
\* parameter datastore is checked with a legacy config only.
CheckParameter(ctx, key, value, order) ==
  CASE key = "datastore" ->
         LET found(vc) == checkDataStore(ctx, vc, value) IN
         IF ctx.legacy THEN Finding({vc \in ctx.vcs : found(vc).problems # {}},
                                    UNION {found(vc).keys : vc \in ctx.vcs})
                       ELSE Nothing
    [] key = "datastoreurl" -> checkDataStoreWithURL(ctx, value)
    [] key = "storagepolicyname" -> Joined(checkStoragePolicy(ctx, order))
    [] OTHER -> collectDefaultDatastores(ctx)

\* The answer of the check, and vsphere_datastore_total over all types: the
\* number of keys.  A failing read of the API leaves the metric reset.  Each walk
\* over the map of vCenters has an order of its own.
CheckStorageClasses(ctx, orders) ==
  LET checked == {c \in DOMAIN ctx.classes : ctx.classes[c].provisioner # "other"}
      visits == UNION {{c} \X DOMAIN ctx.classes[c].parameters : c \in checked}
      visit(v) == CheckParameter(ctx, v[2], ctx.classes[v[1]].parameters[v[2]],
                                 orders[v[1]])
      problems == UNION {{v} \X visit(v).problems : v \in visits}
      dsTypes == UNION {visit(v).keys : v \in visits}
  IN  IF ctx.api
      THEN [problems |-> problems, message |-> JoinErrors(problems), dsTypes |-> dsTypes]
      ELSE [problems |-> {<<0, "api">>}, message |-> [found |-> 1, listed |-> 1],
            dsTypes |-> {}]

=============================================================================
