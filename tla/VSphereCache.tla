---------------------------- MODULE VSphereCache ----------------------------
(***************************************************************************)
(* vSphereCache of pkg/cache/cache.go: the cache of one vCenter for one    *)
(* check run, shared by all checks of the run.  One mutex is held for the  *)
(* whole of a call, the vCenter calls of a load included.  A load that     *)
(* fails leaves nothing behind; the inventory of vCenter may change at any *)
(* time, also between the two calls that load the datastores.              *)
(*                                                                         *)
(* A datastore stands for its name, path, URL and reference: the four      *)
(* lookups differ only in the key they compare.                            *)
(***************************************************************************)
EXTENDS Integers, FiniteSets

CONSTANTS Check,       \* goroutines that use the cache
          Datacenter, Datastore

ASSUME CheckAssumption == "free" \notin Check

\* A nil slice.  The code tells "not loaded" from "loaded" by it, so an empty
\* result is the same as none.
NotLoaded == {}

\* What is asked of the cache.  GetDatastore, GetDatastoreByURL,
\* GetDatastoreMo and GetDatastoreMoByReference are "datastore".
Request == [op : {"datacenter"}, dc : Datacenter]
             \cup [op : {"datastore"}, dc : Datacenter, ds : Datastore]
             \cup [op : {"storagePods"}]

VARIABLES
  inventory,    \* datastores of each datacenter in vCenter
  pods,         \* datastores in storage pods, in vCenter
  mutex,        \* the goroutine that holds the lock, or "free"
  datacenters,  \* datacenters in the cache
  datastores,   \* cdc.datastores
  storagePods,  \* c.storagePods
  pc,           \* where each goroutine is
  request,      \* what it asked for
  listed,       \* result of DatastoreList, before the properties are read
  answers       \* history: datastores looked up, and whether found

cache == <<datacenters, datastores, storagePods>>
vcenter == <<inventory, pods>>
vars == <<vcenter, mutex, cache, pc, request, listed, answers>>

NoRequest == [op |-> "none"]

Init ==
  /\ inventory \in [Datacenter -> SUBSET Datastore]
  /\ pods \in SUBSET Datastore
  /\ mutex = "free"
  /\ datacenters = {}
  /\ datastores = [d \in Datacenter |-> NotLoaded]
  /\ storagePods = NotLoaded
  /\ pc = [c \in Check |-> "idle"]
  /\ request = [c \in Check |-> NoRequest]
  /\ listed = {}
  /\ answers = {}

Goto(c, to) == pc' = [pc EXCEPT ![c] = to]

\* Every call locks first and unlocks when it returns.
Call(c, r) ==
  /\ pc[c] = "idle"
  /\ request' = [request EXCEPT ![c] = r]
  /\ Goto(c, "locking")
  /\ UNCHANGED <<vcenter, mutex, cache, listed, answers>>

Lock(c) ==
  /\ pc[c] = "locking"
  /\ mutex = "free"
  /\ mutex' = c
  /\ Goto(c, IF request[c].op = "storagePods" THEN "pods" ELSE "datacenter")
  /\ UNCHANGED <<vcenter, cache, request, listed, answers>>

Unlock(c) ==
  /\ mutex' = "free"
  /\ Goto(c, "idle")

-----------------------------------------------------------------------------
(* getDatacenterLocked                                                     *)

AfterDatacenter(c) ==
  IF request[c].op = "datacenter" THEN Unlock(c)
  ELSE Goto(c, "datastores") /\ UNCHANGED mutex

DatacenterCached(c) ==
  /\ pc[c] = "datacenter"
  /\ request[c].dc \in datacenters
  /\ AfterDatacenter(c)
  /\ UNCHANGED <<vcenter, cache, request, listed, answers>>

LoadDatacenter(c) ==
  /\ pc[c] = "datacenter"
  /\ request[c].dc \notin datacenters
  /\ datacenters' = datacenters \cup {request[c].dc}
  /\ AfterDatacenter(c)
  /\ UNCHANGED <<vcenter, datastores, storagePods, request, listed, answers>>

LoadDatacenterFails(c) ==
  /\ pc[c] = "datacenter"
  /\ request[c].dc \notin datacenters
  /\ Unlock(c)
  /\ UNCHANGED <<vcenter, cache, request, listed, answers>>

-----------------------------------------------------------------------------
(* getDatastoresLocked and the lookups                                     *)

DatastoresCached(c) ==
  /\ pc[c] = "datastores"
  /\ datastores[request[c].dc] # NotLoaded
  /\ Goto(c, "lookup")
  /\ UNCHANGED <<vcenter, mutex, cache, request, listed, answers>>

\* DatastoreList: an empty list is an error of the finder.
ListDatastores(c) ==
  /\ pc[c] = "datastores"
  /\ datastores[request[c].dc] = NotLoaded
  /\ inventory[request[c].dc] # {}
  /\ listed' = inventory[request[c].dc]
  /\ Goto(c, "retrieve")
  /\ UNCHANGED <<vcenter, mutex, cache, request, answers>>

\* The managed objects of the listed datastores are read and paired with them
\* by name; one that is gone by then fails the load.
RetrieveDatastores(c) ==
  /\ pc[c] = "retrieve"
  /\ listed \subseteq inventory[request[c].dc]
  /\ datastores' = [datastores EXCEPT ![request[c].dc] = listed]
  /\ listed' = {}
  /\ Goto(c, "lookup")
  /\ UNCHANGED <<vcenter, mutex, datacenters, storagePods, request, answers>>

\* Mutant: the error path does not unlock.
MutantKeepLock(c) ==
  /\ \/ pc[c] = "datastores" /\ datastores[request[c].dc] = NotLoaded
     \/ pc[c] = "retrieve"
  /\ listed' = {}
  /\ Goto(c, "idle")
  /\ UNCHANGED <<vcenter, mutex, cache, request, answers>>

LoadDatastoresFails(c) ==
  /\ \/ pc[c] = "datastores" /\ datastores[request[c].dc] = NotLoaded
     \/ pc[c] = "retrieve"
  /\ listed' = {}
  /\ Unlock(c)
  /\ UNCHANGED <<vcenter, cache, request, answers>>

\* Mutant: the lookup asks vCenter.
MutantAskVCenter(c) ==
  /\ pc[c] = "lookup"
  /\ answers' = answers \cup
       {<<request[c], request[c].ds \in inventory[request[c].dc]>>}
  /\ Unlock(c)
  /\ UNCHANGED <<vcenter, cache, request, listed>>

\* The loop over the cached list.
LookupDatastore(c) ==
  /\ pc[c] = "lookup"
  /\ answers' = answers \cup
       {<<request[c], request[c].ds \in datastores[request[c].dc]>>}
  /\ Unlock(c)
  /\ UNCHANGED <<vcenter, cache, request, listed>>

-----------------------------------------------------------------------------
(* GetStoragePods                                                          *)

StoragePodsCached(c) ==
  /\ pc[c] = "pods"
  /\ storagePods # NotLoaded
  /\ Unlock(c)
  /\ UNCHANGED <<vcenter, cache, request, listed, answers>>

\* Without pods the next call loads again.
LoadStoragePods(c) ==
  /\ pc[c] = "pods"
  /\ storagePods = NotLoaded
  /\ storagePods' = pods
  /\ Unlock(c)
  /\ UNCHANGED <<vcenter, datacenters, datastores, request, listed, answers>>

\* Missing permissions and failures are answered with an empty list.
LoadStoragePodsFails(c) ==
  /\ pc[c] = "pods"
  /\ storagePods = NotLoaded
  /\ Unlock(c)
  /\ UNCHANGED <<vcenter, cache, request, listed, answers>>

-----------------------------------------------------------------------------
\* A datastore is added to or removed from vCenter, or joins or leaves a pod.
InventoryChanges ==
  /\ \/ /\ inventory' \in [Datacenter -> SUBSET Datastore] \ {inventory}
        /\ UNCHANGED pods
     \/ /\ pods' \in SUBSET Datastore \ {pods}
        /\ UNCHANGED inventory
  /\ UNCHANGED <<mutex, cache, pc, request, listed, answers>>

Step(c) ==
  \/ DatacenterCached(c) \/ LoadDatacenter(c) \/ LoadDatacenterFails(c)
  \/ DatastoresCached(c) \/ ListDatastores(c) \/ RetrieveDatastores(c)
  \/ LoadDatastoresFails(c) \/ LookupDatastore(c)
  \/ StoragePodsCached(c) \/ LoadStoragePods(c) \/ LoadStoragePodsFails(c)

Next ==
  \/ \E c \in Check : (\E r \in Request : Call(c, r)) \/ Lock(c) \/ Step(c)
  \/ InventoryChanges

\* A call that holds the mutex goes on: its vCenter calls carry a timeout.
\* sync.Mutex hands the lock to a goroutine that waits too long, so one that
\* finds it free again and again gets it.
Fairness == \A c \in Check : WF_vars(Step(c)) /\ SF_vars(Lock(c))

Spec == Init /\ [][Next]_vars
FairSpec == Spec /\ Fairness

-----------------------------------------------------------------------------
(* Properties.                                                             *)

\* The point of one cache per check run: all checks of the run see the same
\* datastores.  No two lookups of a datastore in a datacenter are answered
\* differently, although vCenter changes meanwhile and loads fail.
ConsistentAnswers == \A x, y \in answers : x[1] = y[1] => x[2] = y[2]

\* Every call returns: nobody keeps the mutex.
CallsReturn == \A c \in Check : pc[c] = "locking" ~> pc[c] = "idle"

=============================================================================
