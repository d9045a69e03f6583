-------------------------- MODULE VSphereCacheProofs --------------------------
(***************************************************************************)
(* Safety of vSphereCache for any number of checks, datacenters and        *)
(* datastores.                                                             *)
(***************************************************************************)
EXTENDS VSphereCache, TLAPS

-----------------------------------------------------------------------------
(* The inductive invariant.                                                *)

Inside == {"datacenter", "datastores", "retrieve", "lookup", "pods"}
DatastoreRequest == [op : {"datastore"}, dc : Datacenter, ds : Datastore]

CacheTypes ==
  /\ inventory \in [Datacenter -> SUBSET Datastore]
  /\ datastores \in [Datacenter -> SUBSET Datastore]
  /\ listed \in SUBSET Datastore
  /\ pc \in [Check -> {"idle", "locking"} \cup Inside]
  /\ request \in [Check -> Request \cup {NoRequest}]

\* The mutex is held exactly by the goroutine that is inside a call.
MutexInv == \A c \in Check : pc[c] \in Inside <=> mutex = c

\* A goroutine past getDatacenterLocked looks for a datastore.
RequestInv ==
  \A c \in Check :
    /\ pc[c] \in {"locking", "datacenter"} => request[c] \in Request
    /\ pc[c] = "datacenter" => request[c].op # "storagePods"
    /\ pc[c] \in {"datastores", "retrieve", "lookup"} =>
         request[c] \in DatastoreRequest

\* A load replaces nothing and stores something; a lookup finds a loaded list.
LoadInv ==
  \A c \in Check :
    /\ pc[c] = "retrieve" =>
         datastores[request[c].dc] = NotLoaded /\ listed # {}
    /\ pc[c] = "lookup" => datastores[request[c].dc] # NotLoaded

\* Every answer given so far is what the cache would answer now.
AnswerInv ==
  \A x \in answers :
    /\ x[1] \in DatastoreRequest
    /\ datastores[x[1].dc] # NotLoaded
    /\ x[2] = (x[1].ds \in datastores[x[1].dc])

CacheInv == CacheTypes /\ MutexInv /\ RequestInv /\ LoadInv /\ AnswerInv

\* What a load has put into the cache stays as it is.
Stays == \A d \in Datacenter :
           datastores[d] # NotLoaded => datastores'[d] = datastores[d]

-----------------------------------------------------------------------------
\* Two goroutines are never inside a call at the same time.
LEMMA OneInside ==
  ASSUME MutexInv, NEW c \in Check, NEW d \in Check,
         pc[c] \in Inside, pc[d] \in Inside
  PROVE  c = d
BY DEF MutexInv

\* A datastore request is a request for a datastore of a datacenter.
LEMMA RequestFields ==
  /\ \A r \in DatastoreRequest :
       r \in Request /\ r.op = "datastore" /\ r.dc \in Datacenter
  /\ \A r \in Request : r.op \notin {"storagePods", "datacenter"}
                          => r \in DatastoreRequest
BY DEF DatastoreRequest, Request

LEMMA CacheInvInit == Init => CacheInv
BY CheckAssumption
   DEF Init, CacheInv, CacheTypes, MutexInv, RequestInv, LoadInv, AnswerInv,
       Inside, NotLoaded, NoRequest

\* A step of one goroutine that moves it inside its call, or in or out of it,
\* keeps the mutex in one hand.
LEMMA MutexKept ==
  ASSUME CacheInv, NEW c \in Check, NEW to \in {"idle", "locking"} \cup Inside,
         pc' = [pc EXCEPT ![c] = to],
         \/ pc[c] \in Inside /\ to \in Inside /\ mutex' = mutex
         \/ pc[c] \in Inside /\ to = "idle" /\ mutex' = "free"
         \/ mutex = "free" /\ to \in Inside /\ mutex' = c
         \/ pc[c] \notin Inside /\ to \notin Inside /\ mutex' = mutex
  PROVE  MutexInv'
BY CheckAssumption DEF CacheInv, CacheTypes, MutexInv, Inside

\* Entering a call, up to the lock.
LEMMA EnterStep ==
  ASSUME CacheInv, NEW c \in Check,
         (\E r \in Request : Call(c, r)) \/ Lock(c)
  PROVE  CacheInv' /\ Stays
<1>. USE DEF CacheInv
<1>1. ASSUME NEW r \in Request, Call(c, r)
      PROVE  CacheInv' /\ Stays
  <2>. USE <1>1 DEF Call, Goto, vcenter, cache
  <2>1. CacheTypes'
    BY DEF CacheTypes
  <2>2. MutexInv'
    BY MutexKept DEF Inside
  <2>3. RequestInv' /\ LoadInv'
    BY DEF RequestInv, LoadInv, CacheTypes
  <2>4. AnswerInv' /\ Stays
    BY DEF AnswerInv, Stays
  <2>. QED  BY <2>1, <2>2, <2>3, <2>4
<1>2. ASSUME Lock(c)
      PROVE  CacheInv' /\ Stays
  <2>. USE <1>2 DEF Lock, Goto, vcenter, cache
  <2>1. CacheTypes'
    BY DEF CacheTypes, Inside
  <2>2. MutexInv'
    BY MutexKept DEF Inside
  <2>3. RequestInv' /\ LoadInv'
    BY DEF RequestInv, LoadInv, CacheTypes
  <2>4. AnswerInv' /\ Stays
    BY DEF AnswerInv, Stays
  <2>. QED  BY <2>1, <2>2, <2>3, <2>4
<1>. QED  BY <1>1, <1>2

\* Steps inside a call that leave the datastores of the cache alone.
LEMMA PassStep ==
  ASSUME CacheInv, NEW c \in Check,
         \/ DatacenterCached(c) \/ LoadDatacenter(c) \/ LoadDatacenterFails(c)
         \/ DatastoresCached(c)
         \/ StoragePodsCached(c) \/ LoadStoragePods(c)
         \/ LoadStoragePodsFails(c)
  PROVE  CacheInv' /\ Stays
<1>. USE DEF CacheInv
<1>1. /\ UNCHANGED <<inventory, datastores, request, listed, answers>>
      /\ pc[c] \in Inside
  BY DEF DatacenterCached, LoadDatacenter, LoadDatacenterFails,
         DatastoresCached, StoragePodsCached, LoadStoragePods,
         LoadStoragePodsFails, vcenter, cache, Inside
<1>2. PICK to \in {"idle", "datastores", "lookup"} :
        /\ pc' = [pc EXCEPT ![c] = to]
        /\ mutex' = IF to = "idle" THEN "free" ELSE mutex
        /\ to = "datastores" =>
             pc[c] = "datacenter" /\ request[c].op # "datacenter"
        /\ to = "lookup" =>
             pc[c] = "datastores" /\ datastores[request[c].dc] # NotLoaded
  BY DEF DatacenterCached, LoadDatacenter, LoadDatacenterFails,
         DatastoresCached, StoragePodsCached, LoadStoragePods,
         LoadStoragePodsFails, AfterDatacenter, Unlock, Goto
<1>. USE <1>1, <1>2
<1>3. CacheTypes'
  BY DEF CacheTypes, Inside
<1>4. MutexInv'
  BY MutexKept DEF Inside
<1>5. RequestInv'
  BY RequestFields DEF RequestInv, CacheTypes
<1>6. LoadInv'
  BY DEF LoadInv, CacheTypes
<1>7. AnswerInv' /\ Stays
  BY DEF AnswerInv, Stays
<1>. QED  BY <1>3, <1>4, <1>5, <1>6, <1>7

\* getDatastoresLocked lists, reads, stores or fails.
LEMMA LoadStep ==
  ASSUME CacheInv, NEW c \in Check,
         ListDatastores(c) \/ RetrieveDatastores(c) \/ LoadDatastoresFails(c)
  PROVE  CacheInv' /\ Stays
<1>. USE DEF CacheInv
<1>1. pc[c] \in {"datastores", "retrieve"} /\ request[c] \in DatastoreRequest
  BY DEF ListDatastores, RetrieveDatastores, LoadDatastoresFails, RequestInv
<1>2. request[c].dc \in Datacenter
  BY <1>1, RequestFields
<1>3. \A d \in Check : d # c => pc[d] \notin Inside
  BY <1>1, OneInside DEF Inside
<1>. USE <1>1, <1>2, <1>3
<1>4. CASE ListDatastores(c)
  <2>. USE <1>4 DEF ListDatastores, Goto, vcenter, cache
  <2>1. CacheTypes'
    BY DEF CacheTypes, Inside
  <2>2. MutexInv'
    BY MutexKept DEF Inside
  <2>3. RequestInv' /\ LoadInv'
    BY DEF RequestInv, LoadInv, CacheTypes, Inside
  <2>4. AnswerInv' /\ Stays
    BY DEF AnswerInv, Stays
  <2>. QED  BY <2>1, <2>2, <2>3, <2>4
<1>5. CASE RetrieveDatastores(c)
  <2>. USE <1>5 DEF RetrieveDatastores, Goto, vcenter
  <2>1. datastores[request[c].dc] = NotLoaded /\ listed # {}
    BY DEF LoadInv
  <2>2. CacheTypes'
    BY DEF CacheTypes, Inside
  <2>3. MutexInv'
    BY MutexKept DEF Inside
  <2>4. RequestInv' /\ LoadInv'
    BY <2>1 DEF RequestInv, LoadInv, CacheTypes, Inside, NotLoaded
  <2>5. Stays
    BY <2>1 DEF Stays, CacheTypes
  <2>6. AnswerInv'
    BY <2>5, RequestFields DEF AnswerInv, Stays
  <2>. QED  BY <2>2, <2>3, <2>4, <2>5, <2>6
<1>6. CASE LoadDatastoresFails(c)
  <2>. USE <1>6 DEF LoadDatastoresFails, Unlock, Goto, vcenter, cache
  <2>1. CacheTypes'
    BY DEF CacheTypes, Inside
  <2>2. MutexInv'
    BY MutexKept DEF Inside
  <2>3. RequestInv' /\ LoadInv'
    BY DEF RequestInv, LoadInv, CacheTypes, Inside
  <2>4. AnswerInv' /\ Stays
    BY DEF AnswerInv, Stays
  <2>. QED  BY <2>1, <2>2, <2>3, <2>4
<1>. QED  BY <1>4, <1>5, <1>6

\* A lookup answers from the loaded list.
LEMMA LookupStep ==
  ASSUME CacheInv, NEW c \in Check, LookupDatastore(c)
  PROVE  CacheInv' /\ Stays
<1>. USE DEF CacheInv, LookupDatastore, Unlock, Goto, vcenter, cache
<1>1. CacheTypes'
  BY DEF CacheTypes
<1>2. MutexInv'
  BY MutexKept DEF Inside
<1>3. RequestInv' /\ LoadInv'
  BY DEF RequestInv, LoadInv, CacheTypes
<1>4. /\ request[c] \in DatastoreRequest
      /\ datastores[request[c].dc] # NotLoaded
  BY DEF RequestInv, LoadInv
<1>5. AnswerInv'
  BY <1>4 DEF AnswerInv
<1>6. Stays
  BY DEF Stays
<1>. QED  BY <1>1, <1>2, <1>3, <1>5, <1>6

\* vCenter changes behind the back of the cache.
LEMMA InventoryStep ==
  ASSUME CacheInv, InventoryChanges \/ UNCHANGED vars
  PROVE  CacheInv' /\ Stays
<1>. USE DEF CacheInv, InventoryChanges, vars, vcenter, cache
<1>1. CacheTypes'
  BY DEF CacheTypes
<1>2. MutexInv' /\ RequestInv' /\ LoadInv' /\ AnswerInv' /\ Stays
  BY DEF MutexInv, RequestInv, LoadInv, AnswerInv, Stays
<1>. QED  BY <1>1, <1>2

LEMMA CacheStep ==
  ASSUME CacheInv, [Next]_vars
  PROVE  CacheInv' /\ Stays
BY EnterStep, PassStep, LoadStep, LookupStep, InventoryStep DEF Next, Step

\* CacheInv holds in every reachable state of the cache.
THEOREM CacheInvariant == Spec => []CacheInv
<1>1. CacheInv /\ [Next]_vars => CacheInv'
  BY CacheStep
<1>. QED  BY CacheInvInit, <1>1, PTL DEF Spec

-----------------------------------------------------------------------------
\* All lookups of a datastore in a check run are answered alike, whatever
\* happens in vCenter and however many goroutines ask.
THEOREM AnswersCorrect == Spec => []ConsistentAnswers
<1>1. CacheInv => ConsistentAnswers
  BY DEF CacheInv, AnswerInv, ConsistentAnswers
<1>. QED  BY <1>1, CacheInvariant, PTL

\* The datastores of a datacenter, once loaded, are never loaded again or
\* dropped: cdc.datastores is written once per datacenter.
THEOREM LoadedOnce == Spec => [][Stays]_vars
<1>1. CacheInv /\ [Next]_vars => [Stays]_vars
  BY CacheStep
<1>. QED  BY <1>1, CacheInvariant, PTL DEF Spec

=============================================================================
