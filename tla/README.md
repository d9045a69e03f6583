# A TLA+ model of vsphere-problem-detector

vsphere-problem-detector is an OpenShift operator that periodically checks
whether the vSphere a cluster runs on is set up properly. This directory holds
TLA+ modules for its core: the scheduling of check rounds, the thread pool that
runs them, a round of checks from login to logout, the node checks that share
state, the vSphere cache, and the sequential checks of the configuration: tags,
host groups, permissions, folders, datastores, storage classes, versions, and
the choice of the vCenter of a node. TLC checks
the modules on small instances; TLAPS proves almost every safety property that
the runs check for every instance: any number of workers, tasks, nodes, checks,
rounds, vCenters and failure domains. Paths below are relative to `src/`.

`PROJECT.json` maps each definition to the lines it models and lists the runs,
the hazards they are aimed at, the disagreements between code and comments they
show, and, for each checked property, a mutant of the model that breaks it.

## The system

| part | state it keeps | operations | hard about it |
|---|---|---|---|
| controller (`pkg/operator/operator.go`, `starter.go`) | `nextCheck`, `lastCheck`, `backoff`, `oldManagedState`, `log.Silenced`, timers, the Available condition | `sync`, `runSyncChecks`, `runChecks`, `checkStateChange`, `updateConditions` | lost wake-ups, event storms, mode changes without restart, failed status updates, restarts, rounds without deadline |
| check round (`vsphere_check.go`, result collector in `pool.go`) | sessions, results, gauges, metrics in progress | `runChecks`, `enqueue*`, `getVM`, `runSingle*`, `Collect` | work of a given-up round runs in the next one, partial failures, calls without timeout |
| thread pool (`pool.go`) | wait group, channel, worker goroutines | `RunGoroutine`, `Wait`, `worker` | interleaving of three kinds of goroutines, closing channels, expiry |
| connecting (`vsphere_check.go`) | sessions, `vsphere_sync_errors` | `connect`, `getCredentials`, `newClient` | failure at a later vCenter, failing logouts, stale gauges |
| node checks with state (`pkg/check/node_*.go`, `pkg/util/cluster_info.go`) | versions by host, counters, maps of performance counters, clusters and pools | `CheckNode`, `MarkHostForProcessing`, `FinishCheck` | parallel nodes, names unique in one vCenter only, nil host |
| vCenter of a node (`pkg/check/util.go`) | none | `GetVCenter`, `ConvertToPlatformSpec` | many combinations of labels, failure domains and legacy config |
| vSphere cache (`pkg/cache/cache.go`) | datacenters, datastores, storage pods, a mutex | `GetDatacenter`, `GetDatastore*`, `GetStoragePods` | inventory changes between two calls, failing loads, lock held across calls |
| metrics collector (`pkg/metrics/collector.go`) | metrics in progress, metrics published | `StartMetricCollection`, `AddMetric`, `FinishedAllChecks` | mixing rounds |
| configuration checks (`infra_config.go`, `datacenter_consistency.go`) | none | `CheckInfraConfig`, `CheckDatacenterConsistency` | one relies on the other for what it skips |
| failure domain checks (`zones.go`, `cluster_host_group.go`, `permissions.go`, `folder.go`, `datastore.go`) | none | `CheckZoneTags`, `CheckHostGroups`, `CheckAccountPermissions`, `CheckFolderPermissions`, `CheckDefaultDatastore` | early returns drop collected errors, tolerated errors, affinities |
| storage classes (`datastore.go`) | `vsphere_datastore_total` | `CheckStorageClasses` | orders of maps, listing failures that end the check with success, datastores named in several ways |
| versions (`operator.go`) | none | `checkForDeprecation` | versions of different lengths, base of hardware versions |
| other checks (`pkg/check`) | none | tasks, info, volume types, disk UUID, provider ID | vCenter I/O |

The controller has one worker. A sync that is due makes a checker, which
connects to all vCenters, starts a pool, enqueues every cluster check and one
unit per vSphere node, waits, lets the node checks publish their metrics and
logs out. The controller then collects the results, computes the next delay,
arms a timer and updates its condition.

### What makes each part correct

* Controller: a due round always has a wake-up coming; rounds are at least the
  shortest backoff apart; silenced and normal rounds of one process are not
  mixed; rounds go on for ever while the operator is managed and none hangs.
* Round: complete results; node checks of two rounds never overlap; sessions
  outlive the checks that were waited for; a scrape sees one finished round.
* Pool: each function runs once; `Wait` answers nil only when all is over;
  nothing is sent on a closed channel; workers end if their checks do.
* Connecting: checks run only with a session to every vCenter; a failure can be
  told from the gauge; every session is logged out, except in one known case.
  (A Logout that fails leaves its session behind too.)
* Node checks: a host is loaded once, however nodes interleave; a host without
  version is never silent; every node is counted; a node that found the
  performance counters filled reads them while nobody writes.
* vCenter of a node: no guessing between failure domains; labels decide.
* Configuration, failure domains, storage classes: when all checks are silent
  the configuration is usable, and when it is usable none complains. (One
  unusable configuration is overlooked, see the conditions below.)
* Versions: an old version blocks upgrades, in whatever number of parts it is
  written, unless it does not parse, as `vmx-08` and `vmx-09`.
* Cache: consistent answers in a run; calls return.

## Modules

* `CheckBarrier`: what the pool promises, without goroutines (abstract
  specification).
* `CheckPool`: the pool, one action per operation on the wait group or a
  channel. The submitter is `runChecks`, the waiter the goroutine `Wait`
  starts. `WorkerPanic` and `Crash` separate the deferred `Done` of a panicking
  check from the death of the process, so the window in between is checked too.
  `BarrierSpec` states that it implements `CheckBarrier`.
* `CheckPoolProofs`, `CheckPoolRefinement`: theorems about `CheckPool`; the
  second has the refinement of `CheckBarrier`.
* `CheckRound`: several rounds in a row. It uses the pool only through what
  `CheckBarrier` promises, and `FirstPoolIsBarrier` checks that it does:
  the two modules compose through the abstract specification.
  `runSingleNodeSingleCheck` and `runSingleClusterCheck` set gauges and add
  results as the code does; `Finish` is everything after `Wait` including
  `Collect` in the controller. `typesGauge` holds the rounds that have a value
  in `vsphere_datastore_total`: `StartUnit` of the storage class check resets
  it, the end of the check sets it, and the same check of an abandoned round may
  run in between.
* `ProblemDetectorController`: the scheduling. Time is relative to now (`wait`
  is `nextCheck - now`, timers are remaining times), so the state space is
  finite without a bound on time. A round is `runSyncChecks` ... `RoundEnds`,
  with any number of ticks in between. The delay of an error has a jitter.
  `skipped`, `wentOn` and `age` are history.
* `NodeCheckRound`: the node checks of one round. Each access to a shared map
  is an action; a race is a state in which two goroutines are about to access
  one and one of them writes. The performance counters are a global map
  (`perfFilled`, true from the start when an earlier round filled it); their
  lock is held by the node that is in `perfBuild` or `perfWrite`.
* `Connect`: login to all vCenters, round after round, and logout, which may
  fail. `dropped` are sessions that were forgotten, `unclosed` those whose Logout
  failed.
* `CheckErrors`: how the cluster checks gather problems: append and go on,
  return at once, join.
* `InfraConfig`, `FailureDomainChecks`, `StorageClasses`, `Deprecation`,
  `VCenterLookup`: the sequential checks as operators. Each takes a record of
  what the code sees (read, missing, refused, ...) and returns its problems. An
  iteration over a Go map is every order.
* `CheckCalls`: one call of one of them, for every input of an instance; its
  properties relate the answers of the checks to the configuration and to each
  other.
* `VSphereCache`: the cache of one vCenter.
* `CheckRoundProofs`, `ProblemDetectorControllerProofs`, `NodeCheckRoundProofs`,
  `ConnectProofs`, `VSphereCacheProofs`, `CheckCallsProofs`: the theorems about
  the module of that name.
* `MC*`: instances. Definitions named `Mutant...` are deliberate errors; no
  specification uses them, they show that the properties can fail.

## Runs

| run | checks | outcome |
|---|---|---|
| `pool` | safety of the pool, that waits are answered on cancellation or if checks return, that workers end if checks return, refinement of `CheckBarrier` | holds |
| `pool_leak` | workers end when all work is done, in every round | violated: no `Wait` after `ListNodes` failed |
| `controller` | wake-ups, spacing, modes, delays, recurrence | holds |
| `controller_condition` | the condition tells the last round | violated: failed status update |
| `round` | results, sessions, metrics, gauges, overlap of rounds, use of the pool; rounds and leftover work end if no call hangs | holds |
| `node_checks` | hosts loaded once, reported, nodes and hosts counted, performance counters | holds |
| `node_map_race` | parallel node checks do not race for the state of a check | violated: maps without a lock |
| `connect` | reasons, all sessions, dropped sessions | holds |
| `cluster_checks` | the sequential checks and the lookup over all inputs | holds |
| `lookup_removed` | a node that matches nothing is an error with several vCenters | violated |
| `datastore_total` | the metric counts each datastore once | violated: keyed by name or by URL |
| `cache` | consistency, return of calls | holds |

Each violated property states what a comment, a help text or an error message
of the repository says; the counterexample is what the code does. `findings` in
`PROJECT.json` quotes the lines.

### Conditions in the properties

Some properties hold only under a condition that the comments of the code do
not make. Each is written in the property, and each stands for something a
reviewer of the code may want to look at:

* `DelayFitsMode` excepts a process that saw the CSI driver go from Removed to
  Unmanaged or Force since its last round: it is not silenced any more and does
  not restart (`operator.go:204`), and the next check may be a day away,
  although `operator.go:95` calls one hour the maximum interval. The jitter
  (`operator.go:92`) also comes on top of that hour: the bound is `Cap +
  MaxJitter`.
* `RoundsEnd`, `WorkEnds`, `ChecksRecur`, `WorkersFinish` and a part of
  `WaitAnswers` have the hypothesis that no call to vCenter hangs. The code does
  not see to it: a round has no deadline (`operator.go:328`), and there is no
  timeout for `UserSession` and `Logout` (`vsphere_check.go:68`, `:56`, `:442`),
  `FetchUserPrivilegeOnEntities` and the folder lookup (`permissions.go:121`,
  `:182`), `Configuration` (`cluster_host_group.go:74`, `util.go:164`, `:200`),
  `GetAttachedTagsOnObjects` (`cluster_host_group.go:132`) and `ObjectName`
  (`node_resource_pool_permissions.go:61`). A vCenter that accepts a connection
  and never answers keeps a worker of the pool, or the only worker of the
  controller, for ever. Without the hypothesis `WaitAnswers` and `RoundsEnd`
  still say that a round that waits for its checks ends when the context is
  cancelled.
* `DroppedOnlyByLaterFailure` is about sessions nobody tries to log out. A Logout
  that fails is only logged (`vsphere_check.go:56`), or ignored (`:442`), and
  leaves its session to expire at vCenter, with a single vCenter too.
* `NodeGaugeTellsRound` is about nodes whose VM was read. When `getVM` fails
  (`vsphere_check.go:290`) all checks of the node are reported as failed and
  no gauge is touched; `metrics.go:48` says that 1 means failing.
* `ClusterGaugeTellsRound` and `DatastoreTypesOfRound` except rounds after an abandoned one: cluster
  checks of a round that ended because `ListNodes` failed still run, without a
  session, and set the gauges (`vsphere_check.go:319`, `datastore.go:147`) last.
* `HostsCounted` is about clusters in which no two hosts have the same managed
  object reference value, as `node_esxi_version.go:36` uses it as the key for
  all vCenters. `node_cluster_permissions.go:41` does the same with names of
  clusters.
* No property says that a VM without a host is survived:
  `node_esxi_version.go:34` reports it, `node_cluster_permissions.go:29`
  dereferences it. The model crashes there (`ClusterNoHost`).
* `PerfMapGuarded` allows one meeting of a reader and a writer of the
  performance counters: a node whose own build found no counter reads the empty
  map after the unlock, while the next node fills it (`node_perf.go:117`).
* `StorageVerdict` excepts a vCenter that does not list its datastores: that
  ends the walk with success (`datastore.go:197`) and, depending on the order of
  the map, hides a vCenter without the policy.
* `OldVersionBlocks` excepts `vmx-08` and `vmx-09`, which `operator.go:273` cannot
  parse with base 0: such versions are older than the minimum, and pass.
* `AllClearMeansUsable` excepts a failure domain that vCenter does not let the
  account search (`Overlooked`): `folder.go:79` logs the error and returns nil,
  while `folder.go:14` says that listing files "is necessary to create volumes".
  It is about a readable infrastructure object. One without
  a vSphere section silences the tag and host group checks. With a single failure
  domain no tags are needed.
* `MismatchReported` is about an infrastructure object with failure domains;
  both checks skip one without (`infra_config.go:27`).
* `FailureHasReason` and `ConnectedToAll` do not say that the new-line reasons
  are 0 after a success: `connect` (`vsphere_check.go:155`) resets
  only InvalidCredentials then, while `metrics.go:57` says that 1 means that
  the last sync failed.

### Bounds

* Pool: two workers, one slot and four tasks: the buffer fills, the submitter
  blocks with both workers busy, and one worker can take two tasks. More of
  each adds no new situation, and the proofs cover every number.
* Controller: `Duration` 1, `Cap` 2, `MaxJitter` 1, `SilencedCap` 5; rounds of
  any length, where all that are longer than every delay are alike. The backoff
  doubles and hits its cap, a delay can exceed the cap by its jitter, a round
  can outlast the delay, several timers are armed at once, and the silenced
  delay still exceeds `Cap + MaxJitter` after a round.
* Round: two rounds, one cluster check, two node checks, two vSphere nodes and
  a node of another platform. Two rounds are enough for leftovers to meet a
  later round. The cluster check is the one for storage classes.
* Node checks: three nodes, two of them masters, two vCenters, two host
  reference values: nodes share a host, share only its reference, or have none.
  Masters, other nodes, vCenters, references and versions are interchangeable
  among themselves (symmetry; the run checks no liveness).
* Connect: two vCenters, each with every kind of credential, any number of
  rounds.
* Configuration: two vCenters and datacenters on both sides, every relation
  between them, up to two failure domains, names in the cloud config with spaces
  and empty fields.
* Failure domains: one that departs from a sound one in all combinations of
  inventory and permissions, or of tags, affinities and host groups of up to two
  hosts, alone, before and behind a second one. Problems of the two kinds meet
  in the pairs.
* Storage classes: two vCenters with a datastore each, all their states and
  those of the policy, one class with any parameters or two with all.
* Versions: sets of up to two of nine versions on both sides of each minimum.
* Lookup: two vCenters, two label values, up to two failure domains, current and
  beta labels present or absent.
* Cache: two goroutines, one datacenter, two datastores, any number of
  inventory changes.

### Fairness

* Pool, round: the Go scheduler runs every goroutine that can run. Nothing is
  assumed about checks, which may hang, panic or fail, nor about the context,
  which need not be cancelled. That checks or calls return is a hypothesis of the
  properties (`ChecksReturn`, `CallsReturn`), not of the specification. One thing
  follows from a cancelled context: the select of `Wait` sees it, and a Logout
  with it returns.
* Controller: time passes, timers and the rate limiter fire, the queue is
  served, the pod is restarted. Informers resynchronise
  (`starter.go`, 20 minutes). Reads come from informer caches and do not fail
  for ever (strong fairness of the syncs that do not fail on a read). Nothing is
  assumed about objects changing, crashes, outcomes, or the end of a round or a
  status update; `ChecksRecur` has the hypothesis that the worker is idle again
  and again.
* Cache: a call holding the mutex goes on, as every call of `cache.go` to vCenter
  has a timeout (`util.Timeout`); `sync.Mutex` does not starve a waiter
  (strong fairness of `Lock`).

## Proofs

TLAPS proves every invariant and every action property that a passing run
checks, and both refinements, for all values of the constants that satisfy the
assumptions below. What the runs show on an instance thus does not depend on the
bounds; the runs remain the place where a change of the model is tried first, and
the only one for liveness.

| module | theorems | what is arbitrary |
|---|---|---|
| `CheckPoolProofs` | `PoolInvariant`, `TypeCorrect`, `WgCorrect`, `NeverSendOnClosed`, `WaitCorrect`, `ExitCorrect` | workers, tasks, buffer |
| `CheckPoolRefinement` | `OnceInvariant`, `OnceCorrect`, `PoolImplementsBarrier` | the same |
| `CheckRoundProofs` | `RoundInvariant`, `RoundTypeCorrect`, `ResultsCorrect`, `SessionsCorrect`, `MetricsCorrect`, `NodeGaugeCorrect`, `ClusterGaugeCorrect`, `TypesGaugeCorrect`, `NodeCheckRoundsCorrect`, `FirstPoolCorrect` | nodes, checks, parallelism, rounds |
| `ProblemDetectorControllerProofs` | `ControllerInvariant`, `TypeCorrect`, `WakeUpCorrect`, `DelayCorrect`, `SpacingCorrect` | shortest and longest delay, jitter |
| `NodeCheckRoundProofs` | `NodeInvariant`, `NodeTypeCorrect`, `HostLoadedOnceCorrect`, `EmptyVersionCorrect`, `PerfMapCorrect`, `CountsCorrect`, `HostsCorrect` | nodes, hosts, vCenters, versions |
| `ConnectProofs` | `ConnectInvariant`, `FailureCorrect`, `ConnectedCorrect`, `DroppedCorrect` | vCenters |
| `VSphereCacheProofs` | `CacheInvariant`, `AnswersCorrect`, `LoadedOnce` | checks, datacenters, datastores |
| `CheckCallsProofs` | `CallInvariant`, `MismatchCorrect`, `HostGroupsCorrect`, `AllClearCorrect`, `StorageCorrect`, `DeprecationCorrect`, `NoGuessingCorrect`, `LabelsCorrect` | the whole configuration |

### The arguments

* Pool. `PoolInv`: `WgExact` alone is inductive, but says nothing once the waiter
  was released. `WaiterInv` adds that from the moment the waiter passed
  `wg.Wait()` the counter stays 0 (nobody submits while the round waits), and
  that `closed` and `done` are consequences of where the waiter is; `SendInv` and
  `HandInv` tie a task in hand to where the submitter and each worker are;
  `CoverInv` says that all submitted work is in hand, in the channel, in a worker
  (one that panics included) or completed. Then a verdict nil implies counter 0,
  hence nobody works any more, hence all of it is over. `OnceInv` adds that no
  work is in two places (`NoTwins`, `Apart`). With it each step of the pool is a
  step of `CheckBarrier` or changes nothing the barrier sees: `wg.Add` is
  `Submit`, the send is invisible, the receive is `Start`, the end of the function
  or its panic is `End`, and the end of `Wait` is `Complete` or `GiveUp`.
* Round. `RoundInv` ties each unit of work to the round that submitted it:
  `PendingInv` says that work that is not over belongs to the current round or
  to one that was abandoned or cancelled, `ClusterInv` that no cluster check is
  forgotten between the list of checks, the pool and the work that is over,
  `UnitInv` that an abandoned round submitted cluster checks only, `ResultInv`
  that results are added exactly when a unit ends (for a node, one after the
  other while it runs). That node checks of two rounds do not overlap follows
  from `PendingInv` and `UnitInv`; that the gauges tell the last round follows
  because only units of an abandoned round could still write them. For
  `FirstPoolCorrect` the units of the first round are mapped to the work of
  `CheckBarrier`.
* Controller. `WakeUpPending` is not inductive: `TimerInv` adds that a wait that
  is not over has an armed timer that fires in time, and that between the end of
  a round and the update of the status one was armed. `SpacingInv` relates the
  time since the last round (`age`) to the rest of the wait, and `CheckingInv`
  bounds the delay that a round will ask for. `SilencedInv` says that the
  silenced mode and the state that was seen agree, and that only a silenced
  process, or one that went on from Removed, has a check to come that is further
  away than `Cap + MaxJitter`.
* Node checks. `MarkInv` says that a node that passed the version check has its
  host marked or failed, which makes `HostLoadedOnce` inductive; `EmptyInv` that a
  marked host without version has a node that loads it or reported it; `LockInv`
  that one node at a time is between the lock and the unlock of the counters and
  finds the map empty. `CountInv` says that at every moment the counters count
  the nodes that were counted. A sum of counters is the number of elements of
  `Tally`, the pairs of a key and a number up to its counter.
* Connecting. While the loop runs, sessions and remaining vCenters partition the
  set (`LoopInv`); hence a loop that ends has them all, and a gauge that was reset
  by an earlier vCenter is known when a later one fails.
* Cache. The mutex separates the calls, so what a call found missing still is when
  it stores it (`LoadInv`); what is loaded is never replaced (`LoadedOnce`), and
  every answer given agrees with it (`AnswerInv`).
* Sequential checks. `CallInv` says that the answer is what the function returns,
  so the rest is about operators. The lemma `Silent` is the core: a loop that
  returns only with a problem is silent exactly if every step is, although a
  return drops what was collected and what comes later. One lemma for each check
  says when it is silent; `MismatchCorrect` and `AllClearCorrect` combine them.
  `MismatchCorrect` needs that a subset of equal cardinality is the whole set,
  `StorageCorrect` that an order without repetition reaches every vCenter
  (`OrderCovers`), and the lookups and the first error of a loop that a set of
  numbers has a least element (`MinLeast`).

### Assumptions

* Pool: finitely many workers, a buffer of at least one, `NoTask` is no task.
* Round: finitely many cluster checks and nodes, at least one worker; at least
  one node check and no name twice; the names of cluster checks, nodes and results
  do not collide. `NodeChecks` stands for `DefaultNodeChecks`, whose entries are
  distinct.
* Controller: positive times, `Duration <= Cap` and `Cap + MaxJitter <=
  SilencedCap`, as the constants of the code are (one minute, one hour, one
  percent of an hour, one day).
* Node checks: finitely many nodes; the empty version that marks a host in
  progress is no version, and `NoHost` is no host.
* Connecting: finitely many vCenters, at least one. Cache: no check is called
  `free`.
* Calls: what the functions are given (`InfraInput`, `DomainInput`, `StorageInput`,
  `DeprecationInput`, `LookupInput`). Each states what kind of value the API or
  vCenter delivers, not how many: a failure domain names a datacenter, has a pair
  of affinities that the API admits, and gets one of the answers of vCenter; a
  round is connected to at least one vCenter; versions are numbers, and hardware
  versions have up to two digits (`vmx-21`). TLC evaluates all of them on the
  instances.

### Only model-checked

Liveness (`WaitAnswers`, `WorkersFinish`, `ChecksRecur`, `RoundsEnd`, `WorkEnds`,
`CallsReturn`): fairness and ENABLED are out of this prover's reach. The
properties of the runs that expect a violation are false of the code.

## What is left out

* The Degraded condition the framework sets. The jitter of each delay is any
  time up to one percent of the cap, more than the one percent of the delay that
  the code allows.
* The contents of checks whose outcome depends on vCenter alone: in `CheckRound`
  a check succeeds or fails, in `ProblemDetectorController` the answer of
  `checkForDeprecation` is a choice.
* `CheckTaskPermissions`, `CollectClusterInfo`, `CountPVTypes`, the disk UUID
  and provider ID checks: single calls or comparisons without state.
* Compute cluster paths that do not match `^/.*?/host/.*?`: `zones.go:211` would
  fail on them, but the pattern is part of the API and they do not reach it.
* The average and the threshold of the performance check; a counter id taken
  from another vCenter.
* Two datastores of the same name in different vCenters in `StorageClasses`.
* Values of privileges: a group of permissions is lacking or not.
* REST sessions, which no code logs out, are not counted in `Connect`.
* A login with a new line in the credentials is assumed to fail.
* Counters (`*_total`), events, log messages, texts of errors.
* Tests, mocks, vendored code, parsing of the cloud config.

## Plan

1. Done: pool, controller, round, node checks, connect, lookup, cache, and the
   sequential checks as operators; proofs of all their safety properties and of
   both refinements.
2. To model, where it pays: the wait for `ClusterInfo` between cluster and node
   checks; two nodes of different vCenters sharing performance counters.
3. To prove: under which condition the properties that the code violates do hold
   (the condition tells the last round while status updates succeed; the metric
   counts each datastore once when the classes name it in one way; the maps of
   the permission checks do not race with one worker).
