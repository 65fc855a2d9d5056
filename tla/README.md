# A TLA+ model of the OCM Kubernetes controllers

The repository is a set of Kubernetes controllers. A `Repository` names a
repository of component versions, a `Component` selects a version in it, a
`Resource` selects a resource of that version, a `Deployer` applies the manifest
which the resource holds, and a `Replication` copies a component version to
another repository. This directory holds a model of the parts of these
controllers that keep state, TLC runs that check the model on small instances,
and proofs, checked by TLAPS, that hold for every instance.

Paths below are relative to `src/`. `PROJECT.json` maps each definition to the
lines it models, and lists the runs, the mutants that show each property to
depend on the code, the hazards and the theorems.

## 1. The system

### Components, their state and operations

| Part | State | Operations |
|---|---|---|
| Informer manager (`internal/controller/deployer/dynamic/informer_manager.go`) | two buffered channels, a `sync.Map` of watch tasks, a gauge, a controller-runtime cache with one informer per GVK | `Start`, `work`, `Register`, `Unregister`, `stopTask`, `HasSynced`, `IsStopped`, `ActiveForParent`, `GracefulShutdown` |
| Deployer controller (`internal/controller/deployer/deployer_controller.go`) | finalizer, Ready condition and `status.deployed` of each deployer, workqueue | `Reconcile`, `applyConcurrently`, `trackConcurrently`, `track`, `Untrack`, `updateDeployedObjectStatusReferences` |
| Context and session cache (`internal/ocm/context_cache.go`, `internal/ocm/verification.go`) | two LRU caches, `retrievalLock`, size gauges, the public keys in each context | `GetSession`, `registerVerifications`, eviction functions, `Clear`, `Start` |
| Effective configuration (`internal/ocm/ocm.go`, `internal/ocm/hash.go`) | `status.effectiveOCMConfig` of every object, the data that each cached context was configured with | `GetEffectiveConfig`, `getConfigObjects`, `GetObjectDataHash`, `getOrCreateContext` |
| Component controller (`internal/controller/component/component_controller.go`, `internal/ocm/ocm.go`, `internal/ocm/hash.go`) | reported version and digest, Ready condition | `Reconcile`, `DetermineEffectiveVersionFromLiveRepo`, `GetLatestValidVersion`, `IsDowngradable`, `CompareCachedAndLiveHashes` |
| Repository, Component and Resource controllers (`internal/controller/{repository,component,resource}`) | finalizers, conditions, field indexes, workqueues | `Reconcile`, `reconcileDelete…`, the map functions of the watches, `GetReadyObject` |
| Resource access (`internal/controller/resource/resource_controller.go`, `internal/ocm/resource.go`) and download (`deployer_controller.go`, `internal/controller/deployer/cache`) | `status.component` and `status.resource` of each resource, LRU cache of decoded manifests | `GetResourceAccessForComponentVersion`, `setResourceStatus`, `DownloadResourceWithOCM`, `Load`, `apply` |
| Replication controller (`internal/controller/replication/replication_controller.go`, `api/v1alpha1/replication_types.go`) | Ready condition, history of runs | `Reconcile`, `reconcile`, `transfer`, `AddHistoryRecord`, `IsInHistory` |
| CEL functions, labels and annotations, wiring | see section 8 | not modelled |

### Interactions

* Controllers exchange nothing directly: each writes the status of its own objects
  to the API server and reads the others from an informer cache that lags behind it.
  A status that changes enqueues the objects that an index lists as referring to it.
* The deployer controller sends register and unregister events to the informer
  manager, polls it with `HasSynced` and `ActiveForParent`, and gets the events of
  watched objects back as reconciliation requests.
* All controllers take OCM sessions from one cache. The component controller closes
  a session that it finds outdated, while others may be using it.
* Content passes through three statuses: the version that a component reports is
  looked up by the resource controller, and the digest that a resource reports is
  what the deployer downloads, or finds in its cache. Configurations pass through
  `status.effectiveOCMConfig` in the same way.

### What is hard here

* Workers of the informer manager (one per CPU) share a map and a cache without a
  lock. The key of a watch has the namespace of the child, the informer has not.
* Every read of an API object may be old, that of the own object included; a status
  update is a merge patch of what differs from what was read.
* Any step may fail, and the process may restart, between the effect of a step
  (a transfer, an apply, a registration) and the record of it.
* The same version is looked up several times, in sessions that were filled at
  different times, while it may be published again with other content.
* An error that is returned has the object reconciled again; a terminal error does
  not, and neither does a watch event that an index does not route.

### What makes the parts correct

* *Informer manager*: a task in the map has its handler; a watch that reports
  `HasSynced` delivers events; nothing is leaked; workers always come back, and
  shutdown stops everything.
* *Deployer*: a ready deployer is watched; drift is repaired; deletion completes and
  leaves no watch.
* *Context cache*: a context is never paired with the session of another one;
  sessions are neither leaked nor handed out closed; the key in a context that was
  handed out is the current one.
* *Configuration*: nothing reaches an object against the policies along the chain;
  a context is never used with other data than it was configured with; in the end
  every object reports what the specifications say.
* *Delivery*: what is applied is what the resource has reported; what the resource
  reports belongs together; what was published last is deployed in the end.
* *Component*: what is reported was really in the repository; no downgrade against
  the policy; the latest version is reported in the end.
* *References*: no object disappears while it is known to be referred to; no object
  stays ready on a parent that is not; deletion and readiness get through.
* *Replication*: at rest the wanted item is in the target; the history is true.

## 2. Modules

| Module | Models | Extends |
|---|---|---|
| `InformerManager` | the informer manager, with client-go's informers as external actions | |
| `Deployer` | the deployer controller **composed with** the informer manager, users, drift and restarts | `InformerManager` |
| `SessionPool` | abstract: what `GetSession` promises its callers | |
| `ContextCache` | the context and session cache and its callers; **implements** `SessionPool` | (`INSTANCE SessionPool`) |
| `Configuration` | effective configurations along the chain of objects, and the contexts configured with them | |
| `Delivery` | content from the repository to the cluster: the component, resource and deployer controllers **composed** over shared sessions | |
| `Component` | one Component object, its controller, the live repository and the shared session | |
| `References` | the chain Repository ← Component ← Resource ← Deployer: indexes, finalizers, readiness | |
| `Replication` | one Replication object, its controller and the target repository | |
| `InformerManager_proofs`, `ContextCache_proofs`, `Configuration_proofs`, `Delivery_proofs`, `Component_proofs`, `References_proofs`, `Replication_proofs` | theorems and proofs | the module they name |
| `Deployer_proofs` | theorems and proofs | `Deployer`, `InformerManager_proofs` |
| `MC…` | small instances for TLC, and the bounds on calls and requests | the module they name |

A definition whose comment begins with "Faulty variant" is a mutant: it changes the
definition after it the way a plausible mistake would, and is used by no
specification.

### InformerManager

`register` and `unregister` are the channels, `tasks` the map (a task is its handler
registration), `tracked` the informer that the cache keeps per GVK, `informer` and
`registration` the state of client-go's objects, `worker` the program counter and
locals of each goroutine, `phase` the life cycle of `Start`. `Register` is the steps
`RegisterLoad`, `GetTrackedInformer`/`CreateInformer`/`GetInformerFails`,
`InformerSynced`/`SyncWaitCancelled`, `AddEventHandler` and `Store`; `Unregister` is
`GetTask`, `IsLastWatch`, `RemoveEventHandler`, `RemoveInformer`, `Delete`: each
access to shared state is a step, because no lock is held between them. Informers
and registrations that nothing refers to are free to be used again, which keeps
the instance finite without limiting how long it runs.

### Deployer

One goroutine reconciles (`MaxConcurrentReconciles` is not set for this controller,
so it is 1). `GetDeployer` takes an object from the queue, `ApplySucceeds` is
download, decoding and server-side apply, `TrackCheck`/`TrackSend` are the errgroup
of `trackConcurrently`, of which the first error cancels the rest
(`TrackCancelled`), `TrackSynced` adds the finalizer and writes the status, and
`Untrack…` is the deletion. `Restart` empties everything but the API objects.
The informer manager runs beside it, all its actions unchanged.

A run reads the condition of its deployer from the informer cache (`seen`, brought up
to date by `ObserveDeployer`), and its patch carries only what differs from that
(`WithReady`, `NotReady`): a deployer that was read as ready is not written as ready
again, even if the API server has another condition by then. `drift` is what differs
from the manifest in the cluster, `missing` the part of it that does not exist. Others
edit and delete deployed objects at any time (`EditObject`, `RemoveObject`). An edit
that no handler has been told of is delivered to a handler that is attached later, with
its initial list; a deletion is not, since the list does not have the object
(`Undelivered`, `Restart`). `timer` is what `RequeueAfter` enqueues again later.

### ContextCache

`GetSession` takes the lock; the look-up of the context, the registration of the
public keys and the look-up of the session are further steps, because reconcilers
that hold a session and `Clear` do not take the lock. `contextOrder` and
`sessionOrder` are the recency lists of the LRU caches; `CreateContext` and
`CreateSession` evict the oldest entry together with what the eviction function
does. Finalizing a context closes its sessions (external, as is everything inside a
session). `registry` is the public key that a context has for the one signature that
callers name, `secret` the key in the secret of a caller, `caller.keys`
(auxiliary) what that secret has held since the caller's `GetSession` read it.

`SessionPool` is what callers rely on: per key at most one open session, at most
`Size` in all, each handed out while it is open, and a new one only if there is
none. In the mapping, the pool is the open sessions among the cached ones, and a
caller holds a session from the return of `GetSession` to the end of its
reconciliation; contexts, recency, keys, lock and gauges disappear. Everything
that closes a session, with the lock or without, is a `Close` or `Invalidate` of
the pool.

### Configuration

An entry of `spec.ocmConfig` is a record of kind, namespace, name and policy. A run
resolves its list entry by entry (`ResolveConfig`, `ResolveObject`,
`ResolveFails`), each from the informer cache (`view`) as it is then; reads the
secrets and config maps and takes a cached context of the same hash
(`ReuseContext`) or configures a new one (`CreateContext`, `ContextFails`); and
replaces the list in its status (`Report`; a deployer reports none). The hash is
the bag of the data, since the code sorts the digests of the objects. Secrets and
config maps are not watched: their changes are noticed when an object is reconciled
again. `Reachable` is the reference definition of what propagates, a least fixed
point over the specifications; `ever` collects all that was ever specified.

### Delivery

`repository` holds the content of each component version, that is the digest in its
descriptor and the data; `sessions` what the session of each key has looked up.
A reconciliation of the component is one step: `ReportComponent`, or `CloseSession`
if the session disagrees with the repository (`Component` has the details).
A resource run is `BeginResource` (version from the component's status),
`LookupComponentVersion`, `ListDescriptors`, `GetResourceAccess` (reference path,
second look-up, verification) and `ReportResource`; `StatusFieldsFail` is the
failure of `setResourceStatus` half way. A run reads the status of its own resource
from the informer cache (`seen`, `run.before`), and its patch changes what differs from
that, field by field (`Patched`). The deployer's run is `BeginDeployer` (a
hit or a miss of the cache), `LookupDownload`, `Download` or `DownloadFails`, and
`Apply`. Which of the three share a session depends on the bytes of their
repository specifications and is a parameter (`ComponentKey`, `ResourceKey`,
`DeployerKey`).

### Component

A run is `Begin` (session from the cache), `Determine` and its failures (list of the
live repository, constraint, policy), `AllowDowngrade`/`RefuseDowngrade` (label of
the current version), the look-up in the session, the comparison with the live
repository, and `MarkReady` (verification, status). `session` holds what it has
looked up; others look up (`ShareLookup`) and close it (`ShareClose`).
`run.live`, an auxiliary record, collects the contents that were live during the run.
A version is a number, a constraint or filter the set of versions that it matches.
`Terminal` is an error that is not retried: it ends the timer.

### References

An object is a record of kind, namespace, name and reference. `Listed` is what the
field indexes find, `Notified` what the watches enqueue, `Refers` what the
controllers look up; that the three differ is in the code. `view` is the informer
cache, brought up to date by `Observe`, which also enqueues. A run reads the condition
of its own object from the cache as well (`seen`, `read`), and its patch changes the
stored one only if it differs from that (`Patched`); with another condition stored the
patch may also fail (`PatchFails`). `timer` is what `RequeueAfter` enqueues again
later, `stopped`, auxiliary, the objects whose last run ended with a terminal error.
`known`, auxiliary too, records which referrers the cache showed when the deletion
was requested.

### Replication

Component, version and target specification are one item. `BeginTransfer` reads the
status from the cache (`seen`), `TransferSucceeds`, `TransferFails`,
`GetEffectiveConfigFails` and `UpdateStatusFails` end the run; `Finish` is the merge
patch, which replaces the history as a whole.

## 3. Runs

| Run | Instance | Shows |
|---|---|---|
| `informers_concurrent` | 2 workers, 1 parent, 1 GVK, 2 namespaces, 4 requests | `TypeOK` (no nil dereference), `InstalledTaskAttached`, `ShutdownStopsWatches`, `ShutdownCompletes` |
| `informers_single` | 1 worker, 2 parents, 1 GVK, 1 namespace, 4 requests | `SyncedWatchDelivers`, `NoLeakedHandler`, `NoIdleInformer`, `OperationFinishes`, `WatchSyncs` |
| `deployer_safety` | 1 deployer with 2 objects in 2 namespaces, 2 failures or restarts, 1 suspension | `ReadyDeployerWatched` |
| `deployer_live` | 1 deployer with 1 object, 1 failure or restart, 1 edit or deletion of the object | `BecomesReady`, `DeletionCompletes`, `DriftRepaired` |
| `sessions` | 2 reconcilers, 2 configurations, 2 repositories, both caches of size 1, 3 calls, 1 change of a public key | `TypeOK`, `SessionOfContext`, `VerificationKeyCurrent`, and the refinement `ImplementsPool` |
| `component_safety` | 3 versions, 2 digests, 3 policies × 2 ranges, 2 changes, 1 removal, 1 failure, 1 use by others, 1 stale read | `TypeOK`, `ReportedDigestLive`, `NoUnwantedDowngrade` |
| `component_live` | 2 versions, 2 digests, 2 changes, 1 failure, 1 use by others, 1 stale read | `EventuallyCurrent` |
| `references` | repository, component, each created suspended or not; 1 failure, 1 change of a suspension | `TypeOK`, `KnownReferenceProtects`, `ReadyAfterParent`, `BecomesReady`, `DeletionCompletes` |
| `replication` | 2 items, 2 errors, capacities 0 to 2, 2 changes, 3 failures | `TypeOK`, `HistoryTrue`, `SettledIsReplicated`, `NoRepeatedFailure`, `HistoryBounded`, `EventuallyReplicated` |
| `configuration` | repository, component, resource in another namespace; a secret and a config map with 2 contents; 1 change of a specification or content, 1 failure; context cache of size 1 | `TypeOK`, `OnlyPropagated`, `ContextHasData`, `EventuallyEffective` |
| `delivery` | 2 versions and one that the second refers to, 3 contents of which one has the wrong digest, 1 resource and its deployer, 2 publications, 1 failure or restart; one shared session, download cache of size 1 | `TypeOK`, `AppliedHasDigest`, `ReportedWasPublished`, `EventuallyDeployed` |
| `delivery_nested` | a resource with a reference path of length 1 | **violates** `EventuallyDeployed` |

Two definitions that no run lists hold in these instances as well:
`ActiveTasksGauge` (the gauge of `InformerManager`) in `informers_single`, and
`DeployerTypeOK` in `deployer_safety`.

Deadlock is not checked: every system here may come to rest when nobody asks it for
anything and the bounded environment has used up its changes.

### Bounds, and why they are enough

* Two of a kind of actor are what the races that we know of here need. For the
  properties that are proved the theorems remove the bound altogether.
* Channels of size 1 are full after one event, so that senders block.
* Caches of size 1 with two keys evict at every change of key.
* One failure, change or restart may happen at every step of every run of the
  controller; a second one matters where state survives the first, as a history does:
  hence three failures in `replication`, which fill a history of two, and two failures
  or restarts in `deployer_safety`, where the first may leave a status that the second
  run does not see yet. `deployer_live` and `delivery` have one of either.
* Three versions are needed for a label that permits some downgrades and not
  others.
* In `configuration` the chain of three has an object that is both parent and child,
  over which a policy has to be passed on. (The safety properties of `references`
  were also checked with `Objects <- ThreeLinks` and `MaxToggles = 0`, 5.3 million
  states; liveness of three links is out of reach.)
* Two publications let a version be replaced after each of the look-ups of a run, and
  replaced back; the second resource that a larger instance would have shares with
  the first nothing but sessions and the download cache, which the publications
  already disturb.

### Fairness

Weak fairness of the goroutines (`work`, the steps of a reconciliation), of the
informers (sync, stop, delivery of events to the cache) and of the start of the
cache: the Go scheduler runs every goroutine that can run, client-go retries lists
and watches, and the workqueue gives out every object in it. In `Deployer`,
`GetDeployer` is strongly fair per object, because the workqueue is a queue
and no object in it is passed over for ever (so is `BeginDeployer` in `Delivery`). Users, failures, suspension, drift and
restarts have no fairness. The periodic requeue is fair in
`Replication`, `Component`, `Configuration` and `Delivery`, whose promise is
periodic (a registry and secrets send no events), and in `References`: there, and in
`Deployer`, a run that has read its own object as ready does not repair the condition
that an earlier failure has left in the API server, which takes until the interval is
over. In `Deployer` the properties say where they rely on it (`RequeuedInTime`):
`BecomesReady` does, and so does the repair of a deletion that no handler has been told
of; other drift is repaired, and `DeletionCompletes` holds, without it. In
`Component`, `References` and `Deployer` the timer is a variable, which only a
successful run sets, and a terminal error ends it. `Delivery` and `Configuration` have
no terminal errors, and the runs of an object follow each other there without a timer:
`EventuallyEffective` says nothing of a component whose runs end in terminal errors
(`component_controller.go:388`). Failures are bounded: a step that fails for
ever makes no promise. No symmetry is used in runs with liveness properties
(`component_safety`, which has action properties only, permutes the digests).

## 4. Disagreements between the code and its documentation

One is kept as a run:

* `delivery_nested`. The resource controller reports the component version in which
  it found the resource, the last one of the reference path
  (`resource_controller.go:334`). The deployer looks this version up and follows the
  reference path of the resource again from there, with no descriptor but this
  one (`deployer_controller.go:355`): the path is not found, and a resource with a
  reference path is never deployed.

The following were met in the same models. Each is reproduced by changing the
instance of a run as given; the properties are defined in the modules.

| Change | Violated property | What happens |
|---|---|---|
| `deployer_safety` with `Deployers = {d1, d2}`, `Objects <- SharedKind`, one namespace | `ReadyDeployerWatched` | `Untrack` asks `ActiveForParent` for the watches of its deployer (`deployer_controller.go:205`), but a watch is identified by the GVK of its parent: deleting one deployer unregisters the watches of all, and the others stay ready without being watched until their next interval; `deployer_controller.go:48` speaks of the watches "referenced by the deployer" |
| `references` with `Objects <- UnqualifiedLink` | `KnownReferenceProtects` | the index of the resource controller (`resource_controller.go:76`) takes the namespace of `resourceRef` as written, while the deployer defaults an empty one to its own (`deployer_controller.go:254`): a resource is deleted under a deployer that leaves the namespace out, against `api/v1alpha1/constants.go:21`. The watch of the deployer controller uses the same index (`deployer_controller.go:131`): with the whole chain in `Objects` and `Existing`, the deployer stays ready (`ReadyAfterParent`) |
| `informers_single` with `Namespaces = {n1, n2}` | `SyncedWatchDelivers` | `stopTask` looks for other watches of the same namespace (`informer_manager.go:446`) and then removes the informer of the GVK in all namespaces (`:466`): the watch of another namespace is dead and still reports `HasSynced` |
| `informers_single` with two workers and one parent | `ActiveTasksGauge`, `NoLeakedHandler`, `NoIdleInformer` | two registrations of one key both pass the check at `informer_manager.go:302`; the second `Store` loses the first handler |
| the same | `OperationFinishes` | a worker waits in `GetInformer` (`:308`) for the sync of an informer that another worker has removed, until shutdown |
| `deployer_safety` with `UntrackedLeavesNoWatch` | | a register event that is still queued when `Untrack` finds no active watch is processed after the finalizer is gone |
| `deployer_safety` with `StatusListsDeployed` | | the references in `status.deployed` are matched by UID (`deployer_controller.go:598`), which the decoded objects do not have: the last object replaces the others |
| `sessions` with `GaugesExact` | | increments use the label `m.name`, which is never set, decrements the parameter `name` (`context_cache.go:82`) |
| `sessions` with `ClearedAtShutdown` | | `Clear` does not take the lock: a `GetSession` in progress adds a session after it |
| `sessions` with `Secrets = {v1, v2}` | `VerificationKeyCurrent` | contexts are shared by objects of equal configuration, and the key of a signature name is registered in the context (`context_cache.go:236`): a component verifies with the key that another one has registered since |
| `configuration` with `Objects <- Pair`, `Specs <- PairSpecs`, `InitialData <- DifferentData` and `AppliedInOrder` | | `GetObjectDataHash` sorts (`hash.go:106`): of two objects that list the same configurations in different orders the second gets the context of the first, although `effectiveOCMConfig` is documented as "in the order the configuration data was applied" (`api/v1alpha1/component_types.go:93`) |
| `delivery` with `SessionKeys = {shared, own}` and `DeployerKey <- AllOwn` | `EventuallyDeployed` | only the component controller closes outdated sessions, and only its own; the deployer's session has another key when the resource reports the repository specification in other bytes than the repository object has (`resource_controller.go:326`). A version that is published again then fails the comparison of digests until the session is evicted. The safety properties hold with every choice of keys |
| `component_safety` with `VersionMatchesFilter` | | `GetLatestValidVersion` appends the matching versions to a list that has all of them (`ocm.go:190`) |
| `component_safety` with `StoredVersionNotLowered` | | the current version is read from a cache (`component_controller.go:405`): a run that has read an older one goes below the version that is stored |
| `component_safety` with `ReportedDigestLive` without the condition on what the run has read | | a patch against an old read can leave the version of one run with the digest of another |
| `delivery` with `Versions = {1, 2, 3}` and the invariant `ReadyWasPublished` | | the same in the resource controller (`resource_controller.go:169`, `:369`): a run that has read an old status and changes the version only leaves the digest of the run in between, and this pair was never published |
| `component_live` with `MaxRemovals = 1` and versions 1 and 2 published at the start | `EventuallyCurrent` | that no version is in range, or that a downgrade is denied, is a terminal error (`component_controller.go:392`, `:411`): the periodic check of the interval ends, and a version published later is not noticed |
| `references` with `NotReadyParentAwaited` | | `errors.Is` compares with `NotReadyError{}`, an empty value that no real error equals (`component_controller.go:196`): an object whose parent is not ready is requeued at once |
| `references` with a component in another namespace that names a repository `repo` of its own, and `ReportedReferenceExists` | | the index of repositories has the name only (`repository_controller.go:198`) |
| `replication` with `HistoryWithinCapacity` | | `historyLength` is "the maximum number of last replication runs to keep" (`replication_types.go:35`), but `AddHistoryRecord` drops one record and adds one (`:156`), and with capacity 0 it returns at once (`:148`): after a reduction the history stays too long |
| `replication` with `HistoryKeepsRuns` | | a run that read an old status overwrites the record of the run before |

## 5. Proofs

Every invariant that a run checks is also stated by a theorem, and so are the action
properties `HistoryBounded`, `ReportedDigestLive`, `NoUnwantedDowngrade` and
`ReportedWasPublished`, and the refinement `ImplementsPool`. The theorems speak of
every value of the constants that satisfies the `ASSUME`s of the modules, which TLC
evaluates for the instances above. Where a theorem has an assumption of its own, the
property is false without it, and section 4 has the counterexample.

The arguments have a common shape. What a run checks is about the states that a user
can see; the inductive invariant adds what copies of this state (in a cache, in the
locals of a goroutine, in a view of the API server) hold, and what each goroutine
relies on between two of its steps.

### InformerManager_proofs

For any number of workers, parents, GVKs, namespaces, informers and registrations
and any buffer sizes, from `BufferAssumption`, `NoneAssumption` and
`FiniteAssumption`:

* `TypeCorrect`: `TypeOK` is inductive as it stands; its clauses on the locals of a
  worker are what the next step of that worker dereferences.
* `TasksAttached`: `InstalledTaskAttached` alone is not inductive. A worker could be
  about to store a registration that another task or worker already has, or to
  take a handler off an informer that was reused. The invariant
  `TypeOK /\ Distinct /\ CacheOK /\ AttachedInv` adds that registrations in tasks and
  in workers about to store are distinct, that the informer that the cache keeps
  has not stopped, and that a registration about to be stored is attached or its
  informer has stopped.
* `ShutdownCorrect`: `ShutdownStopsWatches` with `TypeOK`; no worker can restart
  once the context is cancelled.

Three properties need that operations of different workers do not meet, which nothing
in the manager prevents and the theorems therefore state as a condition on the
behaviour, not on the number of workers:

* `HandlersBelongToTasks` (`NoLeakedHandler`) and `InformersHaveTasks`
  (`NoIdleInformer`), where no two workers are on the same key at a time (`KeysApart`).
  `ApartInv` adds to the above that what a worker found at the
  start of an operation is still so (`Sequential`: the task it found missing is
  missing, the task it found is there, its handler stays off), and that the cache
  keeps an informer only for a task or for a worker that is registering one
  (`InformersUsed`). The step that would break it is another worker's on the same key;
  `Others` and `InOperation` are what such a worker cannot have changed.
* `SyncedWatchesDeliver` (`SyncedWatchDelivers`), where no two workers are on the same
  GVK (`GVKsApart`) and no GVK is watched in two namespaces (`NamespacesApart`).
  `Watched` adds that a worker that takes off a handler has
  the last task of its GVK, which only holds where `IsLastWatch` looks at all
  namespaces in use, that a registering worker has the informer that the cache keeps,
  and that every other task has its handler on this informer. As `Watched` is kept only
  where both conditions hold after the step too, the theorem takes them as
  `[]GVKsApart` and `[]NamespacesApart`.

`informers_single` has one worker and one namespace, where the conditions hold of
themselves. Without them TLC finds the counterexamples of section 4.

### Deployer_proofs

For any number of deployers with any objects, any number of workers, GVKs and
namespaces, and any failures, suspensions, drift and restarts:

* `WatchedUntilUntrack`: `ReadyDeployerWatched` holds as long as no deployer that has
  the finalizer has been deleted (`Undeleted`). Until then nothing is unregistered
  (`NoUntrack`), so the races among the workers can lose a handler but cannot
  take the handler of a task off its informer (`WatchesKept`). The deployer adds that the
  objects a run has already found watched (`RunWatched`), and those of a ready
  deployer at rest (`RestWatched`), have a task *of this process*: after a restart a
  deployer that is ready in the API server is queued, hence not at rest, until a run
  has registered its objects again.
* `SingleDeployerWatched`: with one deployer there is no such proviso, since the
  property is about deployers that exist, and the one that is deleted is not one of
  them any more. With two the proviso is necessary (section 4, first row).

`DeployerInv` uses the lemmas of `InformerManager_proofs` on types and on the cache;
that no step of the manager ends a watch is proved once for each of its actions.

### ContextCache_proofs

For any reconcilers, configurations, repositories, numbers of contexts and sessions,
and cache sizes:

* `TypeCorrect` and `SessionsBelongToContexts` (`SessionOfContext`), from `IInv =
  TypeInv /\ OrderOK /\ SessionsOK /\ ContextIsCached /\ SessionOfContext`. `OrderOK`
  says that the recency list of a cache has each cached key once and is no longer
  than the cache: without it an eviction could remove another entry than the
  oldest, or none. `SessionsOK` (an open session has a context and is cached under
  exactly one key) is why closing the sessions of an evicted context closes no other,
  and `ContextIsCached` is what the lock protects until `Clear` begins.
* `VerificationKeys` (`VerificationKeyCurrent`), if all callers read the same secret:
  every key that is registered in a context is then one that each caller since has read
  or seen replaced (`SecretRead`).
* `CacheImplementsPool` (`ImplementsPool`): the initial state maps to that of
  `SessionPool`, and every step to a step of the pool or a stutter. Whatever closes
  sessions outside `GetSession` (`Clear`, `CloseSession`, eviction of a context) maps
  to `Close` or `Invalidate`; `CreateSession` maps to one step of the pool although
  it evicts, closes and adds.

### Configuration_proofs

For any objects, specifications, data and reads of old statuses, graphs of references
with cycles included:

* `TypeCorrect`.
* `ContextsHaveData` (`ContextHasData`), from `ContextInv`: the hash of each cached
  context is that of the data it was configured with.
* `ConfigurationPropagated` (`OnlyPropagated`), from `PropagationInv`: what is still to
  be resolved was specified at some time, and what an informer cache *still shows* of
  an object had been propagated to it. A run that reads the status of its parent
  then adds only what `Reachable` has, provided that `Reachable` is closed under
  one more reference. It is defined as an iteration of as many steps as there are
  objects; that this reaches the fixed point is the lemma `IterationStable`. An
  entry that first appears in step n has, for each earlier step, an object where it
  was new, and these objects are distinct; so n is less than the number of objects.

### Delivery_proofs

For any versions, contents, reference paths, resources, assignments of sessions, cache
size, publications, failures and restarts:

* `TypeCorrect`. That following a reference path of any length stays among the
  component versions that exist is an induction over its length
  (`InductiveSet`: a set of numbers that has 0 and all successors has all, from the
  well-foundedness of `<`).
* `AppliedDigests` (`AppliedHasDigest`), from `DigestInv`: each entry of the download
  cache has its key as digest, and so has what a run is about to apply. `Touch`
  and the eviction only reorder and drop entries.
* `ReportsWerePublished` (`ReportedWasPublished`), from `PublishedInv`: whatever the
  repository or a session holds for a version was published as that version, and so
  was what a run is about to report. The patch stores it where the run has read what is
  stored, or changes both version and digest; `ReadyWasPublished`, which asks for it
  of every patch, is false (section 4).

### Component_proofs

For any sets of versions, digests, specifications and labels, and any number of
changes, removals, failures and uses of the session by others:

* `TypeCorrect`, from `IInv = TypeOK /\ VersionKept /\ TargetPermitted /\
  DigestWasLive`. `VersionKept` is needed because the status patch keeps the
  stored version where the version that was read equals the target: a version that
  was read must still be there.
* `DowngradePermitted` (`NoUnwantedDowngrade`) and `DigestIsLive`
  (`ReportedDigestLive`), however old the status is that a run has read. Both compare
  with what the run has read, as the code does: a run decides on a downgrade from
  that version, and writes the digest together with a version that changes. Of the
  *stored* status neither holds (section 4).

### References_proofs

For any objects of the four kinds, any references among them, suspensions and failures:

* `TypeCorrect`.
* `KnownReferencesProtect` (`KnownReferenceProtects`), from `KnownInv`. `ViewOK` ties the
  informer cache to the API server (it is right where no event is outstanding, and
  shows no object as absent that has been seen and exists); `KnownOK` says that a
  known referrer which exists is still in the cache, so that the deletion that lists
  referrers again does find it.
* `ReadyObjectsHaveReadyParents` (`ReadyAfterParent`), from `ReviewInv`: an object whose
  readiness nobody is about to review has a parent that the cache shows as ready.

The last two assume `Qualified`, that no deployer leaves out the namespace of its
resource: then the field index lists, and the watches enqueue, all that the
controllers look up.

### Replication_proofs

For any items, errors, capacities and numbers of changes and failures:

* `TypeCorrect`, `SettledReplicated`, `HistoryIsTrue` (`HistoryTrue`) and
  `HistoryCorrect` (`NoRepeatedFailure`), from an invariant that says
  of **all three** histories (stored, shown by the cache, read by the run) that
  they claim only what is in the target and repeat no failure, and that a run during
  which nothing was queued transfers the item that is still wanted. Without the
  copies a stale read could bring a false record back.
* `CapacityIsBound` (`HistoryBounded`), for any change of the capacity: what
  `AddHistoryRecord` returns is no longer than the history it was given or than the
  capacity (`AddHistoryRecordProperties`), and so is what a run leaves
  (`FinishBounded`).

### What stays with TLC

* The properties that say that something happens in the end (`ShutdownCompletes`,
  `OperationFinishes`, `WatchSyncs`, `BecomesReady`, `DeletionCompletes`,
  `DriftRepaired`, `Eventually…`), since the prover handles neither fairness nor
  `ENABLED`.
* `DeployerTypeOK`: `status.deployed` is the result of a fold over a list, and what a
  fold returns for every list is an induction over data. The proofs of `Deployer`
  need no more than the types of `object` and `rec`.
* The counterexamples of section 4.

## 6. Abstractions to keep in mind

* Messages, names, manifests and descriptors are atoms. Formatting, logging, events
  and metrics other than the gauges are left out.
* `deployer_*` use one worker. `ReadyDeployerWatched` is proved for any number; for
  the temporal properties, the flaws that the manager has with more (section 4)
  reach the deployer.
* Every controller may read its own condition and status late. Its finalizer, suspension
  and deletion timestamp it reads as they are when the run begins: a run that sees them
  late is a run that began earlier, and the change enqueues the object again. A change
  of the object between the read and the patch makes a patch fail only where the model
  says so, for the condition.
* Two versions of a component never have the same digest in a way that matters: a
  digest is compared only with that of the same version.
* A session returns for a version what it has returned before; through another
  resolver it may look again (`Resolved` of `Delivery`). A look-up in a session that
  was closed fails; what the OCM library really does then
  is external.
* Specifications are well formed: a constraint, filter or label that cannot be parsed
  is a terminal error in every run and makes no promise.
* Capacities are natural numbers. The API type admits negative ones, for which
  `AddHistoryRecord` would slice an empty list.
* Conflicts of the finalizer updates are failures. The patch of a condition that is
  stored otherwise than it was read may fail; other merge patches do not conflict.
* `Start` returns early if `cache.Start` fails for another reason than cancellation
  (`informer_manager.go:205`). controller-runtime has this error only for a second
  start, which nothing here does, and it is left out.

## 7. Plan

1. An abstract specification of a watch service (a set of watched keys, register,
   unregister, deliver) and `InformerManager`, where `GVKsApart` and
   `NamespacesApart` hold, as its refinement.
2. `Component` composed with `ContextCache`, so that the session a component gets is
   the cached one and `CloseSession` that of the cache.

## 8. Not modelled

* The check of signatures and the calculation of digests: calls of the OCM library
  without state of their own; steps that may fail, or comparisons of abstract digests.
* References among objects that form a cycle: `GetEffectiveConfig` adds the entries of
  the cycle again in every reconciliation, so that the status grows without bound.
  The runs have chains; the theorems about `Configuration` hold with cycles, since they
  are about which entries appear and not how often.
* The metrics of the download cache.
* CEL functions, labels, annotations, the transformer, events: conversions of data
  that no property here is about.
* Wiring (`cmd/main.go`), generated deep copies, test utilities.
