------------------------------ MODULE Deployer ------------------------------
(***************************************************************************)
(* The deployer controller (internal/controller/deployer/                  *)
(* deployer_controller.go) together with the informer manager it talks to:  *)
(* Reconcile applies the objects of a manifest, registers a watch for each  *)
(* of them and reports ready once every watch has synced; deleting a        *)
(* deployer unregisters watches before the finalizer goes.                  *)
(*                                                                         *)
(* One goroutine reconciles (MaxConcurrentReconciles is 1); users, the API  *)
(* server and the informer manager run beside it.  A crash or restart of    *)
(* the process loses everything but the API objects.                        *)
(***************************************************************************)
EXTENDS InformerManager, SequencesExt

CONSTANTS
    Deployers,      \* names of deployer objects; a deleted name is not reused
    Objects,        \* the objects of each deployer's manifest, as watch keys
    MaxFaults,      \* bound: restarts, failed downloads, applies, updates, GVK look-ups
    MaxToggles,     \* bound: changes of spec.suspend
    MaxDrifts       \* bound: changes of deployed objects by others

ASSUME ObjectsAssumption == None \notin Deployers /\ Objects \in [Deployers -> Seq(Key)]

VARIABLES
    object,     \* API server: life cycle of a deployer object
    finalizer,  \* API server: deployers with resourceWatchFinalizer
    suspended,  \* API server: deployers with spec.suspend
    ready,      \* API server: deployers whose Ready condition is true
    deployed,   \* API server: status.deployed
    drift,      \* cluster: objects that are missing or differ from the manifest
    missing,    \* cluster: those of them that are missing
    event,      \* cluster: changes by others that are not delivered yet
    seen,       \* informer cache: deployers whose Ready condition is true
    queue,      \* the controller's workqueue
    timer,      \* deployers that RequeueAfter enqueues again later
    rec,        \* the reconcile goroutine
    budget      \* what is left of the bounds

apiVars == <<object, finalizer, suspended, ready, deployed>>
clusterVars == <<drift, missing, event>>
queueVars == <<queue, timer>>
deployerVars == <<apiVars, clusterVars, seen, queueVars, rec, budget>>
allVars == <<vars, deployerVars>>

(* "removed": gone without a finalizer; "untracked": gone after Untrack.    *)
ObjectStates == {"absent", "live", "deleting", "removed", "untracked"}

Exists(d) == object[d] \in {"live", "deleting"}

ObjectsOf(d) == ToSet(Objects[d])

(* rec.todo: objects whose watch is not looked at yet; rec.sending: objects *)
(* that wait for room in a channel; rec.pending: an error was returned;     *)
(* rec.ready: the condition of the deployer as the run has read it.         *)
RecIdle ==
    [pc |-> "idle", deployer |-> None, todo |-> {}, sending |-> {}, pending |-> FALSE,
     ready |-> FALSE]

DeployerInit ==
    /\ Init
    /\ object = [d \in Deployers |-> "absent"]
    /\ finalizer = {} /\ suspended = {} /\ ready = {}
    /\ deployed = [d \in Deployers |-> <<>>]
    /\ drift = UNION {{d} \X ObjectsOf(d) : d \in Deployers}
    /\ missing = drift
    /\ event = {} /\ seen = {}
    /\ queue = {} /\ timer = {}
    /\ rec = RecIdle
    /\ budget = [faults |-> MaxFaults, toggles |-> MaxToggles, drifts |-> MaxDrifts]

-----------------------------------------------------------------------------
(* Users and other controllers.  A change of the spec or the deletion       *)
(* passes GenerationChangedPredicate and enqueues the deployer.             *)

CreateDeployer(d) ==
    /\ object[d] = "absent"
    /\ object' = [object EXCEPT ![d] = "live"]
    /\ queue' = queue \cup {d}
    /\ UNCHANGED <<vars, finalizer, suspended, ready, deployed, clusterVars, seen, timer, rec, budget>>

(* The API server removes an object without finalizers at once.             *)
DeleteDeployer(d) ==
    /\ object[d] = "live"
    /\ object' = [object EXCEPT ![d] = IF d \in finalizer THEN "deleting" ELSE "removed"]
    /\ queue' = queue \cup {d}
    /\ UNCHANGED <<vars, finalizer, suspended, ready, deployed, clusterVars, seen, timer, rec, budget>>

ToggleSuspend(d) ==
    /\ budget.toggles > 0
    /\ Exists(d)
    /\ budget' = [budget EXCEPT !.toggles = @ - 1]
    /\ suspended' = IF d \in suspended THEN suspended \ {d} ELSE suspended \cup {d}
    /\ queue' = queue \cup {d}
    /\ UNCHANGED <<vars, object, finalizer, ready, deployed, clusterVars, seen, timer, rec>>

(* The informer of the deployers delivers a change of the status, which the *)
(* predicate keeps from the queue.                                          *)
ObserveDeployer(d) ==
    /\ (d \in seen) # (d \in ready)
    /\ seen' = IF d \in ready THEN seen \cup {d} ELSE seen \ {d}
    /\ UNCHANGED <<vars, apiVars, clusterVars, queueVars, rec, budget>>

(* A handler of the informer manager is there for changes of the GVK.       *)
Noticed(g) == Delivers(g) /\ informer[tracked[g]].synced

(* Somebody edits a deployed object.                                        *)
EditObject(d, k) ==
    /\ budget.drifts > 0
    /\ Exists(d) /\ <<d, k>> \notin drift
    /\ drift' = drift \cup {<<d, k>>}
    /\ event' = event \cup {<<d, k>>}
    /\ budget' = [budget EXCEPT !.drifts = @ - 1]
    /\ UNCHANGED <<vars, apiVars, missing, seen, queueVars, rec>>

(* Somebody deletes a deployed object: an informer that lists later does    *)
(* not find it.                                                             *)
RemoveObject(d, k) ==
    /\ budget.drifts > 0
    /\ Exists(d) /\ <<d, k>> \notin drift
    /\ drift' = drift \cup {<<d, k>>}
    /\ missing' = missing \cup {<<d, k>>}
    /\ event' = IF Noticed(k.gvk) THEN event \cup {<<d, k>>} ELSE event \ {<<d, k>>}
    /\ budget' = [budget EXCEPT !.drifts = @ - 1]
    /\ UNCHANGED <<vars, apiVars, seen, queueVars, rec>>

(* A handler enqueues the controller owner of the object.  The informer     *)
(* watches the GVK in all namespaces, so the handler of any watch of the    *)
(* GVK does; one that is attached later gets the objects that are there     *)
(* with its initial list.                                                   *)
DispatchEvent(d, k) ==
    /\ <<d, k>> \in event
    /\ Noticed(k.gvk)
    /\ event' = event \ {<<d, k>>}
    /\ queue' = queue \cup {d}
    /\ UNCHANGED <<vars, apiVars, drift, missing, seen, timer, rec, budget>>

(* The interval after a successful reconciliation is over.                  *)
Requeue(d) ==
    /\ d \in timer
    /\ timer' = timer \ {d}
    /\ queue' = queue \cup {d}
    /\ UNCHANGED <<vars, apiVars, clusterVars, seen, rec, budget>>

(* The resource of the deployer changes, or a handler is told of an object  *)
(* that is as the deployer itself has applied it.                           *)
ResourceChanges(d) ==
    /\ Exists(d) /\ d \notin queue
    /\ queue' = queue \cup {d}
    /\ UNCHANGED <<vars, apiVars, clusterVars, seen, timer, rec, budget>>

-----------------------------------------------------------------------------
(* Reconcile.  An error puts the deployer back into the queue.              *)

Finished(d) == rec' = RecIdle

Retry(d) == Finished(d) /\ queue' = queue \cup {d}

(* Reads the deployer; suspension is looked at before deletion.             *)
GetDeployer(d) ==
    /\ rec.pc = "idle"
    /\ d \in queue
    /\ queue' = queue \ {d}
    /\ rec' = IF ~Exists(d) \/ d \in suspended THEN RecIdle
              ELSE IF object[d] = "deleting"
              THEN [RecIdle EXCEPT !.pc = "untrack", !.deployer = d, !.ready = d \in seen,
                      !.todo = UNION {ActiveForParent(p) : p \in Parents}]
              ELSE [RecIdle EXCEPT !.pc = "apply", !.deployer = d, !.ready = d \in seen]
    /\ UNCHANGED <<vars, apiVars, clusterVars, seen, timer, budget>>

(* What each failing step of Reconcile has in common.                       *)
Failed(d) ==
    /\ budget.faults > 0
    /\ budget' = [budget EXCEPT !.faults = @ - 1]
    /\ Retry(d)

(* The patch sends what the run has changed of the deployer as it read it:  *)
(* a condition that was not ready then may stay as it is stored.            *)
NotReady(d) == ready' \in {ready \ {d}} \cup (IF rec.ready THEN {} ELSE {ready})

(* The resource is missing, in deletion or not ready.  The comparison with  *)
(* NotReadyError{} and DeletionError{} fails, for they hold a name: every   *)
(* error is returned, and retried.                                          *)
ResourceUnavailable(d) ==
    /\ rec.pc = "apply" /\ rec.deployer = d
    /\ Failed(d) /\ NotReady(d)
    /\ UNCHANGED <<vars, object, finalizer, suspended, deployed, clusterVars, seen, timer>>

(* No session, no component version, no access, another digest than the one *)
(* of the resource, or a manifest that cannot be decoded.                   *)
DownloadResourceFails(d) ==
    /\ rec.pc = "apply" /\ rec.deployer = d
    /\ Failed(d) /\ NotReady(d)
    /\ UNCHANGED <<vars, object, finalizer, suspended, deployed, clusterVars, seen, timer>>

Apply(applied) ==
    /\ drift' = drift \ applied
    /\ missing' = missing \ applied
    /\ UNCHANGED event

(* One object is refused; any of the others may have been applied.          *)
ApplyFails(d) ==
    /\ rec.pc = "apply" /\ rec.deployer = d
    /\ Failed(d) /\ NotReady(d)
    /\ \E applied \in SUBSET {x \in drift : x[1] = d} : Apply(applied)
    /\ UNCHANGED <<vars, object, finalizer, suspended, deployed, seen, timer>>

(* Server-side apply with force makes the objects equal to the manifest.    *)
ApplySucceeds(d) ==
    /\ rec.pc = "apply" /\ rec.deployer = d
    /\ Apply({x \in drift : x[1] = d})
    /\ rec' = [rec EXCEPT !.pc = "track", !.todo = ObjectsOf(d)]
    /\ UNCHANGED <<vars, apiVars, seen, queueVars, budget>>

(* track(), one goroutine per object.                                       *)
(* Faulty variant: the watch is taken for granted.                          *)
TrackCheckSkipped(k) ==
    /\ rec.pc = "track"
    /\ k \in rec.todo
    /\ rec' = [rec EXCEPT !.todo = @ \ {k}]
    /\ UNCHANGED <<vars, apiVars, clusterVars, seen, queueVars, budget>>

TrackCheck(k) ==
    /\ rec.pc = "track"
    /\ k \in rec.todo
    /\ rec' = [rec EXCEPT !.todo = @ \ {k},
                          !.sending = IF HasSynced(k) THEN @ ELSE @ \cup {k}]
    /\ UNCHANGED <<vars, apiVars, clusterVars, seen, queueVars, budget>>

(* Faulty variant: no error after the registration is requested.            *)
TrackSendNoError(k) ==
    /\ rec.pc = "track"
    /\ k \in rec.sending
    /\ SendRegister(k)
    /\ rec' = [rec EXCEPT !.sending = @ \ {k}]
    /\ UNCHANGED <<apiVars, clusterVars, seen, queueVars, budget>>

TrackSend(k) ==
    /\ rec.pc = "track"
    /\ k \in rec.sending
    /\ SendRegister(k)
    /\ rec' = [rec EXCEPT !.sending = @ \ {k}, !.pending = TRUE]
    /\ UNCHANGED <<apiVars, clusterVars, seen, queueVars, budget>>

(* The first error of the errgroup cancels the goroutines that still wait.  *)
TrackCancelled(k) ==
    /\ rec.pc = "track"
    /\ k \in rec.sending
    /\ rec.pending
    /\ rec' = [rec EXCEPT !.sending = @ \ {k}]
    /\ UNCHANGED <<vars, apiVars, clusterVars, seen, queueVars, budget>>

TracksDone == rec.pc = "track" /\ rec.todo = {} /\ rec.sending = {}

(* Faulty variant: not retried, as if the watch would report back.          *)
TrackPendingNoRetry(d) ==
    /\ TracksDone /\ rec.deployer = d
    /\ rec.pending
    /\ NotReady(d)
    /\ Finished(d)
    /\ UNCHANGED <<vars, object, finalizer, suspended, deployed, clusterVars, seen, queueVars, budget>>

TrackPending(d) ==
    /\ TracksDone /\ rec.deployer = d
    /\ rec.pending
    /\ NotReady(d)
    /\ Retry(d)
    /\ UNCHANGED <<vars, object, finalizer, suspended, deployed, clusterVars, seen, timer, budget>>

(* An object's UID as the reconciler knows it: apply() patches a copy, so   *)
(* the decoded object never gets the UID the API server assigned.           *)
UID(obj) == ""

(* Replaces the first reference with the UID of the object, or appends.     *)
UpdateReference(refs, obj) ==
    LET same == {n \in DOMAIN refs : UID(refs[n]) = UID(obj)} IN
    IF same = {} THEN Append(refs, obj)
    ELSE [refs EXCEPT ![CHOOSE n \in same : \A m \in same : n <= m] = obj]

updateDeployedObjectStatusReferences(objs, refs) == FoldLeft(UpdateReference, refs, objs)

WithFinalizer(d) == finalizer \cup {d}

(* The patch does not send a condition that the run has read as ready.      *)
WithReady(d) == IF rec.ready THEN ready ELSE ready \cup {d}

WithDeployed(d) ==
    [deployed EXCEPT ![d] = updateDeployedObjectStatusReferences(Objects[d], @)]

(* The deferred status patch writes finalizer, references and condition,    *)
(* each with a request of its own.  The one for the condition may fail when *)
(* it is stored otherwise than it was read; all do when the deployer was    *)
(* removed meanwhile.                                                       *)
TrackSynced(d) ==
    /\ TracksDone /\ rec.deployer = d
    /\ ~rec.pending
    /\ IF Exists(d)
       THEN /\ finalizer' = WithFinalizer(d) /\ deployed' = WithDeployed(d)
            /\ \/ /\ ready' = WithReady(d)
                  /\ timer' = timer \cup {d}
                  /\ Finished(d) /\ UNCHANGED queue
               \/ /\ rec.ready # (d \in ready)
                  /\ Retry(d) /\ UNCHANGED <<ready, timer>>
       ELSE Retry(d) /\ UNCHANGED <<finalizer, ready, deployed, timer>>
    /\ UNCHANGED <<vars, object, suspended, clusterVars, seen, budget>>

(* UpdateStatus fails at the end of a reconciliation: any part of what it   *)
(* decided on may have reached the API server.                              *)
UpdateStatusFails(d) ==
    /\ rec.deployer = d
    /\ rec.pc \in {"track", "untrack"} /\ rec.todo = {} /\ rec.sending = {}
    /\ Failed(d)
    /\ IF rec.pc = "track" /\ ~rec.pending /\ Exists(d)
       THEN /\ finalizer' \in {finalizer, WithFinalizer(d)}
            /\ ready' \in {ready, WithReady(d)}
            /\ deployed' \in {deployed, WithDeployed(d)}
       ELSE UNCHANGED <<finalizer, ready, deployed>>
    /\ UNCHANGED <<vars, object, suspended, clusterVars, seen, timer>>

(* Untrack() loops over the watches that were active when it was called.    *)
UntrackCheck(k) ==
    /\ rec.pc = "untrack"
    /\ k \in rec.todo
    /\ rec.sending = {}
    /\ rec' = [rec EXCEPT !.todo = @ \ {k},
                          !.sending = IF IsStopped(k) THEN {} ELSE {k}]
    /\ UNCHANGED <<vars, apiVars, clusterVars, seen, queueVars, budget>>

UntrackSend(k) ==
    /\ rec.pc = "untrack"
    /\ k \in rec.sending
    /\ SendUnregister(k)
    /\ rec' = [rec EXCEPT !.sending = {}, !.pending = TRUE]
    /\ UNCHANGED <<apiVars, clusterVars, seen, queueVars, budget>>

(* Faulty variant: not retried while watches are being removed.             *)
UntrackDoneNoRetry(d) ==
    /\ rec.pc = "untrack" /\ rec.deployer = d
    /\ rec.todo = {} /\ rec.sending = {}
    /\ IF rec.pending
       THEN UNCHANGED <<object, finalizer>>
       ELSE /\ finalizer' = finalizer \ {d}
            /\ object' = [object EXCEPT ![d] = "untracked"]
    /\ Finished(d)
    /\ UNCHANGED <<vars, suspended, ready, deployed, clusterVars, seen, queueVars, budget>>

(* Reconcile returns an error also after the finalizer is removed.          *)
UntrackDone(d) ==
    /\ rec.pc = "untrack" /\ rec.deployer = d
    /\ rec.todo = {} /\ rec.sending = {}
    /\ IF rec.pending
       THEN UNCHANGED <<object, finalizer>>
       ELSE /\ finalizer' = finalizer \ {d}
            /\ object' = [object EXCEPT ![d] = "untracked"]
    /\ Retry(d)
    /\ UNCHANGED <<vars, suspended, ready, deployed, clusterVars, seen, timer, budget>>

-----------------------------------------------------------------------------
(* The process dies and starts again: only the API objects survive, and the *)
(* initial list enqueues every deployer.                                    *)
Restart ==
    /\ budget.faults > 0
    /\ budget' = [budget EXCEPT !.faults = @ - 1]
    /\ register' = <<>> /\ unregister' = <<>>
    /\ tasks' = [k \in Key |-> None]
    /\ activeTasks' = 0
    /\ tracked' = [g \in GVKs |-> None]
    /\ informer' = [i \in Informers |-> [state |-> "stopped", synced |-> FALSE]]
    /\ registration' = [r \in Registrations |->
                          [informer |-> None, attached |-> FALSE, synced |-> FALSE]]
    /\ worker' = [w \in Workers |-> Idle("idle")]
    /\ phase' = "starting"
    /\ queue' = {d \in Deployers : Exists(d)} /\ timer' = {}
    /\ seen' = ready
    /\ rec' = RecIdle
    /\ event' = event \ missing
    /\ UNCHANGED <<apiVars, drift, missing>>

-----------------------------------------------------------------------------
Reconcile(d) ==
    \/ GetDeployer(d)
    \/ ResourceUnavailable(d) \/ DownloadResourceFails(d)
    \/ ApplyFails(d) \/ ApplySucceeds(d)
    \/ TrackPending(d) \/ TrackSynced(d)
    \/ UntrackDone(d)
    \/ UpdateStatusFails(d)

ReconcileObject(k) ==
    \/ TrackCheck(k) \/ TrackSend(k) \/ TrackCancelled(k)
    \/ UntrackCheck(k) \/ UntrackSend(k)

Environment(d) ==
    \/ CreateDeployer(d) \/ DeleteDeployer(d) \/ ToggleSuspend(d)
    \/ ObserveDeployer(d) \/ Requeue(d) \/ ResourceChanges(d)
    \/ \E k \in ObjectsOf(d) : EditObject(d, k) \/ RemoveObject(d, k) \/ DispatchEvent(d, k)

(* A deletion that was not delivered yet is lost with the handlers.         *)
Undelivered ==
    /\ event' = {x \in event : x \in missing => Noticed(x[2].gvk)'}
    /\ UNCHANGED <<apiVars, drift, missing, seen, queueVars, rec, budget>>

(* The informer manager between start and shutdown; a GVK may be unknown    *)
(* for a while.                                                             *)
ManagerWork(w) == work(w) /\ ~GetInformerFails(w) /\ Undelivered

UnknownGVK ==
    /\ budget.faults > 0
    /\ budget' = [budget EXCEPT !.faults = @ - 1]
    /\ \E w \in Workers : GetInformerFails(w)
    /\ UNCHANGED <<apiVars, clusterVars, seen, queueVars, rec>>

Manager ==
    \/ \E w \in Workers : ManagerWork(w)
    \/ (ClientGo \/ StartCache) /\ Undelivered
    \/ UnknownGVK

DeployerNext ==
    \/ \E d \in Deployers : Reconcile(d) \/ Environment(d)
    \/ \E k \in Key : ReconcileObject(k)
    \/ Manager
    \/ Restart

DeployerSpec == DeployerInit /\ [][DeployerNext]_allVars

(* The goroutines of the controller and of the informer manager run, the    *)
(* workqueue is first-in first-out, and informers deliver what they see.    *)
(* Users, failures and restarts are not relied on; the properties that rely *)
(* on the periodic requeue say so.                                          *)
DeployerFairness ==
    /\ WF_allVars((\E d \in Deployers : Reconcile(d)) \/ (\E k \in Key : ReconcileObject(k)))
    /\ \A d \in Deployers :
         /\ SF_allVars(GetDeployer(d))
         /\ WF_allVars(ObserveDeployer(d))
         /\ \A k \in ObjectsOf(d) : WF_allVars(DispatchEvent(d, k))
    /\ \A w \in Workers : WF_allVars(ManagerWork(w))
    /\ \A i \in Informers :
         /\ WF_allVars(SyncInformer(i) /\ Undelivered)
         /\ WF_allVars(StopInformer(i) /\ Undelivered)
    /\ \A r \in Registrations : WF_allVars(SyncRegistration(r) /\ Undelivered)
    /\ WF_allVars(StartCache /\ Undelivered)

DeployerFairSpec == DeployerSpec /\ DeployerFairness

-----------------------------------------------------------------------------
(* Properties                                                               *)

(* Every variable has its type, and the reconcile goroutine works on an     *)
(* object that is in the state it read: a deployer it deletes stays in      *)
(* deletion until Untrack is done, and none is applied after that.          *)
DeployerTypeOK ==
    /\ object \in [Deployers -> ObjectStates]
    /\ finalizer \subseteq Deployers /\ suspended \subseteq Deployers /\ ready \subseteq Deployers
    /\ deployed \in [Deployers -> Seq(Key)]
    /\ drift \subseteq Deployers \X Key /\ event \subseteq Deployers \X Key
    /\ missing \subseteq drift
    /\ seen \subseteq Deployers /\ queue \subseteq Deployers /\ timer \subseteq Deployers
    /\ rec.pc \in {"idle", "apply", "track", "untrack"}
    /\ rec.pc # "idle" => rec.deployer \in Deployers
    /\ rec.todo \subseteq Key /\ rec.sending \subseteq Key /\ rec.pending \in BOOLEAN
    /\ rec.ready \in BOOLEAN
    /\ rec.pc = "idle" => rec = RecIdle
    /\ rec.pc = "untrack" => object[rec.deployer] = "deleting"
    /\ rec.pc \in {"apply", "track"} => object[rec.deployer] \notin {"absent", "untracked"}

Settled(d) == d \notin queue /\ rec.deployer # d /\ d \notin suspended

(* A live deployer that reports ready, and that nobody is about to          *)
(* reconcile, is watched: changes of each of its objects reach a handler.   *)
ReadyDeployerWatched ==
    \A d \in Deployers :
      d \in ready /\ object[d] = "live" /\ Settled(d) =>
        \A k \in ObjectsOf(d) : Delivers(k.gvk)

(* The workqueue delivers what RequeueAfter has left it.                    *)
RequeuedInTime(d) == WF_allVars(Requeue(d))

(* A deployer becomes ready, whatever fails a bounded number of times and   *)
(* wherever the process restarts, unless it is deleted or suspended.  The   *)
(* periodic requeue is needed where a run takes the deployer for ready and  *)
(* the stored condition, which an earlier one has left, says otherwise.     *)
BecomesReady ==
    \A d \in Deployers :
      RequeuedInTime(d) =>
        (object[d] = "live" ~> d \in ready \/ object[d] # "live" \/ d \in suspended)

(* The deletion of a deployer with the finalizer completes, unless it is    *)
(* suspended.                                                               *)
DeletionCompletes ==
    \A d \in Deployers : object[d] = "deleting" ~> object[d] = "untracked" \/ d \in suspended

Drifted(d, k) == <<d, k>> \in drift /\ object[d] = "live"

Repaired(d, k) == <<d, k>> \notin drift \/ object[d] # "live" \/ d \in suspended

(* An object of a live deployer that is missing or edited is applied again. *)
(* One that was edited, or whose deletion a handler has been told of, is so *)
(* on account of its watch alone; a deletion that fell into the time before *)
(* the informer listed is found by the periodic requeue.                    *)
DriftRepaired ==
    \A d \in Deployers : \A k \in ObjectsOf(d) :
      /\ Drifted(d, k) /\ (<<d, k>> \in missing => <<d, k>> \in event) ~> Repaired(d, k)
      /\ RequeuedInTime(d) => (Drifted(d, k) ~> Repaired(d, k))

(* Nothing is under way.                                                    *)
Quiet ==
    /\ rec.pc = "idle" /\ queue = {}
    /\ register = <<>> /\ unregister = <<>> /\ AllIdle

(* resourceWatchFinalizer ensures that the watches are removed when the     *)
(* deployers are deleted: once Untrack has released every deployer and the  *)
(* manager has caught up, no watch is left.                                 *)
UntrackedLeavesNoWatch ==
    Quiet /\ (\A d \in Deployers : object[d] = "untracked") =>
      \A k \in Key : tasks[k] = None

(* status.deployed of a ready deployer refers to each deployed object.      *)
StatusListsDeployed ==
    \A d \in Deployers : d \in ready => ToSet(deployed[d]) = ObjectsOf(d)
=============================================================================
