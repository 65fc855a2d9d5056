----------------------------- MODULE References -----------------------------
(***************************************************************************)
(* The chain Repository <- Component <- Resource <- Deployer as its         *)
(* controllers keep it (internal/controller/{repository,component,          *)
(* resource}): each object refers to the one before it, becomes ready after *)
(* it, and protects it with a finalizer from being deleted while it is      *)
(* referred to.                                                             *)
(*                                                                         *)
(* The workqueue gives an object to one goroutine at a time; goroutines of  *)
(* different objects and kinds interleave.  What a controller knows of the   *)
(* other objects (view) and of the condition of its own one (seen) comes    *)
(* from the informer cache, which lags behind the API server; the deferred  *)
(* patch sends what the run has changed of the object as it read it (read). *)
(*                                                                         *)
(* A deployer is a leaf here: how it deletes its watches is in Deployer.    *)
(***************************************************************************)
EXTENDS Integers, FiniteSets

CONSTANTS
    Objects,        \* records: kind, namespace, name, refNamespace, refName
    Existing,       \* those that are ready when the controllers are started
    Omitted,        \* the empty namespace of a reference
    MaxFailures,    \* bound: failed look-ups, validations and updates
    MaxToggles      \* bound: changes of spec.suspend

Conditions == {"unknown", "ready", "notReady", "referenced", "failed"}

Kinds == {"Repository", "Component", "Resource", "Deployer"}

ASSUME ObjectsAssumption ==
    /\ IsFiniteSet(Objects)
    /\ \A o \in Objects : o.kind \in Kinds /\ o.namespace # Omitted
    /\ Existing \subseteq Objects
ASSUME IdentityAssumption ==
    \A o, q \in Objects :
      o.kind = q.kind /\ o.namespace = q.namespace /\ o.name = q.name => o = q
ASSUME BoundsAssumption == MaxFailures \in Nat /\ MaxToggles \in Nat

VARIABLES
    object,      \* API server: life cycle
    finalizer,   \* API server: objects with their controller's finalizer
    suspended,   \* API server: objects with spec.suspend
    condition,   \* API server: the Ready condition, DeletionFailed and terminal errors apart
    changed,     \* changes the informers have not delivered yet
    view,        \* informer cache: what it shows of each object
    seen,        \* informer cache: the Ready condition of each object
    queue,       \* workqueues of the controllers
    timer,       \* objects that RequeueAfter has enqueued again later
    pc,          \* per object: where its reconciliation is
    read,        \* per object: the condition its run has read
    known,       \* auxiliary: referrers in the cache when the deletion was requested
    stopped,     \* auxiliary: objects whose last run had a terminal error
    budget       \* what is left of the bounds

vars == <<object, finalizer, suspended, condition, changed, view, seen, queue, timer, pc, read,
          known, stopped, budget>>

Exists(o) == object[o] \in {"live", "deleting"}

IsReady(o) == object[o] = "live" /\ condition[o] = "ready"

(* What GetReadyObject and the watches tell apart of an object.             *)
Appearance(o) ==
    CASE object[o] = "deleting" -> "deleting"
      [] IsReady(o)             -> "ready"
      [] ~Exists(o)             -> "absent"
      [] OTHER                  -> "notReady"

(* List: the cached objects.                                                *)
Cached == {o \in Objects : view[o] # "absent"}

-----------------------------------------------------------------------------
(* References.  A component or resource refers to an object of its own      *)
(* namespace; a deployer may name another one or leave it out.              *)

ParentKind(c) ==
    CASE c.kind = "Component" -> "Repository"
      [] c.kind = "Resource"  -> "Component"
      [] c.kind = "Deployer"  -> "Resource"
      [] OTHER                -> "none"

ReferredNamespace(c) ==
    IF c.kind = "Deployer" /\ c.refNamespace # Omitted THEN c.refNamespace ELSE c.namespace

Refers(c, p) ==
    /\ p.kind = ParentKind(c)
    /\ p.name = c.refName
    /\ p.namespace = ReferredNamespace(c)

(* The field indexes: by name alone, whatever the namespace, for components *)
(* and resources; by the namespace as it is written for deployers.          *)
Listed(c, p) ==
    /\ p.kind = ParentKind(c)
    /\ p.name = c.refName
    /\ c.kind = "Deployer" => p.namespace = c.refNamespace

(* The object that an event of c looks up, to remove its finalizer.         *)
Notified(c, p) ==
    /\ p.kind = ParentKind(c)
    /\ p.name = c.refName
    /\ p.namespace = IF c.kind = "Deployer" THEN c.refNamespace ELSE c.namespace

-----------------------------------------------------------------------------
(* The controllers start, with empty informer caches, in a cluster where    *)
(* some objects exist already.                                              *)
Init ==
    /\ object = [o \in Objects |-> IF o \in Existing THEN "live" ELSE "absent"]
    /\ finalizer = {o \in Existing : o.kind # "Deployer"}
    /\ suspended = {}
    /\ condition = [o \in Objects |-> IF o \in Existing THEN "ready" ELSE "unknown"]
    /\ changed = [o \in Objects |-> IF o \in Existing THEN {"spec"} ELSE {}]
    /\ view = [o \in Objects |-> "absent"]
    /\ seen = [o \in Objects |-> "unknown"]
    /\ queue = {} /\ timer = {} /\ stopped = {}
    /\ pc = [o \in Objects |-> "idle"]
    /\ read = [o \in Objects |-> "unknown"]
    /\ known = [o \in Objects |-> {}]
    /\ budget = [failures |-> MaxFailures, toggles |-> MaxToggles]

-----------------------------------------------------------------------------
(* Users and the API server                                                 *)

ControllersUnchanged == UNCHANGED <<view, seen, queue, timer, pc, read, stopped>>

Create(o) ==
    /\ object[o] = "absent"
    /\ object' = [object EXCEPT ![o] = "live"]
    /\ suspended' \in {suspended, suspended \cup {o}}
    /\ changed' = [changed EXCEPT ![o] = @ \cup {"spec"}]
    /\ UNCHANGED <<finalizer, condition, known, budget>> /\ ControllersUnchanged

(* An object without finalizers is removed at once.                         *)
DeleteObject(o) ==
    /\ object[o] = "live"
    /\ object' = [object EXCEPT ![o] = IF o \in finalizer THEN "deleting" ELSE "gone"]
    /\ known' = [known EXCEPT ![o] = IF o \in finalizer THEN {c \in Cached : Refers(c, o)} ELSE {}]
    /\ changed' = [changed EXCEPT ![o] = @ \cup {"spec"}]
    /\ UNCHANGED <<finalizer, suspended, condition, budget>> /\ ControllersUnchanged

ToggleSuspend(o) ==
    /\ budget.toggles > 0
    /\ Exists(o)
    /\ budget' = [budget EXCEPT !.toggles = @ - 1]
    /\ suspended' = IF o \in suspended THEN suspended \ {o} ELSE suspended \cup {o}
    /\ changed' = [changed EXCEPT ![o] = @ \cup {"spec"}]
    /\ UNCHANGED <<object, finalizer, condition, known>> /\ ControllersUnchanged

(* An informer delivers the changes of an object: its own controller wants  *)
(* those of the specification, the one before it those that matter to a     *)
(* deletion, the one after it all of them.                                  *)
(* Faulty variant: the objects that refer to it are not enqueued.           *)
ObserveOwn(o) ==
    /\ changed[o] # {}
    /\ changed' = [changed EXCEPT ![o] = {}]
    /\ view' = [view EXCEPT ![o] = Appearance(o)]
    /\ seen' = [seen EXCEPT ![o] = condition[o]]
    /\ queue' = queue \cup {x \in {o} : "spec" \in changed[o]}
                      \cup {p \in Objects : Notified(o, p) /\ view[p] = "deleting"}
    /\ UNCHANGED <<object, finalizer, suspended, condition, timer, pc, read, known, stopped, budget>>

Observe(o) ==
    /\ changed[o] # {}
    /\ changed' = [changed EXCEPT ![o] = {}]
    /\ view' = [view EXCEPT ![o] = Appearance(o)]
    /\ seen' = [seen EXCEPT ![o] = condition[o]]
    /\ queue' = queue \cup {x \in {o} : "spec" \in changed[o]}
                      \cup {p \in Objects : Notified(o, p) /\ view[p] = "deleting"}
                      \cup {c \in Cached : Listed(c, o)}
    /\ UNCHANGED <<object, finalizer, suspended, condition, timer, pc, read, known, stopped, budget>>

(* The interval after a successful reconciliation is over.                  *)
RequeueAfter(o) ==
    /\ o \in timer
    /\ timer' = timer \ {o}
    /\ queue' = queue \cup {o}
    /\ UNCHANGED <<object, finalizer, suspended, condition, changed, view, seen, pc, read, known,
                   stopped, budget>>

-----------------------------------------------------------------------------
(* Reconcile                                                                *)

Take(o) == o \in queue /\ pc[o] = "idle"

(* Resources and deployers look at suspend before deletion, the others      *)
(* after it, and after they have added their finalizer.                     *)
SuspendFirst(o) == o.kind \in {"Resource", "Deployer"}

HasFinalizer(o) == o.kind = "Deployer" \/ o \in finalizer

Skips(o) ==
    \/ ~Exists(o)
    \/ o \in suspended /\ (SuspendFirst(o) \/ (object[o] = "live" /\ HasFinalizer(o)))

ClusterUnchanged == UNCHANGED <<object, finalizer, suspended, view, seen, known, budget>>

Ignore(o) ==
    /\ Take(o)
    /\ Skips(o)
    /\ queue' = queue \ {o}
    /\ ClusterUnchanged
    /\ UNCHANGED <<condition, changed, timer, pc, read, stopped>>

(* The deferred patch.  What the run has left as it read it is not sent,    *)
(* whatever is stored now; what it has changed is stored, with an event if  *)
(* that changes anything.  If the object is gone, or has changed since it   *)
(* was read, there may be an error instead.                                 *)
Patched(o, before, value) ==
    \/ before = value /\ UNCHANGED <<condition, changed>>
    \/ /\ before # value /\ Exists(o)
       /\ condition' = [condition EXCEPT ![o] = value]
       /\ changed' = IF condition[o] = value THEN changed
                     ELSE [changed EXCEPT ![o] = @ \cup {"status"}]

PatchFails(o, before) ==
    /\ ~Exists(o) \/ condition[o] # before
    /\ UNCHANGED <<condition, changed>>

(* MarkNotReady in a run that ends with an error anyhow.                    *)
SetCondition(o, before, value) == Patched(o, before, value) \/ PatchFails(o, before)

Begin(o, step) ==
    /\ pc' = [pc EXCEPT ![o] = step]
    /\ read' = [read EXCEPT ![o] = seen[o]]
    /\ queue' = queue \ {o}
    /\ stopped' = stopped \ {o}

End(o) ==
    /\ pc' = [pc EXCEPT ![o] = "idle"]
    /\ read' = [read EXCEPT ![o] = "unknown"]

(* Faulty variants: the deletion timestamp, or the list of referrers, is    *)
(* not looked at.                                                           *)
ListReferrersUnchecked(o) ==
    /\ Take(o) /\ ~Skips(o)
    /\ ~\E c \in Cached : Listed(c, o)
    /\ Begin(o, "remove")
    /\ ClusterUnchanged
    /\ UNCHANGED <<condition, changed, timer>>

ListReferrersSkipped(o) ==
    /\ Take(o) /\ ~Skips(o)
    /\ object[o] = "deleting"
    /\ Begin(o, "remove")
    /\ ClusterUnchanged
    /\ UNCHANGED <<condition, changed, timer>>

(* Deletion: an object that is still referred to is not ready, and the      *)
(* error has it reconciled again.                                           *)
ListReferrers(o) ==
    /\ Take(o) /\ ~Skips(o)
    /\ object[o] = "deleting"
    /\ IF \E c \in Cached : Listed(c, o)
       THEN SetCondition(o, seen[o], "referenced") /\ UNCHANGED <<pc, read, queue, stopped>>
       ELSE Begin(o, "remove") /\ UNCHANGED <<condition, changed>>
    /\ ClusterUnchanged /\ UNCHANGED timer

RemoveFinalizer(o) ==
    /\ pc[o] = "remove"
    /\ finalizer' = finalizer \ {o}
    /\ object' = [object EXCEPT ![o] = "gone"]
    /\ changed' = [changed EXCEPT ![o] = @ \cup {"spec"}]
    /\ End(o)
    /\ UNCHANGED <<suspended, condition, view, seen, queue, timer, known, stopped, budget>>

(* Reconcile of an object that is not in deletion adds the finalizer first, *)
(* and asks for another reconciliation.                                     *)
AddFinalizer(o) ==
    /\ Take(o) /\ ~Skips(o)
    /\ object[o] = "live"
    /\ ~HasFinalizer(o)
    /\ finalizer' = finalizer \cup {o}
    /\ changed' = [changed EXCEPT ![o] = @ \cup {"status"}]
    /\ UNCHANGED <<object, suspended, condition, view, seen, queue, timer, pc, read, known,
                   stopped, budget>>

ParentReady(o) == o.kind = "Repository" \/ \E p \in Objects : Refers(o, p) /\ view[p] = "ready"

(* A parent that is missing, in deletion or not ready is an error: no error *)
(* equals NotReadyError{} or DeletionError{}, which have a name inside.     *)
GetReadyObject(o) ==
    /\ Take(o) /\ ~Skips(o)
    /\ object[o] = "live"
    /\ HasFinalizer(o)
    /\ IF ParentReady(o)
       THEN Begin(o, "work") /\ UNCHANGED <<condition, changed>>
       ELSE SetCondition(o, seen[o], "notReady") /\ UNCHANGED <<pc, read, queue, stopped>>
    /\ ClusterUnchanged /\ UNCHANGED timer

(* Faulty variant: a failure that is not returned as an error.              *)
FailsSilently(o) ==
    /\ budget.failures > 0
    /\ pc[o] \in {"work", "remove"}
    /\ budget' = [budget EXCEPT !.failures = @ - 1]
    /\ SetCondition(o, read[o], "notReady")
    /\ End(o)
    /\ UNCHANGED <<object, finalizer, suspended, view, seen, queue, timer, known, stopped>>

(* Configuration, session, look-up of repository, version and resource, and *)
(* verification; or the update that removes the finalizer.  An outdated     *)
(* session of a component, and a manifest that a deployer cannot close, are *)
(* errors that are not marked.                                              *)
Fails(o) ==
    /\ budget.failures > 0
    /\ pc[o] \in {"work", "remove"}
    /\ budget' = [budget EXCEPT !.failures = @ - 1]
    /\ \/ SetCondition(o, read[o], "notReady")
       \/ /\ pc[o] = "work" /\ o.kind \in {"Component", "Deployer"}
          /\ UNCHANGED <<condition, changed>>
    /\ End(o)
    /\ queue' = queue \cup {o}
    /\ UNCHANGED <<object, finalizer, suspended, view, seen, timer, known, stopped>>

(* A terminal error is not retried: a version that is not permitted, or a   *)
(* verification that is not well formed.                                    *)
TerminalError(o) ==
    /\ budget.failures > 0
    /\ pc[o] = "work" /\ o.kind \in {"Component", "Resource"}
    /\ budget' = [budget EXCEPT !.failures = @ - 1]
    /\ SetCondition(o, read[o], "failed")
    /\ End(o)
    /\ stopped' = stopped \cup {o}
    /\ UNCHANGED <<object, finalizer, suspended, view, seen, queue, timer, known>>

(* Faulty variant: a success that does not ask for the next reconciliation. *)
MarkReadyOnce(o) ==
    /\ pc[o] = "work"
    /\ \/ Patched(o, read[o], "ready") /\ UNCHANGED queue
       \/ PatchFails(o, read[o]) /\ queue' = queue \cup {o}
    /\ End(o)
    /\ ClusterUnchanged /\ UNCHANGED <<timer, stopped>>

(* An object that was ready when it was read stays as it is stored.         *)
MarkReady(o) ==
    /\ pc[o] = "work"
    /\ \/ /\ Patched(o, read[o], "ready")
          /\ timer' = timer \cup {o} /\ UNCHANGED queue
       \/ /\ PatchFails(o, read[o])
          /\ queue' = queue \cup {o} /\ UNCHANGED timer
    /\ End(o)
    /\ ClusterUnchanged /\ UNCHANGED stopped

-----------------------------------------------------------------------------
Reconcile(o) ==
    \/ Ignore(o)
    \/ ListReferrers(o) \/ RemoveFinalizer(o)
    \/ AddFinalizer(o) \/ GetReadyObject(o)
    \/ Fails(o) \/ TerminalError(o) \/ MarkReady(o)

Environment(o) == Create(o) \/ DeleteObject(o) \/ ToggleSuspend(o) \/ RequeueAfter(o)

Next == \E o \in Objects : Reconcile(o) \/ Environment(o) \/ Observe(o)

Spec == Init /\ [][Next]_vars

(* Controllers, informers and the timers of the workqueues run; users and   *)
(* failures are not relied on.                                              *)
Fairness ==
    \A o \in Objects : WF_vars(Reconcile(o)) /\ WF_vars(Observe(o)) /\ WF_vars(RequeueAfter(o))

FairSpec == Spec /\ Fairness

-----------------------------------------------------------------------------
(* Properties                                                               *)

(* Every variable has its type; an object is in deletion only as long as it *)
(* has its finalizer, and the goroutine that removes the finalizer finds it *)
(* there.                                                                   *)
TypeOK ==
    /\ object \in [Objects -> {"absent", "live", "deleting", "gone"}]
    /\ finalizer \subseteq Objects /\ suspended \subseteq Objects
    /\ condition \in [Objects -> Conditions]
    /\ changed \in [Objects -> SUBSET {"spec", "status"}]
    /\ view \in [Objects -> {"absent", "notReady", "ready", "deleting"}]
    /\ seen \in [Objects -> Conditions] /\ read \in [Objects -> Conditions]
    /\ queue \subseteq Objects /\ timer \subseteq Objects /\ stopped \subseteq Objects
    /\ pc \in [Objects -> {"idle", "work", "remove"}]
    /\ known \in [Objects -> SUBSET Objects]
    /\ budget \in [failures: Int, toggles: Int]
    /\ \A o \in Objects : object[o] = "deleting" => o \in finalizer
    /\ \A o \in Objects : pc[o] = "remove" => object[o] = "deleting"

(* The finalizers make sure that an object is only deleted when it is no    *)
(* longer referenced: when it is gone, so are all the objects that referred *)
(* to it and that its controller could know of when the deletion was        *)
(* requested.                                                               *)
KnownReferenceProtects ==
    \A o \in Objects : object[o] = "gone" => \A c \in known[o] : ~Exists(c)

Settled(o) == o \notin queue /\ pc[o] = "idle" /\ changed[o] = {}

(* A live object that reports ready, and that nobody is about to reconcile, *)
(* refers to an object that is ready: no change of the parent is missed.    *)
ReadyAfterParent ==
    \A c, p \in Objects :
      Refers(c, p) /\ IsReady(c) /\ c \notin suspended /\ Settled(c) /\ Settled(p) => IsReady(p)

(* A live object is not suspended, and what it refers to is ready.          *)
MayBeReady(o) ==
    /\ object[o] = "live" /\ o \notin suspended
    /\ o.kind = "Repository" \/ \E p \in Objects : Refers(o, p) /\ IsReady(p)

(* Readiness comes down the chain: an object whose parent stays ready gets  *)
(* ready, whatever it has read of the parent and of its own condition       *)
(* before, and after any bounded number of failures.  With a condition read *)
(* late this may take until the interval is over.  A terminal error ends it. *)
BecomesReady ==
    \A o \in Objects :
      MayBeReady(o) ~> (IsReady(o) \/ o \in stopped \/ ~MayBeReady(o))

(* The deletion of an object completes once nothing that its index lists is *)
(* left; a resource must not be suspended.                                  *)
DeletionCompletes ==
    \A o \in Objects :
      object[o] = "deleting" ~>
        \/ object[o] = "gone"
        \/ \E c \in Objects : Listed(c, o) /\ Exists(c)
        \/ SuspendFirst(o) /\ o \in suspended

(* The index gets the objects that reference another one: an object that is *)
(* reported as still referenced is referenced.                              *)
ReportedReferenceExists ==
    [][\A o \in Objects :
         condition[o] # "referenced" /\ condition'[o] = "referenced"
           => \E c \in Cached : Refers(c, o)]_vars

(* An object whose parent is there but not ready waits for an event of the  *)
(* parent: it is not requeued.                                              *)
NotReadyParentAwaited ==
    [][\A o, p \in Objects :
         Refers(o, p) /\ view[p] \in {"notReady", "deleting"} /\ pc[o] = "idle"
           /\ condition[o] # "notReady" /\ condition'[o] = "notReady"
             => o \notin queue']_vars
=============================================================================
