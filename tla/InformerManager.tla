-------------------------- MODULE InformerManager --------------------------
(***************************************************************************)
(* The dynamic informer manager of the deployer controller                 *)
(* (internal/controller/deployer/dynamic/informer_manager.go): worker      *)
(* goroutines receive register and unregister events from two buffered     *)
(* channels and keep a concurrent map of watch tasks.  A task owns an       *)
(* event-handler registration on an informer of a controller-runtime cache, *)
(* and that cache keeps ONE informer per child GVK, whatever the namespace. *)
(*                                                                         *)
(* Register and Unregister hold no lock, so every access to the map, the   *)
(* cache or an informer is a step of its own.                              *)
(*                                                                         *)
(* The cache, its informers and their registrations belong to              *)
(* controller-runtime and client-go; they are modelled from how the manager *)
(* uses them.  A registration or informer that nothing refers to any more   *)
(* is garbage, and its identifier may be used again.                        *)
(***************************************************************************)
EXTENDS Integers, FiniteSets, Sequences

CONSTANTS
    Parents,                     \* GVKs of parent objects (the program uses one: Deployer)
    GVKs,                        \* GVKs of the child objects
    Namespaces,                  \* namespaces of the child objects
    Workers,                     \* goroutines running work()
    Informers,                   \* identities of client-go informers
    Registrations,               \* identities of event-handler registrations
    RegisterChannelBufferSize,
    UnregisterChannelBufferSize,
    None                         \* the nil pointer

(* watchTaskKey: what identifies a watch.  It holds the GVK of the parent,  *)
(* not its name: all deployers share their watches.                         *)
Key == [parent: Parents, gvk: GVKs, namespace: Namespaces]

ASSUME BufferAssumption ==
    /\ RegisterChannelBufferSize \in Nat
    /\ UnregisterChannelBufferSize \in Nat

ASSUME NoneAssumption ==
    /\ None \notin Informers
    /\ None \notin Registrations
    /\ None \notin Key

ASSUME FiniteAssumption == IsFiniteSet(Key)

VARIABLES
    register, unregister,  \* the buffered channels
    tasks,                 \* sync.Map of watch tasks; a task is its registration
    activeTasks,           \* the gauge dynamic_informer_active_watch_tasks
    tracked,               \* the cache: the informer it keeps for a GVK
    informer,              \* per informer: its life cycle and HasSynced
    registration,          \* per registration: its informer, whether the informer
                           \* still calls it, and HasSynced
    worker,                \* per worker: program counter and local variables
    phase                  \* life cycle of the manager (Start)

chanVars  == <<register, unregister>>
taskVars  == <<tasks, activeTasks>>
cacheVars == <<tracked, informer, registration>>
vars == <<chanVars, taskVars, cacheVars, worker, phase>>

RegisterSteps   == {"load", "get", "sync", "add", "store"}
StopSteps       == {"range", "detach", "remove", "delete"}
UnregisterSteps == {"getTask"} \cup StopSteps
ProgramCounters == {"idle", "exited"} \cup RegisterSteps \cup UnregisterSteps

(* "created": not started yet; "closing": its stop channel is closed.       *)
InformerStates == {"created", "running", "closing", "stopped"}

Phases == {"starting", "running", "cancelled", "shutdown"}

-----------------------------------------------------------------------------
Idle(pc) == [pc |-> pc, key |-> None, informer |-> None, registration |-> None]

Init ==
    /\ register = <<>> /\ unregister = <<>>
    /\ tasks = [k \in Key |-> None]
    /\ activeTasks = 0
    /\ tracked = [g \in GVKs |-> None]
    /\ informer = [i \in Informers |-> [state |-> "stopped", synced |-> FALSE]]
    /\ registration = [r \in Registrations |->
                         [informer |-> None, attached |-> FALSE, synced |-> FALSE]]
    /\ worker = [w \in Workers |-> Idle("idle")]
    /\ phase = "starting"

-----------------------------------------------------------------------------
(* What the manager tells its callers.                                      *)

TaskInformer(k) == registration[tasks[k]].informer

HasSynced(k) ==
    /\ tasks[k] # None
    /\ informer[TaskInformer(k)].synced
    /\ registration[tasks[k]].synced

IsStopped(k) == tasks[k] # None /\ informer[TaskInformer(k)].state = "stopped"

ActiveForParent(p) == {k \in Key : k.parent = p /\ tasks[k] # None}

(* Another parent watches the same GVK in the same namespace.               *)
HasSibling(k) ==
    \E e \in Key : /\ tasks[e] # None
                   /\ e.gvk = k.gvk /\ e.namespace = k.namespace
                   /\ e.parent # k.parent

-----------------------------------------------------------------------------
(* Identities nothing refers to: what `new` may return.                     *)

FreeRegistrations ==
    {r \in Registrations : /\ ~registration[r].attached
                           /\ \A k \in Key : tasks[k] # r
                           /\ \A w \in Workers : worker[w].registration # r}

FreeInformers ==
    {i \in Informers : /\ informer[i].state \in {"created", "stopped"}
                       /\ \A g \in GVKs : tracked[g] # i
                       /\ \A w \in Workers : worker[w].informer # i
                       /\ \A k \in Key : tasks[k] = None \/ TaskInformer(k) # i
                       /\ \A w \in Workers : worker[w].registration = None
                            \/ registration[worker[w].registration].informer # i}

-----------------------------------------------------------------------------
(* The callers: a send on a channel with a free buffer slot.                *)

SendRegister(k) ==
    /\ phase # "shutdown"
    /\ Len(register) < RegisterChannelBufferSize
    /\ register' = Append(register, k)
    /\ UNCHANGED <<unregister, taskVars, cacheVars, worker, phase>>

SendUnregister(k) ==
    /\ phase # "shutdown"
    /\ Len(unregister) < UnregisterChannelBufferSize
    /\ unregister' = Append(unregister, k)
    /\ UNCHANGED <<register, taskVars, cacheVars, worker, phase>>

-----------------------------------------------------------------------------
(* work(): select picks any ready case, a received event even after the     *)
(* context is cancelled.                                                    *)

Finish(w) == worker' = [worker EXCEPT ![w] = Idle("idle")]

Begin(w, pc, k) ==
    worker' = [worker EXCEPT ![w] =
      [pc |-> pc, key |-> k, informer |-> None, registration |-> None]]

Move(w, pc, i, r) ==
    worker' = [worker EXCEPT ![w] =
      [pc |-> pc, key |-> worker[w].key, informer |-> i, registration |-> r]]

Goto(w, pc) == Move(w, pc, worker[w].informer, worker[w].registration)

ReceiveRegister(w) ==
    /\ worker[w].pc = "idle"
    /\ register # <<>>
    /\ register' = Tail(register)
    /\ Begin(w, "load", Head(register))
    /\ UNCHANGED <<unregister, taskVars, cacheVars, phase>>

ReceiveUnregister(w) ==
    /\ worker[w].pc = "idle"
    /\ unregister # <<>>
    /\ unregister' = Tail(unregister)
    /\ Begin(w, "getTask", Head(unregister))
    /\ UNCHANGED <<register, taskVars, cacheVars, phase>>

Exit(w) ==
    /\ worker[w].pc = "idle"
    /\ phase = "cancelled"
    /\ worker' = [worker EXCEPT ![w] = Idle("exited")]
    /\ UNCHANGED <<chanVars, taskVars, cacheVars, phase>>

-----------------------------------------------------------------------------
(* Register                                                                 *)

RegisterLoad(w) ==
    /\ worker[w].pc = "load"
    /\ IF tasks[worker[w].key] # None THEN Finish(w) ELSE Goto(w, "get")
    /\ UNCHANGED <<chanVars, taskVars, cacheVars, phase>>

(* cache.GetInformer returns the tracked informer or creates one, started   *)
(* when the cache is; a started cache makes the caller wait for the sync.   *)
AfterGet(i) == IF phase # "starting" /\ ~informer[i].synced THEN "sync" ELSE "add"

GetTrackedInformer(w) ==
    LET i == tracked[worker[w].key.gvk] IN
    /\ worker[w].pc = "get"
    /\ i # None
    /\ Move(w, AfterGet(i), i, None)
    /\ UNCHANGED <<chanVars, taskVars, cacheVars, phase>>

CreateInformer(w) ==
    /\ worker[w].pc = "get"
    /\ tracked[worker[w].key.gvk] = None
    /\ \E i \in FreeInformers :
         /\ tracked' = [tracked EXCEPT ![worker[w].key.gvk] = i]
         /\ informer' = [informer EXCEPT ![i] =
              [state  |-> IF phase = "running" THEN "running" ELSE "created",
               synced |-> FALSE]]
         /\ Move(w, IF phase = "starting" THEN "add" ELSE "sync", i, None)
    /\ UNCHANGED <<chanVars, taskVars, registration, phase>>

(* No REST mapping for the GVK (only asked for when no informer exists).    *)
GetInformerFails(w) ==
    /\ worker[w].pc = "get"
    /\ tracked[worker[w].key.gvk] = None
    /\ Finish(w)
    /\ UNCHANGED <<chanVars, taskVars, cacheVars, phase>>

(* WaitForCacheSync has no time limit: only the sync or the worker's        *)
(* context ends it.                                                         *)
InformerSynced(w) ==
    /\ worker[w].pc = "sync"
    /\ informer[worker[w].informer].synced
    /\ Goto(w, "add")
    /\ UNCHANGED <<chanVars, taskVars, cacheVars, phase>>

(* Faulty variant: the wait ignores the context.                            *)
SyncWaitUncancellable(w) ==
    /\ worker[w].pc = "sync"
    /\ phase = "shutdown"
    /\ Finish(w)
    /\ UNCHANGED <<chanVars, taskVars, cacheVars, phase>>

SyncWaitCancelled(w) ==
    /\ worker[w].pc = "sync"
    /\ phase = "cancelled"
    /\ Finish(w)
    /\ UNCHANGED <<chanVars, taskVars, cacheVars, phase>>

(* AddEventHandlerWithOptions refuses a stopped informer.                   *)
AddEventHandler(w) ==
    /\ worker[w].pc = "add"
    /\ IF informer[worker[w].informer].state = "stopped"
       THEN Finish(w) /\ UNCHANGED registration
       ELSE \E r \in FreeRegistrations :
              /\ registration' = [registration EXCEPT ![r] =
                   [informer |-> worker[w].informer, attached |-> TRUE, synced |-> FALSE]]
              /\ Move(w, "store", worker[w].informer, r)
    /\ UNCHANGED <<chanVars, taskVars, tracked, informer, phase>>

Store(w) ==
    /\ worker[w].pc = "store"
    /\ tasks' = [tasks EXCEPT ![worker[w].key] = worker[w].registration]
    /\ activeTasks' = activeTasks + 1
    /\ Finish(w)
    /\ UNCHANGED <<chanVars, cacheVars, phase>>

-----------------------------------------------------------------------------
(* Unregister and stopTask                                                  *)

(* Faulty variant: the result of the lookup is not checked.                 *)
GetTaskUnchecked(w) ==
    /\ worker[w].pc = "getTask"
    /\ Move(w, "range", None, tasks[worker[w].key])
    /\ UNCHANGED <<chanVars, taskVars, cacheVars, phase>>

GetTask(w) ==
    LET r == tasks[worker[w].key] IN
    /\ worker[w].pc = "getTask"
    /\ IF r = None THEN Finish(w) ELSE Move(w, "range", None, r)
    /\ UNCHANGED <<chanVars, taskVars, cacheVars, phase>>

(* Faulty variants: siblings are ignored; or waited for.                    *)
IsLastWatchIgnored(w) ==
    /\ worker[w].pc = "range"
    /\ Goto(w, "detach")
    /\ UNCHANGED <<chanVars, taskVars, cacheVars, phase>>

IsLastWatchAwaited(w) ==
    /\ worker[w].pc = "range"
    /\ ~HasSibling(worker[w].key)
    /\ Goto(w, "detach")
    /\ UNCHANGED <<chanVars, taskVars, cacheVars, phase>>

IsLastWatch(w) ==
    /\ worker[w].pc = "range"
    /\ IF HasSibling(worker[w].key) THEN Finish(w) ELSE Goto(w, "detach")
    /\ UNCHANGED <<chanVars, taskVars, cacheVars, phase>>

(* Faulty variant: the handler is left on the informer.                     *)
RemoveEventHandlerForgotten(w) ==
    /\ worker[w].pc = "detach"
    /\ Goto(w, "remove")
    /\ UNCHANGED <<chanVars, taskVars, cacheVars, phase>>

RemoveEventHandler(w) ==
    /\ worker[w].pc = "detach"
    /\ registration' = [registration EXCEPT ![worker[w].registration].attached = FALSE]
    /\ Goto(w, "remove")
    /\ UNCHANGED <<chanVars, taskVars, tracked, informer, phase>>

(* What closing its stop channel does to an informer.                       *)
Closed(rec) == IF rec.state = "running" THEN [rec EXCEPT !.state = "closing"] ELSE rec

(* Faulty variant: the informer is left running.                            *)
RemoveInformerForgotten(w) ==
    /\ worker[w].pc = "remove"
    /\ Goto(w, "delete")
    /\ UNCHANGED <<chanVars, taskVars, cacheVars, phase>>

(* cache.RemoveInformer removes the informer of the GVK, which need not be  *)
(* the informer of the task that is being stopped.                          *)
RemoveInformer(w) ==
    LET g == worker[w].key.gvk IN
    /\ worker[w].pc = "remove"
    /\ informer' = IF tracked[g] = None THEN informer
                   ELSE [informer EXCEPT ![tracked[g]] = Closed(informer[tracked[g]])]
    /\ tracked' = [tracked EXCEPT ![g] = None]
    /\ Goto(w, "delete")
    /\ UNCHANGED <<chanVars, taskVars, registration, phase>>

(* Faulty variant: the task stays in the map.                               *)
DeleteForgotten(w) ==
    /\ worker[w].pc = "delete"
    /\ activeTasks' = activeTasks - 1
    /\ Finish(w)
    /\ UNCHANGED <<chanVars, tasks, cacheVars, phase>>

Delete(w) ==
    /\ worker[w].pc = "delete"
    /\ tasks' = [tasks EXCEPT ![worker[w].key] = None]
    /\ activeTasks' = activeTasks - 1
    /\ Finish(w)
    /\ UNCHANGED <<chanVars, cacheVars, phase>>

-----------------------------------------------------------------------------
(* client-go: the goroutines of the informers.                              *)

SyncInformer(i) ==
    /\ informer[i].state \in {"running", "closing"}
    /\ ~informer[i].synced
    /\ informer' = [informer EXCEPT ![i].synced = TRUE]
    /\ UNCHANGED <<chanVars, taskVars, tracked, registration, worker, phase>>

SyncRegistration(r) ==
    /\ registration[r].attached
    /\ informer[registration[r].informer].synced
    /\ ~registration[r].synced
    /\ registration' = [registration EXCEPT ![r].synced = TRUE]
    /\ UNCHANGED <<chanVars, taskVars, tracked, informer, worker, phase>>

(* Run returns: the informer drops all its handlers.                        *)
StopInformer(i) ==
    /\ \/ informer[i].state = "closing"
       \/ informer[i].state = "running" /\ phase = "cancelled"
    /\ informer' = [informer EXCEPT ![i].state = "stopped"]
    /\ registration' = [r \in Registrations |->
         IF registration[r].informer = i
         THEN [registration[r] EXCEPT !.attached = FALSE]
         ELSE registration[r]]
    /\ UNCHANGED <<chanVars, taskVars, tracked, worker, phase>>

-----------------------------------------------------------------------------
(* Start                                                                    *)

(* Faulty variant: informers created before the start are never started.    *)
StartCacheOnlyLater ==
    /\ phase = "starting"
    /\ phase' = "running"
    /\ UNCHANGED <<chanVars, taskVars, cacheVars, worker>>

(* cache.Start starts the informers created before it; it runs              *)
(* concurrently with the workers.  An error of it other than the            *)
(* cancellation, which makes Start return without GracefulShutdown, is left *)
(* out: controller-runtime's cache has one only for a second start.         *)
StartCache ==
    /\ phase = "starting"
    /\ phase' = "running"
    /\ informer' = [i \in Informers |->
         IF \E g \in GVKs : tracked[g] = i
         THEN [informer[i] EXCEPT !.state = "running"]
         ELSE informer[i]]
    /\ UNCHANGED <<chanVars, taskVars, tracked, registration, worker>>

Cancel ==
    /\ phase = "running"
    /\ phase' = "cancelled"
    /\ UNCHANGED <<chanVars, taskVars, cacheVars, worker>>

(* Faulty variant: shutdown without stopping the tasks.                     *)
ShutdownWithoutStop ==
    /\ phase = "cancelled"
    /\ \A w \in Workers : worker[w].pc = "exited"
    /\ \A i \in Informers : informer[i].state \in {"created", "stopped"}
    /\ phase' = "shutdown"
    /\ UNCHANGED <<chanVars, taskVars, cacheVars, worker>>

(* stopTask for every task, after eg.Wait: workers and informers are gone.  *)
(* Nothing runs beside it, so one step is enough; a task whose sibling is   *)
(* still in the map is left alone, by both siblings.                        *)
GracefulShutdown ==
    LET stopped == {k \in Key : tasks[k] # None /\ ~HasSibling(k)} IN
    /\ phase = "cancelled"
    /\ \A w \in Workers : worker[w].pc = "exited"
    /\ \A i \in Informers : informer[i].state \in {"created", "stopped"}
    /\ tasks' = [k \in Key |-> IF k \in stopped THEN None ELSE tasks[k]]
    /\ activeTasks' = activeTasks - Cardinality(stopped)
    /\ tracked' = [g \in GVKs |->
         IF \E k \in stopped : k.gvk = g THEN None ELSE tracked[g]]
    /\ registration' = [r \in Registrations |->
         IF \E k \in stopped : tasks[k] = r
         THEN [registration[r] EXCEPT !.attached = FALSE]
         ELSE registration[r]]
    /\ phase' = "shutdown"
    /\ UNCHANGED <<chanVars, informer, worker>>

-----------------------------------------------------------------------------
Send == \E k \in Key : SendRegister(k) \/ SendUnregister(k)

Receive(w) == ReceiveRegister(w) \/ ReceiveUnregister(w) \/ Exit(w)

Register(w) ==
    \/ RegisterLoad(w)
    \/ GetTrackedInformer(w) \/ CreateInformer(w) \/ GetInformerFails(w)
    \/ InformerSynced(w) \/ SyncWaitCancelled(w)
    \/ AddEventHandler(w)
    \/ Store(w)

Unregister(w) ==
    \/ GetTask(w)
    \/ IsLastWatch(w)
    \/ RemoveEventHandler(w)
    \/ RemoveInformer(w)
    \/ Delete(w)

work(w) == Receive(w) \/ Register(w) \/ Unregister(w)

ClientGo ==
    \/ \E i \in Informers : SyncInformer(i) \/ StopInformer(i)
    \/ \E r \in Registrations : SyncRegistration(r)

Start == StartCache \/ Cancel \/ GracefulShutdown

System == (\E w \in Workers : work(w)) \/ ClientGo \/ Start

Next == Send \/ System

Spec == Init /\ [][Next]_vars

(* Goroutines that can run do run: the workers, the goroutines of the       *)
(* informers (the API server answers a list request in the end), and        *)
(* Start.  Nothing makes the callers send, or the manager shut down.        *)
Fairness ==
    /\ \A w \in Workers : WF_vars(work(w))
    /\ \A i \in Informers : WF_vars(SyncInformer(i)) /\ WF_vars(StopInformer(i))
    /\ \A r \in Registrations : WF_vars(SyncRegistration(r))
    /\ WF_vars(StartCache) /\ WF_vars(GracefulShutdown)

-----------------------------------------------------------------------------
(* Properties that hold whatever the number of workers.                     *)

WorkerState ==
    [pc: ProgramCounters, key: Key \cup {None},
     informer: Informers \cup {None}, registration: Registrations \cup {None}]

(* A worker state has the locals that the step at its pc uses.              *)
LocalsOK(s) ==
    /\ s.pc \in RegisterSteps \cup UnregisterSteps => s.key # None
    /\ s.pc \in {"sync", "add", "store"} => s.informer # None
    /\ s.pc \in {"store"} \cup StopSteps => s.registration # None

(* Every variable has its type, and a worker in the middle of Register,     *)
(* Unregister or stopTask has the event, the informer and the task its next *)
(* step dereferences: no step of work() can meet a nil pointer.             *)
TypeOK ==
    /\ register \in Seq(Key)
    /\ unregister \in Seq(Key)
    /\ tasks \in [Key -> Registrations \cup {None}]
    /\ activeTasks \in Int
    /\ tracked \in [GVKs -> Informers \cup {None}]
    /\ informer \in [Informers -> [state: InformerStates, synced: BOOLEAN]]
    /\ registration \in [Registrations ->
         [informer: Informers \cup {None}, attached: BOOLEAN, synced: BOOLEAN]]
    /\ worker \in [Workers -> WorkerState]
    /\ phase \in Phases
    /\ \A w \in Workers : LocalsOK(worker[w])

(* The worker has taken the handler of registration r off its informer and  *)
(* will delete the task.                                                    *)
Stopping(w, r) == worker[w].pc \in {"remove", "delete"} /\ worker[w].registration = r

(* However Register and Unregister of several workers interleave, a task in *)
(* the map still has its event handler on its informer, unless the informer *)
(* has stopped (what IsStopped reports) or a worker is about to delete the  *)
(* task: stopTask never leaves a task behind whose handler it took off, not *)
(* even when the key was registered anew meanwhile.                         *)
InstalledTaskAttached ==
    \A k \in Key : tasks[k] # None =>
      \/ registration[tasks[k]].attached
      \/ IsStopped(k)
      \/ \E w \in Workers : Stopping(w, tasks[k])

(* When GracefulShutdown closes the channels no informer runs and no worker *)
(* is left to receive from them; the only tasks still in the map are those  *)
(* that keep each other alive (same GVK and namespace, different parents).  *)
ShutdownStopsWatches ==
    phase = "shutdown" =>
      /\ \A i \in Informers : informer[i].state \notin {"running", "closing"}
      /\ \A w \in Workers : worker[w].pc = "exited"
      /\ \A k \in Key : tasks[k] # None => HasSibling(k)

(* A cancelled manager reaches the end of Start, also when a worker waits   *)
(* for the sync of an informer that was removed under it.                   *)
ShutdownCompletes == phase = "cancelled" ~> phase = "shutdown"

-----------------------------------------------------------------------------
(* Properties that hold as long as the operations of two workers do not     *)
(* meet, which nothing in the manager prevents.                             *)

Busy(w) == worker[w].pc \in RegisterSteps \cup UnregisterSteps

(* No two workers are on one key at a time.                                 *)
KeysApart ==
    \A v, w \in Workers :
      v # w /\ Busy(v) /\ Busy(w) => worker[v].key # worker[w].key

(* No two workers are on one GVK at a time.                                 *)
GVKsApart ==
    \A v, w \in Workers :
      v # w /\ Busy(v) /\ Busy(w) => worker[v].key.gvk # worker[w].key.gvk

(* The objects of a GVK are watched in one namespace at a time.             *)
NamespacesApart ==
    \A k, e \in Key :
      tasks[k] # None /\ tasks[e] # None /\ k.gvk = e.gvk => k.namespace = e.namespace

AllIdle == \A w \in Workers : worker[w].pc = "idle"

(* Objects of GVK g reach an event handler: the informer the cache keeps    *)
(* for g runs and calls at least one handler.                               *)
Delivers(g) ==
    /\ tracked[g] # None
    /\ informer[tracked[g]].state = "running"
    /\ \E r \in Registrations :
         registration[r].attached /\ registration[r].informer = tracked[g]

(* A watch that HasSynced reports as synced, on which track() relies to     *)
(* skip the registration and to report the deployer as ready, delivers the  *)
(* events of its GVK.                                                       *)
SyncedWatchDelivers ==
    phase = "running" /\ AllIdle => \A k \in Key : HasSynced(k) => Delivers(k.gvk)

(* The gauge dynamic_informer_active_watch_tasks is the number of tasks.    *)
ActiveTasksGauge == activeTasks = Cardinality({k \in Key : tasks[k] # None})

(* Every handler an informer calls belongs to a task, which Unregister can  *)
(* find, or is about to be stored as one.                                   *)
NoLeakedHandler ==
    \A r \in Registrations :
      registration[r].attached =>
        \/ \E k \in Key : tasks[k] = r
        \/ \E w \in Workers : worker[w].pc = "store" /\ worker[w].registration = r

(* Once the workers are idle, every informer the cache keeps (a watch       *)
(* connection to the API server) is used by a task.                         *)
NoIdleInformer ==
    phase = "running" /\ AllIdle =>
      \A g \in GVKs : tracked[g] # None =>
        \E k \in Key : tasks[k] # None /\ TaskInformer(k) = tracked[g]

(* A worker that takes an event from a channel comes back for the next one. *)
OperationFinishes ==
    \A w \in Workers :
      worker[w].pc \in RegisterSteps \cup UnregisterSteps ~> worker[w].pc \in {"idle", "exited"}

(* A registered watch reports HasSynced in the end, which ends the retries  *)
(* of track(), unless it is unregistered or the manager shuts down.         *)
WatchSyncs ==
    \A k \in Key :
      tasks[k] # None ~> HasSynced(k) \/ tasks[k] = None \/ phase \in {"cancelled", "shutdown"}
=============================================================================
