-------------------------- MODULE Deployer_proofs --------------------------
(* Proofs about the deployer controller together with the informer manager, *)
(* for any number of workers, GVKs, namespaces and objects, and any number  *)
(* of failures, suspensions, drifts and restarts.                           *)
EXTENDS Deployer, InformerManager_proofs

-----------------------------------------------------------------------------
(* The invariant.  Watches are lost in Untrack only, which runs when a      *)
(* deployer with the finalizer is deleted.  Until then a task stays in the  *)
(* map, on the informer that the cache keeps, until the process restarts.   *)

Runs ==
    [pc: {"idle", "apply", "track", "untrack"}, deployer: Deployers \cup {None},
     todo: SUBSET Key, sending: SUBSET Key, pending: BOOLEAN,
     ready: BOOLEAN]

(* No deployer with the finalizer has been deleted.                         *)
Undeleted == \A d \in Deployers : object[d] \notin {"deleting", "untracked"}

(* Nothing is synced before the cache has been started.                     *)
PhaseOK ==
    /\ phase \in {"starting", "running"}
    /\ phase = "starting" =>
         \A i \in Informers : ~informer[i].synced /\ informer[i].state \notin {"running", "closing"}

(* A worker in the middle of Register has the informer that the cache       *)
(* keeps, and none is in the middle of Unregister.                          *)
WorkerOK(w) ==
    /\ worker[w].pc \notin UnregisterSteps
    /\ worker[w].pc \in {"sync", "add", "store"} =>
         worker[w].informer = tracked[worker[w].key.gvk]
    /\ worker[w].pc = "store" =>
         /\ registration[worker[w].registration].informer = worker[w].informer
         /\ registration[worker[w].registration].attached

(* The handler of the task is on the informer that the cache keeps.         *)
TaskWatched(k) ==
    /\ tracked[k.gvk] # None /\ TaskInformer(k) = tracked[k.gvk]
    /\ registration[tasks[k]].attached

WatchesKept ==
    Undeleted =>
      /\ \A w \in Workers : WorkerOK(w)
      /\ \A g \in GVKs : tracked[g] # None /\ phase = "running" =>
           informer[tracked[g]].state = "running"
      /\ \A k \in Key : tasks[k] # None => TaskWatched(k)

(* Nobody asks for the end of a watch.                                      *)
NoUntrack == Undeleted => unregister = <<>> /\ rec.pc # "untrack"

InUse(k) == tasks[k] # None /\ phase = "running"

(* The objects that a run has found watched, and those of a deployer that   *)
(* is ready and at rest, have a task of this process.                       *)
RunWatched ==
    Undeleted /\ rec.pc = "track" /\ ~rec.pending =>
      \A k \in ObjectsOf(rec.deployer) \ (rec.todo \cup rec.sending) : InUse(k)

RestWatched ==
    Undeleted =>
      \A d \in Deployers : d \in ready /\ object[d] = "live" /\ Settled(d) =>
        \A k \in ObjectsOf(d) : InUse(k)

ManagerInv == TypeOK /\ CacheOK /\ PhaseOK /\ WatchesKept

APIType ==
    /\ object \in [Deployers -> ObjectStates]
    /\ rec \in Runs /\ (rec.pc = "idle" <=> rec.deployer = None)

DeployerInv == ManagerInv /\ APIType /\ NoUntrack /\ RunWatched /\ RestWatched

-----------------------------------------------------------------------------
(* The manager.                                                             *)

(* The state of the manager at the start of a process.                      *)
LEMMA Started == (Init => ManagerInv) /\ (Init' => ManagerInv')
<1>1. Init => CacheOK /\ PhaseOK /\ WatchesKept
  BY DEF Init, Idle, CacheOK, PhaseOK, WatchesKept, WorkerOK, UnregisterSteps, StopSteps
<1>2. Init' => CacheOK' /\ PhaseOK' /\ WatchesKept'
  BY DEF Init, Idle, CacheOK, PhaseOK, WatchesKept, WorkerOK, UnregisterSteps, StopSteps
<1>3. Init' => TypeOK'
  BY NoneAssumption DEF WorkerState, LocalsOK, Init, TypeOK, Idle, ProgramCounters, RegisterSteps,
     UnregisterSteps, StopSteps, InformerStates, Phases
<1> QED
  BY <1>1, <1>2, <1>3, TypeInit DEF ManagerInv

(* The steps that the manager takes in this composition.                    *)
ManagerStep == Send \/ (\E w \in Workers : work(w)) \/ ClientGo \/ StartCache

LEMMA ManagerTyped ==
  ASSUME ManagerInv, ManagerStep
  PROVE  TypeOK' /\ CacheOK'
BY TypeNext, CacheNext DEF ManagerInv, ManagerStep, Next, System, Start

LEMMA PhaseKept ==
  ASSUME ManagerInv, ManagerStep
  PROVE  PhaseOK' /\ (phase = "running" => phase' = "running")
<1>t. TypeOK /\ PhaseOK
  BY DEF ManagerInv
<1>1. CASE Send
  BY <1>1, <1>t DEF Send, SendRegister, SendUnregister, PhaseOK, cacheVars
<1>2. ASSUME NEW w \in Workers, work(w) PROVE UNCHANGED phase /\ PhaseOK'
  <2>1. UNCHANGED phase
    BY <1>2 DEF work, Receive, ReceiveRegister, ReceiveUnregister, Exit, Register, RegisterLoad,
       GetTrackedInformer, CreateInformer, GetInformerFails, InformerSynced, SyncWaitCancelled,
       AddEventHandler, Store, Unregister, GetTask, IsLastWatch, RemoveEventHandler,
       RemoveInformer, Delete
  <2>2. CASE CreateInformer(w)
    <3>1. PICK i \in FreeInformers : CreateInformer(w)!3!(i)
      BY <2>2 DEF CreateInformer
    <3> QED
      BY <1>t, <2>1, <3>1, Shapes DEF PhaseOK
  <2>3. CASE RemoveInformer(w)
    BY <1>t, <2>1, <2>3, Shapes DEF RemoveInformer, Closed, PhaseOK
  <2>4. CASE UNCHANGED informer
    BY <1>t, <2>1, <2>4 DEF PhaseOK
  <2> QED
    BY <1>2, <2>2, <2>3, <2>4 DEF work, Receive, ReceiveRegister, ReceiveUnregister, Exit,
       Register, RegisterLoad, GetTrackedInformer, GetInformerFails, InformerSynced,
       SyncWaitCancelled, AddEventHandler, Store, Unregister, GetTask, IsLastWatch,
       RemoveEventHandler, Delete, cacheVars
<1>3. CASE ClientGo
  <2>1. ASSUME NEW i \in Informers, SyncInformer(i) PROVE PhaseOK' /\ UNCHANGED phase
    BY <1>t, <2>1, Shapes DEF SyncInformer, PhaseOK
  <2>2. ASSUME NEW i \in Informers, StopInformer(i) PROVE PhaseOK' /\ UNCHANGED phase
    BY <1>t, <2>2, Shapes DEF StopInformer, PhaseOK
  <2>3. ASSUME NEW r \in Registrations, SyncRegistration(r) PROVE PhaseOK' /\ UNCHANGED phase
    BY <1>t, <2>3 DEF SyncRegistration, PhaseOK
  <2> QED
    BY <1>3, <2>1, <2>2, <2>3 DEF ClientGo
<1>4. CASE StartCache
  BY <1>4 DEF StartCache, PhaseOK
<1> QED
  BY <1>1, <1>2, <1>3, <1>4 DEF ManagerStep

(* A task that is there stays.                                              *)
LEMMA WatchesKeptStep ==
  ASSUME ManagerInv, ManagerStep, UNCHANGED object, Undeleted, unregister = <<>>
  PROVE  WatchesKept' /\ \A k \in Key : tasks[k] # None => tasks'[k] # None
<1> USE NoneAssumption
<1>t. /\ TypeOK /\ CacheOK /\ PhaseOK
      /\ \A w \in Workers : WorkerOK(w)
      /\ \A g \in GVKs : tracked[g] # None /\ phase = "running" =>
           informer[tracked[g]].state = "running"
      /\ \A k \in Key : tasks[k] # None => TaskWatched(k)
  BY DEF ManagerInv, WatchesKept
<1>s. ASSUME \A w \in Workers : WorkerOK(w)',
             \A g \in GVKs : tracked'[g] # None /\ phase' = "running" =>
               informer'[tracked'[g]].state = "running",
             \A k \in Key : tasks'[k] # None => TaskWatched(k)'
      PROVE  WatchesKept'
  BY <1>s DEF WatchesKept
<1>l. \A w \in Workers : worker[w].pc = "store" => worker[w].registration \in Registrations
  BY <1>t DEF TypeOK, WorkerState, LocalsOK
<1>1. CASE Send
  <2>1. UNCHANGED <<tasks, tracked, informer, registration, worker, phase>>
    BY <1>1 DEF Send, SendRegister, SendUnregister, taskVars, cacheVars
  <2> QED
    BY <1>s, <1>t, <2>1 DEF WorkerOK, TaskWatched, TaskInformer
<1>2. ASSUME NEW w \in Workers, work(w)
      PROVE  WatchesKept' /\ \A k \in Key : tasks[k] # None => tasks'[k] # None
  <2>0. worker[w].pc \notin UnregisterSteps
    BY <1>t DEF WorkerOK
  <2>a. ASSUME UNCHANGED <<tasks, tracked, informer, registration, phase>>,
               \A v \in Workers : v # w => worker'[v] = worker[v],
               worker'[w].pc \notin UnregisterSteps \cup {"store"},
               worker'[w].pc \in {"sync", "add"} =>
                 worker'[w].informer = tracked[worker'[w].key.gvk]
        PROVE  WatchesKept' /\ \A k \in Key : tasks[k] # None => tasks'[k] # None
    <3>1. \A v \in Workers : WorkerOK(v)'
      BY <1>t, <2>a DEF WorkerOK
    <3>2. \A k \in Key : tasks'[k] # None => TaskWatched(k)'
      BY <1>t, <2>a DEF TaskWatched, TaskInformer
    <3> QED
      BY <1>s, <1>t, <2>a, <3>1, <3>2
  <2>n. \A pc \in {"idle", "exited", "load", "get", "sync", "add"} :
          pc \notin UnregisterSteps \cup {"store"}
    BY DEF UnregisterSteps, StopSteps
  <2>1. CASE Receive(w)
    <3>1. ~ReceiveUnregister(w)
      BY DEF ReceiveUnregister
    <3>2. UNCHANGED <<tasks, tracked, informer, registration, phase>>
      BY <2>1 DEF Receive, ReceiveRegister, ReceiveUnregister, Exit, taskVars, cacheVars
    <3>3. /\ worker'[w].pc \in {"load", "exited"}
          /\ \A v \in Workers : v # w => worker'[v] = worker[v]
      BY <1>t, <2>1, <3>1, Shapes DEF Receive, ReceiveRegister, Exit, Begin, Idle
    <3> QED
      BY <2>a, <2>n, <3>2, <3>3
  <2>2. CASE RegisterLoad(w) \/ GetInformerFails(w) \/ SyncWaitCancelled(w)
    <3>1. UNCHANGED <<tasks, tracked, informer, registration, phase>>
      BY <2>2 DEF RegisterLoad, GetInformerFails, SyncWaitCancelled, taskVars, cacheVars
    <3>2. /\ worker'[w].pc \in {"idle", "get"}
          /\ \A v \in Workers : v # w => worker'[v] = worker[v]
      BY <1>t, <2>2, Shapes DEF RegisterLoad, GetInformerFails, SyncWaitCancelled, Finish, Idle,
         Goto, Move
    <3> QED
      BY <2>a, <2>n, <3>1, <3>2
  <2>3. CASE GetTrackedInformer(w)
    <3>1. UNCHANGED <<tasks, tracked, informer, registration, phase>>
      BY <2>3 DEF GetTrackedInformer, taskVars, cacheVars
    <3>2. AfterGet(tracked[worker[w].key.gvk]) \in {"sync", "add"}
      BY DEF AfterGet
    <3>3. /\ worker'[w].pc \in {"sync", "add"} /\ worker'[w].key = worker[w].key
          /\ worker'[w].informer = tracked[worker[w].key.gvk]
          /\ \A v \in Workers : v # w => worker'[v] = worker[v]
      BY <1>t, <2>3, <3>2, Shapes DEF GetTrackedInformer, Move
    <3> QED
      BY <2>a, <2>n, <3>1, <3>3
  <2>4. CASE InformerSynced(w)
    <3>1. UNCHANGED <<tasks, tracked, informer, registration, phase>> /\ worker[w].pc = "sync"
      BY <2>4 DEF InformerSynced, taskVars, cacheVars
    <3>2. /\ worker'[w].pc = "add" /\ worker'[w].key = worker[w].key
          /\ worker'[w].informer = worker[w].informer
          /\ \A v \in Workers : v # w => worker'[v] = worker[v]
      BY <1>t, <2>4, Shapes DEF InformerSynced, Goto, Move
    <3> QED
      BY <1>t, <2>a, <2>n, <3>1, <3>2 DEF WorkerOK
  <2>5. CASE CreateInformer(w)
    <3> DEFINE g == worker[w].key.gvk
    <3>1. PICK i \in FreeInformers : CreateInformer(w)!3!(i)
      BY <2>5 DEF CreateInformer
    <3>2. i \in Informers /\ \A h \in GVKs : tracked[h] # i
      BY DEF FreeInformers
    <3>3. g \in GVKs /\ tracked[g] = None /\ UNCHANGED <<tasks, registration, phase>>
      BY <1>t, <2>5, WorkerLocals DEF CreateInformer, RegisterSteps, taskVars
    <3>4. /\ \A h \in GVKs : tracked'[h] = IF h = g THEN i ELSE tracked[h]
          /\ \A j \in Informers : j # i => informer'[j] = informer[j]
          /\ phase = "running" => informer'[i].state = "running"
      BY <1>t, <3>1, <3>2, <3>3, Shapes
    <3>5. /\ worker'[w].pc \in {"sync", "add"} /\ worker'[w].key.gvk = g
          /\ worker'[w].informer = i
          /\ \A v \in Workers : v # w => worker'[v] = worker[v]
      BY <1>t, <3>1, Shapes DEF Move
    <3> HIDE DEF g
    <3>6. ASSUME NEW v \in Workers PROVE WorkerOK(v)'
      <4>1. CASE v = w
        BY <2>n, <3>3, <3>4, <3>5, <4>1 DEF WorkerOK
      <4>2. CASE v # w
        <5>1. worker'[v] = worker[v] /\ WorkerOK(v)
          BY <1>t, <3>5, <4>2
        <5>2. worker[v].pc \in {"sync", "add", "store"} =>
                /\ worker[v].key.gvk \in GVKs /\ worker[v].informer # None
                /\ worker[v].informer = tracked[worker[v].key.gvk]
          BY <1>t, <5>1, WorkerLocals DEF WorkerOK, RegisterSteps
        <5>3. worker[v].pc \in {"sync", "add", "store"} => worker[v].key.gvk # g
          BY <3>3, <5>2
        <5>4. worker[v].pc \in {"sync", "add", "store"} =>
                tracked'[worker[v].key.gvk] = tracked[worker[v].key.gvk]
          BY <3>4, <5>2, <5>3
        <5> QED
          BY <3>3, <5>1, <5>2, <5>4 DEF WorkerOK
      <4> QED
        BY <4>1, <4>2
    <3>7. ASSUME NEW k \in Key, tasks'[k] # None PROVE TaskWatched(k)'
      <4>1. TaskWatched(k) /\ k.gvk \in GVKs
        BY <1>t, <3>3, <3>7, KeyGVK
      <4>2. k.gvk # g /\ tracked'[k.gvk] = tracked[k.gvk]
        BY <3>3, <3>4, <4>1 DEF TaskWatched
      <4> QED
        BY <3>3, <4>1, <4>2 DEF TaskWatched, TaskInformer
    <3>8. ASSUME NEW h \in GVKs, tracked'[h] # None, phase' = "running"
          PROVE  informer'[tracked'[h]].state = "running"
      BY <1>t, <3>2, <3>3, <3>4, <3>8, Shapes
    <3> QED
      BY <1>s, <3>3, <3>6, <3>7, <3>8
  <2>6. CASE AddEventHandler(w)
    <3>1. /\ worker[w].pc = "add" /\ worker[w].informer = tracked[worker[w].key.gvk]
          /\ UNCHANGED <<tasks, tracked, informer, phase>>
      BY <1>t, <2>6 DEF AddEventHandler, taskVars, WorkerOK
    <3>2. CASE informer[worker[w].informer].state = "stopped"
      <4>1. /\ worker'[w].pc = "idle" /\ UNCHANGED registration
            /\ \A v \in Workers : v # w => worker'[v] = worker[v]
        BY <1>t, <2>6, <3>2, Shapes DEF AddEventHandler, Finish, Idle
      <4> QED
        BY <2>a, <2>n, <3>1, <4>1
    <3>3. CASE informer[worker[w].informer].state # "stopped"
      <4>1. PICK r \in FreeRegistrations :
              /\ registration' = [registration EXCEPT ![r] =
                   [informer |-> worker[w].informer, attached |-> TRUE, synced |-> FALSE]]
              /\ Move(w, "store", worker[w].informer, r)
        BY <2>6, <3>3 DEF AddEventHandler
      <4>2. /\ r \in Registrations /\ \A k \in Key : tasks[k] # r
            /\ \A v \in Workers : worker[v].registration # r
        BY DEF FreeRegistrations
      <4>3. /\ worker'[w].pc = "store" /\ worker'[w].key = worker[w].key
            /\ worker'[w].informer = worker[w].informer /\ worker'[w].registration = r
            /\ \A v \in Workers : v # w => worker'[v] = worker[v]
        BY <1>t, <4>1, Shapes DEF Move
      <4>4. /\ registration'[r].informer = worker[w].informer /\ registration'[r].attached
            /\ \A q \in Registrations : q # r => registration'[q] = registration[q]
        BY <1>t, <4>1, <4>2, Shapes
      <4>5. "store" \notin UnregisterSteps
        BY DEF UnregisterSteps, StopSteps
      <4>6. ASSUME NEW v \in Workers PROVE WorkerOK(v)'
        <5>1. CASE v = w
          BY <3>1, <4>3, <4>4, <4>5, <5>1 DEF WorkerOK
        <5>2. CASE v # w
          BY <1>t, <1>l, <3>1, <4>2, <4>3, <4>4, <5>2 DEF WorkerOK
        <5> QED
          BY <5>1, <5>2
      <4>7. \A k \in Key : tasks'[k] # None => TaskWatched(k)'
        BY <1>t, <3>1, <4>2, <4>4, Shapes DEF TaskWatched, TaskInformer
      <4> QED
        BY <1>s, <1>t, <3>1, <4>6, <4>7
    <3> QED
      BY <3>2, <3>3
  <2>7. CASE Store(w)
    <3>1. /\ worker[w].pc = "store" /\ worker[w].key \in Key /\ worker[w].key.gvk \in GVKs
          /\ worker[w].informer \in Informers /\ worker[w].registration \in Registrations
          /\ UNCHANGED <<tracked, informer, registration, phase>>
      BY <1>t, <2>7, WorkerLocals DEF Store, RegisterSteps, cacheVars
    <3>2. /\ worker'[w].pc = "idle"
          /\ \A v \in Workers : v # w => worker'[v] = worker[v]
      BY <1>t, <2>7, Shapes DEF Store, Finish, Idle
    <3>3. \A k \in Key : tasks'[k] = IF k = worker[w].key THEN worker[w].registration ELSE tasks[k]
      BY <1>t, <2>7, Shapes DEF Store
    <3>4. \A v \in Workers : WorkerOK(v)'
      BY <1>t, <2>n, <3>1, <3>2 DEF WorkerOK
    <3>5. ASSUME NEW k \in Key, tasks'[k] # None PROVE TaskWatched(k)'
      <4>1. CASE k = worker[w].key
        BY <1>t, <3>1, <3>3, <4>1 DEF WorkerOK, TaskWatched, TaskInformer
      <4>2. CASE k # worker[w].key
        BY <1>t, <3>1, <3>3, <3>5, <4>2 DEF TaskWatched, TaskInformer
      <4> QED
        BY <4>1, <4>2
    <3> QED
      BY <1>s, <1>t, <3>1, <3>3, <3>4, <3>5
  <2>8. CASE Unregister(w)
    BY <2>0, <2>8 DEF Unregister, GetTask, IsLastWatch, RemoveEventHandler, RemoveInformer,
       Delete, UnregisterSteps, StopSteps
  <2> QED
    BY <1>2, <2>1, <2>2, <2>3, <2>4, <2>5, <2>6, <2>7, <2>8 DEF work, Register
<1>3. CASE ClientGo
  <2>1. ASSUME NEW i \in Informers, SyncInformer(i)
        PROVE  WatchesKept' /\ UNCHANGED tasks
    <3>1. UNCHANGED <<tasks, tracked, registration, worker, phase>>
      BY <2>1 DEF SyncInformer, taskVars
    <3>2. \A j \in Informers : informer'[j].state = informer[j].state
      BY <2>1, <1>t, Shapes DEF SyncInformer
    <3>3. \A g \in GVKs : tracked'[g] # None /\ phase' = "running" =>
            informer'[tracked'[g]].state = "running"
      BY <1>t, <3>1, <3>2, Shapes
    <3> QED
      BY <1>s, <1>t, <3>1, <3>3 DEF WorkerOK, TaskWatched, TaskInformer
  <2>2. ASSUME NEW r \in Registrations, SyncRegistration(r)
        PROVE  WatchesKept' /\ UNCHANGED tasks
    <3>1. UNCHANGED <<tasks, tracked, informer, worker, phase>>
      BY <2>2 DEF SyncRegistration, taskVars
    <3>2. \A q \in Registrations : /\ registration'[q].attached = registration[q].attached
                                   /\ registration'[q].informer = registration[q].informer
      BY <2>2, <1>t, Shapes DEF SyncRegistration
    <3>3. \A v \in Workers : WorkerOK(v)'
      BY <1>t, <1>l, <3>1, <3>2 DEF WorkerOK
    <3>4. \A k \in Key : tasks'[k] # None => TaskWatched(k)'
      BY <1>t, <3>1, <3>2, Shapes DEF TaskWatched, TaskInformer
    <3> QED
      BY <1>s, <1>t, <3>1, <3>3, <3>4
  <2>3. ASSUME NEW i \in Informers, StopInformer(i)
        PROVE  WatchesKept' /\ UNCHANGED tasks
    <3>1. UNCHANGED <<tasks, tracked, worker, phase>>
      BY <2>3 DEF StopInformer, taskVars
    <3>2. \A q \in Registrations : registration[q].informer # i => registration'[q] = registration[q]
      BY <2>3, <1>t, Shapes DEF StopInformer
    <3>3. /\ \A g \in GVKs : tracked[g] # i
          /\ \A j \in Informers : j # i => informer'[j] = informer[j]
      BY <2>3, <1>t, Shapes DEF StopInformer, CacheOK, PhaseOK
    <3>4. ASSUME NEW v \in Workers PROVE WorkerOK(v)'
      <4>1. WorkerOK(v) /\ worker'[v] = worker[v]
        BY <1>t, <3>1
      <4>2. worker[v].pc = "store" => registration'[worker[v].registration] =
                                        registration[worker[v].registration]
        <5> SUFFICES ASSUME worker[v].pc = "store"
                     PROVE  registration'[worker[v].registration] =
                              registration[worker[v].registration]
          OBVIOUS
        <5>1. worker[v].key.gvk \in GVKs
          BY <1>t, WorkerLocals DEF RegisterSteps
        <5> QED
          BY <1>l, <3>2, <3>3, <4>1, <5>1 DEF WorkerOK
      <4> QED
        BY <3>1, <4>1, <4>2 DEF WorkerOK
    <3>5. ASSUME NEW k \in Key, tasks'[k] # None PROVE TaskWatched(k)'
      <4>1. TaskWatched(k) /\ k.gvk \in GVKs /\ tasks[k] \in Registrations
        BY <1>t, <3>1, <3>5, Shapes
      <4>2. registration'[tasks[k]] = registration[tasks[k]]
        BY <3>2, <3>3, <4>1 DEF TaskWatched, TaskInformer
      <4> QED
        BY <3>1, <4>1, <4>2 DEF TaskWatched, TaskInformer
    <3>6. \A g \in GVKs : tracked'[g] # None /\ phase' = "running" =>
            informer'[tracked'[g]].state = "running"
      BY <1>t, <3>1, <3>3, Shapes
    <3> QED
      BY <1>s, <3>1, <3>4, <3>5, <3>6
  <2> QED
    BY <1>3, <2>1, <2>2, <2>3 DEF ClientGo
<1>4. CASE StartCache
  <2>1. UNCHANGED <<tasks, tracked, registration, worker>>
    BY <1>4 DEF StartCache, taskVars
  <2>2. \A g \in GVKs : tracked[g] # None => informer'[tracked[g]].state = "running"
    BY <1>4, <1>t, Shapes DEF StartCache
  <2> QED
    BY <1>s, <1>t, <2>1, <2>2 DEF WorkerOK, TaskWatched, TaskInformer
<1> QED
  BY <1>1, <1>2, <1>3, <1>4 DEF ManagerStep

(* What is in use stays so, and nothing is asked to be unregistered.        *)
LEMMA ManagerKept ==
  ASSUME ManagerInv, NoUntrack, ManagerStep, UNCHANGED object
  PROVE  /\ ManagerInv'
         /\ Undeleted' => \A k \in Key : InUse(k) => InUse(k)'
<1>1. TypeOK' /\ CacheOK'
  BY ManagerTyped
<1>2. PhaseOK' /\ (phase = "running" => phase' = "running")
  BY PhaseKept
<1>3. Undeleted' <=> Undeleted
  BY DEF Undeleted
<1>4. CASE Undeleted
  BY <1>1, <1>2, <1>4, WatchesKeptStep DEF ManagerInv, NoUntrack, InUse
<1>5. CASE ~Undeleted
  BY <1>1, <1>2, <1>3, <1>5 DEF ManagerInv, WatchesKept
<1> QED
  BY <1>4, <1>5

LEMMA ChannelKept ==
  ASSUME (\E w \in Workers : work(w)) \/ ClientGo \/ StartCache, unregister = <<>>
  PROVE  unregister' = <<>>
BY DEF work, Receive, ReceiveRegister, ReceiveUnregister, Exit, Register, RegisterLoad,
   GetTrackedInformer, CreateInformer, GetInformerFails, InformerSynced, SyncWaitCancelled,
   AddEventHandler, Store, Unregister, GetTask, IsLastWatch, RemoveEventHandler, RemoveInformer,
   Delete, ClientGo, SyncInformer, StopInformer, SyncRegistration, StartCache, chanVars

(* HasSynced, on which track() relies, means that the cache has started.    *)
LEMMA SyncedInUse ==
  ASSUME ManagerInv, Undeleted, NEW k \in Key, HasSynced(k)
  PROVE  InUse(k)
<1>1. tasks[k] # None /\ TaskWatched(k)
  BY DEF HasSynced, ManagerInv, WatchesKept
<1>2. k.gvk \in GVKs /\ tracked[k.gvk] \in Informers /\ informer[tracked[k.gvk]].synced
  BY <1>1, Shapes, NoneAssumption DEF HasSynced, TaskWatched, ManagerInv
<1> QED
  BY <1>1, <1>2 DEF InUse, ManagerInv, PhaseOK

-----------------------------------------------------------------------------
(* The controller.                                                          *)

LEMMA ObjectKeys == ASSUME NEW d \in Deployers PROVE ObjectsOf(d) \subseteq Key
<1>1. Objects[d] \in Seq(Key)
  BY ObjectsAssumption
<1>2. \A n \in DOMAIN Objects[d] : Objects[d][n] \in Key
  BY <1>1
<1> QED
  BY <1>2 DEF ObjectsOf, ToSet

LEMMA IdleRun == /\ RecIdle \in Runs /\ RecIdle.pc = "idle" /\ RecIdle.deployer = None
BY DEF RecIdle, Runs

(* A step of the controller or of a user leaves the manager alone.          *)
LEMMA StillKept ==
  ASSUME ManagerInv, UNCHANGED vars, Undeleted' => Undeleted
  PROVE  ManagerInv' /\ \A k \in Key : InUse(k) => InUse(k)'
<1>1. TypeOK' /\ CacheOK'
  BY TypeNext, CacheNext DEF ManagerInv
<1>2. UNCHANGED <<tasks, tracked, informer, registration, worker, phase>>
  BY DEF vars, taskVars, cacheVars
<1> QED
  BY <1>1, <1>2 DEF ManagerInv, PhaseOK, WatchesKept, WorkerOK, TaskWatched, TaskInformer, InUse

(* No deployer comes to rest or becomes ready.                              *)
LEMMA RestKept ==
  ASSUME RestWatched, Undeleted' => Undeleted,
         Undeleted' => \A k \in Key : InUse(k) => InUse(k)',
         \A d \in Deployers : d \in ready' /\ object'[d] = "live" /\ Settled(d)'
                                => d \in ready /\ object[d] = "live" /\ Settled(d)
  PROVE  RestWatched'
BY ObjectKeys DEF RestWatched

LEMMA UserStep ==
  ASSUME DeployerInv, NEW d \in Deployers, Environment(d)
  PROVE  DeployerInv'
<1>t. /\ ManagerInv /\ APIType /\ NoUntrack /\ RunWatched /\ RestWatched
      /\ object \in [Deployers -> ObjectStates] /\ rec \in Runs
  BY DEF DeployerInv, APIType
<1>1. UNCHANGED <<vars, rec, ready>>
  BY DEF Environment, CreateDeployer, DeleteDeployer, ToggleSuspend, ObserveDeployer, Requeue,
     ResourceChanges, EditObject, RemoveObject, DispatchEvent, apiVars, queueVars
<1>2. /\ object' \in [Deployers -> ObjectStates]
      /\ \A e \in Deployers : object[e] \in {"deleting", "untracked"} => object'[e] = object[e]
      /\ \A e \in Deployers : object'[e] = "live" => object[e] = "live" \/ e \in queue'
  BY <1>t DEF Environment, CreateDeployer, DeleteDeployer, ToggleSuspend, ObserveDeployer, Requeue,
     ResourceChanges, EditObject, RemoveObject, DispatchEvent, apiVars, queueVars, ObjectStates
<1>3. \A e \in Deployers : /\ e \notin queue' => e \notin queue
                           /\ e \notin queue' /\ e \notin suspended' => e \notin suspended
  BY DEF Environment, CreateDeployer, DeleteDeployer, ToggleSuspend, ObserveDeployer, Requeue,
     ResourceChanges, EditObject, RemoveObject, DispatchEvent, apiVars, queueVars
<1>4. Undeleted' => Undeleted
  BY <1>2 DEF Undeleted
<1>5. ManagerInv' /\ \A k \in Key : InUse(k) => InUse(k)'
  BY <1>t, <1>1, <1>4, StillKept
<1>6. APIType' /\ NoUntrack'
  BY <1>t, <1>1, <1>2, <1>4 DEF APIType, NoUntrack, vars, chanVars
<1>7. RunWatched'
  <2> SUFFICES ASSUME Undeleted', rec'.pc = "track", ~rec'.pending,
                      NEW k \in ObjectsOf(rec'.deployer) \ (rec'.todo \cup rec'.sending)
               PROVE  InUse(k)'
    BY DEF RunWatched
  <2>1. InUse(k)
    BY <1>t, <1>1, <1>4 DEF RunWatched
  <2> QED
    BY <1>1, <2>1 DEF InUse, vars, taskVars
<1>8. RestWatched'
  BY <1>t, <1>1, <1>2, <1>3, <1>4, <1>5, RestKept DEF Settled
<1> QED
  BY <1>5, <1>6, <1>7, <1>8 DEF DeployerInv

(* A run ends with an error: the deployer is queued again.                  *)
LEMMA RetryStep ==
  ASSUME DeployerInv, NEW d \in Deployers, rec.deployer = d, Retry(d),
         UNCHANGED <<vars, suspended>>, ready' \subseteq ready \cup {d},
         object' \in [Deployers -> ObjectStates],
         Undeleted' => UNCHANGED object,
         \A e \in Deployers : object[e] \in {"deleting", "untracked"} =>
           object'[e] \in {"deleting", "untracked"}
  PROVE  DeployerInv'
<1>t. /\ ManagerInv /\ APIType /\ NoUntrack /\ RunWatched /\ RestWatched
  BY DEF DeployerInv, APIType
<1>1. /\ rec' = RecIdle /\ queue' = queue \cup {d}
      /\ rec' \in Runs /\ rec'.pc = "idle" /\ rec'.deployer = None
  BY IdleRun DEF Retry, Finished
<1>2. Undeleted' => Undeleted
  BY DEF Undeleted
<1>3. ManagerInv' /\ \A k \in Key : InUse(k) => InUse(k)'
  BY <1>t, <1>2, StillKept
<1>4. APIType' /\ NoUntrack' /\ RunWatched'
  BY <1>t, <1>1, <1>2 DEF APIType, NoUntrack, RunWatched, vars, chanVars
<1>5. RestWatched'
  <2> SUFFICES ASSUME Undeleted' PROVE RestWatched'
    BY DEF RestWatched
  <2>1. \A e \in Deployers : e \in ready' /\ object'[e] = "live" /\ Settled(e)'
                                => e \in ready /\ object[e] = "live" /\ Settled(e)
    BY <1>1 DEF Settled
  <2> QED
    BY <1>t, <1>2, <1>3, <2>1, RestKept
<1> QED
  BY <1>3, <1>4, <1>5 DEF DeployerInv

(* A run goes on: what rec' has to be right about.                          *)
LEMMA RunStep ==
  ASSUME DeployerInv, UNCHANGED <<object, suspended, ready>>,
         ManagerInv', Undeleted => \A k \in Key : InUse(k) => InUse(k)',
         Undeleted => unregister' = <<>> /\ rec'.pc # "untrack",
         rec' \in Runs, rec'.pc = "idle" <=> rec'.deployer = None,
         Undeleted /\ rec'.pc = "track" /\ ~rec'.pending =>
           /\ rec'.deployer \in Deployers
           /\ \A k \in ObjectsOf(rec'.deployer) \ (rec'.todo \cup rec'.sending) : InUse(k),
         \A e \in Deployers : object[e] = "live" /\ Settled(e)' => Settled(e)
  PROVE  DeployerInv'
<1>1. Undeleted' <=> Undeleted
  BY DEF Undeleted
<1>2. APIType' /\ NoUntrack'
  BY <1>1 DEF DeployerInv, APIType, NoUntrack
<1>3. RunWatched'
  <2> SUFFICES ASSUME Undeleted', rec'.pc = "track", ~rec'.pending,
                      NEW k \in ObjectsOf(rec'.deployer) \ (rec'.todo \cup rec'.sending)
               PROVE  InUse(k)'
    BY DEF RunWatched
  <2>1. k \in Key /\ InUse(k)
    BY <1>1, ObjectKeys
  <2> QED
    BY <1>1, <2>1
<1>4. RestWatched'
  BY <1>1, RestKept DEF DeployerInv
<1> QED
  BY <1>2, <1>3, <1>4 DEF DeployerInv

LEMMA RunTyped ==
  ASSUME DeployerInv
  PROVE  /\ rec \in Runs /\ object \in [Deployers -> ObjectStates]
         /\ rec.todo \in SUBSET Key /\ rec.sending \in SUBSET Key /\ rec.pending \in BOOLEAN
         /\ rec.pc \in {"idle", "apply", "track", "untrack"}
         /\ rec.deployer \in Deployers \cup {None}
BY DEF DeployerInv, APIType, Runs

LEMMA GetDeployerStep ==
  ASSUME DeployerInv, NEW d \in Deployers, GetDeployer(d)
  PROVE  DeployerInv'
<1>1. /\ UNCHANGED <<vars, object, suspended, ready>> /\ queue' = queue \ {d}
      /\ rec.pc = "idle"
  BY DEF GetDeployer, apiVars
<1>2. ManagerInv' /\ \A k \in Key : InUse(k) => InUse(k)'
  BY <1>1, StillKept DEF DeployerInv, Undeleted
<1>3. UNION {ActiveForParent(p) : p \in Parents} \subseteq Key
  BY DEF ActiveForParent
<1>4. PICK b \in BOOLEAN :
      \/ rec' = RecIdle /\ (~Exists(d) \/ d \in suspended)
      \/ /\ rec' = [RecIdle EXCEPT !.pc = "untrack", !.deployer = d, !.ready = b,
                      !.todo = UNION {ActiveForParent(p) : p \in Parents}]
         /\ object[d] = "deleting"
      \/ rec' = [RecIdle EXCEPT !.pc = "apply", !.deployer = d, !.ready = b]
  <2>1. (d \in seen) \in BOOLEAN
    OBVIOUS
  <2> QED
    BY <2>1, Zenon DEF GetDeployer
<1>5. /\ rec' \in Runs
      /\ rec'.pc # "track"
      /\ rec'.pc = "idle" <=> rec'.deployer = None
      /\ rec'.pc = "untrack" => object[d] = "deleting"
      /\ rec'.deployer = d \/ (~Exists(d) \/ d \in suspended)
  <2>1. CASE rec' = RecIdle /\ (~Exists(d) \/ d \in suspended)
    BY <2>1, IdleRun
  <2>2. CASE /\ rec' = [RecIdle EXCEPT !.pc = "untrack", !.deployer = d, !.ready = b,
                          !.todo = UNION {ActiveForParent(p) : p \in Parents}]
             /\ object[d] = "deleting"
    <3> DEFINE active == UNION {ActiveForParent(p) : p \in Parents}
    <3> HIDE DEF active
    <3>1. active \in SUBSET Key
      BY <1>3 DEF active
    <3>2. rec' = [RecIdle EXCEPT !.pc = "untrack", !.deployer = d, !.ready = b,
                   !.todo = active]
      BY <2>2 DEF active
    <3> QED
      BY <2>2, <3>1, <3>2, ObjectsAssumption DEF RecIdle, Runs
  <2>3. CASE rec' = [RecIdle EXCEPT !.pc = "apply", !.deployer = d, !.ready = b]
    BY <2>3, ObjectsAssumption DEF RecIdle, Runs
  <2> QED
    BY <1>4, <2>1, <2>2, <2>3
<1>6. rec.deployer = None /\ None \notin Deployers
  BY <1>1, ObjectsAssumption DEF DeployerInv, APIType
<1>7. Undeleted => unregister' = <<>> /\ rec'.pc # "untrack"
  BY <1>1, <1>5 DEF DeployerInv, NoUntrack, Undeleted, vars, chanVars
<1>8. \A e \in Deployers : object[e] = "live" /\ Settled(e)' => Settled(e)
  BY <1>1, <1>5, <1>6 DEF Settled, Exists
<1> QED
  BY <1>1, <1>2, <1>5, <1>7, <1>8, RunStep

LEMMA ApplySucceedsStep ==
  ASSUME DeployerInv, NEW d \in Deployers, ApplySucceeds(d)
  PROVE  DeployerInv'
<1>1. /\ UNCHANGED <<vars, object, suspended, ready, queue>>
      /\ rec.pc = "apply" /\ rec.deployer = d
      /\ rec' = [rec EXCEPT !.pc = "track", !.todo = ObjectsOf(d)]
  BY DEF ApplySucceeds, apiVars, queueVars
<1>2. ManagerInv' /\ \A k \in Key : InUse(k) => InUse(k)'
  BY <1>1, StillKept DEF DeployerInv, Undeleted
<1>3. /\ rec' \in Runs /\ rec'.pc = "track" /\ rec'.deployer = d /\ rec'.todo = ObjectsOf(d)
      /\ d # None
  BY <1>1, ObjectKeys, ObjectsAssumption, RunTyped DEF Runs
<1>4. Undeleted => unregister' = <<>> /\ rec'.pc # "untrack"
  BY <1>1, <1>3 DEF DeployerInv, NoUntrack, vars, chanVars
<1>5. \A e \in Deployers : object[e] = "live" /\ Settled(e)' => Settled(e)
  BY <1>1, <1>3 DEF Settled
<1>6. \A k \in ObjectsOf(rec'.deployer) \ (rec'.todo \cup rec'.sending) : InUse(k)
  BY <1>3
<1> QED
  BY <1>1, <1>2, <1>3, <1>4, <1>5, <1>6, RunStep

LEMMA TrackCheckStep ==
  ASSUME DeployerInv, NEW k \in Key, TrackCheck(k)
  PROVE  DeployerInv'
<1>1. /\ UNCHANGED <<vars, object, suspended, ready, queue>>
      /\ rec.pc = "track" /\ k \in rec.todo
      /\ rec' = [rec EXCEPT !.todo = @ \ {k},
                            !.sending = IF HasSynced(k) THEN @ ELSE @ \cup {k}]
  BY DEF TrackCheck, apiVars, queueVars
<1>2. ManagerInv' /\ \A j \in Key : InUse(j) => InUse(j)'
  BY <1>1, StillKept DEF DeployerInv, Undeleted
<1>3. /\ rec' \in Runs /\ rec'.pc = "track" /\ rec'.deployer = rec.deployer
      /\ rec'.pending = rec.pending
      /\ rec'.todo = rec.todo \ {k}
      /\ rec'.sending = IF HasSynced(k) THEN rec.sending ELSE rec.sending \cup {k}
  <2> DEFINE s == IF HasSynced(k) THEN rec.sending ELSE rec.sending \cup {k}
  <2>1. s \in SUBSET Key
    BY RunTyped
  <2>2. rec' = [rec EXCEPT !.todo = rec.todo \ {k}, !.sending = s]
    BY <1>1, RunTyped DEF Runs
  <2> HIDE DEF s
  <2>3. /\ rec' \in Runs /\ rec'.pc = "track" /\ rec'.deployer = rec.deployer
        /\ rec'.pending = rec.pending /\ rec'.todo = rec.todo \ {k} /\ rec'.sending = s
    BY <1>1, <2>1, <2>2, RunTyped DEF Runs
  <2> QED
    BY <2>3 DEF s
<1>4. Undeleted => unregister' = <<>> /\ rec'.pc # "untrack"
  BY <1>1, <1>3 DEF DeployerInv, NoUntrack, vars, chanVars
<1>5. \A e \in Deployers : object[e] = "live" /\ Settled(e)' => Settled(e)
  BY <1>1, <1>3 DEF Settled
<1>6. ASSUME Undeleted, ~rec'.pending,
             NEW j \in ObjectsOf(rec'.deployer) \ (rec'.todo \cup rec'.sending)
      PROVE  InUse(j)
  <2>1. CASE j = k
    BY <1>3, <1>6, <2>1, SyncedInUse DEF DeployerInv
  <2>2. CASE j # k
    BY <1>1, <1>3, <1>6, <2>2 DEF DeployerInv, RunWatched
  <2> QED
    BY <2>1, <2>2
<1>7. rec'.deployer \in Deployers /\ rec'.deployer # None
  BY <1>1, <1>3, RunTyped DEF DeployerInv, APIType
<1> QED
  BY <1>1, <1>2, <1>3, <1>4, <1>5, <1>6, <1>7, RunStep

(* The other steps of a run on an object: the run does not come to rest and *)
(* is not about to report ready.                                            *)
LEMMA RunGoesOn ==
  ASSUME DeployerInv, UNCHANGED <<object, suspended, ready, queue>>,
         ManagerInv', Undeleted => \A k \in Key : InUse(k) => InUse(k)',
         Undeleted => unregister' = <<>>,
         rec.pc \in {"track", "untrack"},
         NEW todo \in SUBSET Key, NEW sending \in SUBSET Key, NEW pending \in BOOLEAN,
         rec' = [rec EXCEPT !.todo = todo, !.sending = sending, !.pending = pending],
         rec.pc = "track" => pending
  PROVE  DeployerInv'
<1>1. /\ rec' \in Runs /\ rec'.pc = rec.pc /\ rec'.deployer = rec.deployer
      /\ rec'.pending = pending
  BY RunTyped DEF Runs
<1>2. Undeleted => rec'.pc # "untrack"
  BY <1>1 DEF DeployerInv, NoUntrack
<1>3. rec'.pc = "idle" <=> rec'.deployer = None
  BY <1>1 DEF DeployerInv, APIType
<1>4. \A e \in Deployers : object[e] = "live" /\ Settled(e)' => Settled(e)
  BY <1>1 DEF Settled
<1> QED
  BY <1>1, <1>2, <1>3, <1>4, RunStep

LEMMA RunOnObject ==
  ASSUME DeployerInv, NEW k \in Key, ReconcileObject(k)
  PROVE  DeployerInv'
<1>t. /\ rec.todo \ {k} \in SUBSET Key /\ rec.sending \ {k} \in SUBSET Key
      /\ {} \in SUBSET Key /\ {k} \in SUBSET Key
      /\ rec.todo \in SUBSET Key /\ rec.pending \in BOOLEAN /\ TRUE \in BOOLEAN
      /\ rec = [rec EXCEPT !.pending = rec.pending] /\ rec = [rec EXCEPT !.todo = rec.todo]
  BY RunTyped DEF Runs
<1>m. Undeleted => unregister = <<>> /\ rec.pc # "untrack"
  BY DEF DeployerInv, NoUntrack
<1>s. ASSUME UNCHANGED <<vars, object>>
      PROVE  /\ ManagerInv' /\ \A j \in Key : InUse(j) => InUse(j)'
             /\ Undeleted => unregister' = <<>>
  BY <1>m, <1>s, StillKept DEF DeployerInv, Undeleted, vars, chanVars
<1>1. CASE TrackCheck(k)
  BY <1>1, TrackCheckStep
<1>2. CASE TrackSend(k)
  <2>1. /\ UNCHANGED <<object, suspended, ready, queue>> /\ rec.pc = "track"
        /\ SendRegister(k)
    BY <1>2 DEF TrackSend, apiVars, queueVars
  <2>2. ManagerInv' /\ (Undeleted => \A j \in Key : InUse(j) => InUse(j)')
    BY <2>1, ManagerKept DEF DeployerInv, ManagerStep, Send, Undeleted
  <2>3. Undeleted => unregister' = <<>>
    BY <1>m, <2>1 DEF SendRegister
  <2>4. rec' = [rec EXCEPT !.todo = rec.todo, !.sending = rec.sending \ {k}, !.pending = TRUE]
    BY <1>2, <1>t, RunTyped DEF TrackSend, Runs
  <2> QED
    BY <1>t, <2>1, <2>2, <2>3, <2>4, RunGoesOn
<1>3. CASE TrackCancelled(k)
  <2>1. /\ UNCHANGED <<vars, object, suspended, ready, queue>> /\ rec.pc = "track"
        /\ rec.pending
    BY <1>3 DEF TrackCancelled, apiVars, queueVars
  <2>2. rec' = [rec EXCEPT !.todo = rec.todo, !.sending = rec.sending \ {k}, !.pending = TRUE]
    BY <1>3, <1>t, <2>1, RunTyped DEF TrackCancelled, Runs
  <2> QED
    BY <1>s, <1>t, <2>1, <2>2, RunGoesOn
<1>4. CASE UntrackCheck(k)
  <2>1. /\ UNCHANGED <<vars, object, suspended, ready, queue>> /\ rec.pc = "untrack"
    BY <1>4 DEF UntrackCheck, apiVars, queueVars
  <2>2. PICK s \in {{}, {k}} :
          rec' = [rec EXCEPT !.todo = rec.todo \ {k}, !.sending = s, !.pending = rec.pending]
    <3>1. PICK s \in {{}, {k}} : rec' = [rec EXCEPT !.todo = rec.todo \ {k}, !.sending = s]
      <4>1. CASE IsStopped(k)
        BY <1>4, <4>1, RunTyped DEF UntrackCheck, Runs
      <4>2. CASE ~IsStopped(k)
        BY <1>4, <4>2, RunTyped DEF UntrackCheck, Runs
      <4> QED
        BY <4>1, <4>2
    <3> QED
      BY <3>1, RunTyped DEF Runs
  <2> QED
    BY <1>s, <1>t, <2>1, <2>2, RunGoesOn
<1>5. CASE UntrackSend(k)
  <2>1. /\ UNCHANGED <<object, suspended, ready, queue>> /\ rec.pc = "untrack"
        /\ SendUnregister(k)
    BY <1>5 DEF UntrackSend, apiVars, queueVars
  <2>2. ManagerInv' /\ (Undeleted => \A j \in Key : InUse(j) => InUse(j)')
    BY <2>1, ManagerKept DEF DeployerInv, ManagerStep, Send, Undeleted
  <2>3. ~Undeleted
    BY <1>m, <2>1
  <2>4. rec' = [rec EXCEPT !.todo = rec.todo, !.sending = {}, !.pending = TRUE]
    BY <1>5, <1>t, RunTyped DEF UntrackSend, Runs
  <2> QED
    BY <1>t, <2>1, <2>2, <2>3, <2>4, RunGoesOn
<1> QED
  BY <1>1, <1>2, <1>3, <1>4, <1>5 DEF ReconcileObject

(* The run reports ready.  It has found every object watched, and by the    *)
(* invariant they all still are.                                            *)
LEMMA TrackSyncedStep ==
  ASSUME DeployerInv, NEW d \in Deployers, TrackSynced(d)
  PROVE  DeployerInv'
<1>1. /\ UNCHANGED <<vars, object, suspended>> /\ rec.deployer = d /\ ~rec.pending
      /\ rec.pc = "track" /\ rec.todo = {} /\ rec.sending = {}
  BY DEF TrackSynced, TracksDone
<1>2. CASE Retry(d)
  <2>1. ready' \subseteq ready \cup {d}
    BY DEF TrackSynced, WithReady
  <2> QED
    BY <1>1, <1>2, <2>1, RetryStep, RunTyped
<1>3. CASE ~Retry(d)
  <2>1. /\ ready' \subseteq ready \cup {d} /\ UNCHANGED queue
        /\ rec' \in Runs /\ rec'.pc = "idle" /\ rec'.deployer = None
    BY <1>3, IdleRun DEF TrackSynced, Finished, WithReady
  <2>2. Undeleted' <=> Undeleted
    BY <1>1 DEF Undeleted
  <2>3. ManagerInv' /\ \A k \in Key : InUse(k) => InUse(k)'
    BY <1>1, <2>2, StillKept DEF DeployerInv
  <2>4. APIType' /\ NoUntrack' /\ RunWatched'
    BY <1>1, <2>1, <2>2, RunTyped DEF DeployerInv, APIType, NoUntrack, RunWatched, vars, chanVars
  <2>5. ASSUME Undeleted', NEW e \in Deployers, e \in ready', object'[e] = "live", Settled(e)',
               NEW k \in ObjectsOf(e)
        PROVE  InUse(k)'
    <3>1. k \in Key
      BY ObjectKeys
    <3>2. CASE e = d
      BY <1>1, <2>2, <2>3, <2>5, <3>1, <3>2 DEF DeployerInv, RunWatched
    <3>3. CASE e # d
      <4>1. e \in ready /\ object[e] = "live" /\ Settled(e)
        BY <1>1, <2>1, <2>5, <3>3 DEF Settled
      <4> QED
        BY <2>2, <2>3, <2>5, <3>1, <4>1 DEF DeployerInv, RestWatched
    <3> QED
      BY <3>2, <3>3
  <2>6. RestWatched'
    BY <2>5 DEF RestWatched
  <2> QED
    BY <2>3, <2>4, <2>6 DEF DeployerInv
<1> QED
  BY <1>2, <1>3

LEMMA ReconcileStep ==
  ASSUME DeployerInv, NEW d \in Deployers, Reconcile(d)
  PROVE  DeployerInv'
<1>1. CASE ResourceUnavailable(d) \/ DownloadResourceFails(d) \/ ApplyFails(d) \/ TrackPending(d)
        \/ UpdateStatusFails(d)
  <2>1. /\ rec.deployer = d /\ Retry(d) /\ UNCHANGED <<vars, object, suspended>>
        /\ ready' \subseteq ready \cup {d}
    BY <1>1 DEF ResourceUnavailable, DownloadResourceFails, ApplyFails, TrackPending,
       UpdateStatusFails, Failed, NotReady, WithReady, TracksDone, apiVars
  <2> QED
    BY <2>1, RetryStep, RunTyped
<1>2. CASE UntrackDone(d)
  <2>1. /\ rec.deployer = d /\ Retry(d) /\ UNCHANGED <<vars, suspended, ready>>
        /\ object' = object \/ object' = [object EXCEPT ![d] = "untracked"]
    BY <1>2 DEF UntrackDone
  <2>2. object' \in [Deployers -> ObjectStates]
    BY <2>1, RunTyped DEF ObjectStates
  <2>3. Undeleted' => UNCHANGED object
    BY <2>1, RunTyped DEF Undeleted
  <2>4. \A e \in Deployers : object[e] \in {"deleting", "untracked"} =>
           object'[e] \in {"deleting", "untracked"}
    BY <2>1, RunTyped
  <2> QED
    BY <2>1, <2>2, <2>3, <2>4, RetryStep
<1> QED
  BY <1>1, <1>2, GetDeployerStep, ApplySucceedsStep, TrackSyncedStep DEF Reconcile

LEMMA ManagerActs == ASSUME DeployerInv, Manager PROVE DeployerInv'
<1>1. UNCHANGED <<apiVars, queue, rec>>
  BY DEF Manager, ManagerWork, UnknownGVK, Undelivered, queueVars
<1>2. (\E w \in Workers : work(w)) \/ ClientGo \/ StartCache
  BY DEF Manager, ManagerWork, UnknownGVK, work, Register
<1>3. UNCHANGED <<object, suspended, ready>>
  BY <1>1 DEF apiVars
<1>4. ManagerInv' /\ (Undeleted => \A k \in Key : InUse(k) => InUse(k)')
  BY <1>2, <1>3, ManagerKept DEF DeployerInv, ManagerStep, Undeleted
<1>5. Undeleted => unregister' = <<>> /\ rec'.pc # "untrack"
  BY <1>1, <1>2, ChannelKept DEF DeployerInv, NoUntrack
<1>6. /\ rec' \in Runs /\ (rec'.pc = "idle" <=> rec'.deployer = None)
      /\ rec'.pc = "track" => rec'.deployer \in Deployers
  BY <1>1, RunTyped DEF DeployerInv, APIType
<1>7. Undeleted /\ rec'.pc = "track" /\ ~rec'.pending =>
        \A k \in ObjectsOf(rec'.deployer) \ (rec'.todo \cup rec'.sending) : InUse(k)
  BY <1>1 DEF DeployerInv, RunWatched
<1>8. \A e \in Deployers : object[e] = "live" /\ Settled(e)' => Settled(e)
  BY <1>1, <1>3 DEF Settled
<1> QED
  BY <1>3, <1>4, <1>5, <1>6, <1>7, <1>8, RunStep

(* A new process knows of no watch, but it reconciles every deployer.       *)
LEMMA RestartStep == ASSUME DeployerInv, Restart PROVE DeployerInv'
<1>1. Init' /\ UNCHANGED <<object, suspended, ready>>
  BY DEF Restart, Init, apiVars
<1>2. ManagerInv'
  BY <1>1, Started
<1>3. /\ rec' \in Runs /\ rec'.pc = "idle" /\ rec'.deployer = None /\ unregister' = <<>>
      /\ queue' = {d \in Deployers : Exists(d)}
  BY IdleRun DEF Restart
<1>4. APIType' /\ NoUntrack' /\ RunWatched'
  BY <1>1, <1>3, RunTyped DEF APIType, NoUntrack, RunWatched
<1>5. RestWatched'
  BY <1>1, <1>3 DEF RestWatched, Settled, Exists
<1> QED
  BY <1>2, <1>4, <1>5 DEF DeployerInv

LEMMA DeployerStart == DeployerInit => DeployerInv
<1> SUFFICES ASSUME DeployerInit PROVE DeployerInv
  OBVIOUS
<1>1. ManagerInv
  BY Started DEF DeployerInit
<1>2. APIType /\ NoUntrack /\ RunWatched /\ RestWatched
  BY IdleRun DEF DeployerInit, Init, APIType, NoUntrack, RunWatched, RestWatched, ObjectStates
<1> QED
  BY <1>1, <1>2 DEF DeployerInv

LEMMA DeployerStep == DeployerInv /\ [DeployerNext]_allVars => DeployerInv'
<1> SUFFICES ASSUME DeployerInv, [DeployerNext]_allVars PROVE DeployerInv'
  OBVIOUS
<1>1. CASE UNCHANGED allVars
  <2>1. UNCHANGED <<vars, object, suspended, ready, queue, rec>>
    BY <1>1 DEF allVars, deployerVars, apiVars, queueVars
  <2>2. ManagerInv' /\ \A k \in Key : InUse(k) => InUse(k)'
    BY <2>1, StillKept DEF DeployerInv, Undeleted
  <2> QED
    BY <2>1, <2>2 DEF DeployerInv, APIType, NoUntrack, RunWatched, RestWatched, Undeleted, Settled,
       InUse, vars, chanVars, taskVars
<1> QED
  BY <1>1, UserStep, ReconcileStep, RunOnObject, ManagerActs, RestartStep DEF DeployerNext

-----------------------------------------------------------------------------
(* Theorems                                                                 *)

(* As long as no deployer with the finalizer has been deleted, every ready  *)
(* deployer at rest is watched: for any number of deployers, workers and    *)
(* namespaces, and wherever the process is restarted.                       *)
THEOREM WatchedUntilUntrack == DeployerSpec => [](Undeleted => ReadyDeployerWatched)
<1>1. DeployerInv /\ Undeleted => ReadyDeployerWatched
  <2> SUFFICES ASSUME DeployerInv, Undeleted, NEW d \in Deployers,
                      d \in ready, object[d] = "live", Settled(d), NEW k \in ObjectsOf(d)
               PROVE  Delivers(k.gvk)
    BY DEF ReadyDeployerWatched
  <2>1. k \in Key /\ InUse(k)
    BY ObjectKeys DEF DeployerInv, RestWatched
  <2>2. TaskWatched(k) /\ tasks[k] \in Registrations /\ k.gvk \in GVKs
    BY <2>1, Shapes DEF DeployerInv, ManagerInv, WatchesKept, InUse
  <2>3. informer[tracked[k.gvk]].state = "running"
    BY <2>1, <2>2 DEF DeployerInv, ManagerInv, WatchesKept, InUse, TaskWatched
  <2> QED
    BY <2>2, <2>3 DEF Delivers, TaskWatched, TaskInformer
<1> QED
  BY <1>1, DeployerStart, DeployerStep, PTL DEF DeployerSpec

(* A cluster with a single deployer: a ready deployer at rest is watched,   *)
(* whatever the number of workers, GVKs and namespaces.  (With several      *)
(* deployers the deletion of one ends the watches of all.)                  *)
THEOREM SingleDeployerWatched ==
    ASSUME \A d, e \in Deployers : d = e
    PROVE  DeployerSpec => []ReadyDeployerWatched
<1>1. (Undeleted => ReadyDeployerWatched) => ReadyDeployerWatched
  BY DEF Undeleted, ReadyDeployerWatched
<1> QED
  BY <1>1, WatchedUntilUntrack, PTL
=============================================================================
