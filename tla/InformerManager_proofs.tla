----------------------- MODULE InformerManager_proofs -----------------------
(* Proofs about the informer manager, for any number of workers, parents,   *)
(* GVKs, namespaces, informers and any buffer sizes; in the end about       *)
(* behaviours in which two workers are never on one key at a time.          *)
EXTENDS InformerManager, FiniteSetTheorems, TLAPS

-----------------------------------------------------------------------------
(* Type correctness.  TypeOK is inductive as it stands: the clauses on the  *)
(* locals of a worker are what the next step of that worker needs.          *)

LEMMA TypeInit == Init => TypeOK
  BY NoneAssumption DEF WorkerState, LocalsOK, Init, TypeOK, Idle, ProgramCounters, RegisterSteps,
     UnregisterSteps, StopSteps, InformerStates, Phases

LEMMA KeyGVK == ASSUME NEW k \in Key PROVE k.gvk \in GVKs
  BY DEF Key

LEMMA TypeSend ==
  ASSUME TypeOK, NEW k \in Key, SendRegister(k) \/ SendUnregister(k)
  PROVE  TypeOK'
<1> USE DEF TypeOK, taskVars, cacheVars
<1>1. Append(register, k) \in Seq(Key) /\ Append(unregister, k) \in Seq(Key)
  OBVIOUS
<1>2. CASE SendRegister(k)
  BY <1>1, <1>2 DEF SendRegister
<1>3. CASE SendUnregister(k)
  BY <1>1, <1>3 DEF SendUnregister
<1> QED BY <1>2, <1>3

(* Replacing the state of one worker by a good one.                         *)
LEMMA WorkerUpdate ==
  ASSUME TypeOK, NEW w \in Workers, NEW s \in WorkerState, LocalsOK(s),
         worker' = [worker EXCEPT ![w] = s]
  PROVE  worker' \in [Workers -> WorkerState] /\ \A v \in Workers : LocalsOK(worker'[v])
<1>1. worker \in [Workers -> WorkerState] /\ \A v \in Workers : LocalsOK(worker[v])
  BY DEF TypeOK
<1>2. \A v \in Workers : worker'[v] = IF v = w THEN s ELSE worker[v]
  BY <1>1
<1> QED BY <1>1, <1>2

(* What the provers need of the state of a worker in Register or Unregister. *)
LEMMA WorkerLocals ==
  ASSUME TypeOK, NEW w \in Workers,
         worker[w].pc \in RegisterSteps \cup UnregisterSteps
  PROVE  /\ worker[w].key \in Key /\ worker[w].key.gvk \in GVKs
         /\ worker[w].informer \in Informers \cup {None}
         /\ worker[w].registration \in Registrations \cup {None}
         /\ worker[w].pc \in {"sync", "add", "store"} => worker[w].informer \in Informers
         /\ worker[w].pc \in {"store"} \cup StopSteps => worker[w].registration \in Registrations
BY NoneAssumption, KeyGVK DEF TypeOK, WorkerState, LocalsOK

LEMMA WorkerFinish ==
  ASSUME TypeOK, NEW w \in Workers, Finish(w)
  PROVE  worker' \in [Workers -> WorkerState] /\ \A v \in Workers : LocalsOK(worker'[v])
<1>1. Idle("idle") \in WorkerState /\ LocalsOK(Idle("idle"))
  BY DEF Idle, WorkerState, LocalsOK, ProgramCounters, RegisterSteps, UnregisterSteps, StopSteps
<1> QED BY <1>1, WorkerUpdate DEF Finish

LEMMA WorkerBegin ==
  ASSUME TypeOK, NEW w \in Workers, NEW k \in Key, NEW pc \in {"load", "getTask"},
         Begin(w, pc, k)
  PROVE  worker' \in [Workers -> WorkerState] /\ \A v \in Workers : LocalsOK(worker'[v])
<1> DEFINE s == [pc |-> pc, key |-> k, informer |-> None, registration |-> None]
<1>1. s \in WorkerState /\ LocalsOK(s)
  BY NoneAssumption DEF WorkerState, LocalsOK, ProgramCounters, RegisterSteps,
     UnregisterSteps, StopSteps
<1>2. worker' = [worker EXCEPT ![w] = s]
  BY DEF Begin
<1> QED BY <1>1, <1>2, WorkerUpdate

LEMMA WorkerMove ==
  ASSUME TypeOK, NEW w \in Workers,
         worker[w].pc \in RegisterSteps \cup UnregisterSteps,
         NEW pc \in RegisterSteps \cup UnregisterSteps,
         NEW i \in Informers \cup {None}, NEW r \in Registrations \cup {None},
         pc \in {"sync", "add", "store"} => i # None,
         pc \in {"store"} \cup StopSteps => r # None,
         Move(w, pc, i, r)
  PROVE  worker' \in [Workers -> WorkerState] /\ \A v \in Workers : LocalsOK(worker'[v])
<1> DEFINE s == [pc |-> pc, key |-> worker[w].key, informer |-> i, registration |-> r]
<1>1. s \in WorkerState /\ LocalsOK(s)
  BY WorkerLocals, NoneAssumption DEF WorkerState, LocalsOK, ProgramCounters
<1>2. worker' = [worker EXCEPT ![w] = s]
  BY DEF Move
<1> QED BY <1>1, <1>2, WorkerUpdate

LEMMA TypeReceive ==
  ASSUME TypeOK, NEW w \in Workers, Receive(w)
  PROVE  TypeOK'
<1> USE DEF TypeOK, chanVars, taskVars, cacheVars
<1>1. CASE ReceiveRegister(w)
  <2>1. Head(register) \in Key /\ Tail(register) \in Seq(Key)
    BY <1>1 DEF ReceiveRegister
  <2> QED BY <1>1, <2>1, WorkerBegin DEF ReceiveRegister
<1>2. CASE ReceiveUnregister(w)
  <2>1. Head(unregister) \in Key /\ Tail(unregister) \in Seq(Key)
    BY <1>2 DEF ReceiveUnregister
  <2> QED BY <1>2, <2>1, WorkerBegin DEF ReceiveUnregister
<1>3. CASE Exit(w)
  <2>1. Idle("exited") \in WorkerState /\ LocalsOK(Idle("exited"))
    BY DEF Idle, WorkerState, LocalsOK, ProgramCounters, RegisterSteps, UnregisterSteps,
       StopSteps
  <2> QED BY <1>3, <2>1, WorkerUpdate DEF Exit
<1> QED BY <1>1, <1>2, <1>3 DEF Receive

LEMMA TypeRegister ==
  ASSUME TypeOK, NEW w \in Workers, Register(w)
  PROVE  TypeOK'
<1> USE DEF TypeOK, chanVars, taskVars, cacheVars
<1>0. worker[w].pc \in RegisterSteps \cup UnregisterSteps
  BY DEF Register, RegisterLoad, GetTrackedInformer, CreateInformer, GetInformerFails,
     InformerSynced, SyncWaitCancelled, AddEventHandler, Store, RegisterSteps
<1>a. /\ \A pc \in {"get", "sync", "add", "store"} : pc \in RegisterSteps \cup UnregisterSteps
      /\ \A pc \in {"get", "sync", "add"} : pc \notin {"store"} \cup StopSteps
  BY DEF RegisterSteps, StopSteps
<1>1. CASE RegisterLoad(w)
  BY <1>0, <1>1, <1>a, WorkerFinish, WorkerMove, WorkerLocals DEF RegisterLoad, Goto
<1>2. CASE GetTrackedInformer(w)
  <2>1. tracked[worker[w].key.gvk] \in Informers /\ tracked[worker[w].key.gvk] # None
    BY <1>0, <1>2, WorkerLocals DEF GetTrackedInformer
  <2>2. AfterGet(tracked[worker[w].key.gvk]) \in {"sync", "add"}
    BY DEF AfterGet
  <2> QED BY <1>0, <1>2, <1>a, <2>1, <2>2, WorkerMove DEF GetTrackedInformer
<1>3. CASE CreateInformer(w)
  <2>1. PICK i \in FreeInformers : CreateInformer(w)!3!(i)
    BY <1>3 DEF CreateInformer
  <2>2. i \in Informers /\ i # None
    BY NoneAssumption DEF FreeInformers
  <2>3. informer' \in [Informers -> [state: InformerStates, synced: BOOLEAN]]
    BY <2>1, <2>2 DEF InformerStates
  <2>4. tracked' \in [GVKs -> Informers \cup {None}]
    BY <1>0, <2>1, <2>2, WorkerLocals
  <2>5. worker' \in [Workers -> WorkerState] /\ \A v \in Workers : LocalsOK(worker'[v])
    <3>1. PICK pc \in {"sync", "add"} : Move(w, pc, i, None)
      BY <2>1
    <3> QED BY <1>0, <1>a, <2>2, <3>1, WorkerMove
  <2> QED BY <1>3, <2>3, <2>4, <2>5 DEF CreateInformer
<1>4. CASE GetInformerFails(w)
  BY <1>4, WorkerFinish DEF GetInformerFails
<1>5. CASE InformerSynced(w)
  BY <1>0, <1>5, <1>a, WorkerMove, WorkerLocals, NoneAssumption DEF InformerSynced, Goto
<1>6. CASE SyncWaitCancelled(w)
  BY <1>6, WorkerFinish DEF SyncWaitCancelled
<1>7. CASE AddEventHandler(w)
  <2>1. CASE informer[worker[w].informer].state = "stopped"
    BY <1>7, <2>1, WorkerFinish DEF AddEventHandler
  <2>2. CASE informer[worker[w].informer].state # "stopped"
    <3>1. PICK r \in FreeRegistrations :
            /\ registration' = [registration EXCEPT ![r] =
                 [informer |-> worker[w].informer, attached |-> TRUE, synced |-> FALSE]]
            /\ Move(w, "store", worker[w].informer, r)
      BY <1>7, <2>2 DEF AddEventHandler
    <3>2. r \in Registrations /\ r # None
      BY NoneAssumption DEF FreeRegistrations
    <3>3. worker[w].informer \in Informers /\ worker[w].informer # None
      BY <1>0, <1>7, WorkerLocals, NoneAssumption DEF AddEventHandler
    <3>4. worker' \in [Workers -> WorkerState] /\ \A v \in Workers : LocalsOK(worker'[v])
      BY <1>0, <1>a, <3>1, <3>2, <3>3, WorkerMove
    <3>5. registration' \in [Registrations ->
            [informer: Informers \cup {None}, attached: BOOLEAN, synced: BOOLEAN]]
      BY <3>1, <3>2, <3>3
    <3> QED BY <1>7, <3>4, <3>5 DEF AddEventHandler
  <2> QED BY <2>1, <2>2
<1>8. CASE Store(w)
  BY <1>0, <1>8, WorkerFinish, WorkerLocals DEF Store
<1> QED BY <1>1, <1>2, <1>3, <1>4, <1>5, <1>6, <1>7, <1>8 DEF Register

LEMMA TypeUnregister ==
  ASSUME TypeOK, NEW w \in Workers, Unregister(w)
  PROVE  TypeOK'
<1> USE DEF TypeOK, chanVars, taskVars, cacheVars
<1>0. worker[w].pc \in RegisterSteps \cup UnregisterSteps
  BY DEF Unregister, GetTask, IsLastWatch, RemoveEventHandler, RemoveInformer, Delete,
     UnregisterSteps, StopSteps
<1>a. \A pc \in {"range", "detach", "remove", "delete"} :
        /\ pc \in RegisterSteps \cup UnregisterSteps
        /\ pc \in {"store"} \cup StopSteps
        /\ pc \notin {"sync", "add", "store"}
  BY DEF UnregisterSteps, StopSteps
<1>b. worker[w].pc \in StopSteps => worker[w].registration \in Registrations
                                      /\ worker[w].registration # None
  BY <1>0, WorkerLocals, NoneAssumption
<1>1. CASE GetTask(w)
  <2>1. tasks[worker[w].key] \in Registrations \cup {None}
    BY <1>0, WorkerLocals
  <2> QED BY <1>0, <1>1, <1>a, <2>1, WorkerFinish, WorkerMove DEF GetTask
<1>2. CASE IsLastWatch(w)
  BY <1>0, <1>2, <1>a, <1>b, WorkerFinish, WorkerMove, WorkerLocals DEF IsLastWatch, Goto
<1>3. CASE RemoveEventHandler(w)
  BY <1>0, <1>3, <1>a, <1>b, WorkerMove, WorkerLocals DEF RemoveEventHandler, Goto
<1>4. CASE RemoveInformer(w)
  <2>1. informer' \in [Informers -> [state: InformerStates, synced: BOOLEAN]]
    BY <1>0, <1>4, WorkerLocals DEF RemoveInformer, Closed, InformerStates
  <2>2. tracked' \in [GVKs -> Informers \cup {None}]
    BY <1>0, <1>4, WorkerLocals DEF RemoveInformer
  <2>3. worker' \in [Workers -> WorkerState] /\ \A v \in Workers : LocalsOK(worker'[v])
    BY <1>0, <1>4, <1>a, <1>b, WorkerMove, WorkerLocals DEF RemoveInformer, Goto
  <2> QED BY <1>4, <2>1, <2>2, <2>3 DEF RemoveInformer
<1>5. CASE Delete(w)
  BY <1>0, <1>5, WorkerFinish, WorkerLocals DEF Delete
<1> QED BY <1>1, <1>2, <1>3, <1>4, <1>5 DEF Unregister

LEMMA TypeClientGo ==
  ASSUME TypeOK, ClientGo
  PROVE  TypeOK'
<1> USE DEF TypeOK, chanVars, taskVars, cacheVars
<1>1. ASSUME NEW i \in Informers, SyncInformer(i) PROVE TypeOK'
  BY <1>1 DEF SyncInformer
<1>2. ASSUME NEW i \in Informers, StopInformer(i) PROVE TypeOK'
  BY <1>2 DEF StopInformer, InformerStates
<1>3. ASSUME NEW r \in Registrations, SyncRegistration(r) PROVE TypeOK'
  BY <1>3 DEF SyncRegistration
<1> QED BY <1>1, <1>2, <1>3 DEF ClientGo

LEMMA TypeStart ==
  ASSUME TypeOK, Start
  PROVE  TypeOK'
<1> USE DEF TypeOK, chanVars, taskVars, cacheVars, Phases
<1>1. CASE StartCache
  BY <1>1 DEF StartCache, InformerStates
<1>2. CASE Cancel
  BY <1>2 DEF Cancel
<1>3. CASE GracefulShutdown
  <2> DEFINE stopped == {k \in Key : tasks[k] # None /\ ~HasSibling(k)}
  <2>1. activeTasks' \in Int
    <3>1. IsFiniteSet(stopped)
      BY FiniteAssumption, FS_Subset
    <3>2. Cardinality(stopped) \in Nat
      BY <3>1, FS_CardinalityType
    <3>3. activeTasks' = activeTasks - Cardinality(stopped)
      BY <1>3 DEF GracefulShutdown
    <3> QED BY <3>2, <3>3
  <2> QED BY <1>3, <2>1 DEF GracefulShutdown
<1> QED BY <1>1, <1>2, <1>3 DEF Start

LEMMA TypeNext == TypeOK /\ [Next]_vars => TypeOK'
<1> SUFFICES ASSUME TypeOK, [Next]_vars PROVE TypeOK'
  OBVIOUS
<1>1. CASE Send
  BY <1>1, TypeSend DEF Send
<1>2. CASE \E w \in Workers : work(w)
  BY <1>2, TypeReceive, TypeRegister, TypeUnregister DEF work
<1>3. CASE ClientGo
  BY <1>3, TypeClientGo
<1>4. CASE Start
  BY <1>4, TypeStart
<1>5. CASE UNCHANGED vars
  BY <1>5 DEF vars, chanVars, taskVars, cacheVars, TypeOK
<1> QED BY <1>1, <1>2, <1>3, <1>4, <1>5 DEF Next, System

(* No interleaving of workers, informers and shutdown takes a variable out  *)
(* of its type or makes a worker use a task or informer it does not have.   *)
THEOREM TypeCorrect == Spec => []TypeOK
BY TypeInit, TypeNext, PTL DEF Spec

-----------------------------------------------------------------------------
(* The inductive invariant.  InstalledTaskAttached is not inductive: a step *)
(* that detaches, stops or deletes names a registration or an informer, and *)
(* other tasks and workers may hold the same one.  Distinct says who may,   *)
(* CacheOK what the cache tracks, and StoreOK that a handler survives from  *)
(* AddEventHandler to Store.                                                *)

(* A registration is the task of one key; one that is not stored yet has a  *)
(* single holder; whoever stops a task stops it under its own key.          *)
Distinct ==
    /\ \A j, k \in Key : tasks[j] = tasks[k] /\ tasks[j] # None => j = k
    /\ \A w \in Workers : worker[w].pc = "store" =>
         /\ \A k \in Key : tasks[k] # worker[w].registration
         /\ \A v \in Workers : v # w => worker[v].registration # worker[w].registration
    /\ \A w \in Workers : worker[w].pc \in StopSteps =>
         \A k \in Key : tasks[k] = worker[w].registration => k = worker[w].key

(* Two GVKs never share an informer, and an informer the cache tracks is    *)
(* not stopped before the manager's context is cancelled.                   *)
CacheOK ==
    /\ \A g, h \in GVKs : tracked[g] = tracked[h] /\ tracked[g] # None => g = h
    /\ phase \in {"starting", "running"} =>
         \A g \in GVKs : tracked[g] # None => informer[tracked[g]].state \in {"created", "running"}

(* Tasks, and registrations about to be stored, have an informer; the       *)
(* handler about to be stored is attached unless that informer stopped.     *)
StoreOK ==
    /\ \A k \in Key : tasks[k] # None => TaskInformer(k) # None
    /\ \A w \in Workers : worker[w].pc = "store" =>
         /\ registration[worker[w].registration].informer # None
         /\ \/ registration[worker[w].registration].attached
            \/ informer[registration[worker[w].registration].informer].state = "stopped"

(* A step of a worker that stores nothing and takes no new registration.    *)
LEMMA DistinctMove ==
  ASSUME TypeOK, Distinct, NEW w \in Workers, UNCHANGED tasks,
         NEW s, worker' = [worker EXCEPT ![w] = s],
         s.pc # "store",
         s.registration \in {None, worker[w].registration},
         s.pc \in StopSteps => /\ worker[w].pc \in StopSteps
                               /\ s.key = worker[w].key
                               /\ s.registration = worker[w].registration
  PROVE  Distinct'
<1>1. worker \in [Workers -> WorkerState]
  BY DEF TypeOK
<1>2. \A v \in Workers : worker'[v] = IF v = w THEN s ELSE worker[v]
  BY <1>1
<1>3. \A v \in Workers : worker[v].pc = "store" => worker[v].registration # None
  BY DEF TypeOK, LocalsOK
<1> QED BY <1>2, <1>3 DEF Distinct

LEMMA DistinctWork ==
  ASSUME TypeOK, Distinct, NEW w \in Workers, work(w)
  PROVE  Distinct'
<1> USE DEF taskVars
<1>t. /\ tasks \in [Key -> Registrations \cup {None}]
      /\ worker \in [Workers -> WorkerState]
      /\ \A v \in Workers : worker[v].pc = "store" => worker[v].registration # None
  BY DEF TypeOK, LocalsOK
<1>s. \A pc \in {"idle", "exited", "load", "getTask", "get", "sync", "add"} :
        pc # "store" /\ pc \notin StopSteps
  BY DEF StopSteps
<1>1. ASSUME UNCHANGED tasks, Finish(w) PROVE Distinct'
  <2>1. /\ Idle("idle").pc = "idle" /\ Idle("idle").registration = None
        /\ worker' = [worker EXCEPT ![w] = Idle("idle")]
    BY <1>1 DEF Finish, Idle
  <2> QED BY <1>1, <1>s, <2>1, DistinctMove
<1>2. ASSUME UNCHANGED tasks, NEW pc \in {"get", "sync", "add"},
             NEW r \in {None, worker[w].registration}, NEW i, Move(w, pc, i, r)
      PROVE  Distinct'
  <2> DEFINE s == [pc |-> pc, key |-> worker[w].key, informer |-> i, registration |-> r]
  <2>1. s.pc = pc /\ s.registration = r /\ worker' = [worker EXCEPT ![w] = s]
    BY <1>2 DEF Move
  <2> HIDE DEF s
  <2> QED BY <1>2, <1>s, <2>1, DistinctMove
<1>3. CASE Receive(w)
  <2>1. UNCHANGED tasks
    BY <1>3 DEF Receive, ReceiveRegister, ReceiveUnregister, Exit
  <2>2. worker' = [worker EXCEPT ![w] = worker'[w]]
    BY <1>3, <1>t DEF Receive, ReceiveRegister, ReceiveUnregister, Exit, Begin
  <2>3. worker'[w].pc \in {"exited", "load", "getTask"} /\ worker'[w].registration = None
    BY <1>3, <1>t DEF Receive, ReceiveRegister, ReceiveUnregister, Exit, Begin, Idle
  <2> QED BY <1>s, <2>1, <2>2, <2>3, DistinctMove
<1>4. CASE RegisterLoad(w)
  <2>1. CASE Finish(w)
    BY <1>1, <1>4, <2>1 DEF RegisterLoad
  <2>2. CASE Goto(w, "get")
    BY <1>2, <1>4, <2>2 DEF RegisterLoad, Goto
  <2> QED BY <1>4, <2>1, <2>2 DEF RegisterLoad
<1>5. CASE GetTrackedInformer(w)
  <2>1. AfterGet(tracked[worker[w].key.gvk]) \in {"sync", "add"}
    BY DEF AfterGet
  <2> QED BY <1>2, <1>5, <2>1 DEF GetTrackedInformer
<1>6. CASE CreateInformer(w)
  <2>1. PICK i \in FreeInformers : CreateInformer(w)!3!(i)
    BY <1>6 DEF CreateInformer
  <2>2. PICK pc \in {"sync", "add"} : Move(w, pc, i, None)
    BY <2>1
  <2> QED BY <1>2, <1>6, <2>2 DEF CreateInformer
<1>7. CASE GetInformerFails(w) \/ SyncWaitCancelled(w)
  BY <1>1, <1>7 DEF GetInformerFails, SyncWaitCancelled
<1>8. CASE InformerSynced(w)
  BY <1>2, <1>8 DEF InformerSynced, Goto
<1>9. CASE AddEventHandler(w)
  <2>1. CASE informer[worker[w].informer].state = "stopped"
    BY <1>1, <1>9, <2>1 DEF AddEventHandler
  <2>2. CASE informer[worker[w].informer].state # "stopped"
    <3>1. PICK r \in FreeRegistrations : Move(w, "store", worker[w].informer, r)
      BY <1>9, <2>2 DEF AddEventHandler
    <3>2. /\ \A k \in Key : tasks[k] # r
          /\ \A v \in Workers : worker[v].registration # r
      BY DEF FreeRegistrations
    <3>3. /\ worker'[w].pc = "store" /\ worker'[w].registration = r
          /\ \A v \in Workers : v # w => worker'[v] = worker[v]
      BY <1>t, <3>1 DEF Move
    <3>4. UNCHANGED tasks /\ "store" \notin StopSteps
      BY <1>9 DEF AddEventHandler, StopSteps
    <3> QED BY <3>2, <3>3, <3>4 DEF Distinct
  <2> QED BY <2>1, <2>2
<1>10. CASE Store(w)
  <2>1. worker[w].key \in Key
    BY <1>10, WorkerLocals DEF Store, RegisterSteps
  <2>2. /\ worker'[w] = Idle("idle")
        /\ \A v \in Workers : v # w => worker'[v] = worker[v]
    BY <1>t, <1>10 DEF Store, Finish
  <2>3. \A k \in Key : tasks'[k] = IF k = worker[w].key THEN worker[w].registration ELSE tasks[k]
    BY <1>t, <1>10 DEF Store
  <2>4. Idle("idle").registration = None /\ Idle("idle").pc = "idle"
    BY DEF Idle
  <2>5. worker[w].pc = "store"
    BY <1>10 DEF Store
  <2> QED BY <1>t, <1>s, <2>1, <2>2, <2>3, <2>4, <2>5 DEF Distinct
<1>11. CASE GetTask(w)
  <2>1. CASE tasks[worker[w].key] = None
    BY <1>1, <1>11, <2>1 DEF GetTask
  <2>2. CASE tasks[worker[w].key] # None
    <3>1. worker[w].key \in Key
      BY <1>11, WorkerLocals DEF GetTask, UnregisterSteps
    <3>2. /\ worker'[w].pc = "range" /\ worker'[w].key = worker[w].key
          /\ worker'[w].registration = tasks[worker[w].key]
          /\ \A v \in Workers : v # w => worker'[v] = worker[v]
          /\ UNCHANGED tasks
      BY <1>t, <1>11, <2>2 DEF GetTask, Move
    <3> QED BY <2>2, <3>1, <3>2 DEF Distinct
  <2> QED BY <2>1, <2>2
<1>12. CASE IsLastWatch(w) \/ RemoveEventHandler(w) \/ RemoveInformer(w)
  <2>1. UNCHANGED tasks /\ worker[w].pc \in StopSteps
    BY <1>12 DEF IsLastWatch, RemoveEventHandler, RemoveInformer, StopSteps
  <2>2. CASE Finish(w)
    BY <1>1, <2>1, <2>2
  <2>3. ASSUME NEW pc \in StopSteps, Goto(w, pc) PROVE Distinct'
    <3> DEFINE s == [pc |-> pc, key |-> worker[w].key, informer |-> worker[w].informer,
                     registration |-> worker[w].registration]
    <3>1. pc # "store"
      BY DEF StopSteps
    <3>2. /\ s.pc = pc /\ s.key = worker[w].key /\ s.registration = worker[w].registration
          /\ worker' = [worker EXCEPT ![w] = s]
      BY <2>3 DEF Goto, Move
    <3> HIDE DEF s
    <3> QED BY <2>1, <3>1, <3>2, DistinctMove
  <2> QED BY <1>12, <2>2, <2>3 DEF IsLastWatch, RemoveEventHandler, RemoveInformer, StopSteps
<1>13. CASE Delete(w)
  <2>1. /\ worker'[w] = Idle("idle")
        /\ \A v \in Workers : v # w => worker'[v] = worker[v]
    BY <1>t, <1>13 DEF Delete, Finish
  <2>2. \A k \in Key : tasks'[k] \in {tasks[k], None}
    BY <1>t, <1>13 DEF Delete
  <2>3. Idle("idle").registration = None /\ Idle("idle").pc = "idle"
    BY DEF Idle
  <2>4. \A v \in Workers : worker[v].pc \in StopSteps => worker[v].registration # None
    BY DEF TypeOK, LocalsOK
  <2> QED BY <1>t, <1>s, <2>1, <2>2, <2>3, <2>4 DEF Distinct
<1> QED BY <1>3, <1>4, <1>5, <1>6, <1>7, <1>8, <1>9, <1>10, <1>11, <1>12, <1>13
        DEF work, Register, Unregister

LEMMA DistinctNext == TypeOK /\ Distinct /\ [Next]_vars => Distinct'
<1> SUFFICES ASSUME TypeOK, Distinct, [Next]_vars PROVE Distinct'
  OBVIOUS
<1>1. CASE UNCHANGED <<tasks, worker>>
  BY <1>1 DEF Distinct
<1>2. CASE \E w \in Workers : work(w)
  BY <1>2, DistinctWork
<1>3. CASE Send \/ ClientGo \/ StartCache \/ Cancel \/ UNCHANGED vars
  BY <1>1, <1>3 DEF Send, SendRegister, SendUnregister, ClientGo, SyncInformer, StopInformer,
     SyncRegistration, StartCache, Cancel, vars, taskVars
<1>4. CASE GracefulShutdown
  <2>1. \A k \in Key : tasks'[k] \in {tasks[k], None}
    BY <1>4 DEF GracefulShutdown
  <2>2. \A w \in Workers : worker'[w].pc = "exited"
    BY <1>4 DEF GracefulShutdown
  <2>3. "exited" # "store" /\ "exited" \notin StopSteps
    BY DEF StopSteps
  <2> QED BY <2>1, <2>2, <2>3 DEF Distinct
<1> QED BY <1>2, <1>3, <1>4 DEF Next, System, Start

-----------------------------------------------------------------------------
LEMMA CacheNext == TypeOK /\ CacheOK /\ [Next]_vars => CacheOK'
<1> SUFFICES ASSUME TypeOK, CacheOK, [Next]_vars PROVE CacheOK'
  OBVIOUS
<1> USE NoneAssumption DEF chanVars, taskVars, cacheVars
<1>t. /\ tracked \in [GVKs -> Informers \cup {None}]
      /\ informer \in [Informers -> [state: InformerStates, synced: BOOLEAN]]
      /\ phase \in Phases
  BY DEF TypeOK
<1>1. CASE UNCHANGED <<tracked, informer, phase>>
  BY <1>1 DEF CacheOK
<1>2. ASSUME NEW w \in Workers, CreateInformer(w) PROVE CacheOK'
  <2>1. PICK i \in FreeInformers : CreateInformer(w)!3!(i)
    BY <1>2 DEF CreateInformer
  <2>2. i \in Informers /\ \A g \in GVKs : tracked[g] # i
    BY DEF FreeInformers
  <2>3. worker[w].key.gvk \in GVKs
    BY <1>2, WorkerLocals DEF CreateInformer, RegisterSteps
  <2>4. /\ \A g \in GVKs : tracked'[g] = IF g = worker[w].key.gvk THEN i ELSE tracked[g]
        /\ informer'[i].state \in {"created", "running"}
        /\ \A j \in Informers : j # i => informer'[j] = informer[j]
        /\ UNCHANGED phase
    BY <1>2, <1>t, <2>1, <2>2, <2>3 DEF CreateInformer
  <2> QED BY <1>t, <2>2, <2>3, <2>4 DEF CacheOK
<1>3. ASSUME NEW w \in Workers, RemoveInformer(w) PROVE CacheOK'
  <2>1. worker[w].key.gvk \in GVKs
    BY <1>3, WorkerLocals DEF RemoveInformer, UnregisterSteps, StopSteps
  <2>2. /\ \A g \in GVKs : tracked'[g] = IF g = worker[w].key.gvk THEN None ELSE tracked[g]
        /\ \A j \in Informers : j # tracked[worker[w].key.gvk] => informer'[j] = informer[j]
        /\ UNCHANGED phase
    BY <1>3, <1>t, <2>1 DEF RemoveInformer
  <2> QED BY <1>t, <2>1, <2>2 DEF CacheOK
<1>4. ASSUME NEW i \in Informers, SyncInformer(i) PROVE CacheOK'
  BY <1>4, <1>t DEF SyncInformer, CacheOK
<1>5. ASSUME NEW i \in Informers, StopInformer(i) PROVE CacheOK'
  BY <1>5, <1>t DEF StopInformer, CacheOK
<1>6. CASE StartCache
  BY <1>6, <1>t DEF StartCache, CacheOK
<1>7. CASE Cancel
  BY <1>7 DEF Cancel, CacheOK
<1>8. CASE GracefulShutdown
  BY <1>8, <1>t DEF GracefulShutdown, CacheOK
<1>9. CASE \E w \in Workers : work(w)
  BY <1>1, <1>2, <1>3, <1>9 DEF work, Receive, ReceiveRegister, ReceiveUnregister, Exit,
     Register, RegisterLoad, GetTrackedInformer, GetInformerFails, InformerSynced,
     SyncWaitCancelled, AddEventHandler, Store, Unregister, GetTask, IsLastWatch,
     RemoveEventHandler, Delete
<1>10. CASE Send
  BY <1>1, <1>10 DEF Send, SendRegister, SendUnregister
<1>11. CASE ClientGo
  BY <1>1, <1>4, <1>5, <1>11 DEF ClientGo, SyncRegistration
<1>12. CASE UNCHANGED vars
  BY <1>1, <1>12 DEF vars
<1> QED BY <1>6, <1>7, <1>8, <1>9, <1>10, <1>11, <1>12 DEF Next, System, Start

-----------------------------------------------------------------------------
(* Registration r has an informer, and is attached to it unless it stopped. *)
HasInformer(r) == registration[r].informer # None
Live(r) == registration[r].attached \/ informer[registration[r].informer].state = "stopped"

AttachedInv == StoreOK /\ InstalledTaskAttached

(* AttachedInv in terms of HasInformer and Live.                            *)
LEMMA AttachedParts ==
  AttachedInv <=>
    /\ \A k \in Key : tasks[k] # None =>
         /\ HasInformer(tasks[k])
         /\ Live(tasks[k]) \/ \E w \in Workers : Stopping(w, tasks[k])
    /\ \A w \in Workers : worker[w].pc = "store" =>
         HasInformer(worker[w].registration) /\ Live(worker[w].registration)
BY DEF AttachedInv, StoreOK, InstalledTaskAttached, HasInformer, Live, IsStopped, TaskInformer

LEMMA AttachedPartsNext ==
  AttachedInv' <=>
    /\ \A k \in Key : tasks'[k] # None =>
         /\ HasInformer(tasks[k])'
         /\ Live(tasks[k])' \/ \E w \in Workers : Stopping(w, tasks[k])'
    /\ \A w \in Workers : worker'[w].pc = "store" =>
         HasInformer(worker[w].registration)' /\ Live(worker[w].registration)'
BY DEF AttachedInv, StoreOK, InstalledTaskAttached, HasInformer, Live, IsStopped, TaskInformer

(* The goroutines of client-go and the start of the cache never detach a    *)
(* handler from an informer that is not stopped.                            *)
LEMMA AttachedEnvironment ==
  ASSUME TypeOK, CacheOK, AttachedInv,
         Send \/ ClientGo \/ StartCache \/ Cancel \/ UNCHANGED vars
  PROVE  AttachedInv'
<1> USE NoneAssumption DEF chanVars, taskVars, cacheVars
<1>t. /\ tracked \in [GVKs -> Informers \cup {None}]
      /\ informer \in [Informers -> [state: InformerStates, synced: BOOLEAN]]
      /\ registration \in [Registrations ->
           [informer: Informers \cup {None}, attached: BOOLEAN, synced: BOOLEAN]]
      /\ tasks \in [Key -> Registrations \cup {None}]
      /\ \A w \in Workers : worker[w].pc = "store" => worker[w].registration \in Registrations
  BY DEF TypeOK, WorkerState, LocalsOK
<1>1. UNCHANGED <<tasks, worker>>
  BY DEF Send, SendRegister, SendUnregister, ClientGo, SyncInformer, StopInformer,
     SyncRegistration, StartCache, Cancel, vars
<1>2. ASSUME NEW r \in Registrations, HasInformer(r)
      PROVE  HasInformer(r)' /\ (Live(r) => Live(r)')
  <2>1. CASE UNCHANGED <<registration, informer>>
    BY <1>2, <2>1 DEF HasInformer, Live
  <2>2. ASSUME NEW i \in Informers, SyncInformer(i) PROVE HasInformer(r)' /\ (Live(r) => Live(r)')
    BY <1>t, <1>2, <2>2 DEF SyncInformer, HasInformer, Live
  <2>3. ASSUME NEW i \in Informers, StopInformer(i) PROVE HasInformer(r)' /\ (Live(r) => Live(r)')
    BY <1>t, <1>2, <2>3 DEF StopInformer, HasInformer, Live
  <2>4. ASSUME NEW q \in Registrations, SyncRegistration(q)
        PROVE  HasInformer(r)' /\ (Live(r) => Live(r)')
    BY <1>t, <1>2, <2>4 DEF SyncRegistration, HasInformer, Live
  <2>5. CASE StartCache
    BY <1>t, <1>2, <2>5 DEF StartCache, CacheOK, HasInformer, Live
  <2> QED BY <2>1, <2>2, <2>3, <2>4, <2>5 DEF Send, SendRegister, SendUnregister, ClientGo,
          Cancel, vars
<1>3. \A r : \A w \in Workers : Stopping(w, r)' <=> Stopping(w, r)
  BY <1>1 DEF Stopping
<1> QED BY <1>t, <1>1, <1>2, <1>3, AttachedParts, AttachedPartsNext

(* A step of worker w that touches neither tasks nor registrations, keeps   *)
(* the stopped informers stopped and does not leave the end of stopTask.    *)
LEMMA AttachedMove ==
  ASSUME TypeOK, AttachedInv, NEW w \in Workers, UNCHANGED <<tasks, registration>>,
         \A v \in Workers : v # w => worker'[v] = worker[v],
         worker'[w].pc # "store",
         worker[w].pc \in {"remove", "delete"} =>
           /\ worker'[w].pc \in {"remove", "delete"}
           /\ worker'[w].registration = worker[w].registration,
         \A r \in Registrations :
           HasInformer(r) /\ Live(r) /\ (\/ \E k \in Key : tasks[k] = r
                                         \/ \E v \in Workers : worker[v].registration = r)
             => Live(r)'
  PROVE  AttachedInv'
<1>1. \A r : HasInformer(r)' <=> HasInformer(r)
  BY DEF HasInformer
<1>2. \A r : \A v \in Workers : Stopping(v, r) => Stopping(v, r)'
  BY DEF Stopping
<1>3. \A v \in Workers : worker'[v].pc = "store" =>
        worker[v].pc = "store" /\ worker'[v] = worker[v]
  OBVIOUS
<1>4. /\ tasks \in [Key -> Registrations \cup {None}]
      /\ \A v \in Workers : worker[v].pc = "store" => worker[v].registration \in Registrations
  BY NoneAssumption DEF TypeOK, WorkerState, LocalsOK
<1>5. ASSUME NEW k \in Key, tasks'[k] # None
      PROVE  /\ HasInformer(tasks[k])'
             /\ Live(tasks[k])' \/ \E v \in Workers : Stopping(v, tasks[k])'
  BY <1>1, <1>2, <1>4, <1>5, AttachedParts
<1>6. ASSUME NEW v \in Workers, worker'[v].pc = "store"
      PROVE  HasInformer(worker[v].registration)' /\ Live(worker[v].registration)'
  BY <1>1, <1>3, <1>4, <1>6, AttachedParts
<1> QED BY <1>5, <1>6, AttachedPartsNext

LEMMA AttachedWork ==
  ASSUME TypeOK, Distinct, AttachedInv, NEW w \in Workers, work(w)
  PROVE  AttachedInv'
<1> USE NoneAssumption DEF chanVars, taskVars, cacheVars
<1>t. /\ tracked \in [GVKs -> Informers \cup {None}]
      /\ informer \in [Informers -> [state: InformerStates, synced: BOOLEAN]]
      /\ registration \in [Registrations ->
           [informer: Informers \cup {None}, attached: BOOLEAN, synced: BOOLEAN]]
      /\ tasks \in [Key -> Registrations \cup {None}]
      /\ worker \in [Workers -> WorkerState]
      /\ \A v \in Workers : worker[v].pc \in {"store"} \cup StopSteps =>
           worker[v].registration \in Registrations
  BY DEF TypeOK, WorkerState, LocalsOK
<1>1. ASSUME UNCHANGED <<tasks, registration, informer>>,
             \A v \in Workers : v # w => worker'[v] = worker[v],
             worker'[w].pc # "store",
             worker[w].pc \notin {"remove", "delete"}
      PROVE  AttachedInv'
  <2>1. \A r \in Registrations : Live(r) => Live(r)'
    BY <1>1 DEF Live
  <2> QED BY <1>1, <2>1, AttachedMove
<1>2. CASE Receive(w) \/ RegisterLoad(w) \/ GetTrackedInformer(w) \/ GetInformerFails(w)
        \/ InformerSynced(w) \/ SyncWaitCancelled(w) \/ GetTask(w) \/ IsLastWatch(w)
  <2>1. UNCHANGED <<tasks, registration, informer>>
    BY <1>2 DEF Receive, ReceiveRegister, ReceiveUnregister, Exit, RegisterLoad,
       GetTrackedInformer, GetInformerFails, InformerSynced, SyncWaitCancelled, GetTask,
       IsLastWatch
  <2>2. worker[w].pc \notin {"remove", "delete"}
    BY <1>2 DEF Receive, ReceiveRegister, ReceiveUnregister, Exit, RegisterLoad,
       GetTrackedInformer, GetInformerFails, InformerSynced, SyncWaitCancelled, GetTask,
       IsLastWatch
  <2>3. \A v \in Workers : v # w => worker'[v] = worker[v]
    BY <1>2, <1>t DEF Receive, ReceiveRegister, ReceiveUnregister, Exit, RegisterLoad,
       GetTrackedInformer, GetInformerFails, InformerSynced, SyncWaitCancelled, GetTask,
       IsLastWatch, Finish, Begin, Goto, Move
  <2>4. worker'[w].pc # "store"
    BY <1>2, <1>t DEF Receive, ReceiveRegister, ReceiveUnregister, Exit, RegisterLoad,
       GetTrackedInformer, GetInformerFails, InformerSynced, SyncWaitCancelled, GetTask,
       IsLastWatch, Finish, Begin, Goto, Move, Idle, AfterGet
  <2> QED BY <1>1, <2>1, <2>2, <2>3, <2>4
<1>3. CASE CreateInformer(w)
  <2>1. PICK i \in FreeInformers : CreateInformer(w)!3!(i)
    BY <1>3 DEF CreateInformer
  <2>2. i \in Informers
    BY DEF FreeInformers
  <2>3. /\ \A k \in Key : tasks[k] = None \/ registration[tasks[k]].informer # i
        /\ \A v \in Workers : worker[v].registration = None
             \/ registration[worker[v].registration].informer # i
    BY DEF FreeInformers, TaskInformer
  <2>4. UNCHANGED <<tasks, registration>> /\ worker[w].pc = "get"
    BY <1>3 DEF CreateInformer
  <2>5. PICK pc \in {"sync", "add"} : Move(w, pc, i, None)
    BY <2>1
  <2>6. worker'[w].pc # "store" /\ \A v \in Workers : v # w => worker'[v] = worker[v]
    BY <1>t, <2>5 DEF Move
  <2>7. ASSUME NEW r \in Registrations, HasInformer(r), Live(r),
               \/ \E k \in Key : tasks[k] = r
               \/ \E v \in Workers : worker[v].registration = r
        PROVE  Live(r)'
    <3>1. registration[r].informer # i /\ registration[r].informer \in Informers
      BY <1>t, <2>3, <2>7 DEF HasInformer
    <3>2. informer'[registration[r].informer] = informer[registration[r].informer]
      BY <1>t, <2>1, <3>1
    <3> QED BY <2>4, <2>7, <3>2 DEF Live
  <2> QED BY <2>4, <2>6, <2>7, AttachedMove
<1>4. CASE AddEventHandler(w)
  <2>1. CASE informer[worker[w].informer].state = "stopped"
    <3>1. UNCHANGED <<tasks, registration, informer>> /\ Finish(w) /\ worker[w].pc = "add"
      BY <1>4, <2>1 DEF AddEventHandler
    <3>2. worker'[w].pc # "store" /\ \A v \in Workers : v # w => worker'[v] = worker[v]
      BY <1>t, <3>1 DEF Finish, Idle
    <3> QED BY <1>1, <3>1, <3>2
  <2>2. CASE informer[worker[w].informer].state # "stopped"
    <3>1. PICK r \in FreeRegistrations :
            /\ registration' = [registration EXCEPT ![r] =
                 [informer |-> worker[w].informer, attached |-> TRUE, synced |-> FALSE]]
            /\ Move(w, "store", worker[w].informer, r)
      BY <1>4, <2>2 DEF AddEventHandler
    <3>2. /\ r \in Registrations
          /\ \A k \in Key : tasks[k] # r
          /\ \A v \in Workers : worker[v].registration # r
      BY DEF FreeRegistrations
    <3>3. worker[w].pc = "add" /\ worker[w].informer \in Informers
          /\ UNCHANGED <<tasks, informer>>
      BY <1>4, WorkerLocals DEF AddEventHandler, RegisterSteps
    <3>4. /\ HasInformer(r)' /\ Live(r)'
          /\ \A q \in Registrations : q # r =>
               (HasInformer(q)' <=> HasInformer(q)) /\ (Live(q)' <=> Live(q))
      BY <1>t, <3>1, <3>2, <3>3 DEF HasInformer, Live
    <3>5. /\ worker'[w].pc = "store" /\ worker'[w].registration = r
          /\ \A v \in Workers : v # w => worker'[v] = worker[v]
      BY <1>t, <3>1 DEF Move
    <3>6. \A q : \A v \in Workers : Stopping(v, q) => Stopping(v, q)'
      BY <3>3, <3>5 DEF Stopping
    <3> QED BY <1>t, <3>2, <3>3, <3>4, <3>5, <3>6, AttachedParts, AttachedPartsNext
  <2> QED BY <2>1, <2>2
<1>5. CASE Store(w)
  <2>1. worker[w].key \in Key /\ worker[w].pc = "store" /\ UNCHANGED <<registration, informer>>
    BY <1>5, WorkerLocals DEF Store, RegisterSteps
  <2>2. worker'[w].pc # "store" /\ \A v \in Workers : v # w => worker'[v] = worker[v]
    BY <1>t, <1>5 DEF Store, Finish, Idle
  <2>3. \A k \in Key : tasks'[k] = IF k = worker[w].key THEN worker[w].registration ELSE tasks[k]
    BY <1>t, <1>5 DEF Store
  <2>4. \A q : (HasInformer(q)' <=> HasInformer(q)) /\ (Live(q)' <=> Live(q))
    BY <2>1 DEF HasInformer, Live
  <2>5. \A q : \A v \in Workers : Stopping(v, q) => Stopping(v, q)'
    BY <2>1, <2>2 DEF Stopping
  <2> QED BY <2>1, <2>2, <2>3, <2>4, <2>5, AttachedParts, AttachedPartsNext
<1>6. CASE RemoveEventHandler(w)
  <2>1. /\ worker[w].pc = "detach" /\ worker[w].registration \in Registrations
        /\ UNCHANGED <<tasks, informer>>
    BY <1>6, <1>t DEF RemoveEventHandler, StopSteps
  <2>2. /\ worker'[w].pc = "remove" /\ worker'[w].registration = worker[w].registration
        /\ \A v \in Workers : v # w => worker'[v] = worker[v]
    BY <1>t, <1>6 DEF RemoveEventHandler, Goto, Move
  <2>3. \A q \in Registrations :
          /\ HasInformer(q)' <=> HasInformer(q)
          /\ q # worker[w].registration => (Live(q)' <=> Live(q))
    BY <1>t, <1>6, <2>1 DEF RemoveEventHandler, HasInformer, Live
  <2>4. \A q : \A v \in Workers : Stopping(v, q) => Stopping(v, q)'
    BY <2>1, <2>2 DEF Stopping
  <2>5. Stopping(w, worker[w].registration)'
    BY <2>2 DEF Stopping
  <2>6. \A v \in Workers : worker[v].pc = "store" => worker[v].registration # worker[w].registration
    BY <2>1 DEF Distinct
  <2>7. ASSUME NEW k \in Key, tasks'[k] # None
        PROVE  /\ HasInformer(tasks[k])'
               /\ Live(tasks[k])' \/ \E v \in Workers : Stopping(v, tasks[k])'
    BY <1>t, <2>1, <2>2, <2>3, <2>4, <2>5, <2>7, AttachedParts DEF Stopping
  <2>8. ASSUME NEW v \in Workers, worker'[v].pc = "store"
        PROVE  HasInformer(worker[v].registration)' /\ Live(worker[v].registration)'
    BY <1>t, <2>2, <2>3, <2>6, <2>8, AttachedParts
  <2> QED BY <2>7, <2>8, AttachedPartsNext
<1>7. CASE RemoveInformer(w)
  <2>1. worker[w].key.gvk \in GVKs /\ worker[w].pc = "remove" /\ UNCHANGED <<tasks, registration>>
    BY <1>7, WorkerLocals DEF RemoveInformer, UnregisterSteps, StopSteps
  <2>2. /\ worker'[w].pc = "delete" /\ worker'[w].registration = worker[w].registration
        /\ \A v \in Workers : v # w => worker'[v] = worker[v]
    BY <1>t, <1>7 DEF RemoveInformer, Goto, Move
  <2>3. \A i \in Informers : informer[i].state = "stopped" => informer'[i].state = "stopped"
    BY <1>t, <1>7, <2>1 DEF RemoveInformer, Closed
  <2>4. \A r \in Registrations : HasInformer(r) /\ Live(r) => Live(r)'
    BY <1>t, <2>1, <2>3 DEF HasInformer, Live
  <2> QED BY <2>1, <2>2, <2>4, AttachedMove
<1>8. CASE Delete(w)
  <2>1. worker[w].pc = "delete" /\ worker[w].key \in Key /\ UNCHANGED <<registration, informer>>
    BY <1>8, WorkerLocals DEF Delete, UnregisterSteps, StopSteps
  <2>2. worker'[w].pc # "store" /\ \A v \in Workers : v # w => worker'[v] = worker[v]
    BY <1>t, <1>8 DEF Delete, Finish, Idle
  <2>3. \A k \in Key : tasks'[k] = IF k = worker[w].key THEN None ELSE tasks[k]
    BY <1>t, <1>8 DEF Delete
  <2>4. \A q : (HasInformer(q)' <=> HasInformer(q)) /\ (Live(q)' <=> Live(q))
    BY <2>1 DEF HasInformer, Live
  <2>5. \A k \in Key : tasks[k] = worker[w].registration => k = worker[w].key
    BY <2>1 DEF Distinct, StopSteps
  <2>6. \A q : \A v \in Workers : v # w /\ Stopping(v, q) => Stopping(v, q)'
    BY <2>2 DEF Stopping
  <2>7. ASSUME NEW k \in Key, tasks'[k] # None
        PROVE  /\ HasInformer(tasks[k])'
               /\ Live(tasks[k])' \/ \E v \in Workers : Stopping(v, tasks[k])'
    BY <2>3, <2>4, <2>5, <2>6, <2>7, AttachedParts DEF Stopping
  <2> QED BY <2>2, <2>4, <2>7, AttachedParts, AttachedPartsNext
<1> QED BY <1>2, <1>3, <1>4, <1>5, <1>6, <1>7, <1>8 DEF work, Register, Unregister

LEMMA AttachedShutdown ==
  ASSUME TypeOK, Distinct, AttachedInv, GracefulShutdown
  PROVE  AttachedInv'
<1>t. /\ tasks \in [Key -> Registrations \cup {None}]
      /\ registration \in [Registrations ->
           [informer: Informers \cup {None}, attached: BOOLEAN, synced: BOOLEAN]]
  BY DEF TypeOK
<1>1. /\ UNCHANGED <<informer, worker>>
      /\ \A w \in Workers : worker[w].pc = "exited"
  BY DEF GracefulShutdown
<1>2. \A k \in Key : tasks'[k] = IF tasks[k] # None /\ ~HasSibling(k) THEN None ELSE tasks[k]
  BY DEF GracefulShutdown
<1>3. \A k \in Key : tasks'[k] # None =>
        tasks'[k] = tasks[k] /\ registration'[tasks[k]] = registration[tasks[k]]
  <2> SUFFICES ASSUME NEW k \in Key, tasks'[k] # None
               PROVE  tasks'[k] = tasks[k] /\ registration'[tasks[k]] = registration[tasks[k]]
    OBVIOUS
  <2>1. tasks'[k] = tasks[k] /\ HasSibling(k) /\ tasks[k] \in Registrations
    BY <1>t, <1>2
  <2>2. ~ \E j \in {j \in Key : tasks[j] # None /\ ~HasSibling(j)} : tasks[j] = tasks[k]
    BY <2>1 DEF Distinct
  <2> QED BY <1>t, <2>1, <2>2 DEF GracefulShutdown
<1>4. \A w \in Workers : \A r : ~Stopping(w, r)
  BY <1>1 DEF Stopping
<1>5. ASSUME NEW k \in Key, tasks'[k] # None
      PROVE  HasInformer(tasks[k])' /\ Live(tasks[k])'
  BY <1>1, <1>3, <1>4, <1>5, AttachedParts DEF HasInformer, Live
<1> QED BY <1>1, <1>5, AttachedPartsNext

(* For every number of workers, keys and buffered events: no task stays in  *)
(* the map without its event handler, unless its informer has stopped or a  *)
(* worker is about to delete it.                                            *)
THEOREM TasksAttached == Spec => []InstalledTaskAttached
<1> DEFINE IInv == TypeOK /\ Distinct /\ CacheOK /\ AttachedInv
<1>1. Init => IInv
  <2>1. Init => Distinct /\ CacheOK /\ AttachedInv
    BY DEF Init, Idle, Distinct, CacheOK, AttachedInv, StoreOK, InstalledTaskAttached, StopSteps
  <2> QED BY <2>1, TypeInit
<1>2. IInv /\ [Next]_vars => IInv'
  BY TypeNext, DistinctNext, CacheNext, AttachedEnvironment, AttachedWork, AttachedShutdown
     DEF Next, System, Start
<1>3. IInv => InstalledTaskAttached
  BY DEF AttachedInv
<1> QED BY <1>1, <1>2, <1>3, PTL DEF Spec

-----------------------------------------------------------------------------
(* After GracefulShutdown nothing runs, and the tasks that are left keep    *)
(* each other: a sibling relation is symmetric, so neither was stopped.     *)
THEOREM ShutdownCorrect == Spec => []ShutdownStopsWatches
<1> DEFINE IInv == TypeOK /\ ShutdownStopsWatches
<1>1. Init => IInv
  BY TypeInit DEF Init, ShutdownStopsWatches
<1>2. ASSUME TypeOK, ShutdownStopsWatches, [Next]_vars PROVE ShutdownStopsWatches'
  <2> USE DEF chanVars, taskVars, cacheVars
  <2>1. CASE phase' # "shutdown"
    BY <2>1 DEF ShutdownStopsWatches
  <2>2. CASE phase' = "shutdown" /\ phase # "shutdown"
    <3>1. GracefulShutdown
      BY <1>2, <2>2 DEF Next, System, Start, StartCache, Cancel, Send, SendRegister,
         SendUnregister, ClientGo, SyncInformer, StopInformer, SyncRegistration, vars, work,
         Receive, ReceiveRegister, ReceiveUnregister, Exit, Register, RegisterLoad,
         GetTrackedInformer, CreateInformer, GetInformerFails, InformerSynced,
         SyncWaitCancelled, AddEventHandler, Store, Unregister, GetTask, IsLastWatch,
         RemoveEventHandler, RemoveInformer, Delete
    <3>2. \A k \in Key : tasks'[k] # None => HasSibling(k)'
      <4> SUFFICES ASSUME NEW k \in Key, tasks'[k] # None PROVE HasSibling(k)'
        OBVIOUS
      <4>1. \A j \in Key : tasks'[j] = IF tasks[j] # None /\ ~HasSibling(j) THEN None ELSE tasks[j]
        BY <3>1 DEF GracefulShutdown
      <4>2. tasks[k] # None
        BY <4>1
      <4>3. PICK e \in Key : /\ tasks[e] # None
                             /\ e.gvk = k.gvk /\ e.namespace = k.namespace
                             /\ e.parent # k.parent
        BY <4>1 DEF HasSibling
      <4>4. HasSibling(e)
        BY <4>2, <4>3 DEF HasSibling
      <4>5. tasks'[e] # None
        BY <4>1, <4>3, <4>4
      <4> QED BY <4>3, <4>5 DEF HasSibling
    <3>3. /\ \A i \in Informers : informer'[i].state \notin {"running", "closing"}
          /\ \A w \in Workers : worker'[w].pc = "exited"
      BY <3>1 DEF GracefulShutdown
    <3> QED BY <3>2, <3>3 DEF ShutdownStopsWatches
  <2>3. CASE phase = "shutdown"
    <3>1. \A w \in Workers : ~work(w)
      BY <1>2, <2>3 DEF ShutdownStopsWatches, work,
         Receive, ReceiveRegister, ReceiveUnregister, Exit, Register, RegisterLoad,
         GetTrackedInformer, CreateInformer, GetInformerFails, InformerSynced,
         SyncWaitCancelled, AddEventHandler, Store, Unregister, GetTask, IsLastWatch,
         RemoveEventHandler, RemoveInformer, Delete
    <3>2. UNCHANGED <<tasks, informer, worker, phase>>
      BY <1>2, <2>3, <3>1 DEF ShutdownStopsWatches, Next, System, Start, StartCache, Cancel,
         GracefulShutdown, Send, SendRegister, SendUnregister, ClientGo, SyncInformer,
         StopInformer, SyncRegistration, vars
    <3> QED BY <1>2, <2>3, <3>2 DEF ShutdownStopsWatches, HasSibling
  <2> QED BY <2>1, <2>2, <2>3
<1>3. IInv /\ [Next]_vars => IInv'
  BY <1>2, TypeNext
<1> QED BY <1>1, <1>3, PTL DEF Spec

-----------------------------------------------------------------------------
(* Workers whose operations do not meet.  Several workers run, and where    *)
(* two of them are on one key (or, for SyncedWatchDelivers, on one GVK) at  *)
(* a time these properties fail.  What a worker keeps as long as that does  *)
(* not happen is that whatever it has read is still so at its next step.    *)

(* The context of the manager is not cancelled.                             *)
Active == phase \in {"starting", "running"}

(* The worker has an informer and no task for it yet.                       *)
Getting(w) == worker[w].pc \in {"sync", "add", "store"}

(* The task that Register found missing still is, the task that Unregister  *)
(* found is still in the map, and its handler stays off once it is removed. *)
Sequential ==
    \A w \in Workers :
      /\ worker[w].pc \in {"get", "sync", "add", "store"} => tasks[worker[w].key] = None
      /\ worker[w].pc \in StopSteps => tasks[worker[w].key] = worker[w].registration
      /\ worker[w].pc \in {"remove", "delete"} => ~registration[worker[w].registration].attached

(* The cache keeps an informer only for a task that nobody is about to      *)
(* delete, or for a worker that is about to store one.                      *)
InformersUsed ==
    Active =>
      /\ \A w \in Workers : worker[w].pc = "store" =>
           registration[worker[w].registration].informer = worker[w].informer
      /\ \A w \in Workers : worker[w].pc = "delete" /\ tracked[worker[w].key.gvk] # None =>
           tracked[worker[w].key.gvk] # TaskInformer(worker[w].key)
      /\ \A g \in GVKs : tracked[g] # None =>
           \/ \E k \in Key : k.gvk = g /\ tasks[k] # None /\ TaskInformer(k) = tracked[g]
           \/ \E w \in Workers : /\ Getting(w) /\ worker[w].key.gvk = g
                                 /\ worker[w].informer = tracked[g]

(* In one namespace stopTask removes an informer only if there is no other  *)
(* task of its GVK.  So every task but the one that is being stopped has    *)
(* its handler on the informer that the cache keeps, and a worker that      *)
(* registers has that informer.                                             *)
Watched ==
    Active =>
      /\ \A w \in Workers : Getting(w) => worker[w].informer = tracked[worker[w].key.gvk]
      /\ \A w \in Workers : worker[w].pc \in {"detach", "remove", "delete"} =>
           \A e \in Key : tasks[e] # None /\ e.gvk = worker[w].key.gvk => e = worker[w].key
      /\ \A w \in Workers : worker[w].pc = "store" =>
           registration[worker[w].registration].attached
      /\ \A g \in GVKs : tracked[g] # None /\ phase = "running" =>
           informer[tracked[g]].state = "running"
      /\ \A k \in Key : tasks[k] # None =>
           \/ /\ tracked[k.gvk] # None /\ TaskInformer(k) = tracked[k.gvk]
              /\ registration[tasks[k]].attached
           \/ \E w \in Workers : worker[w].pc \in {"remove", "delete"} /\ worker[w].key = k

ApartInv == TypeOK /\ Distinct /\ CacheOK /\ Sequential /\ NoLeakedHandler /\ InformersUsed

(* One GVK is the business of one worker and of one namespace.              *)
Alone == GVKsApart /\ NamespacesApart

(* What every step has to show.                                             *)
Kept == Sequential' /\ NoLeakedHandler' /\ InformersUsed' /\ (Alone /\ Watched => Watched')

LEMMA Shapes ==
  ASSUME TypeOK
  PROVE  /\ tracked \in [GVKs -> Informers \cup {None}]
         /\ informer \in [Informers -> [state: InformerStates, synced: BOOLEAN]]
         /\ registration \in [Registrations ->
              [informer: Informers \cup {None}, attached: BOOLEAN, synced: BOOLEAN]]
         /\ tasks \in [Key -> Registrations \cup {None}]
         /\ worker \in [Workers -> WorkerState]
         /\ \A k \in Key : k.gvk \in GVKs
BY KeyGVK DEF TypeOK

(* What the conditions say of the worker w that takes a step.               *)
LEMMA Others ==
  ASSUME KeysApart, NEW w \in Workers, NEW v \in Workers, v # w,
         worker[w].pc \in RegisterSteps \cup UnregisterSteps,
         worker[v].pc \in RegisterSteps \cup UnregisterSteps
  PROVE  /\ worker[v].key # worker[w].key
         /\ Alone => worker[v].key.gvk # worker[w].key.gvk
BY DEF KeysApart, Alone, GVKsApart, Busy

(* Every step that a worker takes in the middle of an operation.            *)
LEMMA InOperation ==
  /\ {"get", "sync", "add", "store"} \subseteq RegisterSteps \cup UnregisterSteps
  /\ {"range", "detach", "remove", "delete"} \subseteq RegisterSteps \cup UnregisterSteps
  /\ StopSteps = {"range", "detach", "remove", "delete"}
BY DEF RegisterSteps, UnregisterSteps, StopSteps

LEMMA FrameKept ==
  ASSUME ApartInv, UNCHANGED <<tasks, tracked, informer, registration, worker, phase>>
  PROVE  Kept
BY DEF ApartInv, Kept, Sequential, NoLeakedHandler, InformersUsed, Watched, Active, Getting,
   TaskInformer

(* A step of the worker that changes only its own state, to s.  The last    *)
(* hypotheses are what s has to be right about.                             *)
LEMMA MoveKept ==
  ASSUME ApartInv, NEW w \in Workers, NEW s,
         worker' = [worker EXCEPT ![w] = s],
         UNCHANGED <<tasks, tracked, informer, registration, phase>>,
         worker[w].pc # "store" /\ s.pc \notin {"store", "remove", "delete"},
         worker[w].pc \notin {"remove", "delete"},
         s.pc \in {"get", "sync", "add"} => tasks[s.key] = None,
         s.pc \in StopSteps => tasks[s.key] = s.registration,
         s.pc \in {"sync", "add"} /\ Active /\ Watched => s.informer = tracked[s.key.gvk],
         Active /\ Getting(w) /\ worker[w].informer = tracked[worker[w].key.gvk] =>
           /\ s.pc \in {"sync", "add"} /\ s.key = worker[w].key
           /\ s.informer = worker[w].informer,
         s.pc = "detach" => ~HasSibling(s.key) /\ s.key \in Key /\ tasks[s.key] # None
  PROVE  Kept
<1>t. worker \in [Workers -> WorkerState] /\ \A k \in Key : k.gvk \in GVKs
  BY Shapes DEF ApartInv
<1>1. /\ worker'[w] = s
      /\ \A v \in Workers : v # w => worker'[v] = worker[v]
  BY <1>t
<1>2. Sequential'
  BY <1>1 DEF ApartInv, Sequential
<1>3. NoLeakedHandler'
  BY <1>1 DEF ApartInv, NoLeakedHandler
<1>4. InformersUsed'
  <2> SUFFICES ASSUME Active' PROVE InformersUsed'
    BY DEF InformersUsed
  <2>1. Active
    BY DEF Active
  <2>3. \A g \in GVKs : tracked'[g] # None =>
           \/ \E k \in Key : k.gvk = g /\ tasks'[k] # None /\ TaskInformer(k)' = tracked'[g]
           \/ \E v \in Workers : /\ Getting(v)' /\ worker'[v].key.gvk = g
                                 /\ worker'[v].informer = tracked'[g]
    <3> SUFFICES ASSUME NEW g \in GVKs, tracked[g] # None
                 PROVE  \/ \E k \in Key : k.gvk = g /\ tasks[k] # None /\ TaskInformer(k) = tracked[g]
                        \/ \E v \in Workers : /\ Getting(v)' /\ worker'[v].key.gvk = g
                                              /\ worker'[v].informer = tracked[g]
      BY DEF TaskInformer
    <3>1. \/ \E k \in Key : k.gvk = g /\ tasks[k] # None /\ TaskInformer(k) = tracked[g]
          \/ \E v \in Workers : /\ Getting(v) /\ worker[v].key.gvk = g
                                /\ worker[v].informer = tracked[g]
      BY <2>1 DEF ApartInv, InformersUsed
    <3>2. ASSUME NEW v \in Workers, Getting(v), worker[v].key.gvk = g, worker[v].informer = tracked[g]
          PROVE  Getting(v)' /\ worker'[v].key.gvk = g /\ worker'[v].informer = tracked[g]
      <4>1. CASE v = w
        BY <1>1, <2>1, <3>2, <4>1 DEF Getting
      <4>2. CASE v # w
        BY <1>1, <3>2, <4>2 DEF Getting
      <4> QED
        BY <4>1, <4>2
    <3> QED
      BY <3>1, <3>2
  <2>4. \A v \in Workers : worker'[v].pc = "store" =>
           registration[worker'[v].registration].informer = worker'[v].informer
    BY <1>1, <2>1 DEF ApartInv, InformersUsed
  <2>5. \A v \in Workers : worker'[v].pc = "delete" /\ tracked[worker'[v].key.gvk] # None =>
           tracked[worker'[v].key.gvk] # TaskInformer(worker'[v].key)
    BY <1>1, <2>1 DEF ApartInv, InformersUsed
  <2> QED
    BY <2>3, <2>4, <2>5 DEF InformersUsed, TaskInformer
<1>5. ASSUME Alone, Watched PROVE Watched'
  <2> SUFFICES ASSUME Active' PROVE Watched'
    BY DEF Watched
  <2>1. Active
    BY DEF Active
  <2>2. s.pc = "detach" => \A e \in Key : tasks[e] # None /\ e.gvk = s.key.gvk => e = s.key
    <3> SUFFICES ASSUME s.pc = "detach", NEW e \in Key, tasks[e] # None, e.gvk = s.key.gvk
                 PROVE  e = s.key
      OBVIOUS
    <3>1. s.key \in Key /\ ~HasSibling(s.key) /\ tasks[s.key] # None
      OBVIOUS
    <3>2. e.namespace = s.key.namespace
      BY <1>5, <3>1 DEF Alone, NamespacesApart
    <3>3. e.parent = s.key.parent
      BY <3>1, <3>2 DEF HasSibling
    <3> QED
      BY <3>1, <3>2, <3>3 DEF Key
  <2>3. Getting(w)' => s.informer = tracked[s.key.gvk]
    BY <1>1, <1>5, <2>1 DEF Getting
  <2>4. \A v \in Workers : Getting(v)' => worker'[v].informer = tracked[worker'[v].key.gvk]
    BY <1>1, <1>5, <2>1, <2>3 DEF Watched, Getting
  <2>5. \A v \in Workers : worker'[v].pc \in {"detach", "remove", "delete"} =>
           \A e \in Key : tasks[e] # None /\ e.gvk = worker'[v].key.gvk => e = worker'[v].key
    BY <1>1, <1>5, <2>1, <2>2 DEF Watched
  <2>6. \A k \in Key : tasks[k] # None =>
           \/ /\ tracked[k.gvk] # None /\ TaskInformer(k) = tracked[k.gvk]
              /\ registration[tasks[k]].attached
           \/ \E v \in Workers : worker'[v].pc \in {"remove", "delete"} /\ worker'[v].key = k
    BY <1>1, <1>5, <2>1 DEF Watched
  <2>7. \A v \in Workers : worker'[v].pc = "store" => registration[worker'[v].registration].attached
    BY <1>1, <1>5, <2>1 DEF Watched
  <2> QED
    BY <1>5, <2>1, <2>4, <2>5, <2>6, <2>7 DEF Watched, TaskInformer
<1> QED
  BY <1>2, <1>3, <1>4, <1>5 DEF Kept

LEMMA IdleKept ==
  ASSUME ApartInv, NEW w \in Workers,
         Finish(w), UNCHANGED <<tasks, tracked, informer, registration, phase>>,
         worker[w].pc \notin {"store", "remove", "delete"},
         ~(Active /\ Getting(w) /\ worker[w].informer = tracked[worker[w].key.gvk])
  PROVE  Kept
<1>1. /\ Idle("idle").pc = "idle" /\ "idle" \notin StopSteps
      /\ worker' = [worker EXCEPT ![w] = Idle("idle")]
  BY DEF Finish, Idle, StopSteps
<1> QED
  BY <1>1, MoveKept

LEMMA ReceiveKept ==
  ASSUME ApartInv, NEW w \in Workers, Receive(w)
  PROVE  Kept
<1>t. worker \in [Workers -> WorkerState]
  BY Shapes DEF ApartInv
<1>1. /\ worker' = [worker EXCEPT ![w] = worker'[w]]
      /\ worker'[w].pc \in {"load", "getTask", "exited"}
  BY <1>t DEF Receive, ReceiveRegister, ReceiveUnregister, Exit, Begin, Idle
<1>2. UNCHANGED <<tasks, tracked, informer, registration, phase>> /\ worker[w].pc = "idle"
  BY DEF Receive, ReceiveRegister, ReceiveUnregister, Exit, taskVars, cacheVars
<1>3. worker'[w].pc \notin StopSteps
  BY <1>1 DEF StopSteps
<1> QED
  BY <1>1, <1>2, <1>3, MoveKept DEF Getting

LEMMA RegisterMoveKept ==
  ASSUME ApartInv, NEW w \in Workers,
         \/ RegisterLoad(w) \/ GetTrackedInformer(w) \/ GetInformerFails(w)
         \/ InformerSynced(w) \/ SyncWaitCancelled(w)
  PROVE  Kept
<1>t. /\ worker \in [Workers -> WorkerState]
      /\ UNCHANGED <<tasks, tracked, informer, registration, phase>>
      /\ \A pc \in {"get", "sync", "add"} :
           pc \notin StopSteps /\ pc \notin {"store", "remove", "delete", "detach"}
  BY Shapes DEF ApartInv, RegisterLoad, GetTrackedInformer, GetInformerFails, InformerSynced,
     SyncWaitCancelled, taskVars, cacheVars, StopSteps
<1>1. ASSUME NEW pc \in {"get", "sync", "add"}, NEW i, NEW r, Move(w, pc, i, r),
             worker[w].pc \in {"load", "get", "sync"},
             tasks[worker[w].key] = None,
             pc \in {"sync", "add"} /\ Active /\ Watched => i = tracked[worker[w].key.gvk],
             worker[w].pc = "sync" => pc = "add" /\ i = worker[w].informer
      PROVE  Kept
  <2> DEFINE s == [pc |-> pc, key |-> worker[w].key, informer |-> i, registration |-> r]
  <2>1. s.pc = pc /\ s.key = worker[w].key /\ s.informer = i /\ worker' = [worker EXCEPT ![w] = s]
    BY <1>1 DEF Move
  <2> HIDE DEF s
  <2>2. Active /\ Getting(w) => /\ s.pc \in {"sync", "add"} /\ s.key = worker[w].key
                                /\ s.informer = worker[w].informer
    BY <1>1, <2>1 DEF Getting
  <2>3. s.pc \notin StopSteps /\ s.pc \notin {"store", "remove", "delete", "detach"}
    BY <1>t, <2>1
  <2> QED
    BY <1>t, <1>1, <2>1, <2>2, <2>3, MoveKept
<1>2. CASE RegisterLoad(w)
  <2>1. CASE tasks[worker[w].key] = None
    BY <1>1, <1>2, <2>1 DEF RegisterLoad, Goto
  <2>2. CASE tasks[worker[w].key] # None
    BY <1>t, <1>2, <2>2, IdleKept DEF RegisterLoad, Getting
  <2> QED
    BY <2>1, <2>2
<1>3. CASE GetTrackedInformer(w)
  <2>1. AfterGet(tracked[worker[w].key.gvk]) \in {"sync", "add"}
    BY DEF AfterGet
  <2>2. tasks[worker[w].key] = None
    BY <1>3 DEF GetTrackedInformer, ApartInv, Sequential
  <2> QED
    BY <1>1, <1>3, <2>1, <2>2 DEF GetTrackedInformer
<1>4. CASE GetInformerFails(w)
  BY <1>t, <1>4, IdleKept DEF GetInformerFails, Getting
<1>5. CASE InformerSynced(w)
  <2>1. tasks[worker[w].key] = None
    BY <1>5 DEF InformerSynced, ApartInv, Sequential
  <2>2. Active /\ Watched => worker[w].informer = tracked[worker[w].key.gvk]
    BY <1>5 DEF InformerSynced, Watched, Getting
  <2> QED
    BY <1>1, <1>5, <2>1, <2>2 DEF InformerSynced, Goto
<1>6. CASE SyncWaitCancelled(w)
  BY <1>t, <1>6, IdleKept DEF SyncWaitCancelled, Active
<1> QED
  BY <1>2, <1>3, <1>4, <1>5, <1>6

LEMMA UnregisterMoveKept ==
  ASSUME ApartInv, NEW w \in Workers, GetTask(w) \/ IsLastWatch(w)
  PROVE  Kept
<1>t. /\ worker \in [Workers -> WorkerState]
      /\ UNCHANGED <<tasks, tracked, informer, registration, phase>>
  BY Shapes DEF ApartInv, GetTask, IsLastWatch, taskVars, cacheVars
<1>1. CASE GetTask(w)
  <2>1. CASE tasks[worker[w].key] = None
    BY <1>t, <1>1, <2>1, IdleKept DEF GetTask, Getting
  <2>2. CASE tasks[worker[w].key] # None
    <3> DEFINE s == [pc |-> "range", key |-> worker[w].key, informer |-> None,
                     registration |-> tasks[worker[w].key]]
    <3>1. /\ s.pc = "range" /\ s.key = worker[w].key /\ s.registration = tasks[worker[w].key]
          /\ worker' = [worker EXCEPT ![w] = s]
          /\ worker[w].pc = "getTask"
      BY <1>1, <2>2 DEF GetTask, Move
    <3> HIDE DEF s
    <3> QED
      BY <1>t, <3>1, MoveKept DEF Getting
  <2> QED
    BY <2>1, <2>2
<1>2. CASE IsLastWatch(w)
  <2>1. CASE HasSibling(worker[w].key)
    BY <1>t, <1>2, <2>1, IdleKept DEF IsLastWatch, Getting
  <2>2. CASE ~HasSibling(worker[w].key)
    <3> DEFINE s == [pc |-> "detach", key |-> worker[w].key, informer |-> worker[w].informer,
                     registration |-> worker[w].registration]
    <3>1. /\ s.pc = "detach" /\ s.key = worker[w].key
          /\ s.registration = worker[w].registration
          /\ worker' = [worker EXCEPT ![w] = s]
          /\ worker[w].pc = "range" /\ worker[w].pc \in StopSteps
      BY <1>2, <2>2 DEF IsLastWatch, Goto, Move, StopSteps
    <3> HIDE DEF s
    <3>2. /\ worker[w].key \in Key /\ tasks[worker[w].key] = worker[w].registration
          /\ worker[w].registration # None
      BY <3>1, WorkerLocals, NoneAssumption DEF ApartInv, Sequential, UnregisterSteps
    <3> QED
      BY <1>t, <2>2, <3>1, <3>2, MoveKept DEF Getting
  <2> QED
    BY <2>1, <2>2
<1> QED
  BY <1>1, <1>2

LEMMA CreateInformerKept ==
  ASSUME KeysApart, ApartInv, NEW w \in Workers, CreateInformer(w)
  PROVE  Kept
<1> USE NoneAssumption
<1>t. TypeOK /\ Sequential /\ NoLeakedHandler /\ InformersUsed /\ CacheOK
  BY DEF ApartInv
<1>1. PICK i \in FreeInformers : CreateInformer(w)!3!(i)
  BY DEF CreateInformer
<1>2. /\ i \in Informers /\ \A g \in GVKs : tracked[g] # i
      /\ \A k \in Key : tasks[k] = None \/ TaskInformer(k) # i
  BY DEF FreeInformers
<1> DEFINE g == worker[w].key.gvk
<1>3. /\ worker[w].pc = "get" /\ worker[w].key \in Key /\ g \in GVKs /\ tracked[g] = None
      /\ tasks[worker[w].key] = None
      /\ UNCHANGED <<tasks, registration, phase>>
  BY <1>t, WorkerLocals DEF CreateInformer, RegisterSteps, taskVars, Sequential
<1>4. /\ worker'[w].pc \in {"sync", "add"} /\ worker'[w].key = worker[w].key
      /\ worker'[w].informer = i
      /\ \A v \in Workers : v # w => worker'[v] = worker[v]
  BY <1>t, <1>1, Shapes DEF Move
<1>5. /\ \A h \in GVKs : tracked'[h] = IF h = g THEN i ELSE tracked[h]
      /\ \A j \in Informers : j # i => informer'[j] = informer[j]
      /\ phase = "running" => informer'[i].state = "running"
  BY <1>t, <1>1, <1>2, <1>3, Shapes
<1> HIDE DEF g
<1>6. worker'[w].key.gvk = g
  BY <1>4 DEF g
<1>7. Sequential'
  BY <1>t, <1>3, <1>4, InOperation DEF Sequential
<1>8. NoLeakedHandler'
  BY <1>t, <1>3, <1>4 DEF NoLeakedHandler
<1>o. ASSUME NEW v \in Workers, v # w, worker[v].pc \in RegisterSteps \cup UnregisterSteps
      PROVE  /\ worker[v].key \in Key /\ worker[v].key.gvk \in GVKs
             /\ Alone => worker[v].key.gvk # g
  BY <1>t, <1>3, <1>o, WorkerLocals, Others, InOperation DEF g
<1>9. InformersUsed'
  <2> SUFFICES ASSUME Active' PROVE InformersUsed'
    BY DEF InformersUsed
  <2>1. Active
    BY <1>3 DEF Active
  <2>2. ASSUME NEW h \in GVKs, tracked'[h] # None
        PROVE  \/ \E k \in Key : k.gvk = h /\ tasks'[k] # None /\ TaskInformer(k)' = tracked'[h]
               \/ \E v \in Workers : /\ Getting(v)' /\ worker'[v].key.gvk = h
                                     /\ worker'[v].informer = tracked'[h]
    <3>1. CASE h = g
      BY <1>3, <1>4, <1>5, <1>6, <3>1 DEF Getting
    <3>2. CASE h # g
      <4>1. tracked'[h] = tracked[h] /\ ~Getting(w)
        BY <1>3, <1>5, <3>2 DEF Getting
      <4>2. CASE \E k \in Key : k.gvk = h /\ tasks[k] # None /\ TaskInformer(k) = tracked[h]
        BY <1>3, <4>1, <4>2 DEF TaskInformer
      <4>3. CASE \E v \in Workers : /\ Getting(v) /\ worker[v].key.gvk = h
                                    /\ worker[v].informer = tracked[h]
        BY <1>4, <4>1, <4>3 DEF Getting
      <4> QED
        BY <1>t, <2>1, <2>2, <4>1, <4>2, <4>3 DEF InformersUsed
    <3> QED
      BY <3>1, <3>2
  <2>3. \A v \in Workers : worker'[v].pc = "store" =>
           registration'[worker'[v].registration].informer = worker'[v].informer
    BY <1>t, <1>3, <1>4, <2>1 DEF InformersUsed
  <2>4. ASSUME NEW v \in Workers, worker'[v].pc = "delete", tracked'[worker'[v].key.gvk] # None
        PROVE  tracked'[worker'[v].key.gvk] # TaskInformer(worker[v].key)
    <3>1. v # w /\ worker'[v] = worker[v]
      BY <1>4, <2>4
    <3>2. /\ worker[v].key \in Key /\ worker[v].key.gvk \in GVKs
          /\ tasks[worker[v].key] # None
      BY <1>t, <2>4, <3>1, WorkerLocals, InOperation DEF Sequential
    <3> QED
      BY <1>t, <1>2, <1>5, <2>1, <2>4, <3>1, <3>2 DEF InformersUsed
  <2>5. \A v \in Workers : worker'[v].pc = "delete" =>
          TaskInformer(worker[v].key)' = TaskInformer(worker[v].key) /\ worker'[v] = worker[v]
    BY <1>3, <1>4 DEF TaskInformer
  <2> QED
    BY <1>3, <1>4, <2>2, <2>3, <2>4 DEF InformersUsed, TaskInformer
<1>10. ASSUME Alone, Watched PROVE Watched'
  <2> SUFFICES ASSUME Active' PROVE Watched'
    BY DEF Watched
  <2>1. Active
    BY <1>3 DEF Active
  <2>2. ASSUME NEW h \in GVKs, tracked'[h] # None, phase' = "running"
        PROVE  informer'[tracked'[h]].state = "running"
    BY <1>t, <1>2, <1>3, <1>5, <1>10, <2>1, <2>2, Shapes DEF Watched
  <2>3. ASSUME NEW k \in Key, tasks'[k] # None
        PROVE  \/ /\ tracked'[k.gvk] # None /\ TaskInformer(k)' = tracked'[k.gvk]
                  /\ registration'[tasks'[k]].attached
               \/ \E v \in Workers : worker'[v].pc \in {"remove", "delete"} /\ worker'[v].key = k
    <3>1. CASE /\ tracked[k.gvk] # None /\ TaskInformer(k) = tracked[k.gvk]
               /\ registration[tasks[k]].attached
      <4>1. k.gvk \in GVKs /\ k.gvk # g
        BY <1>3, <3>1, KeyGVK
      <4> QED
        BY <1>3, <1>5, <3>1, <4>1 DEF TaskInformer
    <3>2. CASE \E v \in Workers : worker[v].pc \in {"remove", "delete"} /\ worker[v].key = k
      BY <1>3, <1>4, <3>2
    <3> QED
      BY <1>3, <1>10, <2>1, <2>3, <3>1, <3>2 DEF Watched
  <2>4. ASSUME NEW v \in Workers, Getting(v)'
        PROVE  worker'[v].informer = tracked'[worker'[v].key.gvk]
    <3>1. CASE v = w
      BY <1>3, <1>4, <1>5, <1>6, <3>1
    <3>2. CASE v # w
      BY <1>4, <1>5, <1>o, <1>10, <2>1, <2>4, <3>2, InOperation DEF Watched, Getting
    <3> QED
      BY <3>1, <3>2
  <2>5. \A v \in Workers : worker'[v].pc \in {"detach", "remove", "delete"} =>
           \A e \in Key : tasks'[e] # None /\ e.gvk = worker'[v].key.gvk => e = worker'[v].key
    BY <1>3, <1>4, <1>10, <2>1 DEF Watched
  <2>6. \A v \in Workers : worker'[v].pc = "store" => registration'[worker'[v].registration].attached
    BY <1>3, <1>4, <1>10, <2>1 DEF Watched
  <2> QED
    BY <2>2, <2>3, <2>4, <2>5, <2>6 DEF Watched
<1> QED
  BY <1>7, <1>8, <1>9, <1>10 DEF Kept

LEMMA AddEventHandlerKept ==
  ASSUME KeysApart, ApartInv, NEW w \in Workers, AddEventHandler(w)
  PROVE  Kept
<1> USE NoneAssumption
<1>t. TypeOK /\ Distinct /\ Sequential /\ NoLeakedHandler /\ InformersUsed /\ CacheOK
  BY DEF ApartInv
<1>1. /\ worker[w].pc = "add" /\ worker[w].key \in Key /\ worker[w].key.gvk \in GVKs
      /\ worker[w].informer \in Informers
      /\ tasks[worker[w].key] = None
      /\ UNCHANGED <<tasks, tracked, informer, phase>>
  BY <1>t, WorkerLocals DEF AddEventHandler, RegisterSteps, taskVars, Sequential
<1>3. CASE informer[worker[w].informer].state = "stopped"
  <2>1. ~(Active /\ worker[w].informer = tracked[worker[w].key.gvk])
    BY <1>t, <1>1, <1>3 DEF CacheOK, Active
  <2> QED
    BY <1>1, <1>3, <2>1, IdleKept DEF AddEventHandler
<1>4. CASE informer[worker[w].informer].state # "stopped"
  <2>1. PICK r \in FreeRegistrations :
          /\ registration' = [registration EXCEPT ![r] =
               [informer |-> worker[w].informer, attached |-> TRUE, synced |-> FALSE]]
          /\ Move(w, "store", worker[w].informer, r)
    BY <1>4 DEF AddEventHandler
  <2>2. /\ r \in Registrations /\ \A k \in Key : tasks[k] # r
        /\ \A v \in Workers : worker[v].registration # r
    BY DEF FreeRegistrations
  <2>3. /\ worker'[w].pc = "store" /\ worker'[w].key = worker[w].key
        /\ worker'[w].informer = worker[w].informer /\ worker'[w].registration = r
        /\ \A v \in Workers : v # w => worker'[v] = worker[v]
    BY <1>t, <2>1, Shapes DEF Move
  <2>4. /\ registration'[r].informer = worker[w].informer /\ registration'[r].attached
        /\ \A q \in Registrations : q # r => registration'[q] = registration[q]
        /\ \A v \in Workers : v # w /\ worker[v].pc \in {"store"} \cup StopSteps =>
             registration'[worker[v].registration] = registration[worker[v].registration]
    BY <1>t, <2>1, <2>2, Shapes
  <2>5. Sequential'
    BY <1>t, <1>1, <2>3, <2>4, InOperation DEF Sequential
  <2>6. NoLeakedHandler'
    BY <1>t, <1>1, <2>3, <2>4 DEF NoLeakedHandler
  <2>7. \A k \in Key : tasks[k] # None =>
          registration'[tasks'[k]] = registration[tasks[k]] /\ TaskInformer(k)' = TaskInformer(k)
    BY <1>t, <1>1, <2>2, <2>4, Shapes DEF TaskInformer
  <2>8. InformersUsed'
    <3> SUFFICES ASSUME Active' PROVE InformersUsed'
      BY DEF InformersUsed
    <3>1. Active
      BY <1>1 DEF Active
    <3>2. \A v \in Workers : Getting(v) => /\ Getting(v)' /\ worker'[v].key = worker[v].key
                                           /\ worker'[v].informer = worker[v].informer
      BY <1>1, <2>3 DEF Getting
    <3>3. \A g \in GVKs : tracked'[g] # None =>
           \/ \E k \in Key : k.gvk = g /\ tasks'[k] # None /\ TaskInformer(k)' = tracked'[g]
           \/ \E v \in Workers : /\ Getting(v)' /\ worker'[v].key.gvk = g
                                 /\ worker'[v].informer = tracked'[g]
      BY <1>t, <1>1, <2>7, <3>1, <3>2 DEF InformersUsed
    <3>4. \A v \in Workers : worker'[v].pc = "store" =>
           registration'[worker'[v].registration].informer = worker'[v].informer
      BY <1>t, <2>3, <2>4, <3>1 DEF InformersUsed
    <3>5. ASSUME NEW v \in Workers, worker'[v].pc = "delete", tracked'[worker'[v].key.gvk] # None
          PROVE  tracked'[worker'[v].key.gvk] # registration'[tasks'[worker'[v].key]].informer
      <4>1. v # w /\ worker'[v] = worker[v]
        BY <2>3, <3>5
      <4>2. worker[v].key \in Key /\ tasks[worker[v].key] # None
        BY <1>t, <3>5, <4>1, WorkerLocals, InOperation DEF Sequential
      <4> QED
        BY <1>t, <1>1, <2>7, <3>1, <3>5, <4>1, <4>2 DEF InformersUsed, TaskInformer
    <3> QED
      BY <3>3, <3>4, <3>5 DEF InformersUsed, TaskInformer
  <2>9. ASSUME Alone, Watched PROVE Watched'
    <3> SUFFICES ASSUME Active' PROVE Watched'
      BY DEF Watched
    <3>1. Active
      BY <1>1 DEF Active
    <3>2. \A v \in Workers : Getting(v)' => worker'[v].informer = tracked'[worker'[v].key.gvk]
      BY <1>1, <2>3, <2>9, <3>1 DEF Watched, Getting
    <3>3. \A v \in Workers : worker'[v].pc = "store" =>
            registration'[worker'[v].registration].attached
      BY <2>3, <2>4, <2>9, <3>1 DEF Watched
    <3>4. \A k \in Key : tasks'[k] # None =>
           \/ /\ tracked'[k.gvk] # None /\ TaskInformer(k)' = tracked'[k.gvk]
              /\ registration'[tasks'[k]].attached
           \/ \E v \in Workers : worker'[v].pc \in {"remove", "delete"} /\ worker'[v].key = k
      BY <1>1, <2>3, <2>7, <2>9, <3>1 DEF Watched
    <3>5. \A v \in Workers : worker'[v].pc \in {"detach", "remove", "delete"} =>
           \A e \in Key : tasks'[e] # None /\ e.gvk = worker'[v].key.gvk => e = worker'[v].key
      BY <1>1, <2>3, <2>9, <3>1 DEF Watched
    <3> QED
      BY <1>1, <2>9, <3>1, <3>2, <3>3, <3>4, <3>5 DEF Watched
  <2> QED
    BY <2>5, <2>6, <2>8, <2>9 DEF Kept
<1> QED
  BY <1>3, <1>4

LEMMA StoreKept ==
  ASSUME KeysApart, ApartInv, NEW w \in Workers, Store(w)
  PROVE  Kept
<1> USE NoneAssumption
<1>t. TypeOK /\ Sequential /\ NoLeakedHandler /\ InformersUsed /\ CacheOK
  BY DEF ApartInv
<1>1. /\ worker[w].pc = "store" /\ worker[w].key \in Key /\ worker[w].key.gvk \in GVKs
      /\ worker[w].informer \in Informers /\ worker[w].registration \in Registrations
      /\ tasks[worker[w].key] = None
      /\ UNCHANGED <<tracked, informer, registration, phase>>
  BY <1>t, WorkerLocals DEF Store, RegisterSteps, cacheVars, Sequential
<1>2. worker'[w].pc = "idle" /\ \A v \in Workers : v # w => worker'[v] = worker[v]
  BY <1>t, Shapes DEF Store, Finish, Idle
<1>3. \A k \in Key : tasks'[k] = IF k = worker[w].key THEN worker[w].registration ELSE tasks[k]
  BY <1>t, Shapes DEF Store
<1>o. ASSUME NEW v \in Workers, v # w, worker[v].pc \in RegisterSteps \cup UnregisterSteps
      PROVE  /\ worker[v].key \in Key /\ tasks'[worker[v].key] = tasks[worker[v].key]
             /\ Alone => worker[v].key.gvk # worker[w].key.gvk
  BY <1>t, <1>1, <1>3, <1>o, WorkerLocals, Others, InOperation
<1>4. Sequential'
  BY <1>t, <1>1, <1>2, <1>o, InOperation DEF Sequential
<1>5. NoLeakedHandler'
  BY <1>t, <1>1, <1>2, <1>3 DEF NoLeakedHandler
<1>6. InformersUsed'
  <2> SUFFICES ASSUME Active' PROVE InformersUsed'
    BY DEF InformersUsed
  <2>1. Active
    BY <1>1 DEF Active
  <2>2. PICK key \in Key : key = worker[w].key
    BY <1>1
  <2>3. TaskInformer(key)' = worker[w].informer /\ tasks'[key] # None
    BY <1>t, <1>1, <1>3, <2>1, <2>2 DEF InformersUsed, TaskInformer
  <2>4. ASSUME NEW g \in GVKs, tracked'[g] # None
        PROVE  \/ \E k \in Key : k.gvk = g /\ tasks'[k] # None /\ TaskInformer(k)' = tracked'[g]
               \/ \E v \in Workers : /\ Getting(v)' /\ worker'[v].key.gvk = g
                                     /\ worker'[v].informer = tracked'[g]
    <3>1. ASSUME NEW k \in Key, k.gvk = g, tasks[k] # None, TaskInformer(k) = tracked[g]
          PROVE  tasks'[k] # None /\ TaskInformer(k)' = tracked'[g]
      BY <1>1, <1>3, <3>1 DEF TaskInformer
    <3>2. ASSUME NEW v \in Workers, Getting(v), worker[v].key.gvk = g, worker[v].informer = tracked[g]
          PROVE  \/ \E k \in Key : k.gvk = g /\ tasks'[k] # None /\ TaskInformer(k)' = tracked'[g]
                 \/ Getting(v)' /\ worker'[v].key.gvk = g /\ worker'[v].informer = tracked'[g]
      BY <1>1, <1>2, <2>2, <2>3, <3>2 DEF Getting
    <3> QED
      BY <1>1, <1>t, <2>1, <2>4, <3>1, <3>2 DEF InformersUsed
  <2>5. \A v \in Workers : worker'[v].pc = "store" =>
           registration'[worker'[v].registration].informer = worker'[v].informer
    BY <1>t, <1>1, <1>2, <2>1 DEF InformersUsed
  <2>6. ASSUME NEW v \in Workers, worker'[v].pc = "delete", tracked'[worker'[v].key.gvk] # None
        PROVE  tracked'[worker'[v].key.gvk] # registration'[tasks'[worker'[v].key]].informer
    <3>1. v # w /\ worker'[v] = worker[v]
      BY <1>2, <2>6
    <3>2. worker[v].key \in Key /\ tasks'[worker[v].key] = tasks[worker[v].key]
      BY <1>o, <2>6, <3>1, InOperation
    <3> QED
      BY <1>t, <1>1, <2>1, <2>6, <3>1, <3>2 DEF InformersUsed, TaskInformer
  <2> QED
    BY <2>4, <2>5, <2>6 DEF InformersUsed, TaskInformer
<1>7. ASSUME Alone, Watched PROVE Watched'
  <2> SUFFICES ASSUME Active' PROVE Watched'
    BY DEF Watched
  <2>1. Active
    BY <1>1 DEF Active
  <2>2. PICK key \in Key : key = worker[w].key
    BY <1>1
  <2>3. ASSUME NEW k \in Key, tasks'[k] # None
        PROVE  \/ /\ tracked'[k.gvk] # None /\ TaskInformer(k)' = tracked'[k.gvk]
                  /\ registration'[tasks'[k]].attached
               \/ \E v \in Workers : worker'[v].pc \in {"remove", "delete"} /\ worker'[v].key = k
    <3>1. CASE k = key
      BY <1>t, <1>1, <1>3, <1>7, <2>1, <2>2, <3>1 DEF Watched, InformersUsed, Getting, TaskInformer
    <3>2. CASE k # key
      <4>1. /\ tasks'[k] = tasks[k] /\ TaskInformer(k)' = TaskInformer(k)
            /\ \/ tracked[k.gvk] # None /\ TaskInformer(k) = tracked[k.gvk]
                  /\ registration[tasks[k]].attached
               \/ \E v \in Workers : worker[v].pc \in {"remove", "delete"} /\ worker[v].key = k
        BY <1>1, <1>3, <1>7, <2>1, <2>2, <2>3, <3>2 DEF Watched, TaskInformer
      <4> QED
        BY <1>1, <1>2, <4>1
    <3> QED
      BY <3>1, <3>2
  <2>4. ASSUME NEW v \in Workers, worker'[v].pc \in {"detach", "remove", "delete"},
               NEW e \in Key, tasks'[e] # None, e.gvk = worker'[v].key.gvk
        PROVE  e = worker'[v].key
    <3>1. v # w /\ worker'[v] = worker[v]
      BY <1>2, <2>4
    <3>2. worker[v].key.gvk # worker[w].key.gvk
      BY <1>7, <1>o, <2>4, <3>1, InOperation
    <3>3. tasks[e] # None
      BY <1>3, <2>4, <3>1, <3>2
    <3> QED
      BY <1>7, <2>1, <2>4, <3>1, <3>3 DEF Watched
  <2>5. /\ \A v \in Workers : Getting(v)' => worker'[v].informer = tracked'[worker'[v].key.gvk]
        /\ \A v \in Workers : worker'[v].pc = "store" => registration'[worker'[v].registration].attached
    BY <1>1, <1>2, <1>7, <2>1 DEF Watched, Getting
  <2> QED
    BY <1>1, <1>7, <2>1, <2>3, <2>4, <2>5 DEF Watched
<1> QED
  BY <1>4, <1>5, <1>6, <1>7 DEF Kept

LEMMA RemoveEventHandlerKept ==
  ASSUME ApartInv, NEW w \in Workers, RemoveEventHandler(w)
  PROVE  Kept
<1> USE NoneAssumption
<1>t. TypeOK /\ Distinct /\ Sequential /\ NoLeakedHandler /\ InformersUsed /\ CacheOK
  BY DEF ApartInv
<1>1. /\ worker[w].pc = "detach" /\ worker[w].key \in Key
      /\ worker[w].registration \in Registrations
      /\ tasks[worker[w].key] = worker[w].registration
      /\ UNCHANGED <<tasks, tracked, informer, phase>>
  BY <1>t, WorkerLocals DEF RemoveEventHandler, UnregisterSteps, StopSteps, taskVars, Sequential
<1>2. /\ worker'[w].pc = "remove" /\ worker'[w].key = worker[w].key
      /\ worker'[w].registration = worker[w].registration
      /\ \A v \in Workers : v # w => worker'[v] = worker[v]
  BY <1>t, Shapes DEF RemoveEventHandler, Goto, Move
<1>3. /\ \A q \in Registrations : registration'[q].informer = registration[q].informer
      /\ \A q \in Registrations : registration'[q].attached => registration[q].attached
      /\ ~registration'[worker[w].registration].attached
      /\ \A q \in Registrations : q # worker[w].registration => registration'[q] = registration[q]
  BY <1>t, <1>1, Shapes DEF RemoveEventHandler
<1>r. \A v \in Workers : worker[v].pc \in {"store"} \cup StopSteps =>
        worker[v].registration \in Registrations
  BY <1>t DEF TypeOK, WorkerState, LocalsOK
<1>4. Sequential'
  BY <1>t, <1>1, <1>2, <1>3, <1>r, InOperation DEF Sequential
<1>5. NoLeakedHandler'
  BY <1>t, <1>1, <1>2, <1>3 DEF NoLeakedHandler
<1>6. \A k \in Key : tasks[k] # None => TaskInformer(k)' = TaskInformer(k)
  BY <1>t, <1>1, <1>3, Shapes DEF TaskInformer
<1>g. \A v \in Workers : Getting(v) => Getting(v)' /\ worker'[v] = worker[v]
  BY <1>1, <1>2 DEF Getting
<1>7. InformersUsed'
  <2> SUFFICES ASSUME Active' PROVE InformersUsed'
    BY DEF InformersUsed
  <2>1. Active
    BY <1>1 DEF Active
  <2>2. \A g \in GVKs : tracked'[g] # None =>
           \/ \E k \in Key : k.gvk = g /\ tasks'[k] # None /\ TaskInformer(k)' = tracked'[g]
           \/ \E v \in Workers : /\ Getting(v)' /\ worker'[v].key.gvk = g
                                 /\ worker'[v].informer = tracked'[g]
    BY <1>t, <1>1, <1>6, <1>g, <2>1 DEF InformersUsed
  <2>3. \A v \in Workers : worker'[v].pc = "store" =>
           registration'[worker'[v].registration].informer = worker'[v].informer
    BY <1>t, <1>1, <1>2, <1>3, <1>r, <2>1 DEF InformersUsed
  <2>4. ASSUME NEW v \in Workers, worker'[v].pc = "delete", tracked'[worker'[v].key.gvk] # None
        PROVE  tracked'[worker'[v].key.gvk] # registration'[tasks'[worker'[v].key]].informer
    <3>1. v # w /\ worker'[v] = worker[v]
      BY <1>2, <2>4
    <3>2. worker[v].key \in Key /\ tasks[worker[v].key] \in Registrations
      BY <1>t, <1>r, <2>4, <3>1, WorkerLocals, InOperation DEF Sequential
    <3> QED
      BY <1>t, <1>1, <1>3, <2>1, <2>4, <3>1, <3>2 DEF InformersUsed, TaskInformer
  <2> QED
    BY <2>2, <2>3, <2>4 DEF InformersUsed, TaskInformer
<1>8. ASSUME Alone, Watched PROVE Watched'
  <2> SUFFICES ASSUME Active' PROVE Watched'
    BY DEF Watched
  <2>1. Active
    BY <1>1 DEF Active
  <2>2. ASSUME NEW k \in Key, tasks'[k] # None
        PROVE  \/ /\ tracked'[k.gvk] # None /\ TaskInformer(k)' = tracked'[k.gvk]
                  /\ registration'[tasks'[k]].attached
               \/ \E v \in Workers : worker'[v].pc \in {"remove", "delete"} /\ worker'[v].key = k
    <3>1. CASE k = worker[w].key
      BY <1>2, <3>1
    <3>2. CASE k # worker[w].key
      <4>1. tasks[k] \in Registrations /\ tasks[k] # worker[w].registration
        BY <1>t, <1>1, <2>2, <3>2, Shapes DEF Distinct
      <4> QED
        BY <1>t, <1>1, <1>2, <1>3, <1>6, <1>8, <2>1, <2>2, <4>1 DEF Watched
    <3> QED
      BY <3>1, <3>2
  <2>3. ASSUME NEW v \in Workers, worker'[v].pc = "store"
        PROVE  registration'[worker'[v].registration].attached
    <3>1. v # w /\ worker'[v] = worker[v] /\ worker[v].registration # worker[w].registration
      BY <1>t, <1>2, <2>3 DEF Distinct
    <3> QED
      BY <1>3, <1>8, <1>r, <2>1, <2>3, <3>1 DEF Watched
  <2>4. /\ \A v \in Workers : Getting(v)' => worker'[v].informer = tracked'[worker'[v].key.gvk]
        /\ \A v \in Workers : worker'[v].pc \in {"detach", "remove", "delete"} =>
           \A e \in Key : tasks'[e] # None /\ e.gvk = worker'[v].key.gvk => e = worker'[v].key
    BY <1>1, <1>2, <1>8, <2>1 DEF Watched, Getting
  <2> QED
    BY <1>1, <1>8, <2>1, <2>2, <2>3, <2>4 DEF Watched
<1> QED
  BY <1>4, <1>5, <1>7, <1>8 DEF Kept

LEMMA RemoveInformerKept ==
  ASSUME KeysApart, ApartInv, NEW w \in Workers, RemoveInformer(w)
  PROVE  Kept
<1> USE NoneAssumption
<1>t. TypeOK /\ Distinct /\ Sequential /\ NoLeakedHandler /\ InformersUsed /\ CacheOK
  BY DEF ApartInv
<1>1. /\ worker[w].pc = "remove" /\ worker[w].key \in Key /\ worker[w].key.gvk \in GVKs
      /\ worker[w].registration \in Registrations
      /\ tasks[worker[w].key] = worker[w].registration
      /\ ~registration[worker[w].registration].attached
      /\ UNCHANGED <<tasks, registration, phase>>
  BY <1>t, WorkerLocals DEF RemoveInformer, UnregisterSteps, StopSteps, taskVars, Sequential
<1>2. /\ worker'[w].pc = "delete" /\ worker'[w].key = worker[w].key
      /\ worker'[w].registration = worker[w].registration
      /\ \A v \in Workers : v # w => worker'[v] = worker[v]
  BY <1>t, Shapes DEF RemoveInformer, Goto, Move
<1> DEFINE g == worker[w].key.gvk
<1>3. /\ \A h \in GVKs : tracked'[h] = IF h = g THEN None ELSE tracked[h]
      /\ \A j \in Informers : j # tracked[g] => informer'[j] = informer[j]
  BY <1>t, <1>1, Shapes DEF RemoveInformer
<1>o. ASSUME NEW v \in Workers, v # w, worker[v].pc \in RegisterSteps \cup UnregisterSteps
      PROVE  /\ worker[v].key \in Key /\ worker[v].key.gvk \in GVKs
             /\ Alone => worker[v].key.gvk # g
  BY <1>t, <1>1, <1>o, WorkerLocals, Others, InOperation
<1> HIDE DEF g
<1>g. g \in GVKs /\ worker'[w].key.gvk = g /\ worker[w].key.gvk = g
  BY <1>1, <1>2 DEF g
<1>4. Sequential'
  BY <1>t, <1>1, <1>2, InOperation DEF Sequential
<1>5. NoLeakedHandler'
  BY <1>t, <1>1, <1>2 DEF NoLeakedHandler
<1>7. InformersUsed'
  <2> SUFFICES ASSUME Active' PROVE InformersUsed'
    BY DEF InformersUsed
  <2>1. Active
    BY <1>1 DEF Active
  <2>2. \A h \in GVKs : tracked'[h] # None =>
           \/ \E k \in Key : k.gvk = h /\ tasks'[k] # None /\ TaskInformer(k)' = tracked'[h]
           \/ \E v \in Workers : /\ Getting(v)' /\ worker'[v].key.gvk = h
                                 /\ worker'[v].informer = tracked'[h]
    BY <1>t, <1>1, <1>2, <1>3, <2>1 DEF InformersUsed, Getting, TaskInformer
  <2>3. \A v \in Workers : worker'[v].pc = "store" =>
           registration'[worker'[v].registration].informer = worker'[v].informer
    BY <1>t, <1>1, <1>2, <2>1 DEF InformersUsed
  <2>4. ASSUME NEW v \in Workers, worker'[v].pc = "delete", tracked'[worker'[v].key.gvk] # None
        PROVE  tracked'[worker'[v].key.gvk] # registration'[tasks'[worker'[v].key]].informer
    <3>1. v # w
      BY <1>3, <1>g, <2>4
    <3>2. worker'[v] = worker[v] /\ worker[v].key.gvk \in GVKs
      BY <1>2, <1>o, <2>4, <3>1, InOperation
    <3> QED
      BY <1>t, <1>1, <1>3, <2>1, <2>4, <3>1, <3>2 DEF InformersUsed, TaskInformer
  <2> QED
    BY <2>2, <2>3, <2>4 DEF InformersUsed, TaskInformer
<1>8. ASSUME Alone, Watched PROVE Watched'
  <2> SUFFICES ASSUME Active' PROVE Watched'
    BY DEF Watched
  <2>1. Active
    BY <1>1 DEF Active
  <2>2. ASSUME NEW k \in Key, tasks'[k] # None
        PROVE  \/ /\ tracked'[k.gvk] # None /\ TaskInformer(k)' = tracked'[k.gvk]
                  /\ registration'[tasks'[k]].attached
               \/ \E v \in Workers : worker'[v].pc \in {"remove", "delete"} /\ worker'[v].key = k
    <3>1. CASE k = worker[w].key
      BY <1>2, <3>1
    <3>2. CASE k # worker[w].key
      <4>1. k.gvk # g /\ k.gvk \in GVKs
        BY <1>t, <1>1, <1>8, <1>g, <2>1, <2>2, <3>2, KeyGVK DEF Watched
      <4> QED
        BY <1>t, <1>1, <1>2, <1>3, <1>8, <2>1, <2>2, <4>1 DEF Watched, TaskInformer
    <3> QED
      BY <3>1, <3>2
  <2>3. ASSUME NEW h \in GVKs, tracked'[h] # None, phase' = "running"
        PROVE  informer'[tracked'[h]].state = "running"
    <3>1. h # g /\ tracked'[h] = tracked[h] /\ tracked[h] \in Informers
      BY <1>t, <1>3, <1>g, <2>3, Shapes
    <3>2. tracked[h] # tracked[g]
      BY <1>t, <1>g, <2>3, <3>1 DEF CacheOK
    <3> QED
      BY <1>1, <1>3, <1>8, <2>1, <2>3, <3>1, <3>2 DEF Watched
  <2>4. ASSUME NEW v \in Workers, Getting(v)'
        PROVE  worker'[v].informer = tracked'[worker'[v].key.gvk]
    <3>1. v # w /\ worker'[v] = worker[v] /\ Getting(v)
      BY <1>2, <2>4 DEF Getting
    <3>2. worker[v].key.gvk \in GVKs /\ worker[v].key.gvk # g
      BY <1>8, <1>o, <3>1, InOperation DEF Getting
    <3> QED
      BY <1>3, <1>8, <2>1, <3>1, <3>2 DEF Watched
  <2>5. /\ \A v \in Workers : worker'[v].pc = "store" => registration'[worker'[v].registration].attached
        /\ \A v \in Workers : worker'[v].pc \in {"detach", "remove", "delete"} =>
           \A e \in Key : tasks'[e] # None /\ e.gvk = worker'[v].key.gvk => e = worker'[v].key
    BY <1>1, <1>2, <1>8, <2>1 DEF Watched
  <2> QED
    BY <2>2, <2>3, <2>4, <2>5 DEF Watched
<1> QED
  BY <1>4, <1>5, <1>7, <1>8 DEF Kept

LEMMA DeleteKept ==
  ASSUME KeysApart, ApartInv, NEW w \in Workers, Delete(w)
  PROVE  Kept
<1> USE NoneAssumption
<1>t. TypeOK /\ Distinct /\ Sequential /\ NoLeakedHandler /\ InformersUsed /\ CacheOK
  BY DEF ApartInv
<1>1. /\ worker[w].pc = "delete" /\ worker[w].key \in Key /\ worker[w].key.gvk \in GVKs
      /\ worker[w].registration \in Registrations
      /\ tasks[worker[w].key] = worker[w].registration
      /\ ~registration[worker[w].registration].attached
      /\ UNCHANGED <<tracked, informer, registration, phase>>
  BY <1>t, WorkerLocals DEF Delete, UnregisterSteps, StopSteps, cacheVars, Sequential
<1>2. worker'[w].pc = "idle" /\ \A v \in Workers : v # w => worker'[v] = worker[v]
  BY <1>t, Shapes DEF Delete, Finish, Idle
<1>3. \A k \in Key : tasks'[k] = IF k = worker[w].key THEN None ELSE tasks[k]
  BY <1>t, Shapes DEF Delete
<1>o. ASSUME NEW v \in Workers, v # w, worker[v].pc \in RegisterSteps \cup UnregisterSteps
      PROVE  worker[v].key \in Key /\ tasks'[worker[v].key] = tasks[worker[v].key]
  BY <1>t, <1>1, <1>3, <1>o, WorkerLocals, Others, InOperation
<1>4. Sequential'
  BY <1>t, <1>1, <1>2, <1>o, InOperation DEF Sequential
<1>5. NoLeakedHandler'
  BY <1>t, <1>1, <1>2, <1>3 DEF NoLeakedHandler
<1>6. InformersUsed'
  <2> SUFFICES ASSUME Active' PROVE InformersUsed'
    BY DEF InformersUsed
  <2>1. Active
    BY <1>1 DEF Active
  <2>2. ASSUME NEW g \in GVKs, tracked'[g] # None
        PROVE  \/ \E k \in Key : k.gvk = g /\ tasks'[k] # None /\ TaskInformer(k)' = tracked'[g]
               \/ \E v \in Workers : /\ Getting(v)' /\ worker'[v].key.gvk = g
                                     /\ worker'[v].informer = tracked'[g]
    <3>1. ASSUME NEW k \in Key, k.gvk = g, tasks[k] # None, TaskInformer(k) = tracked[g]
          PROVE  tasks'[k] # None /\ TaskInformer(k)' = tracked'[g]
      <4>1. k # worker[w].key
        BY <1>t, <1>1, <2>1, <2>2, <3>1 DEF InformersUsed
      <4> QED
        BY <1>1, <1>3, <3>1, <4>1 DEF TaskInformer
    <3>2. ASSUME NEW v \in Workers, Getting(v)
          PROVE  Getting(v)' /\ worker'[v] = worker[v]
      BY <1>1, <1>2, <3>2 DEF Getting
    <3> QED
      BY <1>t, <1>1, <2>1, <2>2, <3>1, <3>2 DEF InformersUsed
  <2>3. \A v \in Workers : worker'[v].pc = "store" =>
           registration'[worker'[v].registration].informer = worker'[v].informer
    BY <1>t, <1>1, <1>2, <2>1 DEF InformersUsed
  <2>4. ASSUME NEW v \in Workers, worker'[v].pc = "delete", tracked'[worker'[v].key.gvk] # None
        PROVE  tracked'[worker'[v].key.gvk] # registration'[tasks'[worker'[v].key]].informer
    <3>1. v # w /\ worker'[v] = worker[v]
      BY <1>2, <2>4
    <3>2. worker[v].key \in Key /\ tasks'[worker[v].key] = tasks[worker[v].key]
      BY <1>o, <2>4, <3>1, InOperation
    <3> QED
      BY <1>t, <1>1, <2>1, <2>4, <3>1, <3>2 DEF InformersUsed, TaskInformer
  <2> QED
    BY <2>2, <2>3, <2>4 DEF InformersUsed, TaskInformer
<1>7. ASSUME Alone, Watched PROVE Watched'
  <2> SUFFICES ASSUME Active' PROVE Watched'
    BY DEF Watched
  <2>1. Active
    BY <1>1 DEF Active
  <2>2. ASSUME NEW k \in Key, tasks'[k] # None
        PROVE  \/ /\ tracked'[k.gvk] # None /\ TaskInformer(k)' = tracked'[k.gvk]
                  /\ registration'[tasks'[k]].attached
               \/ \E v \in Workers : worker'[v].pc \in {"remove", "delete"} /\ worker'[v].key = k
    <3>1. k # worker[w].key /\ tasks'[k] = tasks[k] /\ TaskInformer(k)' = TaskInformer(k)
      BY <1>1, <1>3, <2>2 DEF TaskInformer
    <3> QED
      BY <1>1, <1>2, <1>7, <2>1, <2>2, <3>1 DEF Watched
  <2>3. \A v \in Workers : worker'[v].pc \in {"detach", "remove", "delete"} =>
           \A e \in Key : tasks'[e] # None /\ e.gvk = worker'[v].key.gvk => e = worker'[v].key
    BY <1>2, <1>3, <1>7, <2>1 DEF Watched
  <2>4. /\ \A v \in Workers : Getting(v)' => worker'[v].informer = tracked'[worker'[v].key.gvk]
        /\ \A v \in Workers : worker'[v].pc = "store" => registration'[worker'[v].registration].attached
    BY <1>1, <1>2, <1>7, <2>1 DEF Watched, Getting
  <2> QED
    BY <1>1, <1>7, <2>1, <2>2, <2>3, <2>4 DEF Watched
<1> QED
  BY <1>4, <1>5, <1>6, <1>7 DEF Kept

LEMMA EnvironmentKept ==
  ASSUME ApartInv, ClientGo \/ Start
  PROVE  Kept
<1> USE NoneAssumption
<1>t. /\ TypeOK /\ Distinct /\ Sequential /\ NoLeakedHandler /\ InformersUsed /\ CacheOK
  BY DEF ApartInv
<1>r. /\ \A w \in Workers : worker[w].pc \in {"store"} \cup StopSteps =>
            worker[w].registration \in Registrations
      /\ \A w \in Workers : worker[w].pc \in {"remove", "delete"} => worker[w].pc \in StopSteps
  BY <1>t DEF TypeOK, WorkerState, LocalsOK, StopSteps
<1>d. \A w \in Workers : worker[w].pc = "delete" =>
        worker[w].key \in Key /\ tasks[worker[w].key] # None
  BY <1>t, WorkerLocals, InOperation DEF Sequential
<1>g. UNCHANGED worker => \A w \in Workers : Getting(w)' = Getting(w)
  BY DEF Getting
(* What leaves the invariants about the informers in use as they are.       *)
<1>f. ASSUME UNCHANGED <<tasks, tracked, worker>>,
             Active' => Active,
             \A q \in Registrations : registration'[q].informer = registration[q].informer
      PROVE  InformersUsed'
  <2> SUFFICES ASSUME Active' PROVE InformersUsed'
    BY DEF InformersUsed
  <2>1. \A k \in Key : tasks[k] # None => TaskInformer(k)' = TaskInformer(k)
    BY <1>t, <1>f, Shapes DEF TaskInformer
  <2>2. \A w \in Workers : worker'[w].pc = "store" =>
          registration'[worker'[w].registration].informer = worker'[w].informer
    BY <1>t, <1>r, <1>f DEF InformersUsed
  <2>3. \A w \in Workers : worker'[w].pc = "delete" /\ tracked'[worker'[w].key.gvk] # None =>
          tracked'[worker'[w].key.gvk] # TaskInformer(worker[w].key)'
    BY <1>t, <1>d, <1>f, <2>1 DEF InformersUsed
  <2>4. \A g \in GVKs : tracked'[g] # None =>
          \/ \E k \in Key : k.gvk = g /\ tasks'[k] # None /\ TaskInformer(k)' = tracked'[g]
          \/ \E w \in Workers : /\ Getting(w)' /\ worker'[w].key.gvk = g
                                /\ worker'[w].informer = tracked'[g]
    BY <1>t, <1>f, <1>g, <2>1 DEF InformersUsed
  <2>5. worker' = worker
    BY <1>f
  <2> QED
    BY <2>2, <2>3, <2>4, <2>5 DEF InformersUsed, TaskInformer
(* The same for Watched: what the step has to say of the handlers and of    *)
(* the informers that the cache keeps.                                      *)
<1>w. ASSUME UNCHANGED <<tasks, tracked, worker>>, Active' => Active, Watched,
             \A q \in Registrations : registration'[q].informer = registration[q].informer,
             Active' => \A g \in GVKs : tracked[g] # None =>
               /\ phase' = "running" => informer'[tracked[g]].state = "running"
               /\ \A q \in Registrations :
                    registration[q].attached /\ registration[q].informer = tracked[g]
                      => registration'[q].attached
      PROVE  Watched'
  <2> SUFFICES ASSUME Active' PROVE Watched'
    BY DEF Watched
  <2>1. \A w \in Workers : Getting(w)' => worker'[w].informer = tracked'[worker'[w].key.gvk]
    BY <1>w, <1>g DEF Watched
  <2>2. ASSUME NEW w \in Workers, worker'[w].pc = "store"
        PROVE  registration'[worker'[w].registration].attached
    <3>1. /\ worker[w].pc = "store" /\ Getting(w) /\ worker'[w] = worker[w]
          /\ worker[w].key.gvk \in GVKs /\ worker[w].informer \in Informers
          /\ worker[w].registration \in Registrations
      BY <1>t, <1>w, <2>2, WorkerLocals, InOperation DEF Getting
    <3>2. /\ registration[worker[w].registration].informer = tracked[worker[w].key.gvk]
          /\ tracked[worker[w].key.gvk] # None
      BY <1>t, <1>w, <3>1 DEF Watched, InformersUsed
    <3> QED
      BY <1>w, <3>1, <3>2 DEF Watched
  <2>3. ASSUME NEW k \in Key, tasks'[k] # None
        PROVE  \/ /\ tracked'[k.gvk] # None /\ TaskInformer(k)' = tracked'[k.gvk]
                  /\ registration'[tasks'[k]].attached
               \/ \E w \in Workers : worker'[w].pc \in {"remove", "delete"} /\ worker'[w].key = k
    <3>1. tasks[k] \in Registrations /\ k.gvk \in GVKs /\ TaskInformer(k)' = TaskInformer(k)
      BY <1>t, <1>w, <2>3, Shapes DEF TaskInformer
    <3>2. \/ /\ tracked[k.gvk] # None /\ TaskInformer(k) = tracked[k.gvk]
             /\ registration[tasks[k]].attached
          \/ \E w \in Workers : worker[w].pc \in {"remove", "delete"} /\ worker[w].key = k
      BY <1>w, <2>3 DEF Watched
    <3> QED
      BY <1>w, <3>1, <3>2 DEF TaskInformer
  <2>4. \A w \in Workers : worker'[w].pc \in {"detach", "remove", "delete"} =>
           \A e \in Key : tasks'[e] # None /\ e.gvk = worker'[w].key.gvk => e = worker'[w].key
    BY <1>w DEF Watched
  <2>5. \A g \in GVKs : tracked'[g] # None /\ phase' = "running" =>
           informer'[tracked'[g]].state = "running"
    BY <1>w
  <2> QED
    BY <2>1, <2>2, <2>3, <2>4, <2>5 DEF Watched
<1>1. ASSUME NEW i \in Informers, SyncInformer(i) PROVE Kept
  <2>1. UNCHANGED <<tasks, tracked, registration, worker, phase>>
    BY <1>1 DEF SyncInformer, taskVars
  <2>2. \A j \in Informers : informer'[j].state = informer[j].state
    BY <1>1, <1>t, Shapes DEF SyncInformer
  <2>3. Sequential' /\ NoLeakedHandler' /\ InformersUsed'
    BY <1>t, <2>1 DEF Sequential, NoLeakedHandler, InformersUsed, Active, Getting, TaskInformer
  <2>4. ASSUME Alone, Watched PROVE Watched'
    BY <1>t, <1>w, <2>1, <2>2, <2>4, Shapes DEF Watched, Active
  <2> QED
    BY <2>3, <2>4 DEF Kept
<1>2. ASSUME NEW r \in Registrations, SyncRegistration(r) PROVE Kept
  <2>1. UNCHANGED <<tasks, tracked, informer, worker, phase>>
    BY <1>2 DEF SyncRegistration, taskVars
  <2>2. \A q \in Registrations : /\ registration'[q].attached = registration[q].attached
                                 /\ registration'[q].informer = registration[q].informer
    BY <1>2, <1>t, Shapes DEF SyncRegistration
  <2>3. Sequential' /\ NoLeakedHandler'
    BY <1>t, <1>r, <2>1, <2>2 DEF Sequential, NoLeakedHandler
  <2>4. InformersUsed'
    BY <1>f, <2>1, <2>2 DEF Active
  <2>5. ASSUME Alone, Watched PROVE Watched'
    BY <1>w, <2>1, <2>2, <2>5 DEF Watched, Active
  <2> QED
    BY <2>3, <2>4, <2>5 DEF Kept
<1>3. ASSUME NEW i \in Informers, StopInformer(i) PROVE Kept
  <2>1. UNCHANGED <<tasks, tracked, worker, phase>>
    BY <1>3 DEF StopInformer, taskVars
  <2>2. \A q \in Registrations : /\ registration'[q].attached => registration[q].attached
                                 /\ registration'[q].informer = registration[q].informer
                                 /\ registration[q].informer # i => registration'[q] = registration[q]
    BY <1>3, <1>t, Shapes DEF StopInformer
  <2>3. /\ Active => \A g \in GVKs : tracked[g] # i
        /\ \A j \in Informers : j # i => informer'[j] = informer[j]
    BY <1>3, <1>t, Shapes DEF StopInformer, CacheOK, Active
  <2>4. Sequential' /\ NoLeakedHandler'
    BY <1>t, <1>r, <2>1, <2>2 DEF Sequential, NoLeakedHandler
  <2>5. InformersUsed'
    BY <1>f, <2>1, <2>2 DEF Active
  <2>6. ASSUME Alone, Watched PROVE Watched'
    <3>1. Active' => \A g \in GVKs : tracked[g] # None =>
            /\ phase' = "running" => informer'[tracked[g]].state = "running"
            /\ \A q \in Registrations :
                 registration[q].attached /\ registration[q].informer = tracked[g]
                   => registration'[q].attached
      BY <1>t, <2>1, <2>2, <2>3, <2>6, Shapes DEF Watched, Active
    <3> QED
      BY <1>w, <2>1, <2>2, <2>6, <3>1 DEF Active
  <2> QED
    BY <2>4, <2>5, <2>6 DEF Kept
<1>4. CASE StartCache
  <2>1. UNCHANGED <<tasks, tracked, registration, worker>> /\ Active
    BY <1>4 DEF StartCache, taskVars, Active
  <2>2. \A g \in GVKs : tracked[g] # None => informer'[tracked[g]].state = "running"
    BY <1>4, <1>t, Shapes DEF StartCache
  <2>3. Sequential' /\ NoLeakedHandler' /\ InformersUsed'
    BY <1>t, <2>1 DEF Sequential, NoLeakedHandler, InformersUsed, Getting, TaskInformer
  <2>4. ASSUME Alone, Watched PROVE Watched'
    BY <1>w, <2>1, <2>2, <2>4
  <2> QED
    BY <2>3, <2>4 DEF Kept
<1>5. CASE Cancel
  <2>1. UNCHANGED <<tasks, tracked, registration, worker>> /\ ~Active'
    BY <1>5 DEF Cancel, taskVars, cacheVars, Active
  <2> QED
    BY <1>t, <2>1 DEF Sequential, NoLeakedHandler, InformersUsed, Watched, Kept
<1>6. CASE GracefulShutdown
  <2>1. UNCHANGED worker /\ ~Active' /\ \A w \in Workers : worker[w].pc = "exited"
    BY <1>6 DEF GracefulShutdown, Active
  <2>2. Sequential'
    BY <2>1 DEF Sequential, StopSteps
  <2>3. ASSUME NEW r \in Registrations, registration'[r].attached
        PROVE  \E k \in Key : tasks'[k] = r
    <3>1. /\ registration[r].attached
          /\ \A k \in Key : tasks[k] = r => tasks'[k] = r
      BY <1>6, <1>t, <2>3, Shapes DEF GracefulShutdown
    <3>2. PICK k \in Key : tasks[k] = r
      BY <1>t, <2>1, <3>1 DEF NoLeakedHandler
    <3> QED
      BY <3>1, <3>2
  <2>4. NoLeakedHandler'
    BY <2>3 DEF NoLeakedHandler
  <2> QED
    BY <2>1, <2>2, <2>4 DEF InformersUsed, Watched, Kept
<1> QED
  BY <1>1, <1>2, <1>3, <1>4, <1>5, <1>6 DEF ClientGo, Start

LEMMA NextKept == ASSUME KeysApart, ApartInv, [Next]_vars PROVE Kept
<1>1. CASE Send \/ UNCHANGED vars
  BY <1>1, FrameKept DEF Send, SendRegister, SendUnregister, vars, taskVars, cacheVars
<1>2. ASSUME NEW w \in Workers, work(w) PROVE Kept
  BY <1>2, ReceiveKept, RegisterMoveKept, UnregisterMoveKept, CreateInformerKept,
     AddEventHandlerKept, StoreKept, RemoveEventHandlerKept, RemoveInformerKept, DeleteKept
     DEF work, Register, Unregister
<1> QED
  BY <1>1, <1>2, EnvironmentKept DEF Next, System

LEMMA ApartInit == Init => ApartInv /\ Watched
<1> SUFFICES ASSUME Init PROVE ApartInv /\ Watched
  OBVIOUS
<1>1. TypeOK /\ Distinct /\ CacheOK
  BY TypeInit DEF Init, Idle, Distinct, CacheOK, StopSteps
<1>2. Sequential /\ NoLeakedHandler /\ InformersUsed /\ Watched
  BY DEF Init, Idle, Sequential, NoLeakedHandler, InformersUsed, Watched, Getting, StopSteps
<1> QED
  BY <1>1, <1>2 DEF ApartInv

LEMMA ApartNext == KeysApart /\ ApartInv /\ [Next]_vars => ApartInv'
BY NextKept, TypeNext, DistinctNext, CacheNext DEF ApartInv, Kept

(* Any number of workers, and any number of namespaces: as long as no two   *)
(* workers are on one key at a time, every handler that an informer calls   *)
(* is that of a task, so that Unregister finds it, or about to be, whatever *)
(* is registered, unregistered, cancelled and stopped at the same time      *)
(* under other keys.  In other words only Register and Unregister meeting   *)
(* on one key leak a handler.                                               *)
THEOREM HandlersBelongToTasks == Spec /\ []KeysApart => []NoLeakedHandler
<1>1. ApartInv => NoLeakedHandler
  BY DEF ApartInv
<1> QED
  BY <1>1, ApartInit, ApartNext, PTL DEF Spec

(* Under the same condition no watch connection is kept for which there is  *)
(* no task, also when another worker removes the informer of the GVK while  *)
(* a worker waits for its sync or adds its handler.                         *)
THEOREM InformersHaveTasks == Spec /\ []KeysApart => []NoIdleInformer
<1>1. ApartInv => NoIdleInformer
  <2> SUFFICES ASSUME ApartInv, phase = "running", AllIdle,
                      NEW g \in GVKs, tracked[g] # None
               PROVE  \E k \in Key : tasks[k] # None /\ TaskInformer(k) = tracked[g]
    BY DEF NoIdleInformer
  <2>1. \A w \in Workers : ~Getting(w)
    BY DEF AllIdle, Getting
  <2> QED
    BY <2>1 DEF ApartInv, InformersUsed, Active
<1> QED
  BY <1>1, ApartInit, ApartNext, PTL DEF Spec

LEMMA AloneApart == GVKsApart => KeysApart
BY DEF GVKsApart, KeysApart

(* Any number of workers: as long as no two of them are on one GVK at a     *)
(* time and every GVK is watched in one namespace at a time (as one of      *)
(* cluster-scoped objects always is), a watch that reports HasSynced        *)
(* delivers events.                                                         *)
THEOREM SyncedWatchesDeliver ==
    Spec /\ []GVKsApart /\ []NamespacesApart => []SyncedWatchDelivers
<1>1. GVKsApart /\ NamespacesApart /\ ApartInv /\ Watched /\ [Next]_vars => Watched'
  BY NextKept, AloneApart DEF Kept, Alone
<1>2. ApartInv /\ Watched => SyncedWatchDelivers
  <2> SUFFICES ASSUME ApartInv, Watched, phase = "running", AllIdle,
                      NEW k \in Key, HasSynced(k)
               PROVE  Delivers(k.gvk)
    BY DEF SyncedWatchDelivers
  <2>1. tasks[k] # None /\ tasks[k] \in Registrations /\ k.gvk \in GVKs
    BY Shapes, NoneAssumption DEF HasSynced, ApartInv
  <2>2. /\ tracked[k.gvk] # None /\ TaskInformer(k) = tracked[k.gvk]
        /\ registration[tasks[k]].attached
    BY <2>1 DEF Watched, Active, AllIdle
  <2>3. informer[tracked[k.gvk]].state = "running"
    BY <2>1, <2>2 DEF Watched, Active
  <2> QED
    BY <2>1, <2>2, <2>3 DEF Delivers, TaskInformer
<1> QED
  BY <1>1, <1>2, AloneApart, ApartInit, ApartNext, PTL DEF Spec
=============================================================================
