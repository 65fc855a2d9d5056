-------------------------- MODULE References_proofs --------------------------
(***************************************************************************)
(* What References promises, for every set of objects: TypeOK,              *)
(* KnownReferenceProtects and ReadyAfterParent.                             *)
(*                                                                         *)
(* Both rest on what the informer cache shows (ViewOK): it lags behind only *)
(* while a change is undelivered, it shows every object whose creation was  *)
(* delivered, and it drops an object only after the API server has.  What   *)
(* is said of referrers needs that the field index lists them (Qualified):  *)
(* a deployer that leaves the namespace of its resource out is not listed.  *)
(***************************************************************************)
EXTENDS References, TLAPS

(* No deployer leaves out the namespace of its resource.                    *)
Qualified == \A c \in Objects : c.kind = "Deployer" => c.refNamespace # Omitted

-----------------------------------------------------------------------------
(* References                                                               *)

(* The index lists what refers to an object.                                *)
LEMMA IndexLists ==
  ASSUME Qualified, NEW c \in Objects, NEW p \in Objects, Refers(c, p)
  PROVE  Listed(c, p)
  BY DEF Qualified, Refers, Listed, ReferredNamespace

(* An object refers to one other object at most.                            *)
LEMMA OneParent ==
  ASSUME NEW c \in Objects, NEW p \in Objects, NEW q \in Objects,
         Refers(c, p), Refers(c, q)
  PROVE  p = q
  BY IdentityAssumption DEF Refers

(* A repository refers to nothing, and no object to itself.                 *)
LEMMA RepositoryRefersToNone ==
  ASSUME NEW c \in Objects, NEW p \in Objects, Refers(c, p)
  PROVE  c.kind # "Repository" /\ c # p
  BY ObjectsAssumption DEF Refers, ParentKind, Kinds

-----------------------------------------------------------------------------
(* What the cache shows of each object, and which referrers of an object in *)
(* deletion it shows.                                                       *)

ViewOK(o) ==
    /\ changed[o] = {} => view[o] = Appearance(o)
    /\ Exists(o) /\ "spec" \notin changed[o] => view[o] # "absent"
    /\ view[o] # "absent" => object[o] # "absent"

KnownOK(o) ==
    \A c \in known[o] :
      /\ Refers(c, o)
      /\ object[c] # "absent"
      /\ object[o] \in {"deleting", "gone"}
      /\ Exists(c) => view[c] # "absent" /\ object[o] = "deleting" /\ pc[o] # "remove"

(* An object whose ready state nobody is about to review has read a ready   *)
(* parent: what else the parent shows would have enqueued it.               *)
ReviewedOK(c) ==
    \A p \in Objects :
      /\ Refers(c, p)
      /\ Exists(c)
      /\ pc[c] = "work" \/ (pc[c] = "idle" /\ IsReady(c) /\ c \notin suspended)
      => c \in queue \/ "spec" \in changed[c] \/ view[p] = "ready"

KnownInv == \A o \in Objects : ViewOK(o) /\ KnownOK(o)

ReviewInv == \A o \in Objects : ViewOK(o) /\ ReviewedOK(o)

-----------------------------------------------------------------------------
(* Types                                                                    *)

(* The initial state has its types.                                         *)
LEMMA TypeInit == Init => TypeOK
  BY ObjectsAssumption, BoundsAssumption DEF Init, TypeOK, Conditions

(* The deferred patch stores the condition of its object or nothing.        *)
LEMMA PatchSteps ==
  ASSUME TypeOK, NEW o \in Objects, NEW before, NEW value \in Conditions,
         SetCondition(o, before, value)
  PROVE  /\ condition' \in [Objects -> Conditions]
         /\ changed' \in [Objects -> SUBSET {"spec", "status"}]
         /\ \A x \in Objects :
              \/ condition'[x] = condition[x] /\ changed'[x] = changed[x]
              \/ x = o /\ condition'[x] = value /\ changed'[x] = changed[x] \cup {"status"}
<1>1. CASE UNCHANGED <<condition, changed>>
  BY <1>1 DEF TypeOK
<1>2. CASE /\ condition' = [condition EXCEPT ![o] = value]
           /\ changed' = IF condition[o] = value THEN changed
                         ELSE [changed EXCEPT ![o] = @ \cup {"status"}]
  BY <1>2 DEF TypeOK
<1> QED BY <1>1, <1>2 DEF SetCondition, Patched, PatchFails

(* What the steps that set a condition do to it.                            *)
LEMMA ConditionSteps ==
  ASSUME TypeOK, NEW o \in Objects,
         ListReferrers(o) \/ GetReadyObject(o) \/ Fails(o) \/ TerminalError(o) \/ MarkReady(o)
  PROVE  /\ condition' \in [Objects -> Conditions]
         /\ changed' \in [Objects -> SUBSET {"spec", "status"}]
         /\ \A x \in Objects :
              \/ condition'[x] = condition[x] /\ changed'[x] = changed[x]
              \/ /\ x = o /\ changed'[x] = changed[x] \cup {"status"}
                 /\ condition'[x] = "ready" => MarkReady(o)
<1>1. CASE \/ UNCHANGED <<condition, changed>>
           \/ \E before : SetCondition(o, before, "referenced") \/ SetCondition(o, before, "notReady")
                             \/ SetCondition(o, before, "failed")
  BY <1>1, PatchSteps DEF TypeOK, Conditions
<1>2. CASE MarkReady(o)
  <2>1. SetCondition(o, read[o], "ready")
    BY <1>2 DEF MarkReady, SetCondition
  <2> QED BY <1>2, <2>1, PatchSteps DEF Conditions
<1> QED BY <1>1, <1>2 DEF ListReferrers, GetReadyObject, Fails, TerminalError

(* Every step keeps the types.                                              *)
LEMMA TypeNext == TypeOK /\ [Next]_vars => TypeOK'
<1> SUFFICES ASSUME TypeOK, [Next]_vars PROVE TypeOK'
  OBVIOUS
<1>stutter. CASE UNCHANGED vars
  BY <1>stutter DEF TypeOK, vars
<1> SUFFICES ASSUME NEW o \in Objects, Reconcile(o) \/ Environment(o) \/ Observe(o)
             PROVE  TypeOK'
  BY <1>stutter DEF Next
<1>1. CASE Ignore(o)
  BY <1>1 DEF TypeOK, Ignore, ClusterUnchanged
<1>2. CASE ListReferrers(o)
  BY <1>2, ConditionSteps DEF TypeOK, Conditions, ListReferrers, Begin, ClusterUnchanged, Take
<1>3. CASE RemoveFinalizer(o)
  BY <1>3 DEF TypeOK, Conditions, RemoveFinalizer, End
<1>4. CASE AddFinalizer(o)
  BY <1>4 DEF TypeOK, AddFinalizer
<1>5. CASE GetReadyObject(o)
  BY <1>5, ConditionSteps DEF TypeOK, Conditions, GetReadyObject, Begin, ClusterUnchanged, Take
<1>6. CASE Fails(o)
  <2>1. condition' \in [Objects -> Conditions] /\ changed' \in [Objects -> SUBSET {"spec", "status"}]
    BY <1>6, ConditionSteps
  <2>2. /\ read' \in [Objects -> Conditions]
        /\ pc' \in [Objects -> {"idle", "work", "remove"}]
        /\ \A x \in Objects : pc'[x] \in {pc[x], "idle"}
    BY <1>6 DEF TypeOK, Conditions, Fails, End
  <2> QED BY <1>6, <2>1, <2>2 DEF TypeOK, Fails
<1>7. CASE TerminalError(o)
  <2>1. condition' \in [Objects -> Conditions] /\ changed' \in [Objects -> SUBSET {"spec", "status"}]
    BY <1>7, ConditionSteps
  <2>2. /\ read' \in [Objects -> Conditions]
        /\ pc' \in [Objects -> {"idle", "work", "remove"}]
        /\ \A x \in Objects : pc'[x] \in {pc[x], "idle"}
    BY <1>7 DEF TypeOK, Conditions, TerminalError, End
  <2> QED BY <1>7, <2>1, <2>2 DEF TypeOK, TerminalError
<1>8. CASE MarkReady(o)
  <2>1. condition' \in [Objects -> Conditions] /\ changed' \in [Objects -> SUBSET {"spec", "status"}]
    BY <1>8, ConditionSteps
  <2>2. /\ read' \in [Objects -> Conditions]
        /\ pc' \in [Objects -> {"idle", "work", "remove"}]
        /\ \A x \in Objects : pc'[x] \in {pc[x], "idle"}
    BY <1>8 DEF TypeOK, Conditions, MarkReady, End
  <2> QED BY <1>8, <2>1, <2>2 DEF TypeOK, MarkReady, ClusterUnchanged
<1>9. CASE Create(o)
  BY <1>9 DEF TypeOK, Create, ControllersUnchanged
<1>10. CASE DeleteObject(o)
  BY <1>10 DEF TypeOK, DeleteObject, ControllersUnchanged, Cached
<1>11. CASE ToggleSuspend(o)
  BY <1>11 DEF TypeOK, ToggleSuspend, ControllersUnchanged
<1>12. CASE RequeueAfter(o)
  BY <1>12 DEF TypeOK, RequeueAfter
<1>13. CASE Observe(o)
  BY <1>13 DEF TypeOK, Observe, Appearance, Exists, Cached
<1> QED BY <1>1, <1>2, <1>3, <1>4, <1>5, <1>6, <1>7, <1>8, <1>9, <1>10, <1>11, <1>12, <1>13 DEF Reconcile, Environment

(* TypeOK: each controller leaves the objects, the finalizers and the       *)
(* queue in one of their states; an object in deletion has its finalizer    *)
(* until the goroutine that found no referrer removes it.                   *)
THEOREM TypeCorrect == Spec => []TypeOK
  BY TypeInit, TypeNext, PTL DEF Spec

-----------------------------------------------------------------------------
(* The informer cache                                                       *)

(* The initial state has the invariants.                                    *)
LEMMA InvInit == Init => \A o \in Objects : ViewOK(o) /\ KnownOK(o) /\ ReviewedOK(o)
  BY ObjectsAssumption DEF Init, ViewOK, KnownOK, ReviewedOK, Appearance, Exists, IsReady

(* Every step keeps what the cache shows of each object.                     *)
LEMMA ViewNext == TypeOK /\ (\A o \in Objects : ViewOK(o)) /\ [Next]_vars => \A o \in Objects : ViewOK(o)'
<1> SUFFICES ASSUME TypeOK, \A o \in Objects : ViewOK(o), [Next]_vars, NEW x \in Objects PROVE ViewOK(x)'
  OBVIOUS
<1>stutter. CASE UNCHANGED vars
  BY <1>stutter DEF vars, ViewOK, Appearance, Exists, IsReady
<1> SUFFICES ASSUME NEW o \in Objects, Reconcile(o) \/ Environment(o) \/ Observe(o)
             PROVE  ViewOK(x)'
  BY <1>stutter DEF Next
<1>1. CASE Ignore(o)
  BY <1>1 DEF TypeOK, ViewOK, Appearance, Exists, IsReady, Ignore, ClusterUnchanged, Skips
<1>2. CASE ListReferrers(o)
  <2>1. view' = view /\ object' = object
    BY <1>2 DEF ListReferrers, ClusterUnchanged
  <2> QED BY <1>2, <2>1, ConditionSteps DEF ViewOK, Appearance, Exists, IsReady
<1>3. CASE RemoveFinalizer(o)
  BY <1>3 DEF TypeOK, ViewOK, Appearance, Exists, IsReady, RemoveFinalizer, End
<1>4. CASE AddFinalizer(o)
  BY <1>4 DEF TypeOK, ViewOK, Appearance, Exists, IsReady, AddFinalizer
<1>5. CASE GetReadyObject(o)
  <2>1. view' = view /\ object' = object
    BY <1>5 DEF GetReadyObject, ClusterUnchanged
  <2> QED BY <1>5, <2>1, ConditionSteps DEF ViewOK, Appearance, Exists, IsReady
<1>6. CASE Fails(o)
  <2>1. view' = view /\ object' = object
    BY <1>6 DEF Fails, ClusterUnchanged
  <2> QED BY <1>6, <2>1, ConditionSteps DEF ViewOK, Appearance, Exists, IsReady
<1>7. CASE TerminalError(o)
  <2>1. view' = view /\ object' = object
    BY <1>7 DEF TerminalError, ClusterUnchanged
  <2> QED BY <1>7, <2>1, ConditionSteps DEF ViewOK, Appearance, Exists, IsReady
<1>8. CASE MarkReady(o)
  <2>1. view' = view /\ object' = object
    BY <1>8 DEF MarkReady, ClusterUnchanged
  <2> QED BY <1>8, <2>1, ConditionSteps DEF ViewOK, Appearance, Exists, IsReady
<1>9. CASE Create(o)
  BY <1>9 DEF TypeOK, ViewOK, Appearance, Exists, IsReady, Create, ControllersUnchanged
<1>10. CASE DeleteObject(o)
  BY <1>10 DEF TypeOK, ViewOK, Appearance, Exists, IsReady, DeleteObject, ControllersUnchanged, Cached
<1>11. CASE ToggleSuspend(o)
  BY <1>11 DEF TypeOK, ViewOK, Appearance, Exists, IsReady, ToggleSuspend, ControllersUnchanged
<1>12. CASE RequeueAfter(o)
  BY <1>12 DEF TypeOK, ViewOK, Appearance, Exists, IsReady, RequeueAfter
<1>13. CASE Observe(o)
  BY <1>13 DEF TypeOK, ViewOK, Appearance, Exists, IsReady, Observe, Cached
<1> QED BY <1>1, <1>2, <1>3, <1>4, <1>5, <1>6, <1>7, <1>8, <1>9, <1>10, <1>11, <1>12, <1>13 DEF Reconcile, Environment

(* Every step keeps the known referrers of an object in the cache.           *)
LEMMA KnownNext == Qualified /\ TypeOK /\ KnownInv /\ [Next]_vars => \A o \in Objects : KnownOK(o)'
<1> SUFFICES ASSUME Qualified, TypeOK, KnownInv, [Next]_vars, NEW x \in Objects PROVE KnownOK(x)'
  OBVIOUS
<1>stutter. CASE UNCHANGED vars
  BY <1>stutter DEF vars, KnownInv, ViewOK, KnownOK, Exists
<1> SUFFICES ASSUME NEW o \in Objects, Reconcile(o) \/ Environment(o) \/ Observe(o)
             PROVE  KnownOK(x)'
  BY <1>stutter DEF Next
<1>1. CASE Ignore(o)
  BY <1>1 DEF TypeOK, KnownInv, ViewOK, KnownOK, Exists, Ignore, ClusterUnchanged, Skips
<1>2. CASE ListReferrers(o)
  <2>1. CASE \E c \in Cached : Listed(c, o)
    BY <1>2, <2>1 DEF TypeOK, KnownInv, KnownOK, Exists, ListReferrers, Begin, ClusterUnchanged
  <2>2. CASE ~\E c \in Cached : Listed(c, o)
    <3>1. \A c \in known[o] : ~Exists(c)
      BY <2>2, IndexLists DEF TypeOK, KnownInv, KnownOK, Cached
    <3> QED BY <1>2, <2>2, <3>1 DEF TypeOK, KnownInv, KnownOK, Exists, ListReferrers, Begin, ClusterUnchanged
  <2> QED BY <2>1, <2>2
<1>3. CASE RemoveFinalizer(o)
  BY <1>3 DEF TypeOK, KnownInv, ViewOK, KnownOK, Exists, RemoveFinalizer, End
<1>4. CASE AddFinalizer(o)
  BY <1>4 DEF TypeOK, KnownInv, ViewOK, KnownOK, Exists, AddFinalizer
<1>5. CASE GetReadyObject(o)
  BY <1>5 DEF TypeOK, KnownInv, ViewOK, KnownOK, Exists, GetReadyObject, SetCondition, Patched, PatchFails, Begin, ClusterUnchanged, Take
<1>6. CASE Fails(o)
  BY <1>6 DEF TypeOK, KnownInv, ViewOK, KnownOK, Exists, Fails, SetCondition, Patched, PatchFails, End, ClusterUnchanged
<1>7. CASE TerminalError(o)
  BY <1>7 DEF TypeOK, KnownInv, ViewOK, KnownOK, Exists, TerminalError, SetCondition, Patched, PatchFails, End, ClusterUnchanged
<1>8. CASE MarkReady(o)
  BY <1>8 DEF TypeOK, KnownInv, ViewOK, KnownOK, Exists, MarkReady, SetCondition, Patched, PatchFails, End, ClusterUnchanged
<1>9. CASE Create(o)
  BY <1>9 DEF TypeOK, KnownInv, ViewOK, KnownOK, Exists, Create, ControllersUnchanged
<1>10. CASE DeleteObject(o)
  BY <1>10 DEF TypeOK, KnownInv, ViewOK, KnownOK, Exists, DeleteObject, ControllersUnchanged, Cached
<1>11. CASE ToggleSuspend(o)
  BY <1>11 DEF TypeOK, KnownInv, ViewOK, KnownOK, Exists, ToggleSuspend, ControllersUnchanged
<1>12. CASE RequeueAfter(o)
  BY <1>12 DEF TypeOK, KnownInv, ViewOK, KnownOK, Exists, RequeueAfter
<1>13. CASE Observe(o)
  BY <1>13 DEF TypeOK, KnownInv, ViewOK, KnownOK, Exists, Observe, Appearance, Cached, IsReady
<1> QED BY <1>1, <1>2, <1>3, <1>4, <1>5, <1>6, <1>7, <1>8, <1>9, <1>10, <1>11, <1>12, <1>13 DEF Reconcile, Environment

(* Every step keeps the parent of a ready object ready or reviews it.        *)
LEMMA ReviewedNext == Qualified /\ TypeOK /\ ReviewInv /\ [Next]_vars => \A o \in Objects : ReviewedOK(o)'
<1> SUFFICES ASSUME Qualified, TypeOK, ReviewInv, [Next]_vars, NEW x \in Objects PROVE ReviewedOK(x)'
  OBVIOUS
<1>stutter. CASE UNCHANGED vars
  BY <1>stutter DEF vars, ReviewInv, ViewOK, ReviewedOK, Exists, IsReady
<1> SUFFICES ASSUME NEW o \in Objects, Reconcile(o) \/ Environment(o) \/ Observe(o)
             PROVE  ReviewedOK(x)'
  BY <1>stutter DEF Next
<1>1. CASE Ignore(o)
  BY <1>1 DEF TypeOK, ReviewInv, ReviewedOK, Exists, IsReady, Ignore, ClusterUnchanged, Take, Skips
<1>2. CASE ListReferrers(o)
  BY <1>2 DEF TypeOK, ReviewInv, ViewOK, ReviewedOK, Exists, IsReady, ListReferrers, SetCondition, Patched, PatchFails, Begin, ClusterUnchanged, Take
<1>3. CASE RemoveFinalizer(o)
  BY <1>3 DEF TypeOK, ReviewInv, ViewOK, ReviewedOK, Exists, IsReady, RemoveFinalizer, End
<1>4. CASE AddFinalizer(o)
  BY <1>4 DEF TypeOK, ReviewInv, ViewOK, ReviewedOK, Exists, IsReady, AddFinalizer
<1>5. CASE GetReadyObject(o)
  <2>1. CASE ParentReady(o)
    <3>1. \A p \in Objects : Refers(o, p) => view[p] = "ready"
      BY <2>1, OneParent, RepositoryRefersToNone DEF ParentReady
    <3> QED BY <1>5, <2>1, <3>1 DEF TypeOK, ReviewInv, ReviewedOK, Exists, IsReady, GetReadyObject, Begin, ClusterUnchanged
  <2>2. CASE ~ParentReady(o)
    BY <1>5, <2>2 DEF TypeOK, ReviewInv, ReviewedOK, Exists, IsReady, GetReadyObject, SetCondition, Patched, PatchFails, Begin, ClusterUnchanged, Take
  <2> QED BY <2>1, <2>2
<1>6. CASE Fails(o)
  BY <1>6 DEF TypeOK, ReviewInv, ViewOK, ReviewedOK, Exists, IsReady, Fails, SetCondition, Patched, PatchFails, End, ClusterUnchanged
<1>7. CASE TerminalError(o)
  BY <1>7 DEF TypeOK, ReviewInv, ViewOK, ReviewedOK, Exists, IsReady, TerminalError, SetCondition, Patched, PatchFails, End, ClusterUnchanged
<1>8. CASE MarkReady(o)
  BY <1>8 DEF TypeOK, ReviewInv, ViewOK, ReviewedOK, Exists, IsReady, MarkReady, SetCondition, Patched, PatchFails, End, ClusterUnchanged
<1>9. CASE Create(o)
  BY <1>9 DEF TypeOK, ReviewInv, ViewOK, ReviewedOK, Exists, IsReady, Create, ControllersUnchanged
<1>10. CASE DeleteObject(o)
  BY <1>10 DEF TypeOK, ReviewInv, ViewOK, ReviewedOK, Exists, IsReady, DeleteObject, ControllersUnchanged, Cached
<1>11. CASE ToggleSuspend(o)
  BY <1>11 DEF TypeOK, ReviewInv, ViewOK, ReviewedOK, Exists, IsReady, ToggleSuspend, ControllersUnchanged
<1>12. CASE RequeueAfter(o)
  BY <1>12 DEF TypeOK, ReviewInv, ViewOK, ReviewedOK, Exists, IsReady, RequeueAfter
<1>13. CASE Observe(o)
  <2> SUFFICES ASSUME NEW p \in Objects, Refers(x, p), Exists(x)',
                      (pc[x] = "work" \/ (pc[x] = "idle" /\ IsReady(x) /\ x \notin suspended))'
               PROVE  (x \in queue \/ "spec" \in changed[x] \/ view[p] = "ready")'
    BY DEF ReviewedOK
  <2>1. x \in queue \/ "spec" \in changed[x] \/ view[p] = "ready"
    BY <1>13 DEF ReviewInv, ReviewedOK, Observe, Exists, IsReady
  <2>2. CASE x = o
    BY <1>13, <2>1, <2>2, RepositoryRefersToNone DEF TypeOK, Observe
  <2>3. CASE x # o /\ p # o
    BY <1>13, <2>1, <2>3 DEF TypeOK, Observe
  <2>4. CASE x # o /\ p = o
    <3>1. Listed(x, o)
      BY <2>4, IndexLists
    <3>2. CASE "spec" \in changed[x]
      BY <1>13, <2>4, <3>2 DEF TypeOK, Observe
    <3>3. CASE "spec" \notin changed[x]
      <4>1. x \in Cached
        BY <1>13, <3>3 DEF ReviewInv, ViewOK, Exists, Observe, Cached
      <4> QED BY <1>13, <3>1, <4>1 DEF Observe
    <3> QED BY <3>2, <3>3
  <2> QED BY <2>2, <2>3, <2>4
<1> QED BY <1>1, <1>2, <1>3, <1>4, <1>5, <1>6, <1>7, <1>8, <1>9, <1>10, <1>11, <1>12, <1>13 DEF Reconcile, Environment

-----------------------------------------------------------------------------
(* KnownReferenceProtects: the finalizers of internal/controller/{          *)
(* repository,component,resource} keep an object until every referrer that  *)
(* the cache showed when its deletion was requested is gone, whatever is    *)
(* delivered late or fails in between.                                      *)
THEOREM KnownReferencesProtect ==
  ASSUME Qualified
  PROVE  Spec => []KnownReferenceProtects
<1>1. Init => KnownInv
  BY InvInit DEF KnownInv
<1>2. TypeOK /\ KnownInv /\ [Next]_vars => KnownInv'
  BY ViewNext, KnownNext DEF KnownInv
<1>3. KnownInv => KnownReferenceProtects
  BY DEF KnownInv, KnownOK, KnownReferenceProtects
<1> QED BY <1>1, <1>2, <1>3, TypeCorrect, PTL DEF Spec

(* ReadyAfterParent: GetReadyObject and the watches on the parent together  *)
(* miss nothing: a ready object that nobody is about to reconcile refers to *)
(* a ready object.                                                          *)
THEOREM ReadyObjectsHaveReadyParents ==
  ASSUME Qualified
  PROVE  Spec => []ReadyAfterParent
<1>1. Init => ReviewInv
  BY InvInit DEF ReviewInv
<1>2. TypeOK /\ ReviewInv /\ [Next]_vars => ReviewInv'
  BY ViewNext, ReviewedNext DEF ReviewInv
<1>3. TypeOK /\ ReviewInv => ReadyAfterParent
  <2> SUFFICES ASSUME TypeOK, ReviewInv, NEW c \in Objects, NEW p \in Objects,
                      Refers(c, p), IsReady(c), c \notin suspended, Settled(c), Settled(p)
               PROVE  IsReady(p)
    BY DEF ReadyAfterParent
  <2>1. view[p] = "ready"
    BY DEF ReviewInv, ReviewedOK, Settled, IsReady, Exists
  <2>2. Appearance(p) = "ready"
    BY <2>1 DEF ReviewInv, ViewOK, Settled
  <2> QED BY <2>2 DEF Appearance, Exists, TypeOK
<1> QED BY <1>1, <1>2, <1>3, TypeCorrect, PTL DEF Spec
=============================================================================
