---------------------------- MODULE Configuration ----------------------------
(***************************************************************************)
(* From spec.ocmConfig to the OCM context (internal/ocm/ocm.go, hash.go,    *)
(* context_cache.go): every controller resolves the configurations of its   *)
(* object to secrets and config maps, reads them, takes a context that was  *)
(* configured with their data from the cache or configures a new one, and   *)
(* reports what it resolved in status.effectiveOCMConfig, where the objects *)
(* that refer to this one find it.                                          *)
(*                                                                         *)
(* Objects are reconciled concurrently, each by one goroutine at a time.    *)
(* They see each other's status through the informer cache (view), and are  *)
(* reconciled again after an interval even if nothing has happened.  That   *)
(* an object waits for its parent to be ready is module References'         *)
(* matter: here it is reconciled all the same.  What a run does after the   *)
(* context was configured is one step.                                      *)
(***************************************************************************)
EXTENDS Integers, FiniteSets, SequencesExt

CONSTANTS
    Objects,        \* OCM objects; records: kind, namespace, name
    ConfigObjects,  \* secrets and config maps; records of the same form
    Specs,          \* per object: the lists of configurations it may specify
    Data,           \* contents of secrets and config maps
    Applicable,     \* those that can be applied to a context
    InitialData,    \* contents at the start
    None,
    ContextCacheSize,
    MaxChanges,     \* bound: changes of specifications and contents
    MaxFailures     \* bound: failures after the context was configured

ObjectKinds == {"Repository", "Component", "Resource", "Replication"}
ConfigKinds == {"Secret", "ConfigMap"}
Policies == {"Propagate", "DoNotPropagate"}

Identities == [kind: STRING, namespace: STRING, name: STRING]

(* An entry of spec.ocmConfig or status.effectiveOCMConfig; the namespace   *)
(* may be empty.                                                            *)
Entries == [kind: STRING, namespace: STRING, name: STRING, policy: Policies]

Target(e) == [kind |-> e.kind, namespace |-> e.namespace, name |-> e.name]

ASSUME ObjectsAssumption ==
    /\ IsFiniteSet(Objects)
    /\ Objects \subseteq Identities /\ ConfigObjects \subseteq Identities
    /\ \A o \in Objects : o.kind \in ObjectKinds \cup {"Deployer"}
    /\ \A d \in ConfigObjects : d.kind \in ConfigKinds
ASSUME SizeAssumption == ContextCacheSize \in Nat \ {0}
ASSUME DataAssumption ==
    /\ Applicable \subseteq Data /\ None \notin Data
    /\ InitialData \in [ConfigObjects -> Data \cup {None}]
    /\ None \notin Seq(Entries)

(* ConfigObjects has every secret and config map that is specified, whether *)
(* it is there or not.                                                      *)
ASSUME SpecsAssumption ==
    \A o \in Objects : \A s \in Specs[o] :
      /\ s \in Seq(Entries)
      /\ \A e \in ToSet(s) : e.kind \in ConfigKinds =>
           \E d \in ConfigObjects :
             /\ d.kind = e.kind /\ d.name = e.name
             /\ d.namespace = IF e.namespace = "" THEN o.namespace ELSE e.namespace

VARIABLES
    spec,        \* API server: spec.ocmConfig
    exists,      \* API server: objects that have been created
    effective,   \* API server: status.effectiveOCMConfig
    view,        \* informer cache: effective of each object, None if it is not there
    data,        \* informer cache: contents of secrets and config maps, None if missing
    contexts,    \* cached contexts: their hash and the data they were configured with
    run,         \* per object: its reconciliation
    ever,        \* auxiliary: the entries that each object has ever specified
    budget       \* what is left of the bounds

vars == <<spec, exists, effective, view, data, contexts, run, ever, budget>>

Idle == [pc |-> "idle", todo |-> <<>>, refs |-> <<>>, read |-> <<>>, applied |-> <<>>]

Spend(what) == budget[what] > 0 /\ budget' = [budget EXCEPT ![what] = @ - 1]

-----------------------------------------------------------------------------
(* GetEffectiveConfig                                                       *)

(* Faulty variant: an empty namespace stays empty.                          *)
Unqualified(o, e) == e

(* The namespace and the API version are filled in where the entry is       *)
(* specified.                                                               *)
Qualified(o, e) == IF e.namespace = "" THEN [e EXCEPT !.namespace = o.namespace] ELSE e

(* Faulty variant: the policy stays that of the object that is referred to. *)
PropagatedPolicy(config, s) == SelectSeq(s, LAMBDA e : e.policy = "Propagate")

(* What an object gets from the effective configuration of another one: the *)
(* entries that are propagated, under the policy of its own reference.      *)
Propagated(config, s) ==
    LET refs[n \in 0 .. Len(s)] ==
          IF n = 0 THEN <<>>
          ELSE IF s[n].policy = "Propagate"
               THEN Append(refs[n - 1], [s[n] EXCEPT !.policy = config.policy])
               ELSE refs[n - 1]
    IN refs[Len(s)]

-----------------------------------------------------------------------------
Init ==
    /\ spec \in [Objects -> UNION {Specs[o] : o \in Objects}]
    /\ \A o \in Objects : spec[o] \in Specs[o]
    /\ exists = {}
    /\ effective = [o \in Objects |-> <<>>]
    /\ view = [o \in Objects |-> None]
    /\ data = InitialData
    /\ contexts = {}
    /\ run = [o \in Objects |-> Idle]
    /\ ever = [o \in Objects |-> {Qualified(o, e) : e \in ToSet(spec[o])}]
    /\ budget = [changes |-> MaxChanges, failures |-> MaxFailures]

-----------------------------------------------------------------------------
(* Users and informers                                                      *)

Create(o) ==
    /\ o \notin exists
    /\ exists' = exists \cup {o}
    /\ view' = [view EXCEPT ![o] = <<>>]
    /\ UNCHANGED <<spec, effective, data, contexts, run, ever, budget>>

ChangeSpec(o, s) ==
    /\ Spend("changes")
    /\ o \in exists
    /\ s # spec[o]
    /\ spec' = [spec EXCEPT ![o] = s]
    /\ ever' = [ever EXCEPT ![o] = @ \cup {Qualified(o, e) : e \in ToSet(s)}]
    /\ UNCHANGED <<exists, effective, view, data, contexts, run>>

(* Secrets and config maps are not watched.                                 *)
ChangeData(d, content) ==
    /\ Spend("changes")
    /\ content # data[d]
    /\ data' = [data EXCEPT ![d] = content]
    /\ UNCHANGED <<spec, exists, effective, view, contexts, run, ever>>

(* The informer cache catches up.                                           *)
Observe(o) ==
    /\ o \in exists
    /\ view[o] # effective[o]
    /\ view' = [view EXCEPT ![o] = effective[o]]
    /\ UNCHANGED <<spec, exists, effective, data, contexts, run, ever, budget>>

-----------------------------------------------------------------------------
(* A reconciliation                                                         *)

(* At any time: an event of the object or of another one, a retry, or the   *)
(* end of its interval.                                                     *)
Begin(o) ==
    /\ o \in exists /\ run[o].pc = "idle"
    /\ run' = [run EXCEPT ![o] = [Idle EXCEPT !.pc = "resolve", !.todo = spec[o]]]
    /\ UNCHANGED <<spec, exists, effective, view, data, contexts, ever, budget>>

(* An error marks the object as not ready, and has it reconciled again.     *)
Retry(o) ==
    /\ run' = [run EXCEPT ![o] = Idle]
    /\ UNCHANGED <<spec, exists, effective, view, data, contexts, ever>>

Config(o) == Qualified(o, Head(run[o].todo))

Resolving(o) == run[o].pc = "resolve" /\ run[o].todo # <<>>

AppendRefs(o, refs) ==
    /\ run' = [run EXCEPT ![o].todo = Tail(@), ![o].refs = @ \o refs]
    /\ UNCHANGED <<spec, exists, effective, view, data, contexts, ever, budget>>

ResolveConfig(o) ==
    /\ Resolving(o)
    /\ Config(o).kind \in ConfigKinds
    /\ AppendRefs(o, <<Config(o)>>)

Found(e) == e.kind \in ObjectKinds /\ Target(e) \in Objects /\ view[Target(e)] # None

ResolveObject(o) ==
    /\ Resolving(o)
    /\ Found(Config(o))
    /\ AppendRefs(o, Propagated(Config(o), view[Target(Config(o))]))

(* The object is not there, or its kind or API version is not supported.    *)
ResolveFails(o) ==
    /\ Resolving(o)
    /\ Config(o).kind \notin ConfigKinds
    /\ ~Found(Config(o))
    /\ Retry(o)
    /\ UNCHANGED budget

(* getConfigObjects                                                         *)
Contents(o) == [i \in DOMAIN run[o].refs |-> data[Target(run[o].refs[i])]]

Readable(o) == \A i \in DOMAIN run[o].refs : Contents(o)[i] # None

(* Faulty variant: objects are identified by their names, not their data.   *)
ObjectNameHash(o) == ToSet(run[o].refs)

(* GetObjectDataHash: the digests of the objects are sorted, so that their  *)
(* order makes no difference.                                               *)
GetObjectDataHash(o) == ToBag(Contents(o))

Configured(o, x) ==
    run' = [run EXCEPT ![o].pc = "report", ![o].read = Contents(o), ![o].applied = x.applied]

(* getOrCreateContext                                                       *)
ReuseContext(o) ==
    /\ run[o].pc = "resolve" /\ run[o].todo = <<>>
    /\ Readable(o)
    /\ \E x \in contexts : x.hash = GetObjectDataHash(o) /\ Configured(o, x)
    /\ UNCHANGED <<spec, exists, effective, view, data, contexts, ever, budget>>

(* A context that is added to a full cache evicts another one.              *)
NotCached(o) == \A x \in contexts : x.hash # GetObjectDataHash(o)

CreateContext(o) ==
    LET x == [hash |-> GetObjectDataHash(o), applied |-> Contents(o)] IN
    /\ run[o].pc = "resolve" /\ run[o].todo = <<>>
    /\ Readable(o)
    /\ NotCached(o)
    /\ ToSet(Contents(o)) \subseteq Applicable
    /\ \E kept \in SUBSET contexts :
         /\ Cardinality(kept) < ContextCacheSize
         /\ kept = contexts \/ Cardinality(kept) = ContextCacheSize - 1
         /\ contexts' = kept \cup {x}
    /\ Configured(o, x)
    /\ UNCHANGED <<spec, exists, effective, view, data, ever, budget>>

(* A secret or config map is missing, or cannot be applied.                 *)
ContextFails(o) ==
    /\ run[o].pc = "resolve" /\ run[o].todo = <<>>
    /\ \/ ~Readable(o)
       \/ NotCached(o) /\ ~(ToSet(Contents(o)) \subseteq Applicable)
    /\ Retry(o)
    /\ UNCHANGED budget

Fails(o) ==
    /\ run[o].pc = "report"
    /\ Spend("failures")
    /\ Retry(o)

Ends(o, refs) ==
    /\ run[o].pc = "report"
    /\ effective' = [effective EXCEPT ![o] = refs]
    /\ run' = [run EXCEPT ![o] = Idle]
    /\ UNCHANGED <<spec, exists, view, data, contexts, ever, budget>>

(* Faulty variant: what was reported before is kept.                        *)
ReportOnce(o) == Ends(o, IF effective[o] = <<>> THEN run[o].refs ELSE effective[o])

(* The status is replaced.  A deployer does not report its configuration.   *)
Report(o) == Ends(o, IF o.kind = "Deployer" THEN effective[o] ELSE run[o].refs)

-----------------------------------------------------------------------------
GetEffectiveConfig(o) == ResolveConfig(o) \/ ResolveObject(o) \/ ResolveFails(o)

GetContext(o) == ReuseContext(o) \/ CreateContext(o) \/ ContextFails(o)

Reconcile(o) == Begin(o) \/ GetEffectiveConfig(o) \/ GetContext(o) \/ Fails(o) \/ Report(o)

Environment ==
    \/ \E o \in Objects : Create(o) \/ \E s \in Specs[o] : ChangeSpec(o, s)
    \/ \E d \in ConfigObjects, content \in Data \cup {None} : ChangeData(d, content)

Next == Environment \/ \E o \in Objects : Reconcile(o) \/ Observe(o)

Spec == Init /\ [][Next]_vars

(* Controllers reconcile every object again after its interval, and         *)
(* informers deliver.  A component whose reconciliation ended in a terminal *)
(* error (its versions, not its configuration, are to blame) gets no next   *)
(* interval: it is outside this promise until its specification changes.    *)
Fairness == \A o \in Objects : WF_vars(Reconcile(o)) /\ WF_vars(Observe(o))

FairSpec == Spec /\ Fairness

-----------------------------------------------------------------------------
(* Properties                                                               *)

(* Every variable has its type; what is resolved are secrets and config     *)
(* maps, in the namespace of the object that specified them.                *)
TypeOK ==
    /\ spec \in [Objects -> UNION {Specs[o] : o \in Objects}]
    /\ exists \subseteq Objects
    /\ data \in [ConfigObjects -> Data \cup {None}]
    /\ \A o \in Objects : view[o] = None <=> o \notin exists
    /\ \A o \in Objects : run[o].pc \in {"idle", "resolve", "report"}
    /\ \A o \in Objects : \A e \in ToSet(effective[o]) \cup ToSet(run[o].refs) :
         Target(e) \in ConfigObjects /\ e.policy \in Policies

(* Reference definition: the secrets and config maps that reach an object   *)
(* along references, each link but the first under the policy Propagate.    *)
Reachable(entries) ==
    LET reach[n \in 0 .. Cardinality(Objects)] ==
          [o \in Objects |->
             {e \in entries[o] : e.kind \in ConfigKinds} \cup
             IF n = 0 THEN {}
             ELSE UNION {{[e EXCEPT !.policy = link.policy] :
                            e \in {r \in reach[n - 1][Target(link)] : r.policy = "Propagate"}} :
                         link \in {l \in entries[o] : Target(l) \in Objects}}]
    IN reach[Cardinality(Objects)]

(* A configuration that is not to be propagated is used by no other object: *)
(* whatever was read from a cache and however specifications have changed,  *)
(* an object is configured with what some chain of references propagates    *)
(* to it.                                                                   *)
OnlyPropagated ==
    \A o \in Objects : ToSet(effective[o]) \cup ToSet(run[o].refs) \subseteq Reachable(ever)[o]

(* A cached context is never outdated: the context that a run is given was  *)
(* configured with exactly the data that the run has read.                  *)
ContextHasData ==
    \A o \in Objects : run[o].pc = "report" => ToBag(run[o].applied) = ToBag(run[o].read)

(* The data are applied in the order of effectiveOCMConfig.                 *)
AppliedInOrder ==
    \A o \in Objects : run[o].pc = "report" => run[o].applied = run[o].read

Specified == [o \in Objects |-> {Qualified(o, e) : e \in ToSet(spec[o])}]

Available == exists = Objects /\ \A d \in ConfigObjects : data[d] \in Applicable

(* In the end every object reports the configurations that the              *)
(* specifications say, also those that reach it through objects whose       *)
(* events it does not get.                                                  *)
EventuallyEffective ==
    <>[](Available => \A o \in Objects :
           o.kind # "Deployer" => ToSet(effective[o]) = Reachable(Specified)[o])
==============================================================================
