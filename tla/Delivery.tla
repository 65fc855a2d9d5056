------------------------------ MODULE Delivery ------------------------------
(***************************************************************************)
(* The way of content from the OCM repository into the cluster: the         *)
(* component controller reports a version, the resource controller finds    *)
(* the resource of that version and reports its digest                      *)
(* (internal/controller/resource, internal/ocm/resource.go), the deployer   *)
(* downloads what has this digest, keeps it in its cache                    *)
(* (internal/controller/deployer/cache) and applies it.  All three look     *)
(* versions up in cached sessions and read the status that the one before   *)
(* has reported, while the repository changes.                              *)
(*                                                                         *)
(* A component reconciliation is one step here (module Component has its    *)
(* steps), and so is the tracking of what was applied (module Deployer).    *)
(* Each resource is reconciled by one goroutine at a time, all deployers by *)
(* one goroutine.  Every object is reconciled again after an interval.  A   *)
(* status of another object that an informer cache shows late is one that a *)
(* run has read early; of its own object, the run of a resource reads what  *)
(* the cache shows (seen).  That a component or resource is not ready for   *)
(* other reasons only delays the next one (module References has the        *)
(* waiting).                                                                *)
(***************************************************************************)
EXTENDS Integers, FiniteSets, Sequences

CONSTANTS
    Versions,      \* versions of the component: numbers, in semantic order
    Nested,        \* component versions that are only referred to
    Reference,     \* per component version: the one that it refers to, or None
    Contents,      \* records: digest in the descriptor, and data it is to describe
    InitialContent,
    Resources,     \* Resource objects; the deployer of each has its name
    ReferencePath, \* per resource: number of references to follow
    SkipVerify,    \* the resources with spec.skipVerify
    SessionKeys,   \* keys of the session cache
    ComponentKey,  \* that of the component controller,
    ResourceKey,   \* those of the resources
    DeployerKey,   \* and those of the deployers
    CacheSize,     \* size of the download cache
    None,
    MaxPublished,  \* bound: changes of the repository
    MaxFaults      \* bound: failures of services and updates, and restarts

CVs == Versions \cup Nested

ASSUME VersionsAssumption ==
    /\ Versions \subseteq Nat
    /\ \E v \in Versions : \A w \in Versions : w <= v
    /\ None \notin CVs
ASSUME ReferenceAssumption ==
    /\ Reference \in [CVs -> Nested \cup {None}]
    /\ ReferencePath \in [Resources -> Nat]
    /\ SkipVerify \subseteq Resources
ASSUME KeyAssumption ==
    /\ ComponentKey \in SessionKeys
    /\ ResourceKey \in [Resources -> SessionKeys]
    /\ DeployerKey \in [Resources -> SessionKeys]
ASSUME ContentAssumption ==
    None \notin Contents /\ InitialContent \in [CVs -> Contents \cup {None}]
ASSUME SizeAssumption == CacheSize \in Nat \ {0}

VARIABLES
    repository,  \* external: the content of each component version
    sessions,    \* session cache: what the session of each key has looked up
    component,   \* Component: the version it reports, or None
    status,      \* Resources, API server: ready, component version and digest
    seen,        \* informer cache: the status that it shows of each resource
    run,         \* per resource: its reconciliation
    rec,         \* the deployer's goroutine
    downloads,   \* download cache: digests with their data, oldest first
    applied,     \* cluster: per deployer, the data applied and the status they are for
    published,   \* auxiliary: what the repository has held, under which version
    budget       \* what is left of the bounds

vars == <<repository, sessions, component, status, seen, run, rec, downloads, applied, published,
          budget>>

Idle == [pc |-> "idle", cv |-> None, open |-> FALSE, before |-> None, status |-> None]

RecIdle == [pc |-> "idle", deployer |-> None, open |-> FALSE, status |-> None, data |-> None]

NewSession == [v \in CVs |-> None]

Init ==
    /\ repository = InitialContent
    /\ sessions = [k \in SessionKeys |-> NewSession]
    /\ component = None
    /\ status = [r \in Resources |-> [ready |-> FALSE, cv |-> None, digest |-> None]]
    /\ seen = status
    /\ run = [r \in Resources |-> Idle]
    /\ rec = RecIdle
    /\ downloads = <<>>
    /\ applied = [r \in Resources |-> None]
    /\ published = {<<v, InitialContent[v]>> : v \in {w \in CVs : InitialContent[w] # None}}
    /\ budget = [published |-> MaxPublished, faults |-> MaxFaults]

Spend(what) == budget[what] > 0 /\ budget' = [budget EXCEPT ![what] = @ - 1]

-----------------------------------------------------------------------------
(* A component version is published, or published again.                    *)
Publish(v, c) ==
    /\ Spend("published")
    /\ repository[v] # c
    /\ repository' = [repository EXCEPT ![v] = c]
    /\ published' = published \cup {<<v, c>>}
    /\ UNCHANGED <<sessions, component, status, seen, run, rec, downloads, applied>>

(* The process ends; sessions and downloads are lost.                       *)
Restart ==
    /\ Spend("faults")
    /\ sessions' = [k \in SessionKeys |-> NewSession]
    /\ run' = [r \in Resources |-> Idle]
    /\ rec' = RecIdle
    /\ downloads' = <<>>
    /\ UNCHANGED <<repository, component, status, seen, applied, published>>

-----------------------------------------------------------------------------
(* Sessions.  Session.LookupComponentVersion of the repository that the     *)
(* session has looked up returns what it has returned before.               *)

Cached(k, v) == IF sessions[k][v] # None THEN sessions[k][v] ELSE repository[v]

Remember(k, v, c) == sessions' = [sessions EXCEPT ![k][v] = IF @ = None THEN c ELSE @]

(* With another resolver the session may look the version up again.         *)
Resolved(k, v) == {sessions[k][v], repository[v]} \ {None}

-----------------------------------------------------------------------------
(* The component controller                                                 *)

Available == {v \in Versions : repository[v] # None}

Latest == CHOOSE v \in Available : \A w \in Available : w <= v

ReportComponent ==
    /\ Available # {}
    /\ Cached(ComponentKey, Latest) = repository[Latest]
    /\ component' = Latest
    /\ Remember(ComponentKey, Latest, repository[Latest])
    /\ UNCHANGED <<repository, status, seen, run, rec, downloads, applied, published, budget>>

(* Faulty variant: an outdated session is kept.                             *)
KeepSession ==
    /\ Available # {}
    /\ Cached(ComponentKey, Latest) # repository[Latest]
    /\ component' = Latest
    /\ UNCHANGED <<repository, sessions, status, seen, run, rec, downloads, applied, published,
                   budget>>

(* The session is outdated and is closed, also for those that use it; the   *)
(* next GetSession opens another one.                                       *)
CloseSession ==
    /\ Available # {}
    /\ Cached(ComponentKey, Latest) # repository[Latest]
    /\ sessions' = [sessions EXCEPT ![ComponentKey] = NewSession]
    /\ run' = [r \in Resources |->
                 IF ResourceKey[r] = ComponentKey THEN [run[r] EXCEPT !.open = FALSE] ELSE run[r]]
    /\ rec' = IF rec.pc # "idle" /\ DeployerKey[rec.deployer] = ComponentKey
              THEN [rec EXCEPT !.open = FALSE] ELSE rec
    /\ UNCHANGED <<repository, component, status, seen, downloads, applied, published, budget>>

-----------------------------------------------------------------------------
(* GetResourceAccessForComponentVersion                                     *)

(* ResolveResourceReference: follows the path through descriptors that are  *)
(* at hand.                                                                 *)
ResolveReferencePath(cv, length, descriptors) ==
    LET resolve[n \in 0 .. length] ==
          IF n = 0 THEN cv
          ELSE LET v == resolve[n - 1] IN
               IF v # None /\ Reference[v] \in descriptors THEN Reference[v] ELSE None
    IN resolve[length]

(* ListComponentDescriptors, and what the signatures are verified for.      *)
Descriptors(cv) ==
    {ResolveReferencePath(cv, n, Nested) : n \in 0 .. Cardinality(Nested)} \ {None}

(* verifyResource compares the data with the digest in the descriptor.      *)
Verified(r, c) == r \in SkipVerify \/ c.digest = c.data

-----------------------------------------------------------------------------
(* The resource controller                                                  *)

BeginResource(r) ==
    /\ run[r].pc = "idle"
    /\ component # None
    /\ run' = [run EXCEPT ![r] = [Idle EXCEPT !.pc = "lookup", !.cv = component, !.open = TRUE,
                                              !.before = seen[r]]]
    /\ UNCHANGED <<repository, sessions, component, status, seen, rec, downloads, applied, published,
                   budget>>

(* The informer delivers the status of the resource itself.                 *)
ObserveResource(r) ==
    /\ seen[r] # status[r]
    /\ seen' = [seen EXCEPT ![r] = status[r]]
    /\ UNCHANGED <<repository, sessions, component, status, run, rec, downloads, applied, published,
                   budget>>

(* The patch carries what differs from the status that was read.            *)
Patched(stored, before, s) ==
    [f \in DOMAIN stored |-> IF s[f] = before[f] THEN stored[f] ELSE s[f]]

ResourceEnds(r, s) ==
    /\ status' = [status EXCEPT ![r] = Patched(@, run[r].before, s)]
    /\ run' = [run EXCEPT ![r] = Idle]
    /\ UNCHANGED <<repository, sessions, component, seen, rec, downloads, applied, published>>

(* An error: the session was closed, something is missing or not verified,  *)
(* or a service fails.  The resource is not ready, and reconciled again.    *)
MarkNotReady(r) == ResourceEnds(r, [run[r].before EXCEPT !.ready = FALSE])

ResourceFails(r) == run[r].pc # "idle" /\ Spend("faults") /\ MarkNotReady(r)

SessionClosed(r) ==
    /\ run[r].pc # "report" /\ run[r].pc # "idle"
    /\ ~run[r].open
    /\ MarkNotReady(r) /\ UNCHANGED budget

LookupComponentVersion(r) ==
    LET k == ResourceKey[r]  v == run[r].cv IN
    /\ run[r].pc = "lookup" /\ run[r].open
    /\ Remember(k, v, Cached(k, v))
    /\ run' = [run EXCEPT ![r].pc = "descriptors"]
    /\ UNCHANGED <<repository, component, status, seen, rec, downloads, applied, published, budget>>

(* VerifyComponentVersionAndListDescriptors                                 *)
ListDescriptors(r) ==
    /\ run[r].pc = "descriptors" /\ run[r].open
    /\ \A v \in Descriptors(run[r].cv) : repository[v] # None
    /\ run' = [run EXCEPT ![r].pc = "access"]
    /\ UNCHANGED <<repository, sessions, component, status, seen, rec, downloads, applied, published,
                   budget>>

DescriptorMissing(r) ==
    /\ run[r].pc = "descriptors" /\ run[r].open
    /\ \E v \in Descriptors(run[r].cv) : repository[v] = None
    /\ MarkNotReady(r) /\ UNCHANGED budget

(* Faulty variant: the version is the one that the component reports now.   *)
AccessOfComponent(v, c) == [ready |-> TRUE, cv |-> component, digest |-> c.digest]

(* The resource and the component version that it was found in.             *)
Access(v, c) == [ready |-> TRUE, cv |-> v, digest |-> c.digest]

GetResourceAccess(r) ==
    LET k == ResourceKey[r]
        v == ResolveReferencePath(run[r].cv, ReferencePath[r], Descriptors(run[r].cv))
    IN
    /\ run[r].pc = "access" /\ run[r].open
    /\ v # None
    /\ \E c \in Resolved(k, v) :
         /\ Verified(r, c)
         /\ Remember(k, v, c)
         /\ run' = [run EXCEPT ![r].pc = "report", ![r].status = Access(v, c)]
    /\ UNCHANGED <<repository, component, status, seen, rec, downloads, applied, published, budget>>

NoResourceAccess(r) ==
    LET k == ResourceKey[r]
        v == ResolveReferencePath(run[r].cv, ReferencePath[r], Descriptors(run[r].cv))
    IN
    /\ run[r].pc = "access" /\ run[r].open
    /\ v # None => \E c \in Resolved(k, v) : ~Verified(r, c)
    /\ MarkNotReady(r) /\ UNCHANGED budget

(* setResourceStatus                                                        *)
ReportResource(r) ==
    /\ run[r].pc = "report"
    /\ ResourceEnds(r, run[r].status)
    /\ UNCHANGED budget

(* A CEL expression of the specification fails.  The resource is in the     *)
(* status then, its component version is not.                               *)
StatusFieldsFail(r) ==
    /\ run[r].pc = "report"
    /\ Spend("faults")
    /\ ResourceEnds(r, [run[r].before EXCEPT !.ready = FALSE, !.digest = run[r].status.digest])

ReconcileResource(r) ==
    \/ BeginResource(r) \/ SessionClosed(r) \/ ResourceFails(r)
    \/ LookupComponentVersion(r) \/ ListDescriptors(r) \/ DescriptorMissing(r)
    \/ GetResourceAccess(r) \/ NoResourceAccess(r)
    \/ ReportResource(r) \/ StatusFieldsFail(r)

-----------------------------------------------------------------------------
(* The deployer                                                             *)

(* Faulty variant: downloads are kept by component version.                 *)
KeyOfVersion(s) == s.cv

(* The key of the download cache.                                           *)
DownloadKey(s) == s.digest

(* The place of a key in the download cache.                                *)
Downloaded(key) == {i \in DOMAIN downloads : downloads[i].key = key}

(* A hit makes the entry the latest one.                                    *)
Touch(i) ==
    [j \in DOMAIN downloads |->
       downloads[IF j = Len(downloads) THEN i ELSE IF j < i THEN j ELSE j + 1]]

(* Load; a miss calls the fallback.                                         *)
BeginDeployer(r) ==
    LET key == DownloadKey(status[r]) IN
    /\ rec.pc = "idle"
    /\ status[r].ready
    /\ \/ \E i \in Downloaded(key) :
            /\ downloads' = Touch(i)
            /\ rec' = [RecIdle EXCEPT !.pc = "apply", !.deployer = r, !.status = status[r],
                                      !.data = downloads[i].data]
       \/ /\ Downloaded(key) = {}
          /\ rec' = [RecIdle EXCEPT !.pc = "lookup", !.deployer = r, !.status = status[r],
                                    !.open = TRUE]
          /\ UNCHANGED downloads
    /\ UNCHANGED <<repository, sessions, component, status, seen, run, applied, published, budget>>

DeployerEnds ==
    /\ rec' = RecIdle
    /\ UNCHANGED <<repository, sessions, component, status, seen, run, downloads, applied, published>>

DeployerFails == rec.pc # "idle" /\ Spend("faults") /\ DeployerEnds

DeployerSessionClosed ==
    /\ rec.pc \in {"lookup", "download"}
    /\ ~rec.open
    /\ DeployerEnds /\ UNCHANGED budget

(* DownloadResourceWithOCM                                                  *)
LookupDownload ==
    LET k == DeployerKey[rec.deployer]  v == rec.status.cv IN
    /\ rec.pc = "lookup" /\ rec.open
    /\ Remember(k, v, Cached(k, v))
    /\ rec' = [rec EXCEPT !.pc = "download"]
    /\ UNCHANGED <<repository, component, status, seen, run, downloads, applied, published, budget>>

(* The reference path of the resource is followed from the component        *)
(* version that the resource has reported, whose descriptor is the only one *)
(* at hand.                                                                 *)
DownloadVersion ==
    ResolveReferencePath(rec.status.cv, ReferencePath[rec.deployer], {rec.status.cv})

DownloadedContent ==
    IF DownloadVersion = None THEN {} ELSE Resolved(DeployerKey[rec.deployer], DownloadVersion)

(* The digest of the data must be the one that the resource has reported.   *)
Accepts(c) == Verified(rec.deployer, c) /\ c.data = rec.status.digest

(* Faulty variant: nothing is dropped.                                      *)
AddUnbounded(key, data) == downloads' = Append(downloads, [key |-> key, data |-> data])

(* Add to a full cache drops the oldest entry.                              *)
AddDownload(key, data) ==
    LET kept == IF Len(downloads) >= CacheSize THEN Tail(downloads) ELSE downloads IN
    downloads' = Append(kept, [key |-> key, data |-> data])

Download ==
    /\ rec.pc = "download" /\ rec.open
    /\ \E c \in DownloadedContent :
         /\ Accepts(c)
         /\ Remember(DeployerKey[rec.deployer], DownloadVersion, c)
         /\ AddDownload(DownloadKey(rec.status), c.data)
         /\ rec' = [rec EXCEPT !.pc = "apply", !.data = c.data]
    /\ UNCHANGED <<repository, component, status, seen, run, applied, published, budget>>

(* No resource, not verified, or another digest.                            *)
DownloadFails ==
    /\ rec.pc = "download" /\ rec.open
    /\ DownloadedContent = {} \/ \E c \in DownloadedContent : ~Accepts(c)
    /\ DeployerEnds /\ UNCHANGED budget

Apply ==
    /\ rec.pc = "apply"
    /\ applied' = [applied EXCEPT ![rec.deployer] = [data |-> rec.data, status |-> rec.status]]
    /\ rec' = RecIdle
    /\ UNCHANGED <<repository, sessions, component, status, seen, run, downloads, published, budget>>

ReconcileDeployer ==
    \/ \E r \in Resources : BeginDeployer(r)
    \/ DeployerFails \/ DeployerSessionClosed
    \/ LookupDownload \/ Download \/ DownloadFails \/ Apply

-----------------------------------------------------------------------------
ReconcileComponent == ReportComponent \/ CloseSession

Next ==
    \/ \E v \in CVs, c \in Contents : Publish(v, c)
    \/ Restart
    \/ ReconcileComponent
    \/ \E r \in Resources : ReconcileResource(r) \/ ObserveResource(r)
    \/ ReconcileDeployer

Spec == Init /\ [][Next]_vars

(* Every object is reconciled again after its interval, the informer        *)
(* delivers; the deployer's queue is first-in first-out.                    *)
Fairness ==
    /\ WF_vars(ReconcileComponent)
    /\ \A r \in Resources :
         WF_vars(ReconcileResource(r)) /\ WF_vars(ObserveResource(r)) /\ SF_vars(BeginDeployer(r))
    /\ WF_vars(ReconcileDeployer)

FairSpec == Spec /\ Fairness

-----------------------------------------------------------------------------
(* Properties                                                               *)

Digests == {c.digest : c \in Contents} \cup {c.data : c \in Contents}

Statuses == [ready: BOOLEAN, cv: CVs \cup {None}, digest: Digests \cup {None}]

(* Every variable has its type, and the download cache has at most          *)
(* CacheSize entries of different keys.                                     *)
TypeOK ==
    /\ repository \in [CVs -> Contents \cup {None}]
    /\ sessions \in [SessionKeys -> [CVs -> Contents \cup {None}]]
    /\ component \in Versions \cup {None}
    /\ status \in [Resources -> Statuses] /\ seen \in [Resources -> Statuses]
    /\ \A r \in Resources :
         run[r] \in [pc: {"idle", "lookup", "descriptors", "access", "report"},
                     cv: Versions \cup {None}, open: BOOLEAN,
                     before: Statuses \cup {None}, status: Statuses \cup {None}]
    /\ rec \in [pc: {"idle", "lookup", "download", "apply"}, deployer: Resources \cup {None},
                open: BOOLEAN, status: Statuses \cup {None}, data: Digests \cup {None}]
    /\ Len(downloads) <= CacheSize
    /\ \A i, j \in DOMAIN downloads : downloads[i].key = downloads[j].key => i = j

(* What is applied has the digest that the resource had reported, whether   *)
(* it was downloaded or came from the cache, from a session that may be     *)
(* outdated or from a repository that has changed since.                    *)
AppliedHasDigest ==
    \A r \in Resources : applied[r] # None => applied[r].data = applied[r].status.digest

WasPublished(s) == \E p \in published : p[1] = s.cv /\ p[2].digest = s.digest

(* What a resource reports belongs together: the component version has been *)
(* published with a resource of this digest, whatever was published between *)
(* the look-ups of the run, and after a run that wrote one of the two only. *)
(* It holds of every report of a run that has read the stored status, and   *)
(* of any other one that changes both.                                      *)
ReportedWasPublished ==
    [][\A r \in Resources :
         LET old == status[r]  new == status'[r] IN
         new # old /\ new.ready
           /\ (run[r].before = old \/ (new.cv # old.cv /\ new.digest # old.digest))
         => WasPublished(new)]_vars

(* The same of whatever is stored: a run that has read an old status may    *)
(* write one of the two next to the other of another run.                   *)
ReadyWasPublished == \A r \in Resources : status[r].ready => WasPublished(status[r])

(* The latest version and all that it refers to are published, and their    *)
(* data are what the descriptors say.                                       *)
Deployable ==
    /\ Available # {}
    /\ \A v \in Descriptors(Latest) :
         repository[v] # None /\ repository[v].digest = repository[v].data

Wanted(r) == ResolveReferencePath(Latest, ReferencePath[r], Nested)

(* What has been published last is deployed in the end, although sessions,  *)
(* the status of each object and the download cache may all hold what was   *)
(* there before.                                                            *)
EventuallyDeployed ==
    \A r \in Resources :
      <>[](Deployable /\ Wanted(r) # None
             => applied[r] # None /\ applied[r].data = repository[Wanted(r)].data)
=============================================================================
