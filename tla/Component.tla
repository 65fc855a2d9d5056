------------------------------ MODULE Component ------------------------------
(***************************************************************************)
(* A Component object and its controller (internal/controller/component,    *)
(* with the version selection of internal/ocm/ocm.go and the comparison of  *)
(* internal/ocm/hash.go): the latest permitted version is found in the live *)
(* repository and reported with the digest of its descriptor, which comes   *)
(* from a session that is shared with other controllers and may be          *)
(* outdated.                                                                *)
(*                                                                         *)
(* One goroutine at a time reconciles the object.  The repository changes   *)
(* and other reconcilers use the session at any time between its steps.     *)
(* The object exists and its Repository is ready: References has the rest.  *)
(* A version is a number, in semantic order; a constraint and a filter are  *)
(* the sets of versions that they match.  Specifications and labels are     *)
(* well formed: one that is not is a terminal error in every run.           *)
(***************************************************************************)
EXTENDS Integers

CONSTANTS
    Versions,         \* versions of the component, greater than 0
    Digests,          \* digests of descriptors
    None,             \* no content
    Specs,            \* records: constraint, filter, policy
    Downgradable,     \* per version: the versions that its label permits
    InitialVersions,  \* versions that are published at the start
    MaxChanges,       \* bound: changes of the repository and the specification
    MaxRemovals,      \* bound: versions that are removed from the repository
    MaxFailures,      \* bound: failures of the repository, verification or update
    MaxSharing,       \* bound: look-ups and closings by other reconcilers
    MaxStale          \* bound: reconciliations that read an old status

Policies == {"Deny", "Allow", "Enforce"}

ASSUME VersionsAssumption == Versions \subseteq Nat \ {0}
ASSUME DigestsAssumption == None \notin Digests
ASSUME SpecsAssumption ==
    Specs \subseteq [constraint: SUBSET Versions, filter: SUBSET Versions, policy: Policies]
ASSUME DowngradableAssumption == Downgradable \in [Versions -> SUBSET Versions]
ASSUME InitialAssumption == InitialVersions \subseteq Versions

Bounds ==
    [b \in {"changes", "removals", "failures", "sharing", "stale"} |->
       CASE b = "changes"  -> MaxChanges
         [] b = "removals" -> MaxRemovals
         [] b = "failures" -> MaxFailures
         [] b = "sharing"  -> MaxSharing
         [] b = "stale"    -> MaxStale]

ASSUME BoundsAssumption == \A b \in DOMAIN Bounds : Bounds[b] \in Nat

VARIABLES
    repository,   \* external: content of each version, or None
    session,      \* the cached session: open, what it listed, what it looked up
    spec,         \* the specification of the object
    status,       \* API server: ready, version (0: none) and digest
    seen,         \* informer cache: the status it shows
    queued,       \* the workqueue holds the object
    timer,        \* a requeue after the interval is due
    run,          \* the reconciliation in progress
    budget        \* what is left of the bounds

vars == <<repository, session, spec, status, seen, queued, timer, run, budget>>

Closed == [open |-> FALSE, listed |-> {}, cached |-> [v \in Versions |-> None]]

Idle == [pc |-> "idle"]

Published == {v \in Versions : repository[v] # None}

Init ==
    /\ \E d \in Digests :
         repository = [v \in Versions |-> IF v \in InitialVersions THEN d ELSE None]
    /\ session = Closed
    /\ spec \in Specs
    /\ status = [ready |-> FALSE, version |-> 0, digest |-> None]
    /\ seen = status
    /\ queued = TRUE
    /\ timer = FALSE
    /\ run = Idle
    /\ budget = Bounds

Spend(what) == budget[what] > 0 /\ budget' = [budget EXCEPT ![what] = @ - 1]

-----------------------------------------------------------------------------
(* The repository, users, and reconcilers that share the session            *)

(* A version is published, or published again with other content.           *)
Publish(v, d) ==
    /\ Spend("changes")
    /\ repository[v] # d
    /\ repository' = [repository EXCEPT ![v] = d]
    /\ run' = IF run.pc = "idle" THEN run ELSE [run EXCEPT !.live[v] = @ \cup {d}]
    /\ UNCHANGED <<session, spec, status, seen, queued, timer>>

Remove(v) ==
    /\ Spend("removals")
    /\ repository[v] # None
    /\ repository' = [repository EXCEPT ![v] = None]
    /\ UNCHANGED <<session, spec, status, seen, queued, timer, run>>

ChangeSpec(s) ==
    /\ Spend("changes")
    /\ s # spec
    /\ spec' = s
    /\ queued' = TRUE
    /\ UNCHANGED <<repository, session, status, seen, timer, run>>

(* An event of the Repository.                                              *)
RepositoryEvent ==
    /\ ~queued
    /\ queued' = TRUE
    /\ UNCHANGED <<repository, session, spec, status, seen, timer, run, budget>>

(* Another reconciler looks a version up in the session.                    *)
ShareLookup(v) ==
    /\ Spend("sharing")
    /\ session.open
    /\ session.cached[v] = None /\ repository[v] # None
    /\ session' = [session EXCEPT !.cached[v] = repository[v]]
    /\ UNCHANGED <<repository, spec, status, seen, queued, timer, run>>

(* Another reconciler closes it, or the cache evicts it.                    *)
ShareClose ==
    /\ Spend("sharing")
    /\ session.open
    /\ session' = Closed
    /\ run' = IF run.pc = "idle" THEN run ELSE [run EXCEPT !.session = FALSE]
    /\ UNCHANGED <<repository, spec, status, seen, queued, timer>>

Observe ==
    /\ seen # status
    /\ seen' = status
    /\ UNCHANGED <<repository, session, spec, status, queued, timer, run, budget>>

(* RequeueAfter: the interval is over.                                      *)
Interval ==
    /\ timer
    /\ timer' = FALSE
    /\ queued' = TRUE
    /\ UNCHANGED <<repository, session, spec, status, seen, run, budget>>

-----------------------------------------------------------------------------
(* The end of a reconciliation                                              *)

Marked(ready) == [status EXCEPT !.ready = IF ready = run.seen.ready THEN @ ELSE ready]

(* An error that is returned has the object reconciled again; a terminal    *)
(* one has not.                                                             *)
Retry == queued' = TRUE /\ run' = Idle /\ UNCHANGED <<repository, spec, seen, timer>>

NotReady == status' = Marked(FALSE)

(* Also if the status cannot be written: the joined error is terminal too.  *)
Terminal ==
    /\ run' = Idle
    /\ \/ NotReady /\ UNCHANGED budget
       \/ UNCHANGED status /\ Spend("failures")
    /\ UNCHANGED <<repository, session, spec, seen, queued, timer>>

-----------------------------------------------------------------------------
(* Reconcile                                                                *)

(* GetSession gives the cached session if it is open and else a new one.    *)
Begin ==
    /\ queued /\ run.pc = "idle"
    /\ IF seen = status THEN UNCHANGED budget ELSE Spend("stale")
    /\ session' = IF session.open THEN session
                  ELSE [Closed EXCEPT !.open = TRUE, !.listed = Published]
    /\ run' = [pc |-> "list", spec |-> spec, seen |-> seen, session |-> TRUE, target |-> 0,
               digest |-> None, live |-> [v \in Versions |-> {repository[v]} \ {None}]]
    /\ queued' = FALSE
    /\ UNCHANGED <<repository, spec, status, seen, timer>>

(* The versions that the filter matches are appended to the list of all     *)
(* versions, so that the filter leaves nothing out.                         *)
Candidates(s) == (Published \cup (Published \cap s.filter)) \cap s.constraint

IsLatest(v, versions) == v \in versions /\ \A w \in versions : v >= w

(* Faulty variant: downgrades are not looked at.                            *)
DetermineUnchecked ==
    /\ run.pc = "list"
    /\ \E latest \in Versions :
         /\ IsLatest(latest, Candidates(run.spec))
         /\ run' = [run EXCEPT !.target = latest, !.pc = "lookup"]
    /\ UNCHANGED <<repository, session, spec, status, seen, queued, timer, budget>>

(* DetermineEffectiveVersionFromLiveRepo: the latest version, unless that   *)
(* is a downgrade.                                                          *)
Determine ==
    /\ run.pc = "list"
    /\ \E latest \in Versions :
         /\ IsLatest(latest, Candidates(run.spec))
         /\ latest >= run.seen.version \/ run.spec.policy # "Deny"
         /\ run' = [run EXCEPT !.target = latest,
                               !.pc = IF latest < run.seen.version /\ run.spec.policy = "Allow"
                                      THEN "allow" ELSE "lookup"]
    /\ UNCHANGED <<repository, session, spec, status, seen, queued, timer, budget>>

(* No valid version, or a downgrade that is denied.                         *)
DetermineFails ==
    /\ run.pc = "list"
    /\ Published # {}
    /\ \A v \in Candidates(run.spec) : v < run.seen.version /\ run.spec.policy = "Deny"
    /\ Terminal

(* A repository without versions of the component is not a terminal error.  *)
NoVersions ==
    /\ run.pc = "list"
    /\ Published = {}
    /\ NotReady /\ Retry
    /\ UNCHANGED <<session, budget>>

(* IsDowngradable of the version that was reconciled last.                  *)
AllowDowngrade ==
    /\ run.pc = "allow" /\ run.session
    /\ repository[run.seen.version] # None
    /\ repository[run.target] # None
    /\ run.target \in Downgradable[run.seen.version]
    /\ run' = [run EXCEPT !.pc = "lookup"]
    /\ UNCHANGED <<repository, session, spec, status, seen, queued, timer, budget>>

RefuseDowngrade ==
    /\ run.pc = "allow" /\ run.session
    /\ repository[run.seen.version] # None
    /\ repository[run.target] = None \/ run.target \notin Downgradable[run.seen.version]
    /\ NotReady /\ Retry
    /\ UNCHANGED <<session, budget>>

(* The version that was reconciled last is not in the repository any more,  *)
(* or cannot be looked up because another reconciler has closed the session.*)
CurrentVersionMissing ==
    /\ run.pc = "allow"
    /\ repository[run.seen.version] = None \/ ~run.session
    /\ Terminal

Found(digest) ==
    /\ run' = [run EXCEPT !.digest = digest, !.pc = "compare"]
    /\ UNCHANGED <<repository, spec, status, seen, queued, timer, budget>>

(* The session returns what it looked up before, or looks it up now.        *)
LookupCached ==
    /\ run.pc = "lookup" /\ run.session
    /\ session.cached[run.target] # None
    /\ Found(session.cached[run.target])
    /\ UNCHANGED session

(* Faulty variant: a version that is not found is not told apart.           *)
LookupUnchecked ==
    /\ run.pc = "lookup" /\ run.session
    /\ session.cached[run.target] = None
    /\ Found(repository[run.target])
    /\ session' = [session EXCEPT !.cached[run.target] = repository[run.target]]

LookupLive ==
    /\ run.pc = "lookup" /\ run.session
    /\ session.cached[run.target] = None
    /\ repository[run.target] # None
    /\ Found(repository[run.target])
    /\ session' = [session EXCEPT !.cached[run.target] = repository[run.target]]

(* Faulty variant: the outdated session stays open.                         *)
CloseSessionKept == UNCHANGED session

(* The session is closed, so that the next reconciliation opens another.    *)
CloseSession == session' = IF run.session THEN Closed ELSE session

(* Not found: the version is gone, or newer than the session.               *)
LookupNotFound ==
    /\ run.pc = "lookup" /\ run.session
    /\ session.cached[run.target] = None
    /\ repository[run.target] = None \/ run.target \notin session.listed
    /\ CloseSession
    /\ Retry
    /\ UNCHANGED <<status, budget>>

(* Another reconciler has closed the session.                               *)
LookupClosed ==
    /\ run.pc = "lookup" /\ ~run.session
    /\ NotReady /\ Retry
    /\ UNCHANGED <<session, budget>>

(* Faulty variant: the digests are not compared.                            *)
CompareSkipped ==
    /\ run.pc = "compare"
    /\ run' = [run EXCEPT !.pc = "verify"]
    /\ UNCHANGED <<repository, session, spec, status, seen, queued, timer, budget>>

(* CompareCachedAndLiveHashes.  A hash that is not stable is used as well.  *)
CompareEqual ==
    /\ run.pc = "compare"
    /\ repository[run.target] = run.digest
    /\ run' = [run EXCEPT !.pc = "verify"]
    /\ UNCHANGED <<repository, session, spec, status, seen, queued, timer, budget>>

CompareMismatch ==
    /\ run.pc = "compare"
    /\ repository[run.target] \notin {None, run.digest}
    /\ CloseSession
    /\ Retry
    /\ UNCHANGED <<status, budget>>

CompareMissing ==
    /\ run.pc = "compare"
    /\ repository[run.target] = None
    /\ NotReady /\ Retry
    /\ UNCHANGED <<session, budget>>

(* Configuration, repository or verification.                               *)
Fails ==
    /\ run.pc # "idle"
    /\ Spend("failures")
    /\ NotReady /\ Retry
    /\ UNCHANGED session

(* The status cannot be written, or the process is restarted, which empties *)
(* the cache of sessions.                                                   *)
UpdateStatusFails ==
    /\ run.pc = "verify"
    /\ Spend("failures")
    /\ Retry
    /\ session' \in {session, Closed}
    /\ UNCHANGED status

(* The patch carries what differs from the status that was read.  Digests   *)
(* of two versions are never equal.                                         *)
MarkReady ==
    /\ run.pc = "verify"
    /\ status' = [ready   |-> Marked(TRUE).ready,
                  version |-> IF run.target = run.seen.version THEN status.version ELSE run.target,
                  digest  |-> IF run.target = run.seen.version /\ run.digest = run.seen.digest
                              THEN status.digest ELSE run.digest]
    /\ timer' = TRUE
    /\ run' = Idle
    /\ UNCHANGED <<repository, session, spec, seen, queued, budget>>

-----------------------------------------------------------------------------
DetermineEffectiveVersionFromLiveRepo ==
    \/ Determine \/ DetermineFails \/ NoVersions
    \/ AllowDowngrade \/ RefuseDowngrade \/ CurrentVersionMissing

LookupComponentVersion == LookupCached \/ LookupLive \/ LookupNotFound \/ LookupClosed

CompareCachedAndLiveHashes == CompareEqual \/ CompareMismatch \/ CompareMissing

Reconcile ==
    \/ Begin
    \/ DetermineEffectiveVersionFromLiveRepo
    \/ LookupComponentVersion
    \/ CompareCachedAndLiveHashes
    \/ Fails \/ UpdateStatusFails \/ MarkReady

Environment ==
    \/ \E v \in Versions : ShareLookup(v) \/ Remove(v) \/ \E d \in Digests : Publish(v, d)
    \/ \E s \in Specs : ChangeSpec(s)
    \/ RepositoryEvent \/ ShareClose

Next == Reconcile \/ Observe \/ Interval \/ Environment

Spec == Init /\ [][Next]_vars

(* The controller and the informer run, and an interval ends.               *)
Fairness == WF_vars(Reconcile) /\ WF_vars(Observe) /\ WF_vars(Interval)

FairSpec == Spec /\ Fairness

-----------------------------------------------------------------------------
(* Properties                                                               *)

Contents == Digests \cup {None}

Statuses == [ready: BOOLEAN, version: Versions \cup {0}, digest: Contents]

Runs ==
    [pc: {"list", "allow", "lookup", "compare", "verify"}, spec: Specs, seen: Statuses,
     session: BOOLEAN, target: Versions \cup {0}, digest: Contents,
     live: [Versions -> SUBSET Digests]]

(* Every variable has its type; a version is reported with a digest, and a  *)
(* run that looks a version up has chosen one, a run that compares has      *)
(* found it.                                                                *)
TypeOK ==
    /\ repository \in [Versions -> Contents]
    /\ session \in [open: BOOLEAN, listed: SUBSET Versions, cached: [Versions -> Contents]]
    /\ spec \in Specs
    /\ status \in Statuses /\ seen \in Statuses
    /\ queued \in BOOLEAN /\ timer \in BOOLEAN
    /\ run \in {Idle} \cup Runs
    /\ budget \in [DOMAIN Bounds -> Nat]
    /\ status.version = 0 <=> status.digest = None
    /\ run.pc \in {"allow", "lookup", "compare", "verify"} => run.target # 0
    /\ run.pc \in {"compare", "verify"} => run.digest # None
    /\ run.pc = "allow" => run.seen.version # 0

(* Deny means never fetch a version lower than the current one, Allow only  *)
(* one that the label of the current version permits: whatever is published *)
(* or removed between the steps, a run does not go below the version that   *)
(* it has read otherwise.                                                   *)
NoUnwantedDowngrade ==
    [][status'.version # status.version =>
         \/ status'.version >= run.seen.version
         \/ run.spec.policy = "Enforce"
         \/ run.spec.policy = "Allow" /\ status'.version \in Downgradable[run.seen.version]]_vars

(* The same of the version that is stored, which a run that read an old     *)
(* status does not know.                                                    *)
StoredVersionNotLowered ==
    [][status'.version < status.version =>
         \/ run.spec.policy = "Enforce"
         \/ run.spec.policy = "Allow" /\ status'.version \in Downgradable[status.version]]_vars

(* The run has read the version and the digest that are stored.             *)
ReadIsCurrent == run.seen.version = status.version /\ run.seen.digest = status.digest

(* The digest that is reported with a version was the one in the live       *)
(* repository at some moment of the run: an outdated session is not         *)
(* reported, whoever filled it.  It holds of every other version that gets  *)
(* reported, and of new content of the same one if the read was current.    *)
ReportedDigestLive ==
    [][run.pc = "verify" /\ status'.ready /\ status' # status
         /\ (status'.version # status.version \/ ReadIsCurrent)
         => status'.digest \in run.live[status'.version]]_vars

(* The filter narrows the versions of the range.                            *)
VersionMatchesFilter ==
    [][status'.version # status.version => status'.version \in run.spec.filter]_vars

(* The version and content that the object should report.                   *)
Wanted(v, d) ==
    /\ IsLatest(v, Published \cap spec.constraint)
    /\ repository[v] = d
    /\ v >= status.version \/ spec.policy = "Enforce"

(* The repository is checked at each interval: the latest version in range, *)
(* or new content of it, gets reported, although sessions are outdated,     *)
(* shared and closed by others, and steps fail.                             *)
EventuallyCurrent ==
    \A v \in Versions, d \in Digests :
      Wanted(v, d) ~>
        (status = [ready |-> TRUE, version |-> v, digest |-> d] \/ ~Wanted(v, d))
=============================================================================
