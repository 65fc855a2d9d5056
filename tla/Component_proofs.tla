--------------------------- MODULE Component_proofs ---------------------------
(* Proofs of the safety properties of Component for every set of versions,  *)
(* digests, specifications and labels, and for any number of changes,       *)
(* removals, failures and uses of the session by others.                    *)
EXTENDS Component, TLAPS

-----------------------------------------------------------------------------
(* The inductive invariant.                                                 *)

(* A version that was reported once is never taken back, whatever the cache *)
(* or a run has read of it.                                                 *)
VersionKept ==
    /\ seen.version # 0 => status.version # 0
    /\ run.pc # "idle" /\ run.seen.version # 0 => status.version # 0

(* The target of a run is no downgrade from the version that the run has    *)
(* read, unless the policy permits it.                                      *)
TargetPermitted ==
    /\ run.pc = "allow" => run.spec.policy = "Allow"
    /\ run.pc \in {"lookup", "compare", "verify"} =>
         \/ run.target >= run.seen.version
         \/ run.spec.policy = "Enforce"
         \/ run.spec.policy = "Allow" /\ run.target \in Downgradable[run.seen.version]

(* A run knows the contents that were live while it is in progress, and the *)
(* digest that it has compared was one of them.                             *)
DigestWasLive ==
    /\ run.pc # "idle" => \A v \in Versions : repository[v] # None => repository[v] \in run.live[v]
    /\ run.pc = "verify" => run.digest \in run.live[run.target]

IInv == TypeOK /\ VersionKept /\ TargetPermitted /\ DigestWasLive

LEMMA VersionsAreNat == \A v \in Versions \cup {0} : v \in Nat
BY VersionsAssumption

LEMMA RunType ==
    ASSUME TypeOK
    PROVE  /\ run = Idle \/ run \in Runs
           /\ run.pc = "idle" <=> run = Idle
           /\ run.pc # "idle" <=> run \in Runs
BY DEF TypeOK, Idle, Runs

LEMMA SpendType ==
    ASSUME TypeOK, NEW b \in DOMAIN Bounds, Spend(b)
    PROVE  /\ budget' \in [DOMAIN Bounds -> Nat]
           /\ \A c \in DOMAIN Bounds : c # b => budget'[c] = budget[c]
           /\ budget[b] > 0
BY DEF TypeOK, Spend

LEMMA InitIInv == Init => IInv
<1> SUFFICES ASSUME Init PROVE IInv
  OBVIOUS
<1>1. budget \in [DOMAIN Bounds -> Nat]
  BY BoundsAssumption DEF Init, Bounds
<1>2. repository \in [Versions -> Contents]
  BY DEF Init, Contents
<1>3. session \in [open: BOOLEAN, listed: SUBSET Versions, cached: [Versions -> Contents]]
  BY DEF Init, Closed, Contents
<1>4. status \in Statuses /\ status.version = 0 /\ status.digest = None /\ seen = status
  BY DEF Init, Statuses, Contents
<1>5. run = Idle /\ run.pc = "idle"
  BY DEF Init, Idle
<1>6. TypeOK
  BY <1>1, <1>2, <1>3, <1>4, <1>5 DEF Init, TypeOK
<1> QED
  BY <1>4, <1>5, <1>6 DEF IInv, VersionKept, TargetPermitted, DigestWasLive

-----------------------------------------------------------------------------
(* The environment                                                          *)

LEMMA PublishStep == ASSUME IInv, NEW v \in Versions, NEW d \in Digests, Publish(v, d) PROVE IInv'
<1>1. budget' \in [DOMAIN Bounds -> Nat]
  BY SpendType DEF Publish, IInv, Bounds
<1>2. repository' \in [Versions -> Contents]
  BY DEF Publish, IInv, TypeOK, Contents
<1>3. UNCHANGED <<session, spec, status, seen, queued, timer>>
  BY DEF Publish
<1>4. CASE run.pc = "idle"
  BY <1>1, <1>2, <1>3, <1>4 DEF Publish, IInv, TypeOK, VersionKept, TargetPermitted, DigestWasLive
<1>5. CASE run.pc # "idle"
  <2>1. run \in Runs
    BY <1>5, RunType DEF IInv
  <2>2. run' = [run EXCEPT !.live = [run.live EXCEPT ![v] = @ \cup {d}]]
    BY <1>5, <2>1 DEF Publish
  <2>3. [run.live EXCEPT ![v] = @ \cup {d}] \in [Versions -> SUBSET Digests]
    BY <2>1 DEF Runs
  <2>4. /\ run' \in Runs
        /\ run'.pc = run.pc /\ run'.spec = run.spec /\ run'.seen = run.seen
        /\ run'.target = run.target /\ run'.digest = run.digest
        /\ run'.live = [run.live EXCEPT ![v] = @ \cup {d}]
    BY <2>1, <2>2, <2>3 DEF Runs
  <2>5. TypeOK'
    BY <1>1, <1>2, <1>3, <2>4 DEF IInv, TypeOK
  <2>6. \A w \in Versions : repository'[w] # None => repository'[w] \in run'.live[w]
    BY <1>5, <2>1, <2>4 DEF Publish, IInv, TypeOK, DigestWasLive, Runs
  <2>7. run.pc = "verify" => run.digest \in run'.live[run.target]
    <3>1. run.pc = "verify" => run.target \in Versions
      BY <2>1 DEF IInv, TypeOK, Runs
    <3> QED
      BY <2>1, <2>4, <3>1 DEF IInv, DigestWasLive, Runs
  <2> QED
    BY <1>3, <2>4, <2>5, <2>6, <2>7 DEF IInv, VersionKept, TargetPermitted, DigestWasLive
<1> QED
  BY <1>4, <1>5

LEMMA RemoveStep == ASSUME IInv, NEW v \in Versions, Remove(v) PROVE IInv'
<1>1. budget' \in [DOMAIN Bounds -> Nat]
  BY SpendType DEF Remove, IInv, Bounds
<1>2. repository' \in [Versions -> Contents]
  BY DEF Remove, IInv, TypeOK, Contents
<1>3. \A w \in Versions : repository'[w] # None => repository'[w] = repository[w]
  BY DEF Remove, IInv, TypeOK
<1>4. UNCHANGED <<session, spec, status, seen, queued, timer, run>>
  BY DEF Remove
<1> QED
  BY <1>1, <1>2, <1>3, <1>4 DEF IInv, TypeOK, VersionKept, TargetPermitted, DigestWasLive

LEMMA ShareStep ==
    ASSUME IInv, ShareClose \/ \E v \in Versions : ShareLookup(v)
    PROVE  IInv'
<1>1. budget' \in [DOMAIN Bounds -> Nat]
  BY SpendType DEF ShareClose, ShareLookup, IInv, Bounds
<1>2. session' \in [open: BOOLEAN, listed: SUBSET Versions, cached: [Versions -> Contents]]
  <2>1. CASE ShareClose
    BY <2>1 DEF ShareClose, Closed, Contents
  <2>2. ASSUME NEW v \in Versions, ShareLookup(v) PROVE session' = [session EXCEPT !.cached = [session.cached EXCEPT ![v] = repository[v]]]
    BY <2>2 DEF ShareLookup, IInv, TypeOK
  <2>3. ASSUME NEW v \in Versions PROVE [session.cached EXCEPT ![v] = repository[v]] \in [Versions -> Contents]
    BY DEF IInv, TypeOK
  <2> QED
    BY <2>1, <2>2, <2>3 DEF IInv, TypeOK
<1>3. UNCHANGED <<repository, spec, status, seen, queued, timer>>
  BY DEF ShareClose, ShareLookup
<1>4. CASE run' = run
  BY <1>1, <1>2, <1>3, <1>4 DEF IInv, TypeOK, VersionKept, TargetPermitted, DigestWasLive
<1>5. CASE run' # run
  <2>1. run.pc # "idle" /\ run' = [run EXCEPT !.session = FALSE]
    BY <1>5 DEF ShareClose, ShareLookup
  <2>2. run \in Runs
    BY <2>1, RunType DEF IInv
  <2>3. /\ run' \in Runs
        /\ run'.pc = run.pc /\ run'.spec = run.spec /\ run'.seen = run.seen
        /\ run'.target = run.target /\ run'.digest = run.digest /\ run'.live = run.live
    BY <2>1, <2>2 DEF Runs
  <2> QED
    BY <1>1, <1>2, <1>3, <2>3 DEF IInv, TypeOK, VersionKept, TargetPermitted, DigestWasLive
<1> QED
  BY <1>4, <1>5

LEMMA EventStep ==
    ASSUME IInv, Observe \/ Interval \/ RepositoryEvent \/ \E s \in Specs : ChangeSpec(s)
    PROVE  IInv'
<1>1. budget' \in [DOMAIN Bounds -> Nat]
  BY SpendType DEF Observe, Interval, RepositoryEvent, ChangeSpec, IInv, TypeOK, Bounds
<1>2. UNCHANGED <<repository, session, status, run>>
  BY DEF Observe, Interval, RepositoryEvent, ChangeSpec
<1>3. seen' \in {seen, status} /\ spec' \in Specs /\ queued' \in BOOLEAN /\ timer' \in BOOLEAN
  BY DEF Observe, Interval, RepositoryEvent, ChangeSpec, IInv, TypeOK
<1> QED
  BY <1>1, <1>2, <1>3 DEF IInv, TypeOK, VersionKept, TargetPermitted, DigestWasLive

-----------------------------------------------------------------------------
(* Reconcile                                                                *)

SessionType == [open: BOOLEAN, listed: SUBSET Versions, cached: [Versions -> Contents]]

LEMMA BeginStep == ASSUME IInv, Begin PROVE IInv'
<1>1. budget' \in [DOMAIN Bounds -> Nat]
  BY SpendType DEF Begin, IInv, TypeOK, Bounds
<1>2. Published \subseteq Versions
  BY DEF Published
<1>3. Closed \in SessionType /\ [Closed EXCEPT !.open = TRUE, !.listed = Published] \in SessionType
  BY <1>2 DEF Closed, SessionType, Contents
<1>4. session' \in SessionType
  BY <1>3 DEF Begin, IInv, TypeOK, SessionType
<1>5. [v \in Versions |-> {repository[v]} \ {None}] \in [Versions -> SUBSET Digests]
  BY DEF IInv, TypeOK, Contents
<1>6. /\ run' \in Runs /\ run'.pc = "list" /\ run'.seen = seen
      /\ run'.live = [v \in Versions |-> {repository[v]} \ {None}]
  BY <1>5 DEF Begin, IInv, TypeOK, Runs, Contents
<1>7. UNCHANGED <<repository, spec, status, seen, timer>> /\ queued' = FALSE
  BY DEF Begin
<1>8. TypeOK'
  BY <1>1, <1>4, <1>6, <1>7 DEF IInv, TypeOK, SessionType
<1> QED
  BY <1>6, <1>7, <1>8 DEF IInv, VersionKept, TargetPermitted, DigestWasLive

(* A run ends without a version to report.                                  *)
Ends ==
    /\ run.pc # "idle" /\ run' = Idle
    /\ status' \in {status, Marked(FALSE)}
    /\ session' \in {session, Closed}
    /\ queued' \in {queued, TRUE}
    /\ UNCHANGED <<repository, spec, seen, timer>>

LEMMA EndsStep == ASSUME IInv, Ends, budget' \in [DOMAIN Bounds -> Nat] PROVE IInv'
<1>1. run \in Runs
  BY RunType DEF IInv, Ends
<1>2. Marked(FALSE) \in Statuses /\ Marked(FALSE).version = status.version
      /\ Marked(FALSE).digest = status.digest
  BY <1>1 DEF Marked, IInv, TypeOK, Statuses, Runs
<1>3. status' \in Statuses /\ status'.version = status.version /\ status'.digest = status.digest
  BY <1>2 DEF Ends, IInv, TypeOK
<1>4. session' \in SessionType
  <2>1. Closed \in SessionType
    BY DEF Closed, SessionType, Contents
  <2>2. session \in SessionType
    BY DEF IInv, TypeOK, SessionType
  <2> QED
    BY <2>1, <2>2 DEF Ends
<1>5. run'.pc = "idle" /\ run' = Idle
  BY DEF Ends, Idle
<1>6. TypeOK'
  BY <1>3, <1>4, <1>5 DEF Ends, IInv, TypeOK, SessionType
<1> QED
  BY <1>3, <1>5, <1>6 DEF Ends, IInv, VersionKept, TargetPermitted, DigestWasLive

Failures ==
    \/ DetermineFails \/ NoVersions \/ RefuseDowngrade \/ CurrentVersionMissing
    \/ LookupNotFound \/ LookupClosed \/ CompareMismatch \/ CompareMissing
    \/ Fails \/ UpdateStatusFails

LEMMA FailuresEnd ==
    ASSUME IInv, Failures
    PROVE  Ends /\ budget' \in [DOMAIN Bounds -> Nat]
<1>1. run.pc # "idle" /\ run' = Idle
  BY DEF Failures, DetermineFails, NoVersions, RefuseDowngrade, CurrentVersionMissing,
         LookupNotFound, LookupClosed, CompareMismatch, CompareMissing, Fails,
         UpdateStatusFails, Terminal, Retry
<1>2. status' \in {status, Marked(FALSE)}
  BY DEF Failures, DetermineFails, NoVersions, RefuseDowngrade, CurrentVersionMissing,
         LookupNotFound, LookupClosed, CompareMismatch, CompareMissing, Fails,
         UpdateStatusFails, Terminal, NotReady
<1>3. session' \in {session, Closed}
  BY DEF Failures, DetermineFails, NoVersions, RefuseDowngrade, CurrentVersionMissing,
         LookupNotFound, LookupClosed, CompareMismatch, CompareMissing, Fails,
         UpdateStatusFails, Terminal, CloseSession
<1>4. queued' \in {queued, TRUE} /\ UNCHANGED <<repository, spec, seen, timer>>
  BY DEF Failures, DetermineFails, NoVersions, RefuseDowngrade, CurrentVersionMissing,
         LookupNotFound, LookupClosed, CompareMismatch, CompareMissing, Fails,
         UpdateStatusFails, Terminal, Retry
<1>5. budget' = budget \/ Spend("failures")
  BY DEF Failures, DetermineFails, NoVersions, RefuseDowngrade, CurrentVersionMissing,
         LookupNotFound, LookupClosed, CompareMismatch, CompareMissing, Fails,
         UpdateStatusFails, Terminal
<1>6. "failures" \in DOMAIN Bounds
  BY DEF Bounds
<1>7. budget' \in [DOMAIN Bounds -> Nat]
  BY <1>5, <1>6, SpendType DEF IInv, TypeOK
<1> QED
  BY <1>1, <1>2, <1>3, <1>4, <1>7 DEF Ends

(* The steps in which a run goes on.                                        *)
Proceeds ==
    /\ run \in Runs /\ run' \in Runs
    /\ session' \in SessionType
    /\ run'.spec = run.spec /\ run'.seen = run.seen /\ run'.live = run.live
    /\ UNCHANGED <<repository, spec, status, seen, queued, timer, budget>>

LEMMA DetermineStep == ASSUME IInv, Determine PROVE IInv' /\ Proceeds
<1>1. run \in Runs
  BY RunType DEF IInv, Determine
<1>2. PICK latest \in Versions :
        /\ latest >= run.seen.version \/ run.spec.policy # "Deny"
        /\ run' = [run EXCEPT !.target = latest,
                              !.pc = IF latest < run.seen.version /\ run.spec.policy = "Allow"
                                     THEN "allow" ELSE "lookup"]
  BY DEF Determine
<1>3. /\ latest \in Nat \ {0} /\ run.seen.version \in Nat /\ run.spec.policy \in Policies
  <2>1. run.seen \in Statuses /\ run.spec \in Specs
    BY <1>1 DEF Runs
  <2>2. run.seen.version \in Versions \cup {0}
    BY <2>1 DEF Statuses
  <2>3. run.spec.policy \in Policies
    BY <2>1, SpecsAssumption
  <2>4. run.seen.version \in Nat
    BY <2>2, VersionsAreNat
  <2>5. latest \in Nat \ {0}
    BY VersionsAssumption
  <2> QED
    BY <2>3, <2>4, <2>5
<1>4. /\ run' \in Runs /\ run'.target = latest
      /\ run'.pc = IF latest < run.seen.version /\ run.spec.policy = "Allow" THEN "allow" ELSE "lookup"
      /\ run'.spec = run.spec /\ run'.seen = run.seen /\ run'.live = run.live
  BY <1>1, <1>2 DEF Runs
<1>5. UNCHANGED <<repository, session, spec, status, seen, queued, timer, budget>>
  BY DEF Determine
<1>6. TypeOK'
  BY <1>3, <1>4, <1>5 DEF IInv, TypeOK
<1>7. TargetPermitted'
  BY <1>2, <1>3, <1>4 DEF TargetPermitted, Policies
<1>8. VersionKept' /\ DigestWasLive'
  BY <1>1, <1>4, <1>5, RunType DEF IInv, VersionKept, DigestWasLive
<1> QED
  BY <1>1, <1>4, <1>5, <1>6, <1>7, <1>8 DEF IInv, Proceeds, TypeOK, SessionType

LEMMA AllowStep == ASSUME IInv, AllowDowngrade PROVE IInv' /\ Proceeds
<1>1. run \in Runs
  BY RunType DEF IInv, AllowDowngrade
<1>2. /\ run' \in Runs /\ run'.pc = "lookup" /\ run'.target = run.target
      /\ run'.spec = run.spec /\ run'.seen = run.seen /\ run'.live = run.live
  BY <1>1 DEF AllowDowngrade, Runs
<1>3. UNCHANGED <<repository, session, spec, status, seen, queued, timer, budget>>
  BY DEF AllowDowngrade
<1>4. TypeOK'
  BY <1>2, <1>3 DEF IInv, TypeOK, AllowDowngrade
<1>5. TargetPermitted'
  BY <1>2 DEF IInv, TargetPermitted, AllowDowngrade
<1>6. VersionKept' /\ DigestWasLive'
  BY <1>2, <1>3 DEF IInv, VersionKept, DigestWasLive, AllowDowngrade
<1> QED
  BY <1>1, <1>2, <1>3, <1>4, <1>5, <1>6 DEF IInv, Proceeds, TypeOK, SessionType

LEMMA LookupStep == ASSUME IInv, LookupCached \/ LookupLive PROVE IInv' /\ Proceeds
<1>1. run \in Runs /\ run.pc = "lookup"
  BY RunType DEF IInv, LookupCached, LookupLive
<1>2. run.target \in Versions
  BY <1>1 DEF IInv, TypeOK, Runs
<1>3. PICK d \in Digests : Found(d)
  BY <1>2 DEF LookupCached, LookupLive, IInv, TypeOK, Contents
<1>4. /\ run' \in Runs /\ run'.pc = "compare" /\ run'.target = run.target /\ run'.digest = d
      /\ run'.spec = run.spec /\ run'.seen = run.seen /\ run'.live = run.live
  BY <1>1, <1>3 DEF Found, Runs, Contents
<1>5. UNCHANGED <<repository, spec, status, seen, queued, timer, budget>>
  BY <1>3 DEF Found
<1>6. session' \in SessionType
  <2>1. CASE LookupCached
    BY <2>1 DEF LookupCached, IInv, TypeOK, SessionType
  <2>2. CASE LookupLive
    <3>1. session' = [session EXCEPT !.cached = [session.cached EXCEPT ![run.target] = repository[run.target]]]
      BY <2>2 DEF LookupLive, IInv, TypeOK
    <3>2. [session.cached EXCEPT ![run.target] = repository[run.target]] \in [Versions -> Contents]
      BY <1>2 DEF IInv, TypeOK
    <3> QED
      BY <3>1, <3>2 DEF IInv, TypeOK, SessionType
  <2> QED
    BY <2>1, <2>2
<1>7. TypeOK'
  BY <1>1, <1>3, <1>4, <1>5, <1>6, DigestsAssumption DEF IInv, TypeOK, SessionType
<1>8. TargetPermitted' /\ VersionKept' /\ DigestWasLive'
  BY <1>1, <1>4, <1>5 DEF IInv, TargetPermitted, VersionKept, DigestWasLive
<1> QED
  BY <1>1, <1>4, <1>5, <1>6, <1>7, <1>8 DEF IInv, Proceeds

LEMMA CompareStep == ASSUME IInv, CompareEqual PROVE IInv' /\ Proceeds
<1>1. run \in Runs /\ run.pc = "compare"
  BY RunType DEF IInv, CompareEqual
<1>2. run.target \in Versions /\ run.digest # None /\ repository[run.target] = run.digest
  BY <1>1 DEF IInv, TypeOK, Runs, CompareEqual
<1>3. /\ run' \in Runs /\ run'.pc = "verify" /\ run'.target = run.target
      /\ run'.digest = run.digest
      /\ run'.spec = run.spec /\ run'.seen = run.seen /\ run'.live = run.live
  BY <1>1 DEF CompareEqual, Runs
<1>4. UNCHANGED <<repository, session, spec, status, seen, queued, timer, budget>>
  BY DEF CompareEqual
<1>5. TypeOK'
  BY <1>1, <1>3, <1>4 DEF IInv, TypeOK
<1>6. TargetPermitted' /\ VersionKept'
  BY <1>1, <1>3, <1>4 DEF IInv, TargetPermitted, VersionKept
<1>7. DigestWasLive'
  BY <1>1, <1>2, <1>3, <1>4 DEF IInv, DigestWasLive
<1> QED
  BY <1>1, <1>3, <1>4, <1>5, <1>6, <1>7 DEF IInv, Proceeds, TypeOK, SessionType

LEMMA MarkReadyStep == ASSUME IInv, MarkReady PROVE IInv'
<1>1. run \in Runs /\ run.pc = "verify"
  BY RunType DEF IInv, MarkReady
<1>2. /\ run.target \in Versions /\ run.target # 0
      /\ run.digest \in Contents /\ run.digest # None
      /\ run.seen.version # 0 => status.version # 0
      /\ status.version = 0 <=> status.digest = None
  BY <1>1 DEF IInv, TypeOK, Runs, VersionKept
<1> DEFINE ready == Marked(TRUE).ready
<1>3. ready \in BOOLEAN
  BY <1>1 DEF Marked, IInv, TypeOK, Statuses, Runs
<1>4. /\ status' = [ready |-> ready, version |-> status'.version, digest |-> status'.digest]
      /\ status'.version = IF run.target = run.seen.version THEN status.version ELSE run.target
      /\ status'.digest = IF run.target = run.seen.version /\ run.digest = run.seen.digest
                          THEN status.digest ELSE run.digest
  BY DEF MarkReady
<1> HIDE DEF ready
<1>5. status' \in Statuses /\ status'.version # 0 /\ status'.digest # None
  <2>1. status.version \in Versions \cup {0} /\ status.digest \in Contents
    BY DEF IInv, TypeOK, Statuses
  <2>2. status'.version \in Versions \cup {0} /\ status'.version # 0
    BY <1>2, <1>4, <2>1
  <2>3. status'.digest \in Contents /\ status'.digest # None
    BY <1>2, <1>4, <2>1
  <2> QED
    BY <1>3, <1>4, <2>2, <2>3 DEF Statuses
<1>6. run' = Idle /\ run'.pc = "idle"
  BY DEF MarkReady, Idle
<1>7. UNCHANGED <<repository, session, spec, seen, queued, budget>> /\ timer' = TRUE
  BY DEF MarkReady
<1>8. TypeOK'
  BY <1>5, <1>6, <1>7 DEF IInv, TypeOK
<1> QED
  BY <1>5, <1>6, <1>7, <1>8 DEF IInv, VersionKept, TargetPermitted, DigestWasLive

-----------------------------------------------------------------------------
(* The steps by what they do to a run.                                      *)
LEMMA NextCases ==
    ASSUME Next
    PROVE  \/ \E v \in Versions, d \in Digests : Publish(v, d)
           \/ \E v \in Versions : Remove(v)
           \/ ShareClose \/ \E v \in Versions : ShareLookup(v)
           \/ Observe \/ Interval \/ RepositoryEvent \/ \E s \in Specs : ChangeSpec(s)
           \/ Begin \/ Determine \/ AllowDowngrade \/ LookupCached \/ LookupLive
           \/ CompareEqual \/ MarkReady
           \/ Failures
BY DEF Next, Environment, Reconcile, DetermineEffectiveVersionFromLiveRepo,
       LookupComponentVersion, CompareCachedAndLiveHashes, Failures

LEMMA NextIInv == IInv /\ [Next]_vars => IInv'
<1> SUFFICES ASSUME IInv, [Next]_vars PROVE IInv'
  OBVIOUS
<1>1. CASE UNCHANGED vars
  BY <1>1 DEF vars, IInv, TypeOK, VersionKept, TargetPermitted, DigestWasLive
<1>2. CASE Next
  <2>1. CASE Failures
    BY <2>1, FailuresEnd, EndsStep
  <2>2. CASE ~Failures
    BY <1>2, <2>2, NextCases, PublishStep, RemoveStep, ShareStep, EventStep, BeginStep,
       DetermineStep, AllowStep, LookupStep, CompareStep, MarkReadyStep
  <2> QED
    BY <2>1, <2>2
<1> QED
  BY <1>1, <1>2

(* Every reachable state of a component controller is well typed: a version *)
(* is reported with a digest, and no step of a run meets a version or a     *)
(* digest that it has not determined.                                       *)
THEOREM TypeCorrect == Spec => []TypeOK
<1>1. IInv => TypeOK
  BY DEF IInv
<1> QED
  BY <1>1, InitIInv, NextIInv, PTL DEF Spec

-----------------------------------------------------------------------------
(* What a run writes                                                        *)

(* Only a run that ends changes the status, and only MarkReady the version. *)
LEMMA StatusSteps ==
    ASSUME IInv, [Next]_vars
    PROVE  \/ status' = status
           \/ status' = Marked(FALSE) /\ run \in Runs
           \/ MarkReady
<1>1. CASE UNCHANGED vars
  BY <1>1 DEF vars
<1>2. CASE Failures
  BY <1>2, FailuresEnd, RunType DEF Ends, IInv
<1>3. CASE Determine \/ AllowDowngrade \/ LookupCached \/ LookupLive \/ CompareEqual
  BY <1>3, DetermineStep, AllowStep, LookupStep, CompareStep DEF Proceeds
<1>4. CASE Begin \/ Observe \/ Interval \/ RepositoryEvent \/ ShareClose
  BY <1>4 DEF Begin, Observe, Interval, RepositoryEvent, ShareClose
<1>5. CASE \/ \E v \in Versions, d \in Digests : Publish(v, d)
           \/ \E v \in Versions : Remove(v) \/ ShareLookup(v)
           \/ \E s \in Specs : ChangeSpec(s)
  BY <1>5 DEF Publish, Remove, ShareLookup, ChangeSpec
<1> QED
  BY <1>1, <1>2, <1>3, <1>4, <1>5, NextCases

(* The patch of MarkReady: what is read as it should be is left alone.      *)
LEMMA ReportedValues ==
    ASSUME IInv, MarkReady
    PROVE  /\ run \in Runs /\ run.pc = "verify"
           /\ status'.version # status.version =>
                status'.version = run.target /\ status'.digest = run.digest
           /\ ReadIsCurrent => status'.version = run.target /\ status'.digest = run.digest
<1>1. run \in Runs /\ run.pc = "verify"
  BY RunType DEF IInv, MarkReady
<1>2. /\ status'.version = IF run.target = run.seen.version THEN status.version ELSE run.target
      /\ status'.digest = IF run.target = run.seen.version /\ run.digest = run.seen.digest
                          THEN status.digest ELSE run.digest
  BY DEF MarkReady
<1> QED
  BY <1>1, <1>2 DEF ReadIsCurrent

(* Marking an object not ready leaves the version alone.                    *)
LEMMA MarkedNotReady ==
    ASSUME IInv, run \in Runs
    PROVE  /\ Marked(FALSE).version = status.version
           /\ Marked(FALSE) = status \/ Marked(FALSE).ready = FALSE
<1>1. status \in Statuses /\ run.seen.ready \in BOOLEAN
  BY DEF IInv, TypeOK, Runs, Statuses
<1>2. CASE run.seen.ready = FALSE
  <2>1. Marked(FALSE) = status
    BY <1>1, <1>2 DEF Marked, Statuses
  <2> QED
    BY <2>1
<1>3. CASE run.seen.ready = TRUE
  BY <1>1, <1>3 DEF Marked, Statuses
<1> QED
  BY <1>1, <1>2, <1>3

(* For any repository, labels and interleaving, and however old the status  *)
(* is that a run has read, the run goes below the version that it read only *)
(* if the policy, or under Allow the label of that version, permits it.     *)
THEOREM DowngradePermitted == Spec => NoUnwantedDowngrade
<1>1. ASSUME IInv, [Next]_vars
      PROVE  [status'.version # status.version =>
               \/ status'.version >= run.seen.version
               \/ run.spec.policy = "Enforce"
               \/ run.spec.policy = "Allow"
                    /\ status'.version \in Downgradable[run.seen.version]]_vars
  <2>1. CASE status'.version = status.version
    BY <2>1
  <2>2. CASE MarkReady /\ status'.version # status.version
    <3>1. run.pc = "verify" /\ status'.version = run.target
      BY <1>1, <2>2, ReportedValues
    <3> QED
      BY <1>1, <3>1 DEF IInv, TargetPermitted
  <2> QED
    BY <1>1, <2>1, <2>2, StatusSteps, MarkedNotReady
<1> QED
  BY <1>1, InitIInv, NextIInv, PTL DEF Spec, NoUnwantedDowngrade

(* For any repository and interleaving, a version that gets reported comes  *)
(* with a digest that the live repository had for it during the run,        *)
(* whatever the shared session holds and however old the status is that the *)
(* run has read; and so does new content of the version that is reported,   *)
(* if the run has read that version and its digest.                         *)
THEOREM DigestIsLive == Spec => ReportedDigestLive
<1>1. ASSUME IInv, [Next]_vars
      PROVE  [run.pc = "verify" /\ status'.ready /\ status' # status
                /\ (status'.version # status.version \/ ReadIsCurrent)
                => status'.digest \in run.live[status'.version]]_vars
  <2>1. CASE MarkReady
    <3> SUFFICES ASSUME status'.version # status.version \/ ReadIsCurrent
                 PROVE  status'.digest \in run.live[status'.version]
      OBVIOUS
    <3>1. /\ run.pc = "verify"
          /\ status'.version = run.target /\ status'.digest = run.digest
      BY <1>1, <2>1, ReportedValues
    <3> QED
      BY <1>1, <3>1 DEF IInv, DigestWasLive
  <2>2. CASE status' = Marked(FALSE) /\ run \in Runs
    BY <1>1, <2>2, MarkedNotReady
  <2>3. CASE status' = status
    BY <2>3
  <2> QED
    BY <1>1, <2>1, <2>2, <2>3, StatusSteps
<1> QED
  BY <1>1, InitIInv, NextIInv, PTL DEF Spec, ReportedDigestLive
===============================================================================
