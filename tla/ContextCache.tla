---------------------------- MODULE ContextCache ----------------------------
(***************************************************************************)
(* The cache of OCM contexts and sessions (internal/ocm/context_cache.go)   *)
(* that all controllers share.  A context is cached under the hash of its   *)
(* configuration, a session under that hash and the hash of the repository  *)
(* specification; both caches are least-recently-used with an eviction      *)
(* function.  A context closes its sessions when it is finalized.           *)
(*                                                                         *)
(* GetSession runs under retrievalLock.  What does not: reconcilers that    *)
(* use a session they were given, the component controller that closes an   *)
(* outdated one, and Start, which clears the caches at shutdown.  So the    *)
(* parts of GetSession before and after the look-up of the context are      *)
(* steps of their own.                                                      *)
(*                                                                         *)
(* A context also holds the registry of the public keys that signatures are *)
(* verified with.  All calls that ask for verification name one signature;  *)
(* the key is in the secret that the caller's component refers to.          *)
(***************************************************************************)
EXTENDS Integers, FiniteSets, Sequences

CONSTANTS
    Configs,            \* hashes of configurations
    Repositories,       \* hashes of repository specifications
    Reconcilers,        \* goroutines that reconcile
    Contexts,           \* identities of ocm.Context objects
    Sessions,           \* identities of ocm.Session objects
    Secrets,            \* secrets with a public key for the signature
    PublicKeys,
    ContextCacheSize,
    SessionCacheSize,
    None

SessionKey == [ctxHash: Configs, repoHash: Repositories]

ASSUME SizeAssumption ==
    /\ ContextCacheSize \in Nat \ {0}
    /\ SessionCacheSize \in Nat \ {0}

ASSUME NoneAssumption ==
    /\ None \notin Contexts
    /\ None \notin Sessions
    /\ None \notin Configs
    /\ None \notin Repositories
    /\ None \notin SessionKey
    /\ None \notin Reconcilers
    /\ None \notin Secrets
    /\ None \notin PublicKeys

VARIABLES
    contexts, contextOrder,    \* LRU cache of contexts; the oldest key is first
    sessions, sessionOrder,    \* LRU cache of sessions
    session,                   \* per session: its context and whether it is open
    registry,                  \* per context: the public key of the signature
    secret,                    \* API server: the public key in each secret
    gauge,                     \* cache size metrics: per metric and name label
    retrievalLock,             \* the goroutine that holds it
    caller,                    \* per reconciler: program counter and locals
    phase                      \* Start: running, and the two halves of Clear

cacheVars == <<contexts, contextOrder, sessions, sessionOrder, session, registry, gauge>>
vars == <<cacheVars, secret, retrievalLock, caller, phase>>

(* "unnamed": the label m.name, which is never set.                         *)
Labels == {"named", "unnamed"}
Metrics == {"context", "session"}

(* An entry that is missing in the secret is registered as an empty key.    *)
Keys == PublicKeys \cup {None}

(* keys is auxiliary: what the secret has held since its key was registered.*)
Idle == [pc |-> "idle", key |-> None, secret |-> None, context |-> None, session |-> None,
         keys |-> {}]

Init ==
    /\ contexts = [h \in Configs |-> None] /\ contextOrder = <<>>
    /\ sessions = [k \in SessionKey |-> None] /\ sessionOrder = <<>>
    /\ session = [s \in Sessions |-> [context |-> None, open |-> FALSE]]
    /\ registry = [x \in Contexts |-> None]
    /\ secret \in [Secrets -> PublicKeys]
    /\ gauge = [x \in Metrics |-> [l \in Labels |-> 0]]
    /\ retrievalLock = None
    /\ caller = [c \in Reconcilers |-> Idle]
    /\ phase = "running"

-----------------------------------------------------------------------------
(* Identities nothing refers to.  A constructor returns one of them; which  *)
(* one makes no difference.                                                 *)

FreeContexts ==
    {x \in Contexts : /\ \A h \in Configs : contexts[h] # x
                      /\ \A c \in Reconcilers : caller[c].context # x
                      /\ \A s \in Sessions : session[s].open => session[s].context # x}

FreeSessions ==
    {s \in Sessions : /\ ~session[s].open
                      /\ \A k \in SessionKey : sessions[k] # s
                      /\ \A c \in Reconcilers : caller[c].session # s}

NewContext == CHOOSE x \in FreeContexts : TRUE

NewSession == CHOOSE s \in FreeSessions : TRUE

-----------------------------------------------------------------------------
(* k8s.io/utils/lru                                                         *)

(* A key that is used again, or whose value is replaced, becomes the latest. *)
Touch(order, k) ==
    LET i == CHOOSE i \in DOMAIN order : order[i] = k IN
    Append(SubSeq(order, 1, i - 1) \o SubSeq(order, i + 1, Len(order)), k)

(* Add of a new key to a full cache evicts the oldest one.                  *)
Full(order, size) == Len(order) >= size

Evicted(order, size) == IF Full(order, size) THEN Head(order) ELSE None

AddKey(order, k, size) == Append(IF Full(order, size) THEN Tail(order) ELSE order, k)

AddValue(cache, k, v, evicted) ==
    [j \in DOMAIN cache |-> IF j = k THEN v ELSE IF j = evicted THEN None ELSE cache[j]]

(* Closing sessions: what Session.Close and Context.Finalize do.            *)
CloseSessions(S) == [s \in Sessions |-> IF s \in S THEN [session[s] EXCEPT !.open = FALSE]
                                                   ELSE session[s]]

SessionsOf(x) == {s \in Sessions : session[s].context = x}

-----------------------------------------------------------------------------
(* GetSession                                                               *)

Goto(c, pc, x) == caller' = [caller EXCEPT ![c] = [@ EXCEPT !.pc = pc, !.context = x]]

Calls(c, k, v) ==
    /\ caller[c].pc = "idle"
    /\ retrievalLock' = c
    /\ caller' = [caller EXCEPT ![c] = [Idle EXCEPT !.pc = "context", !.key = k, !.secret = v]]
    /\ UNCHANGED <<cacheVars, secret, phase>>

(* Faulty variant: the lock is not waited for.                              *)
GetSessionUnlocked(c, k, v) == Calls(c, k, v)

(* Takes the lock, reads the configuration objects and hashes them.  A call *)
(* without a provider of verifications has no secret.                       *)
GetSession(c, k, v) ==
    /\ retrievalLock = None
    /\ Calls(c, k, v)

(* A configuration object is missing or cannot be applied to a new context; *)
(* or, once the context is cached, the verifications cannot be read.        *)
GetSessionFails(c) ==
    /\ caller[c].pc \in {"context", "register"}
    /\ retrievalLock' = None
    /\ caller' = [caller EXCEPT ![c] = Idle]
    /\ UNCHANGED <<cacheVars, secret, phase>>

ReuseContext(c) ==
    LET h == caller[c].key.ctxHash IN
    /\ caller[c].pc = "context"
    /\ contexts[h] # None
    /\ contextOrder' = Touch(contextOrder, h)
    /\ Goto(c, "register", contexts[h])
    /\ UNCHANGED <<contexts, sessions, sessionOrder, session, registry, gauge, secret,
                   retrievalLock, phase>>

AddContext(c, evicted, closed) ==
    LET h == caller[c].key.ctxHash IN
    /\ caller[c].pc = "context"
    /\ contexts[h] = None
    /\ FreeContexts # {}
    /\ contexts' = AddValue(contexts, h, NewContext, evicted)
    /\ contextOrder' = AddKey(contextOrder, h, ContextCacheSize)
    /\ session' = CloseSessions(closed)
    /\ registry' = [registry EXCEPT ![NewContext] = None]
    /\ gauge' = [gauge EXCEPT !["context"]["named"] = IF evicted = None THEN @ ELSE @ - 1,
                              !["context"]["unnamed"] = @ + 1]
    /\ Goto(c, "register", NewContext)
    /\ UNCHANGED <<sessions, sessionOrder, secret, retrievalLock, phase>>

(* Faulty variant: the evicted context is dropped without Finalize.         *)
CreateContextNoFinalize(c) ==
    AddContext(c, Evicted(contextOrder, ContextCacheSize), {})

(* The eviction of the oldest context finalizes it.                         *)
CreateContext(c) ==
    LET evicted == Evicted(contextOrder, ContextCacheSize) IN
    AddContext(c, evicted, IF evicted = None THEN {} ELSE SessionsOf(contexts[evicted]))

Registers(c, key) ==
    /\ caller[c].pc = "register"
    /\ registry' = [registry EXCEPT ![caller[c].context] = key]
    /\ caller' = [caller EXCEPT ![c].pc = "session",
                                ![c].keys = {secret[v] : v \in {caller[c].secret} \ {None}}]
    /\ UNCHANGED <<contexts, contextOrder, sessions, sessionOrder, session, gauge, secret,
                   retrievalLock, phase>>

(* Faulty variant: a key that the context has already is not replaced.      *)
RegisterVerificationsOnce(c) ==
    LET x == caller[c].context IN
    Registers(c, IF caller[c].secret = None \/ registry[x] # None THEN registry[x]
                 ELSE secret[caller[c].secret])

(* Always, also for a context that is cached.                               *)
registerVerifications(c) ==
    Registers(c, IF caller[c].secret = None THEN registry[caller[c].context]
                 ELSE secret[caller[c].secret])

(* Returning from GetSession releases the lock.                             *)
Return(c, s) ==
    /\ retrievalLock' = None
    /\ caller' = [caller EXCEPT ![c].pc = "use", ![c].session = s]

ReuseSession(c) ==
    LET s == sessions[caller[c].key] IN
    /\ caller[c].pc = "session"
    /\ s # None
    /\ session[s].open
    /\ sessionOrder' = Touch(sessionOrder, caller[c].key)
    /\ Return(c, s)
    /\ UNCHANGED <<contexts, contextOrder, sessions, session, registry, gauge, secret, phase>>

Opened(c) == [context |-> caller[c].context, open |-> TRUE]

(* A closed session is replaced; the key stays, so nothing is evicted.      *)
ReplaceSession(c) ==
    LET k == caller[c].key IN
    /\ caller[c].pc = "session"
    /\ sessions[k] # None
    /\ ~session[sessions[k]].open
    /\ FreeSessions # {}
    /\ sessions' = [sessions EXCEPT ![k] = NewSession]
    /\ session' = [session EXCEPT ![NewSession] = Opened(c)]
    /\ sessionOrder' = Touch(sessionOrder, k)
    /\ Return(c, NewSession)
    /\ UNCHANGED <<contexts, contextOrder, registry, gauge, secret, phase>>

AddSession(c, evicted, closed) ==
    LET k == caller[c].key IN
    /\ caller[c].pc = "session"
    /\ sessions[k] = None
    /\ FreeSessions # {}
    /\ sessions' = AddValue(sessions, k, NewSession, evicted)
    /\ sessionOrder' = AddKey(sessionOrder, k, SessionCacheSize)
    /\ session' = [CloseSessions(closed) EXCEPT ![NewSession] = Opened(c)]
    /\ gauge' = [gauge EXCEPT !["context"]["named"] = IF evicted = None THEN @ ELSE @ - 1,
                              !["session"]["unnamed"] = @ + 1]
    /\ Return(c, NewSession)
    /\ UNCHANGED <<contexts, contextOrder, registry, secret, phase>>

(* Faulty variant: the evicted session is dropped without Close.            *)
CreateSessionNoClose(c) ==
    AddSession(c, Evicted(sessionOrder, SessionCacheSize), {})

(* The eviction of the oldest session closes it, and decrements the gauge   *)
(* of the contexts.                                                         *)
CreateSession(c) ==
    LET evicted == Evicted(sessionOrder, SessionCacheSize) IN
    AddSession(c, evicted, IF evicted = None THEN {} ELSE {sessions[evicted]})

-----------------------------------------------------------------------------
(* Reconcilers that were given a session.                                   *)

(* The component controller finds the session outdated.                     *)
InvalidateSession(c) ==
    /\ caller[c].pc = "use"
    /\ session' = CloseSessions({caller[c].session})
    /\ caller' = [caller EXCEPT ![c] = Idle]
    /\ UNCHANGED <<contexts, contextOrder, sessions, sessionOrder, registry, gauge, secret,
                   retrievalLock, phase>>

(* The reconciliation ends; the session stays in the cache.                 *)
Done(c) ==
    /\ caller[c].pc = "use"
    /\ caller' = [caller EXCEPT ![c] = Idle]
    /\ UNCHANGED <<cacheVars, secret, retrievalLock, phase>>

(* A user replaces or removes the key in a secret.                          *)
ReplaceKey(v, key) ==
    /\ secret[v] # key
    /\ secret' = [secret EXCEPT ![v] = key]
    /\ caller' = [c \in Reconcilers |->
         IF caller[c].pc \in {"session", "use"} /\ caller[c].secret = v
         THEN [caller[c] EXCEPT !.keys = @ \cup {key}] ELSE caller[c]]
    /\ UNCHANGED <<cacheVars, retrievalLock, phase>>

-----------------------------------------------------------------------------
(* Start: Clear at the end takes no lock.                                   *)

ClearSessions ==
    /\ phase = "running"
    /\ phase' = "clearing"
    /\ session' = CloseSessions({sessions[k] : k \in SessionKey})
    /\ sessions' = [k \in SessionKey |-> None] /\ sessionOrder' = <<>>
    /\ gauge' = [gauge EXCEPT !["context"]["named"] = @ - Len(sessionOrder)]
    /\ UNCHANGED <<contexts, contextOrder, registry, secret, retrievalLock, caller>>

ClearContexts ==
    /\ phase = "clearing"
    /\ phase' = "cleared"
    /\ session' = CloseSessions({s \in Sessions : \E h \in Configs : s \in SessionsOf(contexts[h])})
    /\ contexts' = [h \in Configs |-> None] /\ contextOrder' = <<>>
    /\ gauge' = [gauge EXCEPT !["context"]["named"] = @ - Len(contextOrder)]
    /\ UNCHANGED <<sessions, sessionOrder, registry, secret, retrievalLock, caller>>

-----------------------------------------------------------------------------
getOrCreateContext(c) == ReuseContext(c) \/ CreateContext(c)

getOrCreateSession(c) == ReuseSession(c) \/ ReplaceSession(c) \/ CreateSession(c)

Call(c) == \E k \in SessionKey, v \in Secrets \cup {None} : GetSession(c, k, v)

Proceed(c) ==
    \/ GetSessionFails(c)
    \/ getOrCreateContext(c)
    \/ registerVerifications(c)
    \/ getOrCreateSession(c)
    \/ InvalidateSession(c)
    \/ Done(c)

Clear == ClearSessions \/ ClearContexts

ReplaceKeys == \E v \in Secrets, key \in Keys : ReplaceKey(v, key)

Next == (\E c \in Reconcilers : Call(c) \/ Proceed(c)) \/ Clear \/ ReplaceKeys

Spec == Init /\ [][Next]_vars

-----------------------------------------------------------------------------
(* Properties                                                               *)

Cached(cache) == {k \in DOMAIN cache : cache[k] # None}

CallerState ==
    [pc: {"idle", "context", "register", "session", "use"}, key: SessionKey \cup {None},
     secret: Secrets \cup {None}, context: Contexts \cup {None}, session: Sessions \cup {None},
     keys: SUBSET Keys]

(* Every variable has its type, and a caller holds the lock exactly between *)
(* Lock and Unlock, on every path: nobody else is in there, and nobody who  *)
(* has left keeps the others waiting.                                       *)
TypeOK ==
    /\ contexts \in [Configs -> Contexts \cup {None}]
    /\ contextOrder \in Seq(Configs)
    /\ sessions \in [SessionKey -> Sessions \cup {None}]
    /\ sessionOrder \in Seq(SessionKey)
    /\ session \in [Sessions -> [context: Contexts \cup {None}, open: BOOLEAN]]
    /\ registry \in [Contexts -> Keys] /\ secret \in [Secrets -> Keys]
    /\ gauge \in [Metrics -> [Labels -> Int]]
    /\ retrievalLock \in Reconcilers \cup {None}
    /\ caller \in [Reconcilers -> CallerState]
    /\ phase \in {"running", "clearing", "cleared"}
    /\ \A c \in Reconcilers :
         caller[c].pc \in {"context", "register", "session"} <=> retrievalLock = c

(* A cached session that is open belongs to the context that is cached for  *)
(* its configuration: GetSession never pairs a context with a session of    *)
(* another context, whatever was evicted, closed or built again.            *)
SessionOfContext ==
    phase = "running" =>
      \A k \in SessionKey :
        sessions[k] # None /\ session[sessions[k]].open =>
          session[sessions[k]].context = contexts[k.ctxHash]

(* The sessions that the cache keeps open, by key.                          *)
OpenSessions ==
    [k \in SessionKey |->
       IF sessions[k] # None /\ session[sessions[k]].open THEN sessions[k] ELSE None]

Opens == {s \in Sessions : session[s].open}

(* The session that a reconciler was given and still uses.                  *)
Held == [c \in Reconcilers |-> IF caller[c].pc = "use" THEN caller[c].session ELSE None]

(* What the cache promises: callers share a pool of open sessions of        *)
(* limited size, in which getting one is a single step.                     *)
Pool == INSTANCE SessionPool WITH
          Keys <- SessionKey, Users <- Reconcilers, Size <- SessionCacheSize,
          pool <- OpenSessions, open <- Opens, held <- Held

(* The cache implements the pool: in spite of the unlocked closing of       *)
(* sessions by the component controller, of evictions in both caches and of *)
(* Clear, a caller gets a session that is open and belongs to its key, and  *)
(* every open session is in the pool, whose size is never exceeded.         *)
ImplementsPool == Pool!Spec

(* Always registering the verifications keeps the registry up to date: the  *)
(* key in the context that a reconciler was given is one that its secret    *)
(* has held since its GetSession read it, also if the context was cached    *)
(* with an older key or other reconcilers have registered theirs.           *)
VerificationKeyCurrent ==
    \A c \in Reconcilers :
      caller[c].pc \in {"session", "use"} /\ caller[c].secret # None
        => registry[caller[c].context] \in caller[c].keys

(* The gauges are the numbers of objects in the caches.                     *)
GaugesExact ==
    /\ gauge["context"]["named"] = Cardinality(Cached(contexts))
    /\ gauge["session"]["named"] = Cardinality(Cached(sessions))

(* When Start has cleared the caches no session is open and nothing is      *)
(* cached.                                                                  *)
ClearedAtShutdown ==
    phase = "cleared" =>
      /\ Cached(contexts) = {} /\ Cached(sessions) = {}
      /\ \A s \in Sessions : ~session[s].open
=============================================================================
