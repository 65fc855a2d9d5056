----------------------------- MODULE SessionPool -----------------------------
(***************************************************************************)
(* What ContextCache.GetSession promises its callers, without contexts,     *)
(* recency and locks: a pool with at most one open session per key and at   *)
(* most Size of them in all.  A session may be closed at any time, by       *)
(* whoever uses it or to make room; then the next caller gets another one.  *)
(***************************************************************************)
EXTENDS Integers, FiniteSets

CONSTANTS Keys, Sessions, Users, Size, None

VARIABLES
    pool,      \* per key: its open session
    open,      \* the sessions that are open
    held       \* per user: the session it was given

vars == <<pool, open, held>>

Pooled == {pool[k] : k \in Keys} \ {None}

Init ==
    /\ pool = [k \in Keys |-> None]
    /\ open = {}
    /\ held = [u \in Users |-> None]

(* The pool keeps some of its sessions; the others are closed.              *)
Keep(S) ==
    /\ pool' = [k \in Keys |-> IF pool[k] \in S THEN pool[k] ELSE None]
    /\ open' = S

GetPooled(u, k) ==
    /\ held[u] = None
    /\ pool[k] # None
    /\ held' = [held EXCEPT ![u] = pool[k]]
    /\ UNCHANGED <<pool, open>>

(* A new session is one that nobody has; others may have to make room.      *)
GetNew(u, k) ==
    /\ held[u] = None
    /\ pool[k] = None
    /\ \E s \in Sessions \ (open \cup {held[v] : v \in Users}), S \in SUBSET Pooled :
         /\ Cardinality(S) < Size
         /\ pool' = [j \in Keys |-> IF j = k THEN s ELSE IF pool[j] \in S THEN pool[j] ELSE None]
         /\ open' = S \cup {s}
         /\ held' = [held EXCEPT ![u] = s]

Release(u) ==
    /\ held[u] # None
    /\ held' = [held EXCEPT ![u] = None]
    /\ UNCHANGED <<pool, open>>

(* A user closes its session, which may be closed already.                  *)
Invalidate(u) ==
    /\ held[u] # None
    /\ held' = [held EXCEPT ![u] = None]
    /\ Keep(Pooled \ {held[u]})

Close == \E S \in SUBSET Pooled : Keep(S) /\ UNCHANGED held

Next ==
    \/ \E u \in Users : Release(u) \/ Invalidate(u) \/ \E k \in Keys : GetPooled(u, k) \/ GetNew(u, k)
    \/ Close

Spec == Init /\ [][Next]_vars
==============================================================================
