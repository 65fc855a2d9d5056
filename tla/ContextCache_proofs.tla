------------------------- MODULE ContextCache_proofs -------------------------
(* Proofs of the safety properties of ContextCache, and that it implements  *)
(* SessionPool, for every set of configurations, repositories, reconcilers, *)
(* contexts and sessions, and for caches of every size.                     *)
EXTENDS ContextCache, FiniteSetTheorems, SequenceTheorems, TLAPS

-----------------------------------------------------------------------------
(* The inductive invariant.                                                 *)

(* The key of a call is known from its beginning, its context from the      *)
(* look-up on; only a reconciler that was given a session has one.          *)
CallerOK ==
    \A c \in Reconcilers :
      /\ caller[c].pc # "idle" => caller[c].key \in SessionKey
      /\ caller[c].pc \in {"register", "session", "use"} => caller[c].context \in Contexts
      /\ IF caller[c].pc = "use" THEN caller[c].session \in Sessions
                                 ELSE caller[c].session = None

(* The order of a cache has every cached key once, and no other.            *)
InOrder(order, k) == \E i \in 1 .. Len(order) : order[i] = k

Once(order) == \A i, j \in 1 .. Len(order) : order[i] = order[j] => i = j

IsOrder(order, cache, size) ==
    /\ Once(order)
    /\ Len(order) <= size
    /\ \A k \in DOMAIN cache : cache[k] # None <=> InOrder(order, k)

OrderOK ==
    /\ IsOrder(contextOrder, contexts, ContextCacheSize)
    /\ IsOrder(sessionOrder, sessions, SessionCacheSize)

(* An open session has a context and is in the cache, under one key.        *)
SessionsOK ==
    /\ \A s \in Sessions : session[s].open =>
         /\ session[s].context \in Contexts
         /\ \E k \in SessionKey : sessions[k] = s
    /\ \A j, k \in SessionKey : sessions[j] # None /\ sessions[j] = sessions[k] => j = k

(* While the lock is held the context of the call is the cached one.        *)
ContextIsCached ==
    phase = "running" =>
      \A c \in Reconcilers :
        caller[c].pc \in {"register", "session"} =>
          caller[c].context = contexts[caller[c].key.ctxHash]

(* What a secret holds now is among what it has held since it was read.     *)
SecretRead ==
    \A c \in Reconcilers :
      caller[c].pc \in {"session", "use"} /\ caller[c].secret # None
        => secret[caller[c].secret] \in caller[c].keys

TypeInv == TypeOK /\ CallerOK

IInv == TypeInv /\ OrderOK /\ SessionsOK /\ ContextIsCached /\ SessionOfContext

-----------------------------------------------------------------------------
(* The least-recently-used lists.                                           *)

(* The list without its element i.                                          *)
LEMMA WithoutProperties ==
    ASSUME NEW S, NEW order \in Seq(S), NEW i \in 1 .. Len(order)
    PROVE  LET rest == SubSeq(order, 1, i - 1) \o SubSeq(order, i + 1, Len(order)) IN
           /\ rest \in Seq(S)
           /\ Len(rest) = Len(order) - 1
           /\ \A n \in 1 .. Len(order) - 1 : rest[n] = IF n < i THEN order[n] ELSE order[n + 1]
<1> DEFINE a == SubSeq(order, 1, i - 1)
           b == SubSeq(order, i + 1, Len(order))
<1>1. Len(order) \in Nat /\ i \in Nat /\ 1 <= i /\ i <= Len(order)
  OBVIOUS
<1>2. \A n \in 1 .. Len(order) : order[n] \in S
  BY ElementOfSeq
<1>3. /\ a \in Seq(S)
      /\ Len(a) = i - 1
      /\ \A n \in 1 .. i - 1 : a[n] = order[n]
  <2>1. \A n \in 1 .. i - 1 : order[n] \in S
    BY <1>1, <1>2
  <2>2. /\ a \in Seq(S)
        /\ Len(a) = IF 1 <= i - 1 THEN i - 1 - 1 + 1 ELSE 0
        /\ \A n \in 1 .. (i - 1) - 1 + 1 : a[n] = order[1 + n - 1]
    BY <1>1, <2>1, SubSeqProperties
  <2>3. \A n \in 1 .. i - 1 : a[n] = order[n]
    <3> TAKE n \in 1 .. i - 1
    <3>1. n \in 1 .. (i - 1) - 1 + 1 /\ 1 + n - 1 = n
      BY <1>1
    <3> QED
      BY <2>2, <3>1
  <2> QED
    BY <1>1, <2>2, <2>3
<1>4. /\ b \in Seq(S)
      /\ Len(b) = Len(order) - i
      /\ \A n \in 1 .. Len(order) - i : b[n] = order[i + n]
  <2>1. \A n \in i + 1 .. Len(order) : order[n] \in S
    BY <1>1, <1>2
  <2>2. /\ b \in Seq(S)
        /\ Len(b) = IF i + 1 <= Len(order) THEN Len(order) - (i + 1) + 1 ELSE 0
        /\ \A n \in 1 .. Len(order) - (i + 1) + 1 : b[n] = order[(i + 1) + n - 1]
    BY <1>1, <2>1, SubSeqProperties
  <2>3. \A n \in 1 .. Len(order) - i : b[n] = order[i + n]
    <3> TAKE n \in 1 .. Len(order) - i
    <3>1. n \in 1 .. Len(order) - (i + 1) + 1 /\ (i + 1) + n - 1 = i + n
      BY <1>1
    <3> QED
      BY <2>2, <3>1
  <2> QED
    BY <1>1, <2>2, <2>3
<1> HIDE DEF a, b
<1>5. /\ a \o b \in Seq(S)
      /\ Len(a \o b) = Len(order) - 1
      /\ \A n \in 1 .. Len(order) - 1 : (a \o b)[n] = IF n <= i - 1 THEN a[n] ELSE b[n - (i - 1)]
  <2>1. /\ a \o b \in Seq(S)
        /\ Len(a \o b) = Len(a) + Len(b)
        /\ \A n \in 1 .. Len(a) + Len(b) : (a \o b)[n] = IF n <= Len(a) THEN a[n] ELSE b[n - Len(a)]
    BY <1>3, <1>4, ConcatProperties
  <2>2. Len(a) + Len(b) = Len(order) - 1
    BY <1>1, <1>3, <1>4
  <2> QED
    BY <1>3, <2>1, <2>2
<1>6. ASSUME NEW n \in 1 .. Len(order) - 1
      PROVE  (a \o b)[n] = IF n < i THEN order[n] ELSE order[n + 1]
  <2>1. CASE n < i
    BY <1>1, <1>3, <1>5, <2>1
  <2>2. CASE ~(n < i)
    <3>1. n - (i - 1) \in 1 .. Len(order) - i /\ i + (n - (i - 1)) = n + 1
      BY <1>1, <2>2
    <3>2. b[n - (i - 1)] = order[n + 1]
      BY <1>4, <3>1
    <3> QED
      BY <1>1, <1>5, <2>2, <3>2
  <2> QED
    BY <2>1, <2>2
<1> QED
  BY <1>5, <1>6 DEF a, b

(* Touch keeps the keys of the list and its length.                         *)
LEMMA TouchProperties ==
    ASSUME NEW S, NEW order \in Seq(S), Once(order), NEW k \in S, InOrder(order, k)
    PROVE  /\ Touch(order, k) \in Seq(S)
           /\ Len(Touch(order, k)) = Len(order)
           /\ Once(Touch(order, k))
           /\ \A x : InOrder(Touch(order, k), x) <=> InOrder(order, x)
<1> DEFINE i == CHOOSE i \in DOMAIN order : order[i] = k
           rest == SubSeq(order, 1, i - 1) \o SubSeq(order, i + 1, Len(order))
           new == Append(rest, k)
           len == Len(order)
<1>1. len \in Nat /\ DOMAIN order = 1 .. len
  BY LenProperties
<1>2. i \in 1 .. len /\ order[i] = k
  BY <1>1 DEF InOrder
<1>3. Touch(order, k) = new
  BY DEF Touch
<1> HIDE DEF i
<1>4. /\ rest \in Seq(S)
      /\ Len(rest) = len - 1
      /\ \A n \in 1 .. len - 1 : rest[n] = IF n < i THEN order[n] ELSE order[n + 1]
  BY <1>2, WithoutProperties
<1> HIDE DEF rest
<1>5. /\ new \in Seq(S)
      /\ Len(new) = len
      /\ \A n \in 1 .. len - 1 : new[n] = IF n < i THEN order[n] ELSE order[n + 1]
      /\ new[len] = order[i]
  <2>1. /\ new \in Seq(S)
        /\ Len(new) = Len(rest) + 1
        /\ \A n \in 1 .. Len(rest) : new[n] = rest[n]
        /\ new[Len(rest) + 1] = k
    BY <1>4, AppendProperties
  <2>2. Len(rest) + 1 = len
    BY <1>1, <1>4
  <2>3. \A n \in 1 .. len - 1 : new[n] = rest[n]
    BY <1>4, <2>1
  <2> QED
    BY <1>2, <1>4, <2>1, <2>2, <2>3
<1> HIDE DEF new
<1> DEFINE from(n) == IF n = len THEN i ELSE IF n < i THEN n ELSE n + 1
           to(n) == IF n = i THEN len ELSE IF n < i THEN n ELSE n - 1
<1>6. \A n \in 1 .. len : from(n) \in 1 .. len /\ new[n] = order[from(n)]
  <2> TAKE n \in 1 .. len
  <2>0. n # len => n \in 1 .. len - 1 /\ n + 1 \in 1 .. len
    <3> HIDE DEF len
    <3> QED
      BY <1>1
  <2>1. CASE n = len
    BY <1>2, <1>5, <2>1
  <2>2. CASE n # len /\ n < i
    BY <1>5, <2>0, <2>2
  <2>3. CASE n # len /\ ~(n < i)
    BY <1>5, <2>0, <2>3
  <2> QED
    BY <2>1, <2>2, <2>3
<1>7. \A m, n \in 1 .. len : from(m) = from(n) => m = n
  <2> TAKE m, n \in 1 .. len
  <2>1. len \in Int /\ i \in Int /\ m \in Int /\ n \in Int /\ m <= len /\ n <= len
    BY <1>1, <1>2
  <2> QED
    BY <2>1
<1>8. \A n \in 1 .. len : to(n) \in 1 .. len /\ from(to(n)) = n
  <2> TAKE n \in 1 .. len
  <2>1. len \in Int /\ i \in Int /\ n \in Int /\ n <= len /\ i <= len /\ 1 <= i /\ 1 <= n
    BY <1>1, <1>2
  <2> HIDE DEF len
  <2>2. to(n) \in 1 .. len
    BY <2>1
  <2>3. from(to(n)) = n
    BY <2>1
  <2> QED
    BY <2>2, <2>3
<1> HIDE DEF from, to
<1>9. Once(new)
  BY <1>5, <1>6, <1>7 DEF Once
<1>10. \A x : InOrder(new, x) <=> InOrder(order, x)
  <2> TAKE x
  <2>1. ASSUME InOrder(new, x) PROVE InOrder(order, x)
    BY <1>5, <1>6, <2>1 DEF InOrder
  <2>2. ASSUME InOrder(order, x) PROVE InOrder(new, x)
    <3>1. PICK n \in 1 .. len : order[n] = x
      BY <2>2 DEF InOrder
    <3>2. to(n) \in 1 .. len /\ new[to(n)] = x
      BY <1>6, <1>8, <3>1
    <3> QED
      BY <1>5, <3>2 DEF InOrder
  <2> QED
    BY <2>1, <2>2
<1> QED
  BY <1>3, <1>5, <1>9, <1>10

(* AddKey of a new key appends it, to a list that is full without the       *)
(* oldest key.                                                              *)
LEMMA AddKeyProperties ==
    ASSUME NEW S, NEW order \in Seq(S), NEW size \in Nat \ {0}, NEW k \in S, None \notin S
    PROVE  /\ AddKey(order, k, size) \in Seq(S)
           /\ Evicted(order, size) \in S \cup {None}
           /\ Once(order) /\ ~InOrder(order, k) /\ Len(order) <= size =>
                /\ Once(AddKey(order, k, size))
                /\ Len(AddKey(order, k, size)) <= size
                /\ \A x \in S : InOrder(AddKey(order, k, size), x) <=>
                     x = k \/ (InOrder(order, x) /\ x # Evicted(order, size))
                /\ \/ Evicted(order, size) = None /\ Len(order) < size
                   \/ Evicted(order, size) # None /\ InOrder(order, Evicted(order, size))
<1> DEFINE len == Len(order)
<1>1. len \in Nat /\ \A n \in 1 .. len : order[n] \in S
  BY LenProperties, ElementOfSeq
<1>2. CASE Full(order, size)
  <2>1. order # <<>> /\ len >= size
    BY <1>1, <1>2 DEF Full
  <2>2. /\ Head(order) = order[1]
        /\ Tail(order) \in Seq(S)
        /\ Len(Tail(order)) = len - 1
        /\ \A n \in 1 .. len - 1 : Tail(order)[n] = order[n + 1]
    <3>1. Head(order) = order[1]
      BY <2>1 
    <3> QED
      BY <2>1, <3>1, HeadTailProperties
  <2>3. AddKey(order, k, size) = Append(Tail(order), k) /\ Evicted(order, size) = order[1]
    BY <1>2, <2>2 DEF AddKey, Evicted
  <2> DEFINE new == Append(Tail(order), k)
  <2>4. /\ new \in Seq(S)
        /\ Len(new) = len
        /\ \A n \in 1 .. len - 1 : new[n] = order[n + 1]
        /\ new[len] = k
    <3>1. /\ new \in Seq(S)
          /\ Len(new) = Len(Tail(order)) + 1
          /\ \A n \in 1 .. Len(Tail(order)) : new[n] = Tail(order)[n]
          /\ new[Len(Tail(order)) + 1] = k
      BY <2>2, AppendProperties
    <3> QED
      BY <1>1, <2>2, <3>1
  <2> HIDE DEF new
  <2>5. 1 \in 1 .. len /\ order[1] \in S /\ order[1] # None /\ InOrder(order, order[1])
    BY <1>1, <2>1 DEF InOrder
  <2>6. ASSUME Once(order), ~InOrder(order, k), Len(order) <= size
        PROVE  /\ Once(new)
               /\ \A x \in S : InOrder(new, x) <=> x = k \/ (InOrder(order, x) /\ x # order[1])
    <3>1. Once(new)
      <4> SUFFICES ASSUME NEW m \in 1 .. len, NEW n \in 1 .. len, new[m] = new[n] PROVE m = n
        BY <2>4 DEF Once
      <4>1. CASE m = len /\ n = len
        BY <4>1
      <4>2. CASE m = len /\ n # len
        <5>1. n + 1 \in 1 .. len /\ n \in 1 .. len - 1
          BY <1>1, <4>2
        <5> QED
          BY <2>4, <2>6, <4>2, <5>1 DEF InOrder
      <4>3. CASE m # len /\ n = len
        <5>1. m + 1 \in 1 .. len /\ m \in 1 .. len - 1
          BY <1>1, <4>3
        <5> QED
          BY <2>4, <2>6, <4>3, <5>1 DEF InOrder
      <4>4. CASE m # len /\ n # len
        <5>1. m + 1 \in 1 .. len /\ m \in 1 .. len - 1 /\ n + 1 \in 1 .. len /\ n \in 1 .. len - 1
          BY <1>1, <4>4
        <5>2. m + 1 = n + 1
          BY <2>4, <2>6, <5>1 DEF Once
        <5> QED
          BY <5>2
      <4> QED
        BY <4>1, <4>2, <4>3, <4>4
    <3>2. ASSUME NEW x \in S, InOrder(new, x)
          PROVE  x = k \/ (InOrder(order, x) /\ x # order[1])
      <4>1. PICK n \in 1 .. len : new[n] = x
        BY <2>4, <3>2 DEF InOrder
      <4>2. CASE n = len
        BY <2>4, <4>1, <4>2
      <4>3. CASE n # len
        <5>1. n \in 1 .. len - 1 /\ n + 1 \in 1 .. len /\ n + 1 # 1
          BY <1>1, <4>3
        <5>2. x = order[n + 1]
          BY <2>4, <4>1, <5>1
        <5> QED
          BY <2>5, <2>6, <5>1, <5>2 DEF InOrder, Once
      <4> QED
        BY <4>2, <4>3
    <3>3. ASSUME NEW x \in S, InOrder(order, x), x # order[1]
          PROVE  InOrder(new, x)
      <4>1. PICK n \in 1 .. len : order[n] = x
        BY <3>3 DEF InOrder
      <4>2. n - 1 \in 1 .. len - 1 /\ (n - 1) + 1 = n /\ n - 1 \in 1 .. len
        BY <1>1, <3>3, <4>1
      <4>3. new[n - 1] = x
        BY <2>4, <4>1, <4>2
      <4> QED
        BY <2>4, <4>2, <4>3 DEF InOrder
    <3>4. InOrder(new, k)
      BY <1>1, <2>4, <2>5 DEF InOrder
    <3> QED
      BY <3>1, <3>2, <3>3, <3>4
  <2>7. new = AddKey(order, k, size)
    BY <2>3 DEF new
  <2> QED
    BY <2>3, <2>4, <2>5, <2>6, <2>7
<1>3. CASE ~Full(order, size)
  <2>1. AddKey(order, k, size) = Append(order, k) /\ Evicted(order, size) = None /\ len < size
    BY <1>1, <1>3 DEF AddKey, Evicted, Full
  <2> DEFINE new == Append(order, k)
  <2>2. /\ new \in Seq(S)
        /\ Len(new) = len + 1
        /\ \A n \in 1 .. len : new[n] = order[n]
        /\ new[len + 1] = k
    BY AppendProperties
  <2> HIDE DEF new
  <2>3. \A n \in 1 .. len + 1 : n \in 1 .. len \/ n = len + 1
    BY <1>1
  <2>4. \A n \in 1 .. len : n \in 1 .. len + 1
    BY <1>1
  <2>5. ASSUME Once(order), ~InOrder(order, k), Len(order) <= size
        PROVE  /\ Once(new)
               /\ \A x \in S : InOrder(new, x) <=> x = k \/ InOrder(order, x)
    <3>1. Once(new)
      BY <2>2, <2>3, <2>5 DEF Once, InOrder
    <3>2. len + 1 \in 1 .. len + 1
      BY <1>1
    <3>3. \A x \in S : InOrder(new, x) <=> x = k \/ InOrder(order, x)
      BY <2>2, <2>3, <2>4, <3>2 DEF InOrder
    <3> QED
      BY <3>1, <3>3
  <2>6. new = AddKey(order, k, size)
    BY <2>1 DEF new
  <2>7. len + 1 <= size
    BY <1>1, <2>1
  <2> QED
    BY <2>1, <2>2, <2>5, <2>6, <2>7
<1> QED
  BY <1>2, <1>3

-----------------------------------------------------------------------------
(* Types, and the lock.                                                     *)

LEMMA TypeInit == Init => TypeInv
<1> SUFFICES ASSUME Init PROVE TypeInv
  OBVIOUS
<1>1. Idle \in CallerState
  BY DEF Idle, CallerState
<1>2. gauge \in [Metrics -> [Labels -> Int]]
  BY DEF Init
<1>3. secret \in [Secrets -> Keys] /\ registry \in [Contexts -> Keys]
  BY DEF Init, Keys
<1>4. \A c \in Reconcilers : caller[c].pc = "idle" /\ caller[c].session = None /\ retrievalLock # c
  BY NoneAssumption DEF Init, Idle
<1>5. contextOrder \in Seq(Configs) /\ sessionOrder \in Seq(SessionKey)
  BY DEF Init
<1> QED
  BY <1>1, <1>2, <1>3, <1>4, <1>5 DEF Init, TypeInv, TypeOK, CallerOK

(* A step of one caller that leaves the lock as the caller's new program    *)
(* counter says keeps the callers' part of TypeInv.                         *)
CallersOK ==
    /\ retrievalLock \in Reconcilers \cup {None}
    /\ caller \in [Reconcilers -> CallerState]
    /\ \A c \in Reconcilers :
         caller[c].pc \in {"context", "register", "session"} <=> retrievalLock = c
    /\ CallerOK

LocalsOK(r) ==
    /\ r \in CallerState
    /\ r.pc # "idle" => r.key \in SessionKey
    /\ r.pc \in {"register", "session", "use"} => r.context \in Contexts
    /\ IF r.pc = "use" THEN r.session \in Sessions ELSE r.session = None

LEMMA CallersStep ==
    ASSUME CallersOK, NEW c \in Reconcilers, NEW r, LocalsOK(r),
           retrievalLock \in {c, None},
           retrievalLock' = IF r.pc \in {"context", "register", "session"} THEN c ELSE None,
           caller' = [caller EXCEPT ![c] = r]
    PROVE  CallersOK'
<1>1. caller' \in [Reconcilers -> CallerState] /\ retrievalLock' \in Reconcilers \cup {None}
  BY DEF CallersOK, LocalsOK
<1>2. caller'[c] = r /\ \A d \in Reconcilers : d # c => caller'[d] = caller[d]
  BY DEF CallersOK
<1>3. ASSUME NEW d \in Reconcilers
      PROVE  caller'[d].pc \in {"context", "register", "session"} <=> retrievalLock' = d
  BY <1>2, NoneAssumption DEF CallersOK
<1>4. CallerOK'
  BY <1>2 DEF CallersOK, CallerOK, LocalsOK
<1> QED
  BY <1>1, <1>3, <1>4 DEF CallersOK

(* The locals of a caller, and those of an idle one.                        *)
LEMMA CallerType ==
    ASSUME TypeInv, NEW c \in Reconcilers
    PROVE  /\ CallersOK
           /\ LocalsOK(caller[c])
           /\ caller[c] = [pc |-> caller[c].pc, key |-> caller[c].key, secret |-> caller[c].secret,
                           context |-> caller[c].context, session |-> caller[c].session,
                           keys |-> caller[c].keys]
           /\ caller[c].pc \in {"context", "register", "session"} <=> retrievalLock = c
BY DEF TypeInv, TypeOK, CallerOK, CallersOK, LocalsOK, CallerState

LEMMA IdleOK == LocalsOK(Idle) /\ Idle.pc = "idle"
BY DEF Idle, LocalsOK, CallerState

(* The rest of the type invariant.                                          *)
CachesOK ==
    /\ contexts \in [Configs -> Contexts \cup {None}]
    /\ contextOrder \in Seq(Configs)
    /\ sessions \in [SessionKey -> Sessions \cup {None}]
    /\ sessionOrder \in Seq(SessionKey)
    /\ session \in [Sessions -> [context: Contexts \cup {None}, open: BOOLEAN]]
    /\ registry \in [Contexts -> Keys] /\ secret \in [Secrets -> Keys]
    /\ gauge \in [Metrics -> [Labels -> Int]]
    /\ phase \in {"running", "clearing", "cleared"}

LEMMA TypeParts == TypeInv <=> CachesOK /\ CallersOK
BY DEF TypeInv, TypeOK, CachesOK, CallersOK

LEMMA TypePartsPrime == TypeInv' <=> CachesOK' /\ CallersOK'
BY DEF TypeInv, TypeOK, CachesOK, CallersOK

LEMMA CloseSessionsType ==
    ASSUME CachesOK, NEW S
    PROVE  /\ CloseSessions(S) \in [Sessions -> [context: Contexts \cup {None}, open: BOOLEAN]]
           /\ \A s \in Sessions :
                /\ CloseSessions(S)[s].context = session[s].context
                /\ CloseSessions(S)[s].open <=> session[s].open /\ s \notin S
BY DEF CachesOK, CloseSessions

LEMMA AddValueType ==
    ASSUME NEW D, NEW V, NEW cache \in [D -> V \cup {None}], NEW k \in D, NEW v \in V, NEW e
    PROVE  /\ AddValue(cache, k, v, e) \in [D -> V \cup {None}]
           /\ \A j \in D : AddValue(cache, k, v, e)[j] =
                IF j = k THEN v ELSE IF j = e THEN None ELSE cache[j]
BY DEF AddValue

LEMMA NewContextFree ==
    ASSUME FreeContexts # {}
    PROVE  /\ NewContext \in Contexts
           /\ \A h \in Configs : contexts[h] # NewContext
           /\ \A c \in Reconcilers : caller[c].context # NewContext
           /\ \A s \in Sessions : session[s].open => session[s].context # NewContext
<1>1. NewContext \in FreeContexts
  BY DEF NewContext
<1> QED
  BY <1>1 DEF FreeContexts

LEMMA NewSessionFree ==
    ASSUME FreeSessions # {}
    PROVE  /\ NewSession \in Sessions
           /\ ~session[NewSession].open
           /\ \A k \in SessionKey : sessions[k] # NewSession
           /\ \A c \in Reconcilers : caller[c].session # NewSession
<1>1. NewSession \in FreeSessions
  BY DEF NewSession
<1> QED
  BY <1>1 DEF FreeSessions

LEMMA KeyType == \A k \in SessionKey : k.ctxHash \in Configs
BY DEF SessionKey

(* Emptying a cache, touching a key and adding one keep its order.          *)
LEMMA EmptyOrder ==
    ASSUME NEW D, NEW size \in Nat
    PROVE  IsOrder(<<>>, [k \in D |-> None], size)
BY DEF IsOrder, Once, InOrder

LEMMA TouchOrder ==
    ASSUME NEW D, NEW V, NEW order \in Seq(D), NEW cache \in [D -> V], NEW size \in Nat,
           IsOrder(order, cache, size), NEW k \in D, cache[k] # None, NEW new \in [D -> V],
           \A j \in D : new[j] # None <=> cache[j] # None
    PROVE  Touch(order, k) \in Seq(D) /\ IsOrder(Touch(order, k), new, size)
<1>1. InOrder(order, k) /\ Once(order)
  BY DEF IsOrder
<1>2. /\ Touch(order, k) \in Seq(D)
      /\ Len(Touch(order, k)) = Len(order)
      /\ Once(Touch(order, k))
      /\ \A x : InOrder(Touch(order, k), x) <=> InOrder(order, x)
  BY <1>1, TouchProperties
<1> QED
  BY <1>2 DEF IsOrder

LEMMA AddOrder ==
    ASSUME NEW D, NEW V, None \notin D, None \notin V, NEW order \in Seq(D),
           NEW cache \in [D -> V \cup {None}], NEW size \in Nat \ {0}, IsOrder(order, cache, size),
           NEW k \in D, cache[k] = None, NEW v \in V
    PROVE  LET evicted == Evicted(order, size) IN
           /\ AddKey(order, k, size) \in Seq(D)
           /\ IsOrder(AddKey(order, k, size), AddValue(cache, k, v, evicted), size)
           /\ \/ evicted = None /\ Len(order) < size
              \/ evicted \in D /\ evicted # k /\ cache[evicted] # None
<1> DEFINE evicted == Evicted(order, size)
           added == AddKey(order, k, size)
           new == AddValue(cache, k, v, evicted)
<1>1. ~InOrder(order, k) /\ Once(order) /\ Len(order) <= size
  BY DEF IsOrder
<1>2. /\ added \in Seq(D)
      /\ evicted \in D \cup {None}
      /\ Once(added)
      /\ Len(added) <= size
      /\ \A x \in D : InOrder(added, x) <=> x = k \/ (InOrder(order, x) /\ x # evicted)
      /\ \/ evicted = None /\ Len(order) < size
         \/ evicted # None /\ InOrder(order, evicted)
  BY <1>1, AddKeyProperties
<1> HIDE DEF evicted, added
<1>3. /\ new \in [D -> V \cup {None}]
      /\ \A j \in D : new[j] = IF j = k THEN v ELSE IF j = evicted THEN None ELSE cache[j]
  BY DEF AddValue
<1> HIDE DEF new
<1>4. \A j \in D : new[j] # None <=> InOrder(added, j)
  BY <1>2, <1>3 DEF IsOrder
<1>5. IsOrder(added, new, size)
  BY <1>2, <1>3, <1>4 DEF IsOrder
<1>6. evicted # None => evicted \in D /\ cache[evicted] # None
  BY <1>2 DEF IsOrder
<1> QED
  BY <1>2, <1>5, <1>6 DEF evicted, added, new

LEMMA TypeCall ==
    ASSUME TypeInv, NEW c \in Reconcilers, Call(c)
    PROVE  TypeInv'
<1>1. PICK k \in SessionKey, v \in Secrets \cup {None} : GetSession(c, k, v)
  BY DEF Call
<1> DEFINE r == [Idle EXCEPT !.pc = "context", !.key = k, !.secret = v]
<1>2. LocalsOK(r) /\ r.pc = "context"
  BY DEF Idle, LocalsOK, CallerState
<1>3. CallersOK'
  BY <1>1, <1>2, CallerType, CallersStep DEF GetSession, Calls
<1>4. CachesOK'
  BY <1>1, TypeParts DEF GetSession, Calls, CachesOK, cacheVars
<1> QED
  BY <1>3, <1>4, TypePartsPrime

LEMMA TypeFails ==
    ASSUME TypeInv, NEW c \in Reconcilers, GetSessionFails(c)
    PROVE  TypeInv'
<1>1. CallersOK'
  BY IdleOK, CallerType, CallersStep DEF GetSessionFails
<1>2. CachesOK'
  BY TypeParts DEF GetSessionFails, CachesOK, cacheVars
<1> QED
  BY <1>1, <1>2, TypePartsPrime

(* The step from the look-up of the context on.                             *)
LEMMA GotoRegister ==
    ASSUME TypeInv, NEW c \in Reconcilers, caller[c].pc = "context", NEW x \in Contexts,
           Goto(c, "register", x), retrievalLock' = retrievalLock
    PROVE  CallersOK'
<1> DEFINE r == [caller[c] EXCEPT !.pc = "register", !.context = x]
<1>1. LocalsOK(r) /\ r.pc = "register"
  BY CallerType DEF LocalsOK, CallerState
<1>2. caller' = [caller EXCEPT ![c] = r]
  BY DEF Goto
<1> HIDE DEF r
<1> QED
  BY <1>1, <1>2, CallerType, CallersStep

LEMMA TypeReuseContext ==
    ASSUME TypeInv, OrderOK, NEW c \in Reconcilers, ReuseContext(c)
    PROVE  TypeInv' /\ OrderOK'
<1> DEFINE h == caller[c].key.ctxHash
<1>1. h \in Configs
  BY CallerType, KeyType DEF ReuseContext, LocalsOK
<1>2. CachesOK
  BY TypeParts
<1>3. contexts[h] \in Contexts
  BY <1>1, <1>2 DEF ReuseContext, CachesOK
<1>4. CallersOK'
  BY <1>3, GotoRegister DEF ReuseContext
<1>5. contextOrder' \in Seq(Configs) /\ IsOrder(contextOrder', contexts', ContextCacheSize)
  <2>1. h \in Configs /\ contexts[h] # None /\ contextOrder' = Touch(contextOrder, h)
    BY <1>1 DEF ReuseContext
  <2> HIDE DEF h
  <2>2. contexts' = contexts
    BY DEF ReuseContext
  <2> QED
    BY <1>2, <2>1, <2>2, SizeAssumption, TouchOrder DEF CachesOK, OrderOK
<1>6. CachesOK' /\ OrderOK'
  BY <1>2, <1>5 DEF ReuseContext, CachesOK, OrderOK
<1> QED
  BY <1>4, <1>6, TypePartsPrime

LEMMA GaugeType ==
    ASSUME NEW g \in [Metrics -> [Labels -> Int]], NEW m \in Metrics, NEW l \in Labels, NEW i \in Int
    PROVE  [g EXCEPT ![m][l] = i] \in [Metrics -> [Labels -> Int]]
OBVIOUS

LEMMA TypeCreateContext ==
    ASSUME TypeInv, OrderOK, NEW c \in Reconcilers, CreateContext(c)
    PROVE  TypeInv' /\ OrderOK'
<1> DEFINE h == caller[c].key.ctxHash
           evicted == Evicted(contextOrder, ContextCacheSize)
           closed == IF evicted = None THEN {} ELSE SessionsOf(contexts[evicted])
<1>1. AddContext(c, evicted, closed) /\ caller[c].pc = "context"
  BY DEF CreateContext, AddContext
<1> HIDE DEF evicted, closed
<1>2. h \in Configs /\ contexts[h] = None /\ FreeContexts # {}
  BY <1>1, CallerType, KeyType DEF AddContext, LocalsOK
<1>3. CachesOK /\ NewContext \in Contexts
  BY <1>2, TypeParts, NewContextFree
<1>4. CallersOK'
  BY <1>1, <1>3, GotoRegister DEF AddContext
<1>5. /\ contextOrder' \in Seq(Configs)
      /\ contexts' \in [Configs -> Contexts \cup {None}]
      /\ IsOrder(contextOrder', contexts', ContextCacheSize)
  <2>1. /\ contextOrder' = AddKey(contextOrder, h, ContextCacheSize)
        /\ contexts' = AddValue(contexts, h, NewContext, evicted)
    BY <1>1 DEF AddContext
  <2> HIDE DEF h
  <2>2. contexts' \in [Configs -> Contexts \cup {None}]
    BY <1>2, <1>3, <2>1, AddValueType DEF CachesOK
  <2> QED
    BY <1>2, <1>3, <2>1, <2>2, SizeAssumption, NoneAssumption, AddOrder DEF CachesOK, OrderOK, evicted
<1>6. gauge' \in [Metrics -> [Labels -> Int]]
  BY <1>1, <1>3 DEF AddContext, CachesOK, Metrics, Labels
<1>7. session' \in [Sessions -> [context: Contexts \cup {None}, open: BOOLEAN]]
  BY <1>1, <1>3, CloseSessionsType DEF AddContext
<1>8. registry' \in [Contexts -> Keys]
  BY <1>1, <1>3 DEF AddContext, CachesOK, Keys
<1>9. CachesOK' /\ OrderOK'
  BY <1>1, <1>3, <1>5, <1>6, <1>7, <1>8 DEF AddContext, CachesOK, OrderOK
<1> QED
  BY <1>4, <1>9, TypePartsPrime

LEMMA TypeRegister ==
    ASSUME TypeInv, NEW c \in Reconcilers, registerVerifications(c)
    PROVE  TypeInv'
<1> DEFINE key == IF caller[c].secret = None THEN registry[caller[c].context]
                  ELSE secret[caller[c].secret]
           keys == {secret[v] : v \in {caller[c].secret} \ {None}}
           r == [caller[c] EXCEPT !.pc = "session", !.keys = keys]
<1>1. Registers(c, key) /\ CachesOK
  BY TypeParts DEF registerVerifications
<1>2. caller[c].secret \in Secrets \cup {None} /\ caller[c].context \in Contexts
  BY <1>1, CallerType DEF LocalsOK, CallerState, Registers
<1>3. key \in Keys /\ keys \in SUBSET Keys
  BY <1>1, <1>2 DEF CachesOK
<1>4. caller' = [caller EXCEPT ![c] = r]
  BY <1>1 DEF Registers
<1> HIDE DEF key, keys
<1>5. LocalsOK(r) /\ r.pc = "session"
  BY <1>1, <1>3, CallerType DEF LocalsOK, CallerState, Registers
<1> HIDE DEF r
<1>6. CallersOK'
  BY <1>1, <1>4, <1>5, CallerType, CallersStep DEF Registers
<1>7. CachesOK'
  BY <1>1, <1>3 DEF CachesOK, Registers
<1> QED
  BY <1>6, <1>7, TypePartsPrime

(* The step that returns a session.                                         *)
LEMMA ReturnUse ==
    ASSUME TypeInv, NEW c \in Reconcilers, caller[c].pc = "session", NEW s \in Sessions, Return(c, s)
    PROVE  CallersOK'
<1> DEFINE r == [caller[c] EXCEPT !.pc = "use", !.session = s]
<1>1. LocalsOK(r) /\ r.pc = "use"
  BY CallerType DEF LocalsOK, CallerState
<1>2. caller' = [caller EXCEPT ![c] = r] /\ retrievalLock' = None
  BY DEF Return
<1> HIDE DEF r
<1> QED
  BY <1>1, <1>2, CallerType, CallersStep

LEMMA TypeReuseSession ==
    ASSUME TypeInv, OrderOK, NEW c \in Reconcilers, ReuseSession(c)
    PROVE  TypeInv' /\ OrderOK'
<1> DEFINE k == caller[c].key
<1>1. k \in SessionKey /\ CachesOK /\ caller[c].pc = "session"
  BY CallerType, TypeParts DEF ReuseSession, LocalsOK
<1>2. sessions[k] \in Sessions
  BY <1>1 DEF ReuseSession, CachesOK
<1>3. CallersOK'
  BY <1>1, <1>2, ReturnUse DEF ReuseSession
<1>4. sessionOrder' \in Seq(SessionKey) /\ IsOrder(sessionOrder', sessions', SessionCacheSize)
  <2>1. sessions[k] # None /\ sessionOrder' = Touch(sessionOrder, k) /\ sessions' = sessions
    BY DEF ReuseSession
  <2> HIDE DEF k
  <2> QED
    BY <1>1, <2>1, SizeAssumption, TouchOrder DEF CachesOK, OrderOK
<1>5. CachesOK' /\ OrderOK'
  BY <1>1, <1>4 DEF ReuseSession, CachesOK, OrderOK
<1> QED
  BY <1>3, <1>5, TypePartsPrime

LEMMA TypeReplaceSession ==
    ASSUME TypeInv, OrderOK, NEW c \in Reconcilers, ReplaceSession(c)
    PROVE  TypeInv' /\ OrderOK'
<1> DEFINE k == caller[c].key
<1>1. k \in SessionKey /\ CachesOK /\ caller[c].pc = "session" /\ caller[c].context \in Contexts
  BY CallerType, TypeParts DEF ReplaceSession, LocalsOK
<1>2. NewSession \in Sessions
  BY NewSessionFree DEF ReplaceSession
<1>3. CallersOK'
  BY <1>1, <1>2, ReturnUse DEF ReplaceSession
<1>4. /\ sessions' \in [SessionKey -> Sessions \cup {None}]
      /\ sessionOrder' \in Seq(SessionKey)
      /\ IsOrder(sessionOrder', sessions', SessionCacheSize)
  <2>1. /\ sessions[k] # None /\ sessionOrder' = Touch(sessionOrder, k)
        /\ sessions' = [sessions EXCEPT ![k] = NewSession]
    BY DEF ReplaceSession
  <2> DEFINE new == [sessions EXCEPT ![k] = NewSession]
             V == Sessions \cup {None}
  <2> HIDE DEF k
  <2>2. /\ new \in [SessionKey -> V]
        /\ \A j \in SessionKey : new[j] # None <=> sessions[j] # None
    BY <1>1, <1>2, <2>1, NoneAssumption DEF CachesOK
  <2>3. /\ k \in SessionKey /\ sessions[k] # None
        /\ sessionOrder \in Seq(SessionKey) /\ sessions \in [SessionKey -> V]
        /\ IsOrder(sessionOrder, sessions, SessionCacheSize) /\ SessionCacheSize \in Nat
    BY <1>1, <2>1, SizeAssumption DEF CachesOK, OrderOK
  <2> HIDE DEF new, V
  <2>4. Touch(sessionOrder, k) \in Seq(SessionKey) /\ IsOrder(Touch(sessionOrder, k), new, SessionCacheSize)
    BY <2>2, <2>3, TouchOrder
  <2> QED
    BY <2>1, <2>2, <2>4 DEF new, V
<1>5. session' \in [Sessions -> [context: Contexts \cup {None}, open: BOOLEAN]]
  BY <1>1, <1>2 DEF ReplaceSession, Opened, CachesOK
<1>6. CachesOK' /\ OrderOK'
  BY <1>1, <1>4, <1>5 DEF ReplaceSession, CachesOK, OrderOK
<1> QED
  BY <1>3, <1>6, TypePartsPrime

LEMMA TypeCreateSession ==
    ASSUME TypeInv, OrderOK, NEW c \in Reconcilers, CreateSession(c)
    PROVE  TypeInv' /\ OrderOK'
<1> DEFINE k == caller[c].key
           evicted == Evicted(sessionOrder, SessionCacheSize)
           closed == IF evicted = None THEN {} ELSE {sessions[evicted]}
<1>1. AddSession(c, evicted, closed) /\ caller[c].pc = "session"
  BY DEF CreateSession, AddSession
<1> HIDE DEF evicted, closed
<1>2. k \in SessionKey /\ CachesOK /\ caller[c].context \in Contexts /\ sessions[k] = None
  BY <1>1, CallerType, TypeParts DEF AddSession, LocalsOK
<1>3. NewSession \in Sessions
  BY <1>1, NewSessionFree DEF AddSession
<1>4. CallersOK'
  BY <1>1, <1>3, ReturnUse DEF AddSession
<1>5. /\ sessionOrder' \in Seq(SessionKey)
      /\ sessions' \in [SessionKey -> Sessions \cup {None}]
      /\ IsOrder(sessionOrder', sessions', SessionCacheSize)
  <2>1. /\ sessionOrder' = AddKey(sessionOrder, k, SessionCacheSize)
        /\ sessions' = AddValue(sessions, k, NewSession, evicted)
    BY <1>1 DEF AddSession
  <2> HIDE DEF k
  <2>2. sessions' \in [SessionKey -> Sessions \cup {None}]
    BY <1>2, <1>3, <2>1, AddValueType DEF CachesOK
  <2> QED
    BY <1>2, <1>3, <2>1, <2>2, SizeAssumption, NoneAssumption, AddOrder DEF CachesOK, OrderOK, evicted
<1>6. gauge' \in [Metrics -> [Labels -> Int]]
  BY <1>1, <1>2 DEF AddSession, CachesOK, Metrics, Labels
<1>7. session' \in [Sessions -> [context: Contexts \cup {None}, open: BOOLEAN]]
  <2>1. CloseSessions(closed) \in [Sessions -> [context: Contexts \cup {None}, open: BOOLEAN]]
    BY <1>2, CloseSessionsType
  <2> QED
    BY <1>1, <1>2, <1>3, <2>1 DEF AddSession, Opened
<1>8. CachesOK' /\ OrderOK'
  BY <1>1, <1>2, <1>5, <1>6, <1>7 DEF AddSession, CachesOK, OrderOK
<1> QED
  BY <1>4, <1>8, TypePartsPrime

(* A reconciler that was given a session ends: others may hold the lock.    *)
LEMMA UseEnds ==
    ASSUME TypeInv, NEW c \in Reconcilers, caller[c].pc = "use",
           caller' = [caller EXCEPT ![c] = Idle], retrievalLock' = retrievalLock
    PROVE  CallersOK'
<1>1. CallersOK /\ retrievalLock # c
  BY CallerType
<1>2. caller' \in [Reconcilers -> CallerState]
  BY <1>1, IdleOK DEF CallersOK, LocalsOK
<1>3. caller'[c] = Idle /\ \A d \in Reconcilers : d # c => caller'[d] = caller[d]
  BY <1>1 DEF CallersOK
<1>4. \A d \in Reconcilers :
        caller'[d].pc \in {"context", "register", "session"} <=> retrievalLock' = d
  BY <1>1, <1>3, IdleOK DEF CallersOK
<1>5. CallerOK'
  BY <1>1, <1>3, IdleOK DEF CallersOK, CallerOK, LocalsOK
<1> QED
  BY <1>1, <1>2, <1>4, <1>5 DEF CallersOK

LEMMA TypeInvalidate ==
    ASSUME TypeInv, NEW c \in Reconcilers, InvalidateSession(c)
    PROVE  TypeInv'
<1>1. CallersOK' /\ CachesOK
  BY UseEnds, TypeParts DEF InvalidateSession
<1>2. session' \in [Sessions -> [context: Contexts \cup {None}, open: BOOLEAN]]
  BY <1>1, CloseSessionsType DEF InvalidateSession
<1>3. CachesOK'
  BY <1>1, <1>2 DEF InvalidateSession, CachesOK
<1> QED
  BY <1>1, <1>3, TypePartsPrime

LEMMA TypeDone ==
    ASSUME TypeInv, NEW c \in Reconcilers, Done(c)
    PROVE  TypeInv'
<1>1. CallersOK' /\ CachesOK
  BY UseEnds, TypeParts DEF Done
<1>2. CachesOK'
  BY <1>1 DEF Done, CachesOK, cacheVars
<1> QED
  BY <1>1, <1>2, TypePartsPrime

LEMMA TypeReplaceKey ==
    ASSUME TypeInv, NEW v \in Secrets, NEW key \in Keys, ReplaceKey(v, key)
    PROVE  TypeInv'
<1>1. CachesOK /\ CallersOK
  BY TypeParts
<1>2. CachesOK'
  BY <1>1 DEF ReplaceKey, CachesOK, cacheVars
<1>3. ASSUME NEW c \in Reconcilers
      PROVE  /\ caller'[c] \in CallerState
             /\ caller'[c].pc = caller[c].pc /\ caller'[c].key = caller[c].key
             /\ caller'[c].context = caller[c].context /\ caller'[c].session = caller[c].session
  <2>1. caller[c] \in CallerState
    BY <1>1 DEF CallersOK
  <2>2. caller'[c] = IF caller[c].pc \in {"session", "use"} /\ caller[c].secret = v
                     THEN [caller[c] EXCEPT !.keys = @ \cup {key}] ELSE caller[c]
    BY DEF ReplaceKey
  <2>3. [caller[c] EXCEPT !.keys = @ \cup {key}] \in CallerState
    BY <2>1 DEF CallerState
  <2> QED
    BY <2>1, <2>2, <2>3 DEF CallerState
<1>4. caller' \in [Reconcilers -> CallerState]
  <2>1. caller' = [c \in Reconcilers |->
          IF caller[c].pc \in {"session", "use"} /\ caller[c].secret = v
          THEN [caller[c] EXCEPT !.keys = @ \cup {key}] ELSE caller[c]]
    BY DEF ReplaceKey
  <2>2. caller' = [c \in Reconcilers |-> caller'[c]]
    BY <2>1
  <2> QED
    BY <1>3, <2>2
<1>5. CallersOK'
  BY <1>1, <1>3, <1>4 DEF ReplaceKey, CallersOK, CallerOK
<1> QED
  BY <1>2, <1>5, TypePartsPrime

LEMMA TypeClear ==
    ASSUME TypeInv, OrderOK, Clear
    PROVE  TypeInv' /\ OrderOK'
<1>1. CachesOK /\ CallersOK
  BY TypeParts
<1>2. Len(sessionOrder) \in Nat /\ Len(contextOrder) \in Nat
  BY <1>1 DEF CachesOK
<1>3. ASSUME NEW n \in Nat, gauge' = [gauge EXCEPT !["context"]["named"] = @ - n]
      PROVE  gauge' \in [Metrics -> [Labels -> Int]]
  BY <1>1, <1>3 DEF CachesOK, Metrics, Labels
<1>4. session' \in [Sessions -> [context: Contexts \cup {None}, open: BOOLEAN]]
  BY <1>1, CloseSessionsType DEF Clear, ClearSessions, ClearContexts
<1>5. /\ IsOrder(<<>>, [k \in SessionKey |-> None], SessionCacheSize)
      /\ IsOrder(<<>>, [h \in Configs |-> None], ContextCacheSize)
  BY SizeAssumption, EmptyOrder
<1>6. CallersOK'
  BY <1>1 DEF Clear, ClearSessions, ClearContexts, CallersOK, CallerOK
<1>7. CASE ClearSessions
  <2>0. gauge' \in [Metrics -> [Labels -> Int]]
    BY <1>2, <1>3, <1>7 DEF ClearSessions
  <2>1. CachesOK'
    BY <1>1, <1>4, <1>7, <2>0 DEF ClearSessions, CachesOK
  <2>2. OrderOK'
    BY <1>5, <1>7 DEF ClearSessions, OrderOK
  <2> QED
    BY <1>6, <2>1, <2>2, TypePartsPrime
<1>8. CASE ClearContexts
  <2>0. gauge' \in [Metrics -> [Labels -> Int]]
    BY <1>2, <1>3, <1>8 DEF ClearContexts
  <2>1. /\ contexts' = [h \in Configs |-> None] /\ contextOrder' = <<>> /\ phase' = "cleared"
        /\ UNCHANGED <<sessions, sessionOrder, registry, secret>>
    BY <1>8 DEF ClearContexts
  <2>2. CachesOK'
    BY <1>1, <1>4, <2>0, <2>1 DEF CachesOK
  <2>3. OrderOK'
    BY <1>5, <2>1 DEF OrderOK
  <2> QED
    BY <1>6, <2>2, <2>3, TypePartsPrime
<1> QED
  BY <1>7, <1>8 DEF Clear

(* Every step keeps the types, the lock and the orders of the caches.       *)
LEMMA TypeNext ==
    ASSUME TypeInv, OrderOK, [Next]_vars
    PROVE  TypeInv' /\ OrderOK'
<1>1. ASSUME NEW c \in Reconcilers, Call(c) PROVE TypeInv' /\ OrderOK'
  BY <1>1, TypeCall DEF Call, GetSession, Calls, cacheVars, OrderOK
<1>2. ASSUME NEW c \in Reconcilers, Proceed(c) PROVE TypeInv' /\ OrderOK'
  <2>1. CASE GetSessionFails(c)
    BY <2>1, TypeFails DEF GetSessionFails, cacheVars, OrderOK
  <2>2. CASE getOrCreateContext(c)
    BY <2>2, TypeReuseContext, TypeCreateContext DEF getOrCreateContext
  <2>3. CASE registerVerifications(c)
    BY <2>3, TypeRegister DEF registerVerifications, Registers, OrderOK
  <2>4. CASE getOrCreateSession(c)
    BY <2>4, TypeReuseSession, TypeReplaceSession, TypeCreateSession DEF getOrCreateSession
  <2>5. CASE InvalidateSession(c)
    BY <2>5, TypeInvalidate DEF InvalidateSession, OrderOK
  <2>6. CASE Done(c)
    BY <2>6, TypeDone DEF Done, cacheVars, OrderOK
  <2> QED
    BY <1>2, <2>1, <2>2, <2>3, <2>4, <2>5, <2>6 DEF Proceed
<1>3. CASE Clear
  BY <1>3, TypeClear
<1>4. CASE ReplaceKeys
  BY <1>4, TypeReplaceKey DEF ReplaceKeys, ReplaceKey, cacheVars, OrderOK
<1>5. CASE UNCHANGED vars
  BY <1>5 DEF vars, cacheVars, TypeInv, TypeOK, CallerOK, OrderOK
<1> QED
  BY <1>1, <1>2, <1>3, <1>4, <1>5 DEF Next

LEMMA OrderInit == Init => OrderOK
BY SizeAssumption, EmptyOrder DEF Init, OrderOK

-----------------------------------------------------------------------------
(* Sessions and their contexts.                                             *)

Safe == SessionsOK /\ ContextIsCached /\ SessionOfContext

LEMMA SafeInit ==
    ASSUME Init
    PROVE  Safe
<1>1. \A s \in Sessions : ~session[s].open
  BY DEF Init
<1>2. \A k \in SessionKey : sessions[k] = None
  BY DEF Init
<1>3. \A c \in Reconcilers : caller[c].pc = "idle"
  BY DEF Init, Idle
<1> QED
  BY <1>1, <1>2, <1>3 DEF Safe, SessionsOK, ContextIsCached, SessionOfContext

(* Steps that leave contexts and sessions alone.                            *)
LEMMA SafeCallers ==
    ASSUME Safe, UNCHANGED <<contexts, sessions, session, phase>>, NEW c \in Reconcilers,
           \A d \in Reconcilers : d # c => caller'[d] = caller[d],
           phase = "running" /\ caller'[c].pc \in {"register", "session"} =>
             caller'[c].context = contexts[caller'[c].key.ctxHash]
    PROVE  Safe'
BY DEF Safe, SessionsOK, ContextIsCached, SessionOfContext

LEMMA SafeCall ==
    ASSUME IInv, NEW c \in Reconcilers, Call(c)
    PROVE  Safe'
<1>1. PICK k \in SessionKey, v \in Secrets \cup {None} : Calls(c, k, v)
  BY DEF Call, GetSession
<1>2. /\ caller'[c].pc = "context"
      /\ \A d \in Reconcilers : d # c => caller'[d] = caller[d]
  BY <1>1 DEF Calls, Idle, IInv, TypeInv, TypeOK
<1> QED
  BY <1>1, <1>2, SafeCallers DEF Calls, cacheVars, IInv, Safe

LEMMA SafeEnds ==
    ASSUME IInv, NEW c \in Reconcilers, caller' = [caller EXCEPT ![c] = Idle],
           UNCHANGED <<contexts, sessions, session, phase>>
    PROVE  Safe'
<1>1. /\ caller'[c].pc = "idle"
      /\ \A d \in Reconcilers : d # c => caller'[d] = caller[d]
  BY DEF Idle, IInv, TypeInv, TypeOK
<1> QED
  BY <1>1, SafeCallers DEF IInv, Safe

LEMMA SafeReuseContext ==
    ASSUME IInv, NEW c \in Reconcilers, ReuseContext(c)
    PROVE  Safe'
<1>1. /\ caller'[c].context = contexts[caller[c].key.ctxHash]
      /\ caller'[c].key = caller[c].key
      /\ \A d \in Reconcilers : d # c => caller'[d] = caller[d]
  BY DEF ReuseContext, Goto, IInv, TypeInv, TypeOK, CallerState
<1> QED
  BY <1>1, SafeCallers DEF ReuseContext, IInv, Safe

LEMMA SafeRegister ==
    ASSUME IInv, NEW c \in Reconcilers, registerVerifications(c)
    PROVE  Safe'
<1>1. PICK key : Registers(c, key)
  BY DEF registerVerifications
<1>2. /\ caller[c].pc = "register"
      /\ caller'[c].context = caller[c].context
      /\ caller'[c].key = caller[c].key
      /\ \A d \in Reconcilers : d # c => caller'[d] = caller[d]
  BY <1>1 DEF Registers, IInv, TypeInv, TypeOK, CallerState
<1> QED
  BY <1>1, <1>2, SafeCallers DEF Registers, IInv, Safe, ContextIsCached

LEMMA SafeReuseSession ==
    ASSUME IInv, NEW c \in Reconcilers, ReuseSession(c)
    PROVE  Safe'
<1>1. /\ caller'[c].pc = "use"
      /\ \A d \in Reconcilers : d # c => caller'[d] = caller[d]
  BY DEF ReuseSession, Return, IInv, TypeInv, TypeOK, CallerState
<1> QED
  BY <1>1, SafeCallers DEF ReuseSession, IInv, Safe

LEMMA SafeReplaceKey ==
    ASSUME IInv, NEW v \in Secrets, NEW key \in Keys, ReplaceKey(v, key)
    PROVE  Safe'
<1>1. ASSUME NEW c \in Reconcilers
      PROVE  /\ caller'[c].pc = caller[c].pc
             /\ caller'[c].context = caller[c].context
             /\ caller'[c].key = caller[c].key
  BY DEF ReplaceKey, IInv, TypeInv, TypeOK, CallerState
<1>2. UNCHANGED <<contexts, sessions, session, phase>>
  BY DEF ReplaceKey, cacheVars
<1> QED
  BY <1>1, <1>2 DEF IInv, Safe, SessionsOK, ContextIsCached, SessionOfContext

(* Sessions are closed; none is opened.                                     *)
LEMMA SafeInvalidate ==
    ASSUME IInv, NEW c \in Reconcilers, InvalidateSession(c)
    PROVE  Safe'
<1>1. CachesOK
  BY TypeParts DEF IInv
<1>2. \A s \in Sessions :
        /\ session'[s].context = session[s].context
        /\ session'[s].open => session[s].open
  BY <1>1, CloseSessionsType DEF InvalidateSession
<1>3. UNCHANGED <<contexts, sessions, phase>>
  BY DEF InvalidateSession
<1>4. /\ caller'[c].pc = "idle"
      /\ \A d \in Reconcilers : d # c => caller'[d] = caller[d]
  BY DEF InvalidateSession, Idle, IInv, TypeInv, TypeOK
<1>5. SessionsOK'
  BY <1>2, <1>3 DEF IInv, SessionsOK
<1>6. ContextIsCached'
  BY <1>3, <1>4 DEF IInv, ContextIsCached
<1>7. SessionOfContext'
  BY <1>1, <1>2, <1>3 DEF IInv, SessionOfContext, CachesOK
<1> QED
  BY <1>5, <1>6, <1>7 DEF Safe

(* The eviction of a context closes its sessions, and no open session is    *)
(* left of a configuration whose context was not cached.                    *)
LEMMA SafeCreateContext ==
    ASSUME IInv, NEW c \in Reconcilers, CreateContext(c)
    PROVE  Safe'
<1> DEFINE h == caller[c].key.ctxHash
           evicted == Evicted(contextOrder, ContextCacheSize)
           closed == IF evicted = None THEN {} ELSE SessionsOf(contexts[evicted])
<1>1. AddContext(c, evicted, closed) /\ CachesOK
  BY TypeParts DEF CreateContext, IInv
<1>2. /\ h \in Configs /\ contexts[h] = None /\ FreeContexts # {}
      /\ caller[c].pc = "context" /\ retrievalLock = c
  BY <1>1, CallerType, KeyType DEF AddContext, LocalsOK, IInv
<1> HIDE DEF h, closed
<1>3. NewContext \in Contexts
  BY <1>2, NewContextFree
<1>4. /\ evicted = None \/ (evicted \in Configs /\ evicted # h)
      /\ \A g \in Configs : contexts'[g] =
           IF g = h THEN NewContext ELSE IF g = evicted THEN None ELSE contexts[g]
  <2>1. evicted = None \/ (evicted \in Configs /\ evicted # h)
    BY <1>1, <1>2, <1>3, SizeAssumption, NoneAssumption, AddOrder DEF IInv, OrderOK, CachesOK
  <2>2. contexts' = AddValue(contexts, h, NewContext, evicted)
    BY <1>1 DEF AddContext, h
  <2> HIDE DEF evicted
  <2>3. \A g \in Configs : contexts'[g] =
           IF g = h THEN NewContext ELSE IF g = evicted THEN None ELSE contexts[g]
    BY <1>1, <2>2 DEF AddValue, CachesOK
  <2> QED
    BY <2>1, <2>3
<1> HIDE DEF evicted
<1>5. \A s \in Sessions :
        /\ session'[s].context = session[s].context
        /\ session'[s].open <=> session[s].open /\ s \notin closed
  BY <1>1, CloseSessionsType DEF AddContext
<1>6. UNCHANGED <<sessions, phase>>
  BY <1>1 DEF AddContext
<1>7. /\ caller'[c].context = NewContext /\ caller'[c].key = caller[c].key
      /\ \A d \in Reconcilers : d # c => caller'[d] = caller[d]
  BY <1>1 DEF AddContext, Goto, IInv, TypeInv, TypeOK, CallerState
<1>8. SessionsOK'
  BY <1>5, <1>6 DEF IInv, SessionsOK
<1>9. ContextIsCached'
  <2>1. \A d \in Reconcilers : d # c => caller[d].pc \notin {"register", "session"}
    BY <1>2 DEF IInv, TypeInv, TypeOK
  <2>2. caller'[c].context = contexts'[caller'[c].key.ctxHash]
    BY <1>2, <1>4, <1>7 DEF h
  <2> QED
    BY <1>7, <2>1, <2>2 DEF ContextIsCached
<1>10. ASSUME phase = "running", NEW k \in SessionKey, sessions[k] # None, session'[sessions[k]].open
       PROVE  session'[sessions[k]].context = contexts'[k.ctxHash]
  <2>1. sessions[k] \in Sessions /\ k.ctxHash \in Configs
    BY <1>1, <1>10, KeyType DEF CachesOK
  <2>2. session[sessions[k]].open /\ sessions[k] \notin closed
    BY <1>5, <1>10, <2>1
  <2>3. session[sessions[k]].context = contexts[k.ctxHash] /\ session[sessions[k]].context \in Contexts
    BY <1>10, <2>1, <2>2 DEF IInv, SessionOfContext, SessionsOK
  <2>4. k.ctxHash # h
    BY <1>2, <2>3, NoneAssumption
  <2>5. k.ctxHash # evicted
    <3> SUFFICES ASSUME k.ctxHash = evicted PROVE FALSE
      OBVIOUS
    <3>1. closed = SessionsOf(contexts[evicted])
      BY <2>1, NoneAssumption DEF closed
    <3> QED
      BY <2>1, <2>2, <2>3, <3>1 DEF SessionsOf
  <2> QED
    BY <1>4, <1>5, <2>1, <2>3, <2>4, <2>5
<1>11. SessionOfContext'
  BY <1>6, <1>10 DEF SessionOfContext
<1> QED
  BY <1>8, <1>9, <1>11 DEF Safe

(* What ReplaceSession and CreateSession have in common: the new session    *)
(* replaces nothing that is open, and what is evicted is closed.            *)
Installs(c, k, evicted) ==
    /\ k \in SessionKey
    /\ caller[c].pc = "session" /\ caller[c].key = k /\ caller[c].context \in Contexts
    /\ retrievalLock = c
    /\ FreeSessions # {}
    /\ sessions[k] = None \/ ~session[sessions[k]].open
    /\ evicted = None \/ (evicted \in SessionKey /\ evicted # k /\ sessions[evicted] # None)
    /\ \A j \in SessionKey : sessions'[j] =
         IF j = k THEN NewSession ELSE IF j = evicted THEN None ELSE sessions[j]
    /\ \A s \in Sessions : s # NewSession =>
         /\ session'[s].context = session[s].context
         /\ session'[s].open <=>
              session[s].open /\ (evicted # None => s # sessions[evicted])
    /\ session'[NewSession].context = caller[c].context
    /\ session'[NewSession].open
    /\ caller'[c].pc = "use" /\ caller'[c].session = NewSession
    /\ \A d \in Reconcilers : d # c => caller'[d] = caller[d]
    /\ UNCHANGED <<contexts, phase>>

LEMMA ReplaceInstalls ==
    ASSUME IInv, NEW c \in Reconcilers, ReplaceSession(c)
    PROVE  Installs(c, caller[c].key, None)
<1> DEFINE k == caller[c].key
<1>1. /\ k \in SessionKey /\ CachesOK /\ caller[c].pc = "session"
      /\ caller[c].context \in Contexts /\ retrievalLock = c
  BY CallerType, TypeParts DEF ReplaceSession, LocalsOK, IInv
<1>2. NewSession \in Sessions /\ FreeSessions # {} /\ ~session[sessions[k]].open
  BY NewSessionFree DEF ReplaceSession
<1>3. \A j \in SessionKey : sessions'[j] = IF j = k THEN NewSession ELSE sessions[j]
  BY <1>1 DEF ReplaceSession, CachesOK
<1>4. session' = [session EXCEPT ![NewSession] = [context |-> caller[c].context, open |-> TRUE]]
  BY DEF ReplaceSession, Opened
<1>5. /\ session'[NewSession].context = caller[c].context
      /\ session'[NewSession].open
      /\ \A s \in Sessions : s # NewSession => session'[s] = session[s]
  BY <1>1, <1>2, <1>4 DEF CachesOK
<1>6. /\ caller'[c].pc = "use" /\ caller'[c].session = NewSession
      /\ \A d \in Reconcilers : d # c => caller'[d] = caller[d]
  BY DEF ReplaceSession, Return, IInv, TypeInv, TypeOK, CallerState
<1>7. UNCHANGED <<contexts, phase>>
  BY DEF ReplaceSession
<1> QED
  BY <1>1, <1>2, <1>3, <1>5, <1>6, <1>7, NoneAssumption DEF Installs

LEMMA CreateInstalls ==
    ASSUME IInv, NEW c \in Reconcilers, CreateSession(c)
    PROVE  /\ Installs(c, caller[c].key, Evicted(sessionOrder, SessionCacheSize))
           /\ sessions[caller[c].key] = None
           /\ Evicted(sessionOrder, SessionCacheSize) = None => Len(sessionOrder) < SessionCacheSize
<1> DEFINE k == caller[c].key
           evicted == Evicted(sessionOrder, SessionCacheSize)
           closed == IF evicted = None THEN {} ELSE {sessions[evicted]}
<1>1. AddSession(c, evicted, closed) /\ CachesOK
  BY TypeParts DEF CreateSession, IInv
<1>2. /\ k \in SessionKey /\ caller[c].pc = "session" /\ sessions[k] = None
      /\ caller[c].context \in Contexts /\ retrievalLock = c
  BY <1>1, CallerType DEF AddSession, LocalsOK, IInv
<1>3. NewSession \in Sessions /\ FreeSessions # {}
  BY <1>1, NewSessionFree DEF AddSession
<1> HIDE DEF closed
<1>4. \/ evicted = None /\ Len(sessionOrder) < SessionCacheSize
      \/ evicted \in SessionKey /\ evicted # k /\ sessions[evicted] # None
  <2> HIDE DEF k, evicted
  <2>1. /\ sessionOrder \in Seq(SessionKey) /\ sessions \in [SessionKey -> Sessions \cup {None}]
        /\ IsOrder(sessionOrder, sessions, SessionCacheSize) /\ SessionCacheSize \in Nat \ {0}
        /\ None \notin SessionKey /\ None \notin Sessions
    BY <1>1, SizeAssumption, NoneAssumption DEF IInv, OrderOK, CachesOK
  <2> QED
    BY <1>2, <1>3, <2>1, AddOrder DEF evicted
<1>5. \A j \in SessionKey : sessions'[j] =
        IF j = k THEN NewSession ELSE IF j = evicted THEN None ELSE sessions[j]
  <2>1. sessions' = AddValue(sessions, k, NewSession, evicted)
    BY <1>1 DEF AddSession
  <2> HIDE DEF k, evicted
  <2> QED
    BY <1>1, <2>1 DEF AddValue, CachesOK
<1> HIDE DEF evicted
<1>6. /\ session'[NewSession].context = caller[c].context
      /\ session'[NewSession].open
      /\ \A s \in Sessions : s # NewSession =>
           /\ session'[s].context = session[s].context
           /\ session'[s].open <=> session[s].open /\ s \notin closed
  <2>1. session' = [CloseSessions(closed) EXCEPT ![NewSession] =
                      [context |-> caller[c].context, open |-> TRUE]]
    BY <1>1 DEF AddSession, Opened
  <2>2. /\ CloseSessions(closed) \in [Sessions -> [context: Contexts \cup {None}, open: BOOLEAN]]
        /\ \A s \in Sessions :
             /\ CloseSessions(closed)[s].context = session[s].context
             /\ CloseSessions(closed)[s].open <=> session[s].open /\ s \notin closed
    BY <1>1, CloseSessionsType
  <2>3. /\ session'[NewSession] = [context |-> caller[c].context, open |-> TRUE]
        /\ \A s \in Sessions : s # NewSession => session'[s] = CloseSessions(closed)[s]
    BY <1>3, <2>1, <2>2
  <2> QED
    BY <2>2, <2>3
<1>7. \A s \in Sessions : s \notin closed <=> (evicted # None => s # sessions[evicted])
  BY DEF closed
<1>8. /\ caller'[c].pc = "use" /\ caller'[c].session = NewSession
      /\ \A d \in Reconcilers : d # c => caller'[d] = caller[d]
  BY <1>1 DEF AddSession, Return, IInv, TypeInv, TypeOK, CallerState
<1>9. UNCHANGED <<contexts, phase>>
  BY <1>1 DEF AddSession
<1> QED
  BY <1>2, <1>3, <1>4, <1>5, <1>6, <1>7, <1>8, <1>9, NoneAssumption DEF Installs, evicted

LEMMA SafeInstalls ==
    ASSUME IInv, NEW c \in Reconcilers, NEW k, NEW evicted, Installs(c, k, evicted)
    PROVE  Safe'
<1>1. /\ NewSession \in Sessions
      /\ ~session[NewSession].open
      /\ \A j \in SessionKey : sessions[j] # NewSession
  BY NewSessionFree DEF Installs
<1>2. CachesOK
  BY TypeParts DEF IInv
<1>3. ASSUME NEW s \in Sessions, session'[s].open
      PROVE  session'[s].context \in Contexts /\ \E j \in SessionKey : sessions'[j] = s
  <2>1. CASE s = NewSession
    BY <2>1 DEF Installs
  <2>2. CASE s # NewSession
    <3>1. /\ session[s].open /\ session'[s].context = session[s].context
          /\ evicted # None => s # sessions[evicted]
      BY <1>3, <2>2 DEF Installs
    <3>2. PICK j \in SessionKey : sessions[j] = s
      BY <3>1 DEF IInv, SessionsOK
    <3>3. j # k
      BY <3>1, <3>2, <1>2, NoneAssumption DEF Installs
    <3>4. sessions'[j] = s
      BY <3>1, <3>2, <3>3, NoneAssumption DEF Installs
    <3> QED
      BY <3>1, <3>4 DEF IInv, SessionsOK
  <2> QED
    BY <2>1, <2>2
<1>4. \A i, j \in SessionKey : sessions'[i] # None /\ sessions'[i] = sessions'[j] => i = j
  BY <1>1 DEF Installs, IInv, SessionsOK
<1>5. SessionsOK'
  BY <1>3, <1>4 DEF SessionsOK
<1>6. ContextIsCached'
  BY DEF Installs, IInv, ContextIsCached
<1>7. ASSUME phase = "running", NEW j \in SessionKey, sessions'[j] # None, session'[sessions'[j]].open
      PROVE  session'[sessions'[j]].context = contexts[j.ctxHash]
  <2>1. CASE j = k
    <3>1. sessions'[j] = NewSession /\ caller[c].key = j /\ session'[NewSession].context = caller[c].context
      BY <2>1 DEF Installs
    <3>2. caller[c].context = contexts[j.ctxHash]
      BY <1>7, <3>1 DEF Installs, IInv, ContextIsCached
    <3> QED
      BY <3>1, <3>2
  <2>2. CASE j # k
    <3>1. sessions'[j] = sessions[j] /\ sessions[j] # None
      BY <1>7, <2>2 DEF Installs
    <3>2. sessions[j] \in Sessions /\ sessions[j] # NewSession
      BY <1>1, <1>2, <3>1 DEF CachesOK
    <3>3. session[sessions[j]].open /\ session'[sessions[j]].context = session[sessions[j]].context
      BY <1>7, <3>1, <3>2 DEF Installs
    <3> QED
      BY <1>7, <3>1, <3>3 DEF IInv, SessionOfContext
  <2> QED
    BY <2>1, <2>2
<1>8. SessionOfContext'
  BY <1>7 DEF SessionOfContext, Installs
<1> QED
  BY <1>5, <1>6, <1>8 DEF Safe

LEMMA SafeClear ==
    ASSUME IInv, Clear
    PROVE  Safe'
<1>1. CachesOK
  BY TypeParts DEF IInv
<1>2. phase' \in {"clearing", "cleared"}
  BY DEF Clear, ClearSessions, ClearContexts
<1>3. CASE ClearSessions
  <2>1. \A s \in Sessions : session'[s].open => session[s].open /\ s \notin {sessions[k] : k \in SessionKey}
    BY <1>1, <1>3, CloseSessionsType DEF ClearSessions
  <2>2. \A s \in Sessions : ~session'[s].open
    BY <2>1 DEF IInv, SessionsOK
  <2>3. \A k \in SessionKey : sessions'[k] = None
    BY <1>3 DEF ClearSessions
  <2> QED
    BY <1>2, <2>2, <2>3 DEF Safe, SessionsOK, ContextIsCached, SessionOfContext
<1>4. CASE ClearContexts
  <2> DEFINE S == {s \in Sessions : \E h \in Configs : s \in SessionsOf(contexts[h])}
  <2>1. session' = CloseSessions(S) /\ sessions' = sessions
    BY <1>4 DEF ClearContexts
  <2> HIDE DEF S
  <2>2. \A s \in Sessions :
          /\ session'[s].context = session[s].context
          /\ session'[s].open => session[s].open
    BY <1>1, <2>1, CloseSessionsType
  <2>3. SessionsOK'
    BY <2>1, <2>2 DEF IInv, SessionsOK
  <2> QED
    BY <1>2, <2>3 DEF Safe, ContextIsCached, SessionOfContext
<1> QED
  BY <1>3, <1>4 DEF Clear

LEMMA InitIInv == Init => IInv
BY TypeInit, OrderInit, SafeInit DEF IInv, Safe

LEMMA NextIInv == IInv /\ [Next]_vars => IInv'
<1> SUFFICES ASSUME IInv, [Next]_vars PROVE IInv'
  OBVIOUS
<1>1. TypeInv' /\ OrderOK'
  BY TypeNext DEF IInv
<1>2. ASSUME NEW c \in Reconcilers, Call(c) PROVE Safe'
  BY <1>2, SafeCall
<1>3. ASSUME NEW c \in Reconcilers, Proceed(c) PROVE Safe'
  <2>1. CASE GetSessionFails(c)
    BY <2>1, SafeEnds DEF GetSessionFails, cacheVars
  <2>2. CASE getOrCreateContext(c)
    BY <2>2, SafeReuseContext, SafeCreateContext DEF getOrCreateContext
  <2>3. CASE registerVerifications(c)
    BY <2>3, SafeRegister
  <2>4. CASE getOrCreateSession(c)
    BY <2>4, SafeReuseSession, ReplaceInstalls, CreateInstalls, SafeInstalls DEF getOrCreateSession
  <2>5. CASE InvalidateSession(c)
    BY <2>5, SafeInvalidate
  <2>6. CASE Done(c)
    BY <2>6, SafeEnds DEF Done, cacheVars
  <2> QED
    BY <1>3, <2>1, <2>2, <2>3, <2>4, <2>5, <2>6 DEF Proceed
<1>4. ASSUME Clear PROVE Safe'
  BY <1>4, SafeClear
<1>5. ASSUME ReplaceKeys PROVE Safe'
  BY <1>5, SafeReplaceKey DEF ReplaceKeys
<1>6. ASSUME UNCHANGED vars PROVE Safe'
  BY <1>6 DEF vars, cacheVars, IInv, Safe, SessionsOK, ContextIsCached, SessionOfContext
<1>7. Safe'
  BY <1>2, <1>3, <1>4, <1>5, <1>6 DEF Next
<1> QED
  BY <1>1, <1>7 DEF IInv, Safe

LEMMA IInvHolds == Spec => []IInv
BY InitIInv, NextIInv, PTL DEF Spec

(* Every variable has its type in every reachable state; a goroutine is     *)
(* between Lock and Unlock of GetSession exactly if it holds retrievalLock. *)
THEOREM TypeCorrect == Spec => []TypeOK
<1>1. IInv => TypeOK
  BY DEF IInv, TypeInv
<1> QED
  BY <1>1, IInvHolds, PTL

(* GetSession never pairs a context with a session of another context:      *)
(* until the caches are cleared, an open session in the cache belongs to    *)
(* the context that is cached for its configuration.                        *)
THEOREM SessionsBelongToContexts == Spec => []SessionOfContext
<1>1. IInv => SessionOfContext
  BY DEF IInv
<1> QED
  BY <1>1, IInvHolds, PTL

-----------------------------------------------------------------------------
(* The keys that signatures are verified with.                              *)

KeyInv == SecretRead /\ VerificationKeyCurrent

(* Steps that leave the registry alone.                                     *)
LEMMA KeyCallers ==
    ASSUME KeyInv, UNCHANGED <<registry, secret>>, NEW c \in Reconcilers,
           \A d \in Reconcilers : d # c => caller'[d] = caller[d],
           \/ caller'[c].pc \notin {"session", "use"}
           \/ /\ caller[c].pc \in {"session", "use"}
              /\ caller'[c].secret = caller[c].secret /\ caller'[c].keys = caller[c].keys
              /\ caller'[c].context = caller[c].context
    PROVE  KeyInv'
BY DEF KeyInv, SecretRead, VerificationKeyCurrent

LEMMA KeyRegister ==
    ASSUME IInv, KeyInv, \A v, w \in Secrets : v = w, NEW c \in Reconcilers, registerVerifications(c)
    PROVE  KeyInv'
<1> DEFINE key == IF caller[c].secret = None THEN registry[caller[c].context]
                  ELSE secret[caller[c].secret]
<1>1. Registers(c, key) /\ CachesOK
  BY TypeParts DEF registerVerifications, IInv
<1>2. caller[c].context \in Contexts /\ \A d \in Reconcilers : caller[d].secret \in Secrets \cup {None}
  BY <1>1, CallerType DEF Registers, LocalsOK, IInv, TypeInv, TypeOK, CallerState
<1>3. /\ caller'[c].context = caller[c].context
      /\ caller'[c].secret = caller[c].secret
      /\ caller'[c].keys = {secret[v] : v \in {caller[c].secret} \ {None}}
      /\ \A d \in Reconcilers : d # c => caller'[d] = caller[d]
  BY <1>1 DEF Registers, IInv, TypeInv, TypeOK, CallerState
<1>4. \A x \in Contexts : registry'[x] = IF x = caller[c].context THEN key ELSE registry[x]
  BY <1>1 DEF Registers, CachesOK
<1>5. secret' = secret
  BY <1>1 DEF Registers
<1>6. ASSUME NEW d \in Reconcilers, caller'[d].pc \in {"session", "use"}, caller'[d].secret # None
      PROVE  secret[caller'[d].secret] \in caller'[d].keys /\ registry'[caller'[d].context] \in caller'[d].keys
  <2>1. CASE d = c
    BY <1>2, <1>3, <1>4, <1>6, <2>1
  <2>2. CASE d # c
    <3>1. /\ caller'[d] = caller[d]
          /\ secret[caller[d].secret] \in caller[d].keys
          /\ registry[caller[d].context] \in caller[d].keys
      BY <1>3, <1>6, <2>2 DEF KeyInv, SecretRead, VerificationKeyCurrent
    <3>2. caller[d].context \in Contexts
      BY <1>6, <3>1, CallerType DEF LocalsOK, IInv
    <3>3. CASE caller[d].context # caller[c].context \/ caller[c].secret = None
      BY <1>4, <3>1, <3>2, <3>3
    <3>4. CASE caller[d].context = caller[c].context /\ caller[c].secret # None
      <4>1. caller[c].secret = caller[d].secret
        BY <1>2, <1>6, <3>1, <3>4
      <4> QED
        BY <1>2, <1>4, <3>1, <3>4, <4>1
    <3> QED
      BY <3>3, <3>4
  <2> QED
    BY <2>1, <2>2
<1> QED
  BY <1>5, <1>6 DEF KeyInv, SecretRead, VerificationKeyCurrent

LEMMA KeyReplaceKey ==
    ASSUME IInv, KeyInv, NEW v \in Secrets, NEW key \in Keys, ReplaceKey(v, key)
    PROVE  KeyInv'
<1>1. secret \in [Secrets -> Keys] /\ caller \in [Reconcilers -> CallerState]
  BY DEF IInv, TypeInv, TypeOK
<1>2. registry' = registry /\ secret' = [secret EXCEPT ![v] = key]
  BY DEF ReplaceKey, cacheVars
<1>3. ASSUME NEW d \in Reconcilers
      PROVE  /\ caller'[d].pc = caller[d].pc
             /\ caller'[d].context = caller[d].context
             /\ caller'[d].secret = caller[d].secret
             /\ caller'[d].keys = IF caller[d].pc \in {"session", "use"} /\ caller[d].secret = v
                                  THEN caller[d].keys \cup {key} ELSE caller[d].keys
  BY <1>1 DEF ReplaceKey, CallerState
<1>4. ASSUME NEW d \in Reconcilers, caller[d].pc \in {"session", "use"}, caller[d].secret # None
      PROVE  secret'[caller[d].secret] \in caller'[d].keys /\ registry[caller[d].context] \in caller'[d].keys
  <2>1. caller[d].secret \in Secrets
    BY <1>1, <1>4 DEF CallerState
  <2>2. secret[caller[d].secret] \in caller[d].keys /\ registry[caller[d].context] \in caller[d].keys
    BY <1>4 DEF KeyInv, SecretRead, VerificationKeyCurrent
  <2> QED
    BY <1>1, <1>2, <1>3, <1>4, <2>1, <2>2
<1> QED
  BY <1>2, <1>3, <1>4 DEF KeyInv, SecretRead, VerificationKeyCurrent

LEMMA KeyCreateContext ==
    ASSUME IInv, KeyInv, NEW c \in Reconcilers, CreateContext(c)
    PROVE  KeyInv'
<1>1. PICK e, S : AddContext(c, e, S)
  BY DEF CreateContext
<1>2. \A d \in Reconcilers : caller[d].context # NewContext
  BY <1>1, NewContextFree DEF AddContext
<1>3. /\ caller'[c].pc = "register"
      /\ \A d \in Reconcilers : d # c => caller'[d] = caller[d]
  BY <1>1 DEF AddContext, Goto, IInv, TypeInv, TypeOK, CallerState
<1>4. secret' = secret /\ registry' = [registry EXCEPT ![NewContext] = None]
  BY <1>1 DEF AddContext
<1>5. ASSUME NEW d \in Reconcilers, caller'[d].pc \in {"session", "use"}, caller'[d].secret # None
      PROVE  /\ secret[caller'[d].secret] \in caller'[d].keys
             /\ registry'[caller'[d].context] \in caller'[d].keys
  <2>1. caller'[d] = caller[d]
    BY <1>3, <1>5
  <2>2. caller[d].context \in Contexts
    BY <1>5, <2>1, CallerType DEF LocalsOK, IInv
  <2>3. registry'[caller[d].context] = registry[caller[d].context]
    BY <1>2, <1>4, <2>2 DEF IInv, TypeInv, TypeOK
  <2> QED
    BY <1>5, <2>1, <2>3 DEF KeyInv, SecretRead, VerificationKeyCurrent
<1> QED
  BY <1>4, <1>5 DEF KeyInv, SecretRead, VerificationKeyCurrent

LEMMA KeyNext ==
    ASSUME \A v, w \in Secrets : v = w, IInv, KeyInv, [Next]_vars
    PROVE  KeyInv'
<1>0. caller \in [Reconcilers -> CallerState]
  BY DEF IInv, TypeInv, TypeOK
<1>1. ASSUME NEW c \in Reconcilers, Call(c) PROVE KeyInv'
  <2>1. PICK k \in SessionKey, v \in Secrets \cup {None} : Calls(c, k, v)
    BY <1>1 DEF Call, GetSession
  <2>2. /\ caller'[c].pc = "context"
        /\ \A d \in Reconcilers : d # c => caller'[d] = caller[d]
    BY <1>0, <2>1 DEF Calls, Idle
  <2> QED
    BY <2>1, <2>2, KeyCallers DEF Calls, cacheVars
<1>2. ASSUME NEW c \in Reconcilers, caller' = [caller EXCEPT ![c] = Idle], UNCHANGED <<registry, secret>>
      PROVE  KeyInv'
  <2>1. /\ caller'[c].pc = "idle"
        /\ \A d \in Reconcilers : d # c => caller'[d] = caller[d]
    BY <1>0, <1>2 DEF Idle
  <2> QED
    BY <1>2, <2>1, KeyCallers
<1>3. ASSUME NEW c \in Reconcilers, NEW s, caller[c].pc = "session", Return(c, s),
             UNCHANGED <<registry, secret>>
      PROVE  KeyInv'
  <2>1. /\ caller'[c].secret = caller[c].secret /\ caller'[c].keys = caller[c].keys
        /\ caller'[c].context = caller[c].context
        /\ \A d \in Reconcilers : d # c => caller'[d] = caller[d]
    BY <1>0, <1>3 DEF Return, CallerState
  <2> QED
    BY <1>3, <2>1, KeyCallers
<1>4. ASSUME NEW c \in Reconcilers, ReuseContext(c) PROVE KeyInv'
  <2>1. /\ caller'[c].pc = "register"
        /\ \A d \in Reconcilers : d # c => caller'[d] = caller[d]
    BY <1>0, <1>4 DEF ReuseContext, Goto, CallerState
  <2> QED
    BY <1>4, <2>1, KeyCallers DEF ReuseContext
<1>5. ASSUME NEW c \in Reconcilers, Proceed(c) PROVE KeyInv'
  <2>1. CASE GetSessionFails(c)
    BY <1>2, <2>1 DEF GetSessionFails, cacheVars
  <2>2. CASE getOrCreateContext(c)
    BY <1>4, <2>2, KeyCreateContext DEF getOrCreateContext
  <2>3. CASE registerVerifications(c)
    BY <2>3, KeyRegister
  <2>4. CASE ReuseSession(c)
    BY <1>3, <2>4 DEF ReuseSession
  <2>5. CASE ReplaceSession(c)
    BY <1>3, <2>5 DEF ReplaceSession
  <2>6. CASE CreateSession(c)
    BY <1>3, <2>6 DEF CreateSession, AddSession
  <2>7. CASE InvalidateSession(c)
    BY <1>2, <2>7 DEF InvalidateSession
  <2>8. CASE Done(c)
    BY <1>2, <2>8 DEF Done, cacheVars
  <2> QED
    BY <1>5, <2>1, <2>2, <2>3, <2>4, <2>5, <2>6, <2>7, <2>8 DEF Proceed, getOrCreateSession
<1>6. ASSUME UNCHANGED <<registry, secret, caller>> PROVE KeyInv'
  BY <1>6 DEF KeyInv, SecretRead, VerificationKeyCurrent
<1>7. CASE Clear
  BY <1>6, <1>7 DEF Clear, ClearSessions, ClearContexts
<1>8. CASE ReplaceKeys
  BY <1>8, KeyReplaceKey DEF ReplaceKeys
<1>9. CASE UNCHANGED vars
  BY <1>6, <1>9 DEF vars, cacheVars
<1> QED
  BY <1>1, <1>5, <1>7, <1>8, <1>9 DEF Next

(* If all objects that ask for the verification of a signature refer to one *)
(* secret, always registering the verifications keeps the registry of the   *)
(* shared context up to date: a reconciler verifies with a key that the     *)
(* secret has held since its own GetSession read it.                        *)
THEOREM VerificationKeys ==
    ASSUME \A v, w \in Secrets : v = w
    PROVE  Spec => []VerificationKeyCurrent
<1>1. Init => KeyInv
  BY DEF Init, Idle, KeyInv, SecretRead, VerificationKeyCurrent
<1>2. IInv /\ KeyInv /\ [Next]_vars => KeyInv'
  BY KeyNext
<1>3. KeyInv => VerificationKeyCurrent
  BY DEF KeyInv
<1> QED
  BY <1>1, <1>2, <1>3, IInvHolds, PTL DEF Spec

-----------------------------------------------------------------------------
(* The cache implements the pool of sessions.                               *)

(* A set whose elements are numbered from 1 to n has at most n of them.     *)
LEMMA NumberedSet ==
    ASSUME NEW S, NEW n \in Nat, NEW f, \A s \in S : \E i \in 1 .. n : f[i] = s
    PROVE  IsFiniteSet(S) /\ Cardinality(S) <= n /\ Cardinality(S) \in Nat
<1> DEFINE g == [i \in 1 .. n |-> f[i]]
           T == {f[i] : i \in 1 .. n}
<1>1. g \in Surjection(1 .. n, T)
  BY DEF Surjection
<1>2. IsFiniteSet(1 .. n) /\ Cardinality(1 .. n) = n
  <2>1. IsFiniteSet(1 .. n) /\ Cardinality(1 .. n) = IF 1 > n THEN 0 ELSE n - 1 + 1
    BY FS_Interval
  <2> QED
    BY <2>1
<1> HIDE DEF g
<1>3. IsFiniteSet(T) /\ Cardinality(T) <= n
  BY <1>1, <1>2, FS_Surjection
<1>4. S \in SUBSET T
  OBVIOUS
<1> HIDE DEF T
<1>5. IsFiniteSet(S) /\ Cardinality(S) <= Cardinality(T)
  BY <1>3, <1>4, FS_Subset
<1>6. Cardinality(S) \in Nat /\ Cardinality(T) \in Nat
  BY <1>3, <1>5, FS_CardinalityType
<1> QED
  BY <1>3, <1>5, <1>6

(* There is room for another open session if the cache is not full, or if   *)
(* the session that is cached under one of its keys is not counted.         *)
LEMMA RoomForSession ==
    ASSUME IInv, NEW S \in SUBSET Opens,
           \/ Len(sessionOrder) < SessionCacheSize
           \/ \E q \in SessionKey : sessions[q] # None /\ sessions[q] \notin S
    PROVE  Cardinality(S) < SessionCacheSize
<1> DEFINE len == Len(sessionOrder)
<1>1. len \in Nat /\ len <= SessionCacheSize /\ SessionCacheSize \in Nat
  BY SizeAssumption DEF IInv, TypeInv, TypeOK, OrderOK, IsOrder
<1>2. ASSUME NEW s \in S
      PROVE  \E i \in 1 .. len : sessions[sessionOrder[i]] = s
  <2>1. PICK k \in SessionKey : sessions[k] = s
    BY <1>2 DEF Opens, IInv, SessionsOK
  <2>2. sessions[k] # None /\ k \in DOMAIN sessions
    BY <1>2, <2>1, NoneAssumption DEF Opens, IInv, TypeInv, TypeOK
  <2> QED
    BY <2>1, <2>2 DEF IInv, OrderOK, IsOrder, InOrder
<1>3. CASE len < SessionCacheSize
  <2> DEFINE f == [i \in 1 .. len |-> sessions[sessionOrder[i]]]
  <2>1. \A s \in S : \E i \in 1 .. len : f[i] = s
    BY <1>2
  <2> HIDE DEF f
  <2>2. Cardinality(S) <= len /\ Cardinality(S) \in Nat
    BY <1>1, <2>1, NumberedSet
  <2> QED
    BY <1>1, <1>3, <2>2
<1>4. ASSUME NEW q \in SessionKey, sessions[q] # None, sessions[q] \notin S
      PROVE  Cardinality(S) < SessionCacheSize
  <2>1. PICK p \in 1 .. len : sessionOrder[p] = q
    BY <1>4 DEF IInv, TypeInv, TypeOK, OrderOK, IsOrder, InOrder
  <2> DEFINE f == [i \in 1 .. len - 1 |-> sessions[sessionOrder[IF i < p THEN i ELSE i + 1]]]
  <2>2. ASSUME NEW s \in S
        PROVE  \E i \in 1 .. len - 1 : f[i] = s
    <3>1. PICK i \in 1 .. len : sessions[sessionOrder[i]] = s
      BY <1>2
    <3>2. i # p
      BY <1>4, <2>1, <3>1
    <3>3. CASE i < p
      <4>1. i \in 1 .. len - 1
        BY <1>1, <3>3
      <4> QED
        BY <3>1, <3>3, <4>1
    <3>4. CASE ~(i < p)
      <4>1. i - 1 \in 1 .. len - 1 /\ ~(i - 1 < p) /\ (i - 1) + 1 = i
        BY <1>1, <3>2, <3>4
      <4>2. f[i - 1] = s
        BY <3>1, <4>1
      <4> QED
        BY <4>1, <4>2
    <3> QED
      BY <3>3, <3>4
  <2> HIDE DEF f
  <2>3. len - 1 \in Nat
    BY <1>1, <2>1
  <2>4. Cardinality(S) <= len - 1 /\ Cardinality(S) \in Nat
    BY <2>2, <2>3, NumberedSet
  <2> QED
    BY <1>1, <2>3, <2>4
<1> QED
  BY <1>3, <1>4

(* All open sessions are in the pool.                                       *)
LEMMA PooledAreOpen ==
    ASSUME IInv
    PROVE  /\ Pool!Pooled = Opens
           /\ \A k \in SessionKey :
                OpenSessions[k] = IF sessions[k] \in Opens THEN sessions[k] ELSE None
           /\ OpenSessions = [k \in SessionKey |-> OpenSessions[k]]
           /\ None \notin Opens
<1>1. sessions \in [SessionKey -> Sessions \cup {None}]
  BY DEF IInv, TypeInv, TypeOK
<1>2. \A k \in SessionKey :
        OpenSessions[k] = IF sessions[k] \in Opens THEN sessions[k] ELSE None
  BY <1>1, NoneAssumption DEF OpenSessions, Opens
<1>3. OpenSessions = [k \in SessionKey |-> OpenSessions[k]]
  BY DEF OpenSessions
<1>4. None \notin Opens
  BY NoneAssumption DEF Opens
<1>5. \A s \in Opens : \E k \in SessionKey : sessions[k] = s
  BY DEF Opens, IInv, SessionsOK
<1>6. Pool!Pooled = {OpenSessions[k] : k \in SessionKey} \ {None}
  BY DEF Pool!Pooled
<1>7. Pool!Pooled = Opens
  <2>1. \A s : s \in Pool!Pooled => s \in Opens
    BY <1>2, <1>6
  <2>2. \A s : s \in Opens => s \in Pool!Pooled
    BY <1>2, <1>4, <1>5, <1>6
  <2> QED
    BY <2>1, <2>2
<1> QED
  BY <1>2, <1>3, <1>4, <1>7

LEMMA OpenAfterwards ==
    ASSUME IInv'
    PROVE  /\ \A k \in SessionKey :
                OpenSessions'[k] = IF sessions'[k] \in Opens' THEN sessions'[k] ELSE None
           /\ OpenSessions' = [k \in SessionKey |-> OpenSessions'[k]]
<1>1. sessions' \in [SessionKey -> Sessions \cup {None}]
  BY DEF IInv, TypeInv, TypeOK
<1> QED
  BY <1>1, NoneAssumption DEF OpenSessions, Opens

LEMMA HeldValue ==
    ASSUME IInv, NEW c \in Reconcilers
    PROVE  /\ Held[c] = IF caller[c].pc = "use" THEN caller[c].session ELSE None
           /\ Held[c] # None <=> caller[c].pc = "use"
           /\ Held \in [Reconcilers -> Sessions \cup {None}]
BY NoneAssumption DEF Held, IInv, TypeInv, CallerOK

(* A step that closes sessions: what is left is in the pool.                *)
LEMMA KeepsOpen ==
    ASSUME IInv, IInv', Opens' \subseteq Opens,
           \A k \in SessionKey : sessions[k] \in Opens' => sessions'[k] = sessions[k],
           \A k \in SessionKey : sessions'[k] \in Opens' => sessions'[k] = sessions[k]
    PROVE  Pool!Keep(Opens') /\ Opens' \in SUBSET Pool!Pooled
<1>1. Opens' \in SUBSET Pool!Pooled
  BY PooledAreOpen
<1>2. ASSUME NEW k \in SessionKey
      PROVE  OpenSessions'[k] = IF OpenSessions[k] \in Opens' THEN OpenSessions[k] ELSE None
  <2>1. OpenSessions'[k] = IF sessions'[k] \in Opens' THEN sessions'[k] ELSE None
    BY OpenAfterwards
  <2>2. OpenSessions[k] = IF sessions[k] \in Opens THEN sessions[k] ELSE None
    BY PooledAreOpen
  <2>3. None \notin Opens
    BY PooledAreOpen
  <2> QED
    BY <2>1, <2>2, <2>3
<1>3. OpenSessions' = [k \in SessionKey |-> OpenSessions'[k]]
  BY OpenAfterwards
<1>4. OpenSessions' = [k \in SessionKey |-> IF OpenSessions[k] \in Opens' THEN OpenSessions[k] ELSE None]
  BY <1>2, <1>3
<1> QED
  BY <1>1, <1>4 DEF Pool!Keep

LEMMA ImplementsClose ==
    ASSUME IInv, IInv', Opens' \subseteq Opens, Held' = Held,
           \A k \in SessionKey : sessions[k] \in Opens' => sessions'[k] = sessions[k],
           \A k \in SessionKey : sessions'[k] \in Opens' => sessions'[k] = sessions[k]
    PROVE  Pool!Next
<1>1. Opens' \in SUBSET Pool!Pooled /\ Pool!Keep(Opens')
  BY KeepsOpen
<1>2. \E S \in SUBSET Pool!Pooled : Pool!Keep(S)
  BY <1>1 DEF Pool!Keep
<1>3. Pool!Close
  BY <1>2 DEF Pool!Close
<1> QED
  BY <1>3 DEF Pool!Next

LEMMA ImplementsRelease ==
    ASSUME IInv, NEW c \in Reconcilers, Done(c)
    PROVE  Pool!Next
<1>1. Held[c] # None /\ Held' = [Held EXCEPT ![c] = None]
  <2>1. caller' = [caller EXCEPT ![c] = Idle] /\ caller[c].pc = "use"
    BY DEF Done
  <2>2. Held' = [d \in Reconcilers |-> IF caller'[d].pc = "use" THEN caller'[d].session ELSE None]
    BY DEF Held
  <2>3. caller'[c].pc = "idle" /\ \A d \in Reconcilers : d # c => caller'[d] = caller[d]
    BY <2>1 DEF Idle, IInv, TypeInv, TypeOK
  <2> QED
    BY <2>1, <2>2, <2>3, HeldValue DEF Held
<1>2. UNCHANGED <<OpenSessions, Opens>>
  BY DEF Done, cacheVars, OpenSessions, Opens
<1>3. Pool!Release(c)
  BY <1>1, <1>2 DEF Pool!Release
<1> QED
  BY <1>3 DEF Pool!Next

LEMMA ImplementsInvalidate ==
    ASSUME IInv, IInv', NEW c \in Reconcilers, InvalidateSession(c)
    PROVE  Pool!Next
<1>1. Held[c] # None /\ Held' = [Held EXCEPT ![c] = None] /\ Held[c] = caller[c].session
  <2>1. caller' = [caller EXCEPT ![c] = Idle] /\ caller[c].pc = "use"
    BY DEF InvalidateSession
  <2>2. Held' = [d \in Reconcilers |-> IF caller'[d].pc = "use" THEN caller'[d].session ELSE None]
    BY DEF Held
  <2>3. caller'[c].pc = "idle" /\ \A d \in Reconcilers : d # c => caller'[d] = caller[d]
    BY <2>1 DEF Idle, IInv, TypeInv, TypeOK
  <2> QED
    BY <2>1, <2>2, <2>3, HeldValue DEF Held
<1>2. Opens' = Opens \ {Held[c]} /\ UNCHANGED sessions
  <2>1. session' = CloseSessions({caller[c].session}) /\ CachesOK
    BY TypeParts DEF InvalidateSession, IInv
  <2>2. \A s \in Sessions : session'[s].open <=> session[s].open /\ s \notin {caller[c].session}
    BY <2>1, CloseSessionsType
  <2> QED
    BY <1>1, <2>2 DEF Opens, InvalidateSession
<1>3. Pool!Keep(Opens')
  BY <1>2, KeepsOpen
<1>4. Pool!Keep(Pool!Pooled \ {Held[c]})
  BY <1>2, <1>3, PooledAreOpen DEF Pool!Keep
<1>5. Pool!Invalidate(c)
  BY <1>1, <1>4 DEF Pool!Invalidate
<1> QED
  BY <1>5 DEF Pool!Next

(* The step that returns a session gives it to its caller.                  *)
LEMMA HeldReturn ==
    ASSUME IInv, NEW c \in Reconcilers, NEW s, caller[c].pc = "session", caller'[c].pc = "use",
           caller'[c].session = s, \A d \in Reconcilers : d # c => caller'[d] = caller[d]
    PROVE  Held[c] = None /\ Held' = [Held EXCEPT ![c] = s]
<1>1. Held' = [d \in Reconcilers |-> IF caller'[d].pc = "use" THEN caller'[d].session ELSE None]
  BY DEF Held
<1> QED
  BY <1>1, HeldValue DEF Held

LEMMA ImplementsGetPooled ==
    ASSUME IInv, NEW c \in Reconcilers, ReuseSession(c)
    PROVE  Pool!Next
<1>0. PICK k \in SessionKey : k = caller[c].key
  BY CallerType DEF ReuseSession, LocalsOK, IInv
<1>1. caller[c].pc = "session"
  BY DEF ReuseSession
<1>2. OpenSessions[k] = sessions[k] /\ sessions[k] # None
  BY <1>0, <1>1 DEF ReuseSession, OpenSessions
<1>3. Held[c] = None /\ Held' = [Held EXCEPT ![c] = OpenSessions[k]]
  <2>1. /\ caller'[c].pc = "use" /\ caller'[c].session = sessions[k]
        /\ \A d \in Reconcilers : d # c => caller'[d] = caller[d]
    BY <1>0 DEF ReuseSession, Return, IInv, TypeInv, TypeOK, CallerState
  <2> QED
    BY <1>1, <1>2, <2>1, HeldReturn
<1>4. UNCHANGED <<OpenSessions, Opens>>
  BY DEF ReuseSession, OpenSessions, Opens
<1>5. Pool!GetPooled(c, k)
  BY <1>2, <1>3, <1>4 DEF Pool!GetPooled
<1> QED
  BY <1>5 DEF Pool!Next

LEMMA ImplementsGetNew ==
    ASSUME IInv, IInv', NEW c \in Reconcilers, NEW k, NEW evicted, Installs(c, k, evicted),
           evicted = None /\ sessions[k] = None => Len(sessionOrder) < SessionCacheSize
    PROVE  Pool!Next
<1> DEFINE S == {s \in Opens : evicted # None => s # sessions[evicted]}
           s0 == NewSession
<1>1. /\ s0 \in Sessions /\ ~session[s0].open
      /\ \A j \in SessionKey : sessions[j] # s0
      /\ \A d \in Reconcilers : caller[d].session # s0
  BY NewSessionFree DEF Installs
<1>2. k \in SessionKey /\ evicted \in SessionKey \cup {None}
  BY DEF Installs
<1>3. S \in SUBSET Pool!Pooled /\ S \in SUBSET Opens /\ None \notin S
  BY PooledAreOpen
<1>4. Cardinality(S) < SessionCacheSize
  <2>1. CASE evicted # None
    <3>1. evicted \in SessionKey /\ sessions[evicted] # None /\ sessions[evicted] \notin S
      BY <2>1 DEF Installs
    <3> QED
      BY <1>3, <3>1, RoomForSession
  <2>2. CASE evicted = None /\ sessions[k] # None
    <3>1. sessions[k] \notin S
      BY <2>2 DEF Installs, Opens
    <3> QED
      BY <1>2, <1>3, <2>2, <3>1, RoomForSession
  <2>3. CASE evicted = None /\ sessions[k] = None
    BY <1>3, <2>3, RoomForSession
  <2> QED
    BY <2>1, <2>2, <2>3
<1>5. Opens' = S \cup {s0}
  <2>1. ASSUME NEW s \in Sessions PROVE s \in Opens' <=> s \in S \cup {s0}
    BY <1>1 DEF Installs, Opens
  <2> QED
    BY <1>1, <2>1 DEF Opens
<1>6. OpenSessions[k] = None
  BY <1>2, PooledAreOpen DEF Installs, Opens
<1>7. ASSUME NEW j \in SessionKey
      PROVE  OpenSessions'[j] =
               IF j = k THEN s0 ELSE IF OpenSessions[j] \in S THEN OpenSessions[j] ELSE None
  <2>1. OpenSessions'[j] = IF sessions'[j] \in Opens' THEN sessions'[j] ELSE None
    BY OpenAfterwards
  <2>2. OpenSessions[j] = IF sessions[j] \in Opens THEN sessions[j] ELSE None
    BY PooledAreOpen
  <2>3. sessions'[j] = IF j = k THEN s0 ELSE IF j = evicted THEN None ELSE sessions[j]
    BY DEF Installs
  <2>4. CASE j = k
    BY <1>5, <2>1, <2>3, <2>4
  <2>5. CASE j # k /\ j = evicted
    <3>1. OpenSessions[j] \notin S
      BY <1>3, <2>2, <2>5, <1>2, NoneAssumption
    <3>2. OpenSessions'[j] = None
      BY <2>1, <2>3, <2>5
    <3> QED
      BY <2>5, <3>1, <3>2
  <2>6. CASE j # k /\ j # evicted
    <3>1. sessions[j] # s0 /\ sessions'[j] = sessions[j]
      BY <1>1, <2>3, <2>6
    <3>2. sessions[j] \in Opens' <=> sessions[j] \in S
      BY <1>5, <3>1
    <3>3. evicted # None /\ sessions[j] \in Opens => sessions[j] # sessions[evicted]
      <4> SUFFICES ASSUME evicted # None, sessions[j] \in Opens, sessions[j] = sessions[evicted]
                   PROVE  FALSE
        OBVIOUS
      <4>1. sessions[j] # None /\ evicted \in SessionKey
        BY <1>2, PooledAreOpen
      <4> QED
        BY <2>6, <4>1 DEF IInv, SessionsOK
    <3> QED
      BY <1>3, <2>1, <2>2, <2>6, <3>1, <3>2, <3>3
  <2> QED
    BY <2>4, <2>5, <2>6
<1>8. OpenSessions' = [j \in SessionKey |->
        IF j = k THEN s0 ELSE IF OpenSessions[j] \in S THEN OpenSessions[j] ELSE None]
  BY <1>7, OpenAfterwards
<1>9. Held[c] = None /\ Held' = [Held EXCEPT ![c] = s0]
  BY HeldReturn DEF Installs
<1>10. s0 \in Sessions \ (Opens \cup {Held[d] : d \in Reconcilers})
  BY <1>1, NoneAssumption, HeldValue DEF Opens
<1> HIDE DEF S, s0
<1>11. Pool!GetNew(c, k)
  <2>1. \E s \in Sessions \ (Opens \cup {Held[d] : d \in Reconcilers}), T \in SUBSET Pool!Pooled :
             /\ Cardinality(T) < SessionCacheSize
             /\ OpenSessions' = [j \in SessionKey |->
                  IF j = k THEN s ELSE IF OpenSessions[j] \in T THEN OpenSessions[j] ELSE None]
             /\ Opens' = T \cup {s}
             /\ Held' = [Held EXCEPT ![c] = s]
    BY <1>3, <1>4, <1>5, <1>8, <1>9, <1>10
  <2> QED
    BY <1>6, <1>9, <2>1 DEF Pool!GetNew, Pool!Cardinality, Cardinality
<1> QED
  BY <1>2, <1>11 DEF Pool!Next

(* Steps of GetSession before it returns, and what users do to secrets,     *)
(* are invisible.                                                           *)
LEMMA ImplementsStutter ==
    ASSUME UNCHANGED <<sessions, session>>, Held' = Held
    PROVE  UNCHANGED Pool!vars
BY DEF Pool!vars, OpenSessions, Opens

LEMMA HeldUnchanged ==
    ASSUME \A c \in Reconcilers : /\ caller'[c].pc = "use" <=> caller[c].pc = "use"
                                  /\ caller[c].pc = "use" => caller'[c].session = caller[c].session
    PROVE  Held' = Held
BY DEF Held

LEMMA HeldUnused ==
    ASSUME IInv, NEW c \in Reconcilers, caller[c].pc # "use", NEW r, r.pc # "use",
           caller' = [caller EXCEPT ![c] = r]
    PROVE  Held' = Held
<1>1. caller'[c] = r /\ \A d \in Reconcilers : d # c => caller'[d] = caller[d]
  BY DEF IInv, TypeInv, TypeOK
<1> QED
  BY <1>1, HeldUnchanged

LEMMA ImplementsCreateContext ==
    ASSUME IInv, IInv', NEW c \in Reconcilers, CreateContext(c)
    PROVE  Pool!Next
<1>1. PICK e, S : AddContext(c, e, S)
  BY DEF CreateContext
<1>2. session' = CloseSessions(S) /\ UNCHANGED sessions /\ caller[c].pc = "context"
  BY <1>1 DEF AddContext
<1>3. Opens' \subseteq Opens
  BY <1>2, TypeParts, CloseSessionsType DEF Opens, IInv
<1>4. Held' = Held
  <2> DEFINE r == [caller[c] EXCEPT !.pc = "register", !.context = NewContext]
  <2>1. caller' = [caller EXCEPT ![c] = r]
    BY <1>1 DEF AddContext, Goto
  <2>2. r.pc = "register"
    BY CallerType DEF IInv, LocalsOK, CallerState
  <2> HIDE DEF r
  <2> QED
    BY <1>2, <2>1, <2>2, HeldUnused
<1> QED
  BY <1>2, <1>3, <1>4, ImplementsClose

LEMMA ImplementsClear ==
    ASSUME IInv, IInv', Clear
    PROVE  Pool!Next
<1>1. Held' = Held
  BY HeldUnchanged DEF Clear, ClearSessions, ClearContexts
<1>2. PICK S : session' = CloseSessions(S)
  BY DEF Clear, ClearSessions, ClearContexts
<1>3. Opens' \subseteq Opens
  BY <1>2, TypeParts, CloseSessionsType DEF Opens, IInv
<1>4. CASE ClearSessions
  <2>1. session' = CloseSessions({sessions[k] : k \in SessionKey})
    BY <1>4 DEF ClearSessions
  <2>2. \A s \in Sessions : session'[s].open => session[s].open /\ s \notin {sessions[k] : k \in SessionKey}
    BY <2>1, TypeParts, CloseSessionsType DEF IInv
  <2>3. Opens' = {}
    BY <2>2 DEF Opens, IInv, SessionsOK
  <2> QED
    BY <1>1, <1>3, <2>3, ImplementsClose
<1>5. CASE ClearContexts
  <2>1. UNCHANGED sessions
    BY <1>5 DEF ClearContexts
  <2> QED
    BY <1>1, <1>3, <2>1, ImplementsClose
<1> QED
  BY <1>4, <1>5 DEF Clear

LEMMA ImplementsStep ==
    ASSUME IInv, IInv', [Next]_vars
    PROVE  [Pool!Next]_(Pool!vars)
<1>1. ASSUME NEW c \in Reconcilers, Call(c) PROVE UNCHANGED Pool!vars
  <2>1. PICK k \in SessionKey, v \in Secrets \cup {None} : Calls(c, k, v)
    BY <1>1 DEF Call, GetSession
  <2> DEFINE r == [Idle EXCEPT !.pc = "context", !.key = k, !.secret = v]
  <2>2. r.pc = "context" /\ caller' = [caller EXCEPT ![c] = r] /\ caller[c].pc = "idle"
    BY <2>1 DEF Calls, Idle
  <2>3. UNCHANGED <<sessions, session>>
    BY <2>1 DEF Calls, cacheVars
  <2> HIDE DEF r
  <2> QED
    BY <2>2, <2>3, HeldUnused, ImplementsStutter
<1>2. ASSUME NEW c \in Reconcilers, GetSessionFails(c) PROVE UNCHANGED Pool!vars
  BY <1>2, IdleOK, HeldUnused, ImplementsStutter DEF GetSessionFails, cacheVars
<1>3. ASSUME NEW c \in Reconcilers, ReuseContext(c) PROVE UNCHANGED Pool!vars
  <2> DEFINE r == [caller[c] EXCEPT !.pc = "register", !.context = contexts[caller[c].key.ctxHash]]
  <2>1. caller' = [caller EXCEPT ![c] = r] /\ caller[c].pc = "context"
    BY <1>3 DEF ReuseContext, Goto
  <2>2. r.pc = "register"
    BY CallerType DEF IInv, LocalsOK, CallerState
  <2>3. UNCHANGED <<sessions, session>>
    BY <1>3 DEF ReuseContext
  <2> HIDE DEF r
  <2> QED
    BY <2>1, <2>2, <2>3, HeldUnused, ImplementsStutter
<1>4. ASSUME NEW c \in Reconcilers, registerVerifications(c) PROVE UNCHANGED Pool!vars
  <2>1. PICK key : Registers(c, key)
    BY <1>4 DEF registerVerifications
  <2> DEFINE r == [caller[c] EXCEPT !.pc = "session", !.keys = {secret[v] : v \in {caller[c].secret} \ {None}}]
  <2>2. caller' = [caller EXCEPT ![c] = r] /\ caller[c].pc = "register"
    BY <2>1 DEF Registers
  <2>3. r.pc = "session"
    BY CallerType DEF IInv, LocalsOK, CallerState
  <2>4. UNCHANGED <<sessions, session>>
    BY <2>1 DEF Registers
  <2> HIDE DEF r
  <2> QED
    BY <2>2, <2>3, <2>4, HeldUnused, ImplementsStutter
<1>5. ASSUME ReplaceKeys PROVE UNCHANGED Pool!vars
  <2>1. PICK v \in Secrets, key \in Keys : ReplaceKey(v, key)
    BY <1>5 DEF ReplaceKeys
  <2>2. \A c \in Reconcilers : caller'[c].pc = caller[c].pc /\ caller'[c].session = caller[c].session
    BY <2>1 DEF ReplaceKey, IInv, TypeInv, TypeOK, CallerState
  <2>3. UNCHANGED <<sessions, session>>
    BY <2>1 DEF ReplaceKey, cacheVars
  <2> QED
    BY <2>2, <2>3, HeldUnchanged, ImplementsStutter
<1>6. ASSUME NEW c \in Reconcilers, Proceed(c) PROVE Pool!Next \/ UNCHANGED Pool!vars
  <2>1. CASE ReplaceSession(c)
    <3>1. sessions[caller[c].key] # None
      BY <2>1 DEF ReplaceSession
    <3> QED
      BY <2>1, <3>1, ReplaceInstalls, ImplementsGetNew
  <2>2. CASE CreateSession(c)
    BY <2>2, CreateInstalls, ImplementsGetNew
  <2> QED
    BY <1>2, <1>3, <1>4, <1>6, <2>1, <2>2, ImplementsCreateContext, ImplementsGetPooled,
       ImplementsInvalidate, ImplementsRelease
       DEF Proceed, getOrCreateContext, getOrCreateSession
<1>7. ASSUME UNCHANGED vars PROVE UNCHANGED Pool!vars
  BY <1>7, ImplementsStutter DEF vars, cacheVars, Held
<1> QED
  BY <1>1, <1>5, <1>6, <1>7, ImplementsClear DEF Next

(* The cache implements the pool.  Whatever reconcilers, evictions in both  *)
(* caches, the component controller that closes a session outside the lock  *)
(* and Clear do concurrently, GetSession appears as one step that gives a   *)
(* session which is open and belongs to the key; there is at most one open  *)
(* session per key and at most SessionCacheSize in all, and none is open    *)
(* that the cache has lost track of.                                        *)
THEOREM CacheImplementsPool == Spec => ImplementsPool
<1>1. Init => Pool!Init
  <2> SUFFICES ASSUME Init PROVE Pool!Init
    OBVIOUS
  <2>1. OpenSessions = [k \in SessionKey |-> None]
    BY DEF Init, OpenSessions
  <2>2. Opens = {}
    BY DEF Init, Opens
  <2>3. Held = [c \in Reconcilers |-> None]
    BY DEF Init, Idle, Held
  <2> QED
    BY <2>1, <2>2, <2>3 DEF Pool!Init
<1>2. IInv /\ IInv' /\ [Next]_vars => [Pool!Next]_(Pool!vars)
  BY ImplementsStep
<1> QED
  BY <1>1, <1>2, IInvHolds, PTL DEF Spec, ImplementsPool, Pool!Spec
=============================================================================
