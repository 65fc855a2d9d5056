--------------------------- MODULE Delivery_proofs ---------------------------
(***************************************************************************)
(* What Delivery promises, for every repository, every set of resources and *)
(* every use of the session cache: TypeOK, AppliedHasDigest and             *)
(* ReportedWasPublished.                                                    *)
(*                                                                         *)
(* AppliedHasDigest needs that an entry of the download cache has the digest *)
(* it is kept under (DigestInv).  ReportedWasPublished needs that whatever  *)
(* a session has looked up, however outdated, has been in the repository    *)
(* (PublishedInv).                                                          *)
(***************************************************************************)
EXTENDS Delivery, SequenceTheorems, WellFoundedInduction, TLAPS

Runs == [pc: {"idle", "lookup", "descriptors", "access", "report"},
         cv: Versions \cup {None}, open: BOOLEAN,
         before: Statuses \cup {None}, status: Statuses \cup {None}]

Entries == [key: Digests \cup {None}, data: Digests \cup {None}]

(* What a goroutine has read so far.                                        *)
RunOK(r) ==
    /\ run[r].pc # "idle" => run[r].cv \in Versions
    /\ run[r].pc = "report" => run[r].status \in Statuses /\ run[r].status.cv \in CVs

(* A component version that was reported once is never taken back.          *)
StatusOK(r) ==
    /\ status[r].ready => status[r].cv \in CVs
    /\ seen[r].cv # None => status[r].cv # None

(* The status that a run has read.                                          *)
BeforeOK(r) ==
    run[r].pc # "idle" =>
      /\ run[r].before \in Statuses
      /\ run[r].before.cv # None => status[r].cv # None

RecOK ==
    /\ rec.pc # "idle" => rec.deployer \in Resources /\ rec.status \in Statuses /\ rec.status.cv \in CVs
    /\ rec.pc \in {"lookup", "download"} => Downloaded(DownloadKey(rec.status)) = {}

TypeInv ==
    /\ TypeOK
    /\ run \in [Resources -> Runs]
    /\ downloads \in Seq(Entries)
    /\ applied \in [Resources -> {None} \cup [data: Digests \cup {None}, status: Statuses]]
    /\ \A r \in Resources : RunOK(r) /\ StatusOK(r) /\ BeforeOK(r)
    /\ RecOK

(* The cache holds data under their digest, and so does what is applied.    *)
DigestInv ==
    /\ \A i \in DOMAIN downloads : downloads[i].key = downloads[i].data
    /\ rec.pc = "apply" => rec.data = rec.status.digest
    /\ AppliedHasDigest

(* All that can be looked up has been published.                            *)
PublishedInv ==
    /\ \A v \in CVs : repository[v] # None => <<v, repository[v]>> \in published
    /\ \A k \in SessionKeys, v \in CVs : sessions[k][v] # None => <<v, sessions[k][v]>> \in published
    /\ \A r \in Resources : run[r].pc = "report" => WasPublished(run[r].status)

-----------------------------------------------------------------------------
(* Operators                                                                *)

(* Induction over the natural numbers, for a set.                           *)
LEMMA InductiveSet ==
  ASSUME NEW T \in SUBSET Nat, 0 \in T, \A n \in Nat : n \in T => n + 1 \in T
  PROVE  T = Nat
<1> DEFINE U == Nat \ T
<1> SUFFICES ASSUME U # {} PROVE FALSE
  OBVIOUS
<1>1. PICK x \in U : \A y \in U : ~(<<y, x>> \in OpToRel(<, Nat))
  BY WFMin, NatLessThanWellFounded
<1>2. x # 0 /\ x - 1 \in Nat /\ x \in Nat
  OBVIOUS
<1>3. x - 1 \in U
  <2>1. x = (x - 1) + 1
    BY <1>2
  <2> QED BY <1>2, <2>1
<1>4. <<x - 1, x>> \in OpToRel(<, Nat)
  BY <1>2 DEF OpToRel
<1> QED BY <1>1, <1>3, <1>4

(* A reference path leads to a component version, or nowhere.               *)
LEMMA ResolveType ==
  ASSUME NEW cv \in CVs, NEW length \in Nat, NEW descriptors
  PROVE  ResolveReferencePath(cv, length, descriptors) \in CVs \cup {None}
<1> DEFINE next(v) == IF v # None /\ Reference[v] \in descriptors THEN Reference[v] ELSE None
           Is(f, m) == f = [n \in 0 .. m |-> IF n = 0 THEN cv ELSE next(f[n - 1])]
<1>1. \A v \in CVs \cup {None} : next(v) \in CVs \cup {None}
  BY ReferenceAssumption DEF CVs
<1>2. ResolveReferencePath(cv, length, descriptors) = (CHOOSE f : Is(f, length))[length]
  BY Zenon DEF ResolveReferencePath
<1> HIDE DEF next
<1>3. \A m \in Nat : \E f : Is(f, m)
  <2> DEFINE T == {m \in Nat : \E f : Is(f, m)}
  <2>1. 0 \in T
    <3>1. Is([n \in 0 .. 0 |-> cv], 0)
      OBVIOUS
    <3> HIDE DEF Is
    <3> QED BY <3>1
  <2>2. ASSUME NEW m \in Nat, m \in T PROVE m + 1 \in T
    <3>1. PICK f : Is(f, m)
      BY <2>2
    <3> DEFINE g == [n \in 0 .. m + 1 |-> IF n = m + 1 THEN next(f[m]) ELSE f[n]]
    <3>2. g = [n \in 0 .. m + 1 |-> IF n = 0 THEN cv ELSE next(g[n - 1])]
      <4> SUFFICES ASSUME NEW n \in 0 .. m + 1
                   PROVE  g[n] = IF n = 0 THEN cv ELSE next(g[n - 1])
        BY Zenon
      <4>1. CASE n = m + 1
        <5>1. n # 0 /\ n - 1 = m /\ m \in 0 .. m + 1 /\ m # m + 1
          BY <4>1
        <5>2. g[n] = next(f[m]) /\ g[m] = f[m]
          BY <4>1, <5>1
        <5> QED BY <5>1, <5>2, Zenon
      <4>2. CASE n # m + 1 /\ n = 0
        BY <3>1, <4>2
      <4>3. CASE n # m + 1 /\ n # 0
        <5>1. n \in 0 .. m /\ n - 1 \in 0 .. m + 1 /\ n - 1 # m + 1
          BY <4>3
        <5>2. g[n] = f[n] /\ g[n - 1] = f[n - 1]
          BY <4>3, <5>1
        <5>3. f[n] = next(f[n - 1])
          BY <3>1, <4>3, <5>1
        <5> QED BY <4>3, <5>2, <5>3
      <4> QED BY <4>1, <4>2, <4>3
    <3>3. Is(g, m + 1)
      BY <3>2, Zenon
    <3> HIDE DEF Is, g
    <3> QED BY <3>3
  <2> HIDE DEF Is
  <2>3. T = Nat
    BY <2>1, <2>2, InductiveSet
  <2> QED BY <2>3
<1>4. PICK f : Is(f, length) /\ f = CHOOSE g : Is(g, length)
  <2> HIDE DEF Is
  <2> QED BY <1>3
<1>5. f[length] \in CVs \cup {None}
  <2> DEFINE T == {n \in Nat : n <= length => f[n] \in CVs \cup {None}}
  <2>1. 0 \in T
    BY <1>4
  <2>2. ASSUME NEW n \in Nat, n \in T PROVE n + 1 \in T
    <3> SUFFICES ASSUME n + 1 <= length PROVE f[n + 1] \in CVs \cup {None}
      BY <2>2
    <3>1. f[n] \in CVs \cup {None} /\ n + 1 \in 0 .. length /\ n + 1 # 0 /\ (n + 1) - 1 = n
      BY <2>2
    <3>2. f[n + 1] = next(f[n])
      BY <1>4, <3>1
    <3> QED BY <1>1, <3>1, <3>2
  <2>3. T = Nat
    BY <2>1, <2>2, InductiveSet
  <2> QED BY <2>3
<1> QED BY <1>2, <1>4, <1>5

(* There is a latest version as soon as one is published.                   *)
LEMMA LatestType ==
  ASSUME Available # {}
  PROVE  Latest \in Available
<1>1. PICK m \in Versions : \A w \in Versions : w <= m
  BY VersionsAssumption
<1> DEFINE below == {m - v : v \in Available}
<1>2. below \subseteq Nat /\ below # {}
  <2>1. \A v \in Available : v \in Nat /\ m \in Nat /\ v <= m
    BY <1>1, VersionsAssumption DEF Available
  <2>2. \A v \in Available : m - v \in Nat
    BY <2>1
  <2> QED BY <2>2
<1>3. PICK x \in below : \A y \in below : ~(<<y, x>> \in OpToRel(<, Nat))
  BY <1>2, WFMin, NatLessThanWellFounded
<1>4. PICK v \in Available : x = m - v
  BY <1>3
<1>5. ASSUME NEW w \in Available PROVE w <= v
  <2>1. m \in Nat /\ v \in Nat /\ w \in Nat /\ w <= m
    BY <1>1, VersionsAssumption DEF Available
  <2>2. m - w \in below /\ m - w \in Nat /\ x \in Nat
    BY <1>2, <1>3, <1>5, <2>1
  <2>3. ~(m - w < x)
    BY <1>3, <2>2 DEF OpToRel
  <2> QED BY <1>4, <2>1, <2>3
<1> QED BY <1>5 DEF Latest

-----------------------------------------------------------------------------
(* The download cache                                                       *)

(* A list of entries with different keys, of which there are CacheSize at   *)
(* most.                                                                    *)
CacheOK(list) ==
    /\ list \in Seq(Entries)
    /\ Len(list) <= CacheSize
    /\ \A i, j \in DOMAIN list : list[i].key = list[j].key => i = j

(* Every entry of one list is an entry of the other or the new one.         *)
From(new, old, more) ==
    \A j \in DOMAIN new : new[j] \in more \/ \E i \in DOMAIN old : new[j] = old[i]

(* A hit reorders the cache.                                                *)
LEMMA TouchProperties ==
  ASSUME CacheOK(downloads), NEW i \in DOMAIN downloads
  PROVE  CacheOK(Touch(i)) /\ From(Touch(i), downloads, {})
<1> DEFINE len == Len(downloads)
           from(j) == IF j = len THEN i ELSE IF j < i THEN j ELSE j + 1
<1>1. len \in Nat /\ DOMAIN downloads = 1 .. len /\ i \in 1 .. len
  BY LenProperties DEF CacheOK
<1>2. \A j \in 1 .. len : downloads[j] \in Entries
  BY ElementOfSeq DEF CacheOK
<1>3. Touch(i) = [j \in 1 .. len |-> downloads[from(j)]]
  BY <1>1 DEF Touch
<1>len. len <= CacheSize /\ \A m, n \in 1 .. len : downloads[m].key = downloads[n].key => m = n
  BY <1>1 DEF CacheOK
<1> HIDE DEF len
<1>4. \A j \in 1 .. len : from(j) \in 1 .. len
  BY <1>1
<1>5. \A m, n \in 1 .. len : from(m) = from(n) => m = n
  <2> TAKE m, n \in 1 .. len
  <2>1. len \in Int /\ i \in Int /\ m \in Int /\ n \in Int /\ m <= len /\ n <= len
    BY <1>1
  <2> QED BY <2>1
<1> HIDE DEF from
<1>6. Touch(i) \in Seq(Entries) /\ Len(Touch(i)) = len /\ DOMAIN Touch(i) = 1 .. len
  <2>1. Touch(i) \in [1 .. len -> Entries]
    BY <1>2, <1>3, <1>4
  <2> QED BY <1>1, <2>1
<1>7. \A m, n \in 1 .. len : Touch(i)[m].key = Touch(i)[n].key => m = n
  BY <1>3, <1>4, <1>5, <1>len
<1>8. From(Touch(i), downloads, {})
  BY <1>1, <1>3, <1>4, <1>6 DEF From
<1> QED BY <1>6, <1>7, <1>8, <1>len DEF CacheOK

(* A miss adds an entry, to a full cache in the place of the oldest one.    *)
LEMMA AddProperties ==
  ASSUME CacheOK(downloads), NEW e \in Entries, Downloaded(e.key) = {},
         AddDownload(e.key, e.data)
  PROVE  CacheOK(downloads') /\ From(downloads', downloads, {e})
<1> DEFINE kept == IF Len(downloads) >= CacheSize THEN Tail(downloads) ELSE downloads
<1>1. Len(downloads) \in Nat /\ DOMAIN downloads = 1 .. Len(downloads) /\ CacheSize \in Nat \ {0}
  BY LenProperties, SizeAssumption DEF CacheOK
<1>2. /\ kept \in Seq(Entries)
      /\ Len(kept) \in Nat
      /\ Len(kept) + 1 <= CacheSize
      /\ \A m, n \in 1 .. Len(kept) : kept[m].key = kept[n].key => m = n
      /\ \A m \in 1 .. Len(kept) : \E i \in DOMAIN downloads : kept[m] = downloads[i]
  <2>1. CASE Len(downloads) >= CacheSize
    <3>1. /\ kept \in Seq(Entries)
          /\ Len(kept) = Len(downloads) - 1
          /\ \A m \in 1 .. Len(kept) : kept[m] = downloads[m + 1]
      BY <1>1, <2>1, HeadTailProperties DEF CacheOK
    <3> HIDE DEF kept
    <3>2. \A m \in 1 .. Len(kept) : m \in Int /\ m + 1 \in DOMAIN downloads
      BY <1>1, <3>1
    <3>3. Len(kept) \in Nat /\ Len(kept) + 1 <= CacheSize
      BY <1>1, <2>1, <3>1 DEF CacheOK
    <3>4. ASSUME NEW m \in 1 .. Len(kept), NEW n \in 1 .. Len(kept), kept[m].key = kept[n].key
          PROVE  m = n
      <4>1. \A i, j \in DOMAIN downloads : downloads[i].key = downloads[j].key => i = j
        BY DEF CacheOK
      <4>2. downloads[m + 1].key = downloads[n + 1].key
        BY <3>1, <3>4
      <4>3. m + 1 \in DOMAIN downloads /\ n + 1 \in DOMAIN downloads
        BY <3>2
      <4>4. m + 1 = n + 1
        BY <4>1, <4>2, <4>3
      <4> QED BY <3>2, <4>4
    <3> QED BY <3>1, <3>2, <3>3, <3>4
  <2>2. CASE ~(Len(downloads) >= CacheSize)
    BY <1>1, <2>2 DEF CacheOK
  <2> QED BY <2>1, <2>2
<1>3. e = [key |-> e.key, data |-> e.data]
  BY DEF Entries
<1>4. downloads' = Append(kept, e)
  BY <1>3 DEF AddDownload
<1> HIDE DEF kept
<1>5. /\ downloads' \in Seq(Entries)
      /\ Len(downloads') = Len(kept) + 1
      /\ \A m \in 1 .. Len(kept) : downloads'[m] = kept[m]
      /\ downloads'[Len(kept) + 1] = e
      /\ DOMAIN downloads' = 1 .. Len(kept) + 1
  <2>1. /\ downloads' \in Seq(Entries)
        /\ Len(downloads') = Len(kept) + 1
        /\ \A m \in 1 .. Len(kept) : downloads'[m] = kept[m]
        /\ downloads'[Len(kept) + 1] = e
    BY <1>2, <1>4, AppendProperties
  <2> QED BY <2>1, LenProperties
<1>6. \A m \in 1 .. Len(kept) + 1 : m \in 1 .. Len(kept) \/ m = Len(kept) + 1
  BY <1>2
<1>7. \A m \in 1 .. Len(kept) : kept[m].key # e.key
  BY <1>2 DEF Downloaded
<1>8. \A m, n \in DOMAIN downloads' : downloads'[m].key = downloads'[n].key => m = n
  BY <1>2, <1>5, <1>6, <1>7
<1>9. From(downloads', downloads, {e})
  BY <1>2, <1>5, <1>6 DEF From
<1> QED BY <1>2, <1>5, <1>8, <1>9 DEF CacheOK

-----------------------------------------------------------------------------
(* Types                                                                    *)

LEMMA ContentDigests ==
  ASSUME NEW c \in Contents
  PROVE  c.digest \in Digests /\ c.data \in Digests
  BY DEF Digests

(* What a session returns is a content.                                     *)
LEMMA ResolvedType ==
  ASSUME TypeInv, NEW k \in SessionKeys, NEW v \in CVs, NEW c \in Resolved(k, v)
  PROVE  c \in Contents
  BY DEF TypeInv, TypeOK, Resolved

LEMMA RememberType ==
  ASSUME TypeInv, NEW k \in SessionKeys, NEW v \in CVs, NEW c \in Contents \cup {None}, Remember(k, v, c)
  PROVE  sessions' \in [SessionKeys -> [CVs -> Contents \cup {None}]]
  BY DEF TypeInv, TypeOK, Remember

LEMMA CachedType ==
  ASSUME TypeInv, NEW k \in SessionKeys, NEW v \in CVs
  PROVE  Cached(k, v) \in Contents \cup {None}
  BY DEF TypeInv, TypeOK, Cached

(* The initial state has its types.                                         *)
LEMMA TypeInit == Init => TypeInv
<1> SUFFICES ASSUME Init PROVE TypeInv
  OBVIOUS
<1>1. downloads = <<>> /\ downloads \in Seq(Entries) /\ Len(downloads) = 0 /\ DOMAIN downloads = {}
  BY DEF Init
<1>2. Len(downloads) <= CacheSize
  BY <1>1, SizeAssumption
<1> QED BY <1>1, <1>2, ContentAssumption DEF Init, TypeInv, TypeOK, Idle, RecIdle, NewSession, Runs, RunOK, StatusOK,
     BeforeOK, RecOK, Statuses

(* The parts of the type invariant.                                         *)
StoresOK ==
    /\ repository \in [CVs -> Contents \cup {None}]
    /\ sessions \in [SessionKeys -> [CVs -> Contents \cup {None}]]
    /\ component \in Versions \cup {None}

StatusesOK ==
    /\ status \in [Resources -> Statuses] /\ seen \in [Resources -> Statuses]
    /\ \A r \in Resources : StatusOK(r)

RunsOK == run \in [Resources -> Runs] /\ \A r \in Resources : RunOK(r)

BeforesOK == \A r \in Resources : BeforeOK(r)

Recs == [pc: {"idle", "lookup", "download", "apply"}, deployer: Resources \cup {None},
         open: BOOLEAN, status: Statuses \cup {None}, data: Digests \cup {None}]

DeployerOK == rec \in Recs /\ RecOK

AppliedOK == applied \in [Resources -> {None} \cup [data: Digests \cup {None}, status: Statuses]]

LEMMA TypeParts ==
  TypeInv <=> /\ StoresOK /\ StatusesOK /\ RunsOK /\ BeforesOK
              /\ DeployerOK /\ AppliedOK /\ CacheOK(downloads)
  BY DEF TypeInv, TypeOK, StoresOK, StatusesOK, RunsOK, BeforesOK, DeployerOK, AppliedOK, CacheOK, Runs, Recs

LEMMA TypePartsPrime ==
  TypeInv' <=> /\ StoresOK' /\ StatusesOK' /\ RunsOK' /\ BeforesOK'
               /\ DeployerOK' /\ AppliedOK' /\ CacheOK(downloads)'
  BY DEF TypeInv, TypeOK, StoresOK, StatusesOK, RunsOK, BeforesOK, DeployerOK, AppliedOK, CacheOK, Runs, Recs

(* Steps that leave a part alone keep it.                                   *)
LEMMA SameParts ==
  /\ StoresOK /\ UNCHANGED <<repository, sessions, component>> => StoresOK'
  /\ StatusesOK /\ UNCHANGED <<status, seen>> => StatusesOK'
  /\ RunsOK /\ UNCHANGED run => RunsOK'
  /\ BeforesOK /\ UNCHANGED <<run, status>> => BeforesOK'
  /\ DeployerOK /\ UNCHANGED <<rec, downloads>> => DeployerOK'
  /\ AppliedOK /\ UNCHANGED applied => AppliedOK'
  /\ CacheOK(downloads) /\ UNCHANGED downloads => CacheOK(downloads)'
  BY DEF StoresOK, StatusesOK, StatusOK, RunsOK, RunOK, BeforesOK, BeforeOK,
     DeployerOK, RecOK, Downloaded, AppliedOK, CacheOK

LEMMA TypePublish ==
  ASSUME TypeInv, NEW v \in CVs, NEW c \in Contents, Publish(v, c)
  PROVE  TypeInv'
<1>1. StoresOK'
  BY TypeParts DEF Publish, StoresOK
<1> QED BY <1>1, TypeParts, TypePartsPrime, SameParts DEF Publish

LEMMA TypeRestart ==
  ASSUME TypeInv, Restart
  PROVE  TypeInv'
<1>1. StoresOK'
  BY TypeParts DEF Restart, StoresOK, NewSession
<1>2. RunsOK' /\ BeforesOK'
  BY DEF Restart, RunsOK, RunOK, BeforesOK, BeforeOK, Runs, Idle
<1>3. DeployerOK'
  BY DEF Restart, DeployerOK, RecOK, Recs, RecIdle
<1>4. CacheOK(downloads)'
  <2>1. downloads' = <<>> /\ downloads' \in Seq(Entries) /\ Len(downloads') = 0 /\ DOMAIN downloads' = {}
    BY DEF Restart
  <2> QED BY <2>1, SizeAssumption DEF CacheOK
<1> QED BY <1>1, <1>2, <1>3, <1>4, TypeParts, TypePartsPrime, SameParts DEF Restart

LEMMA TypeComponent ==
  ASSUME TypeInv, ReconcileComponent
  PROVE  TypeInv'
<1>1. CASE ReportComponent
  <2>1. Latest \in Versions /\ Latest \in CVs
    BY <1>1, LatestType DEF ReportComponent, Available, CVs
  <2>2. repository[Latest] \in Contents \cup {None}
    BY <2>1, TypeParts DEF StoresOK
  <2>3. sessions' \in [SessionKeys -> [CVs -> Contents \cup {None}]]
    BY <1>1, <2>1, <2>2, RememberType, KeyAssumption DEF ReportComponent
  <2>4. StoresOK'
    BY <1>1, <2>1, <2>3, TypeParts DEF ReportComponent, StoresOK
  <2> QED BY <1>1, <2>4, TypeParts, TypePartsPrime, SameParts DEF ReportComponent
<1>2. CASE CloseSession
  <2>1. StoresOK'
    BY <1>2, TypeParts DEF CloseSession, StoresOK, NewSession
  <2>2. run \in [Resources -> Runs]
    BY TypeParts DEF RunsOK
  <2>3. \A r \in Resources :
          /\ run'[r] \in Runs
          /\ run'[r].pc = run[r].pc /\ run'[r].cv = run[r].cv
          /\ run'[r].before = run[r].before /\ run'[r].status = run[r].status
    BY <1>2, <2>2 DEF CloseSession, Runs
  <2>4. RunsOK'
    <3>1. run' \in [Resources -> Runs]
      BY <1>2, <2>3 DEF CloseSession
    <3> QED BY <2>3, <3>1, TypeParts DEF RunsOK, RunOK
  <2>5. BeforesOK'
    BY <1>2, <2>3, TypeParts DEF CloseSession, BeforesOK, BeforeOK
  <2>6. DeployerOK'
    BY <1>2, TypeParts DEF CloseSession, DeployerOK, RecOK, Recs, Downloaded, DownloadKey
  <2> QED BY <1>2, <2>1, <2>4, <2>5, <2>6, TypeParts, TypePartsPrime, SameParts DEF CloseSession
<1> QED BY <1>1, <1>2 DEF ReconcileComponent

LEMMA RunType ==
  ASSUME TypeInv, NEW r \in Resources
  PROVE  /\ run[r] \in Runs
         /\ run[r].pc # "idle" => /\ run[r].cv \in Versions /\ run[r].cv \in CVs
                                  /\ run[r].before \in Statuses
         /\ run[r].pc = "report" => run[r].status \in Statuses /\ run[r].status.cv \in CVs
         /\ sessions \in [SessionKeys -> [CVs -> Contents \cup {None}]]
         /\ ResourceKey[r] \in SessionKeys
         /\ run \in [Resources -> Runs]
  BY TypeParts, KeyAssumption DEF RunsOK, RunOK, BeforesOK, BeforeOK, StoresOK, CVs

(* What the patch of a status leaves.                                       *)
LEMMA PatchedProperties ==
  ASSUME NEW old \in Statuses, NEW before \in Statuses, NEW s \in Statuses
  PROVE  LET new == Patched(old, before, s) IN
         /\ new \in Statuses
         /\ new.ready = IF s.ready = before.ready THEN old.ready ELSE s.ready
         /\ new.cv = IF s.cv = before.cv THEN old.cv ELSE s.cv
         /\ new.digest = IF s.digest = before.digest THEN old.digest ELSE s.digest
         /\ before = old => new = s
<1> DEFINE new == Patched(old, before, s)
<1>1. new = [ready  |-> IF s.ready = before.ready THEN old.ready ELSE s.ready,
             cv     |-> IF s.cv = before.cv THEN old.cv ELSE s.cv,
             digest |-> IF s.digest = before.digest THEN old.digest ELSE s.digest]
  BY DEF Patched, Statuses
<1>2. s = [ready |-> s.ready, cv |-> s.cv, digest |-> s.digest]
  BY DEF Statuses
<1>3. before = old => new = s
  BY <1>1, <1>2
<1>4. new \in Statuses
  BY <1>1 DEF Statuses
<1> QED BY <1>1, <1>3, <1>4

(* The end of a run: it is idle, and its resource has what the patch leaves.*)
LEMMA ResourceEndsProperties ==
  ASSUME TypeInv, NEW r \in Resources, NEW s \in Statuses, run[r].pc # "idle", ResourceEnds(r, s)
  PROVE  /\ status'[r] = Patched(status[r], run[r].before, s)
         /\ \A q \in Resources \ {r} : status'[q] = status[q]
         /\ status' \in [Resources -> Statuses]
         /\ run' = [run EXCEPT ![r] = Idle]
<1>1. status \in [Resources -> Statuses] /\ run[r].before \in Statuses
  BY TypeParts, RunType DEF StatusesOK
<1>2. Patched(status[r], run[r].before, s) \in Statuses
  BY <1>1, PatchedProperties
<1>3. status' = [status EXCEPT ![r] = Patched(status[r], run[r].before, s)]
  BY <1>1 DEF ResourceEnds
<1> QED BY <1>1, <1>2, <1>3 DEF ResourceEnds

LEMMA TypeResourceEnds ==
  ASSUME TypeInv, NEW r \in Resources, NEW s \in Statuses, run[r].pc # "idle",
         s.cv = run[r].before.cv \/ s.cv \in CVs, s.ready => s.cv \in CVs, ResourceEnds(r, s)
  PROVE  TypeInv'
<1>0. status \in [Resources -> Statuses] /\ run[r].before \in Statuses /\ None \notin CVs
  BY TypeParts, RunType, VersionsAssumption DEF StatusesOK
<1>1. /\ status'[r].ready = IF s.ready = run[r].before.ready THEN status[r].ready ELSE s.ready
      /\ status'[r].cv = IF s.cv = run[r].before.cv THEN status[r].cv ELSE s.cv
      /\ \A q \in Resources \ {r} : status'[q] = status[q]
      /\ status' \in [Resources -> Statuses]
      /\ run' = [run EXCEPT ![r] = Idle] /\ seen' = seen
  BY <1>0, ResourceEndsProperties, PatchedProperties DEF ResourceEnds
<1>2. status[r].cv # None => status'[r].cv # None
  BY <1>0, <1>1
<1>3. status'[r].ready => status'[r].cv \in CVs
  <2>1. status[r].cv \in CVs \cup {None} /\ (status[r].ready => status[r].cv \in CVs)
    BY <1>0, TypeParts DEF StatusesOK, StatusOK, Statuses
  <2>2. run[r].before.cv # None => status[r].cv # None
    BY TypeParts DEF BeforesOK, BeforeOK
  <2> QED BY <1>0, <1>1, <2>1, <2>2
<1>4. StatusesOK'
  <2>1. \A q \in Resources : StatusOK(q)'
    BY <1>1, <1>2, <1>3, TypeParts DEF StatusesOK, StatusOK
  <2> QED BY <1>1, <2>1, TypeParts DEF StatusesOK
<1>5. RunsOK'
  BY <1>1, TypeParts DEF RunsOK, RunOK, Runs, Idle
<1>6. BeforesOK'
  BY <1>1, RunType, TypeParts DEF BeforesOK, BeforeOK, Idle
<1> QED BY <1>4, <1>5, <1>6, TypeParts, TypePartsPrime, SameParts DEF ResourceEnds

LEMMA TypeMarkNotReady ==
  ASSUME TypeInv, NEW r \in Resources, run[r].pc # "idle", MarkNotReady(r)
  PROVE  TypeInv'
<1> DEFINE s == [run[r].before EXCEPT !.ready = FALSE]
<1>1. s \in Statuses /\ ~s.ready /\ s.cv = run[r].before.cv
  BY RunType DEF Statuses
<1> HIDE DEF s
<1>2. ResourceEnds(r, s)
  BY DEF MarkNotReady, s
<1> QED BY <1>1, <1>2, TypeResourceEnds

LEMMA TypeObserve ==
  ASSUME TypeInv, NEW r \in Resources, ObserveResource(r)
  PROVE  TypeInv'
<1>1. StatusesOK'
  BY TypeParts DEF ObserveResource, StatusesOK, StatusOK
<1> QED BY <1>1, TypeParts, TypePartsPrime, SameParts DEF ObserveResource

(* A run that goes on.                                                      *)
LEMMA TypeRunStep ==
  ASSUME TypeInv, NEW r \in Resources, NEW new \in Runs,
         new.pc # "idle" => new.cv \in Versions,
         new.pc = "report" => new.status \in Statuses /\ new.status.cv \in CVs,
         new.before = (IF run[r].pc = "idle" THEN seen[r] ELSE run[r].before),
         run' = [run EXCEPT ![r] = new],
         sessions' \in [SessionKeys -> [CVs -> Contents \cup {None}]],
         UNCHANGED <<repository, component, status, seen, rec, downloads, applied>>
  PROVE  TypeInv'
<1>1. StoresOK'
  BY TypeParts DEF StoresOK
<1>2. RunsOK'
  BY TypeParts DEF RunsOK, RunOK, Runs
<1>3. BeforesOK'
  BY TypeParts DEF BeforesOK, BeforeOK, RunsOK, StatusesOK, StatusOK
<1> QED BY <1>1, <1>2, <1>3, TypeParts, TypePartsPrime, SameParts

LEMMA TypeResource ==
  ASSUME TypeInv, NEW r \in Resources, ReconcileResource(r)
  PROVE  TypeInv'
<1>1. CASE BeginResource(r)
  <2> DEFINE new == [Idle EXCEPT !.pc = "lookup", !.cv = component, !.open = TRUE,
                                 !.before = seen[r]]
  <2>1. /\ new \in Runs /\ new.cv \in Versions /\ new.pc = "lookup"
        /\ new.before = seen[r] /\ run[r].pc = "idle"
    BY <1>1, TypeParts DEF StoresOK, StatusesOK, BeginResource, Runs, Idle
  <2>2. run' = [run EXCEPT ![r] = new]
    BY <1>1 DEF BeginResource
  <2> HIDE DEF new
  <2> QED BY <1>1, <2>1, <2>2, TypeRunStep, RunType DEF BeginResource
<1>2. CASE SessionClosed(r) \/ ResourceFails(r) \/ DescriptorMissing(r) \/ NoResourceAccess(r)
  BY <1>2, TypeMarkNotReady DEF SessionClosed, ResourceFails, DescriptorMissing, NoResourceAccess
<1>3. CASE LookupComponentVersion(r)
  <2> DEFINE new == [run[r] EXCEPT !.pc = "descriptors"]
  <2>1. /\ new \in Runs /\ new.cv \in Versions /\ new.pc = "descriptors"
        /\ new.before = run[r].before /\ run[r].pc # "idle"
    BY <1>3, RunType DEF LookupComponentVersion, Runs
  <2>2. run' = [run EXCEPT ![r] = new]
    BY <1>3, RunType DEF LookupComponentVersion
  <2> HIDE DEF new
  <2>3. sessions' \in [SessionKeys -> [CVs -> Contents \cup {None}]]
    BY <1>3, RunType, CachedType, RememberType DEF LookupComponentVersion
  <2> QED BY <1>3, <2>1, <2>2, <2>3, TypeRunStep DEF LookupComponentVersion
<1>4. CASE ListDescriptors(r)
  <2> DEFINE new == [run[r] EXCEPT !.pc = "access"]
  <2>1. /\ new \in Runs /\ new.cv \in Versions /\ new.pc = "access"
        /\ new.before = run[r].before /\ run[r].pc # "idle"
    BY <1>4, RunType DEF ListDescriptors, Runs
  <2>2. run' = [run EXCEPT ![r] = new]
    BY <1>4, RunType DEF ListDescriptors
  <2> HIDE DEF new
  <2> QED BY <1>4, <2>1, <2>2, TypeRunStep, RunType DEF ListDescriptors
<1>5. CASE GetResourceAccess(r)
  <2> DEFINE v == ResolveReferencePath(run[r].cv, ReferencePath[r], Descriptors(run[r].cv))
  <2>1. v \in CVs
    <3>1. run[r].cv \in CVs /\ ReferencePath[r] \in Nat /\ v # None
      BY <1>5, RunType, ReferenceAssumption DEF GetResourceAccess
    <3> QED BY <3>1, ResolveType
  <2>2. PICK c \in Resolved(ResourceKey[r], v) :
          /\ Remember(ResourceKey[r], v, c)
          /\ run' = [run EXCEPT ![r].pc = "report", ![r].status = Access(v, c)]
    BY <1>5 DEF GetResourceAccess
  <2> HIDE DEF v
  <2>3. c \in Contents
    BY <2>1, RunType, ResolvedType
  <2>4. sessions' \in [SessionKeys -> [CVs -> Contents \cup {None}]]
    BY <2>1, <2>2, <2>3, RunType, RememberType
  <2> DEFINE new == [run[r] EXCEPT !.pc = "report", !.status = Access(v, c)]
  <2>5. Access(v, c) \in Statuses /\ Access(v, c).cv = v
    BY <2>1, <2>3, ContentDigests DEF Access, Statuses
  <2>6. /\ new \in Runs /\ new.cv \in Versions /\ new.pc = "report" /\ new.status = Access(v, c)
        /\ new.before = run[r].before /\ run[r].pc # "idle"
    BY <1>5, <2>5, RunType DEF GetResourceAccess, Runs
  <2>7. run' = [run EXCEPT ![r] = new]
    BY <2>2, RunType
  <2> HIDE DEF new
  <2>8. new.status \in Statuses /\ new.status.cv \in CVs
    BY <2>1, <2>5, <2>6
  <2>9. UNCHANGED <<repository, component, status, seen, rec, downloads, applied>>
    BY <1>5 DEF GetResourceAccess
  <2> QED BY <2>4, <2>6, <2>7, <2>8, <2>9, TypeRunStep
<1>6. CASE ReportResource(r)
  BY <1>6, RunType, TypeResourceEnds DEF ReportResource
<1>7. CASE StatusFieldsFail(r)
  <2> DEFINE s == [run[r].before EXCEPT !.ready = FALSE, !.digest = run[r].status.digest]
  <2>1. s \in Statuses /\ ~s.ready /\ s.cv = run[r].before.cv /\ run[r].pc # "idle"
    BY <1>7, RunType DEF StatusFieldsFail, Statuses
  <2>2. ResourceEnds(r, s)
    BY <1>7 DEF StatusFieldsFail
  <2> HIDE DEF s
  <2> QED BY <2>1, <2>2, TypeResourceEnds
<1> QED BY <1>1, <1>2, <1>3, <1>4, <1>5, <1>6, <1>7 DEF ReconcileResource

(* The deployer's goroutine goes on, without a look into the cache.         *)
LEMMA TypeRecStep ==
  ASSUME TypeInv, rec' \in Recs,
         rec'.pc # "idle" => rec'.deployer \in Resources /\ rec'.status \in Statuses /\ rec'.status.cv \in CVs,
         rec'.pc \in {"lookup", "download"} => Downloaded(DownloadKey(rec'.status)) = {},
         sessions' \in [SessionKeys -> [CVs -> Contents \cup {None}]],
         UNCHANGED <<repository, component, status, seen, run, downloads, applied>>
  PROVE  TypeInv'
<1>1. StoresOK'
  BY TypeParts DEF StoresOK
<1>2. DeployerOK'
  BY DEF DeployerOK, RecOK, Downloaded, DownloadKey
<1> QED BY <1>1, <1>2, TypeParts, TypePartsPrime, SameParts

LEMMA RecType ==
  ASSUME TypeInv
  PROVE  /\ rec \in Recs
         /\ rec.pc # "idle" => /\ rec.deployer \in Resources
                               /\ rec.status \in Statuses
                               /\ rec.status.cv \in CVs
                               /\ DeployerKey[rec.deployer] \in SessionKeys
         /\ rec.pc \in {"lookup", "download"} => Downloaded(DownloadKey(rec.status)) = {}
         /\ sessions \in [SessionKeys -> [CVs -> Contents \cup {None}]]
         /\ CacheOK(downloads)
  BY TypeParts, KeyAssumption DEF DeployerOK, RecOK, StoresOK

(* What is downloaded is a content of the repository.                       *)
LEMMA DownloadedType ==
  ASSUME TypeInv, rec.pc = "download", NEW c \in DownloadedContent
  PROVE  /\ c \in Contents
         /\ DownloadVersion \in CVs
         /\ c \in Resolved(DeployerKey[rec.deployer], DownloadVersion)
<1>1. rec.status.cv \in CVs /\ ReferencePath[rec.deployer] \in Nat /\ DeployerKey[rec.deployer] \in SessionKeys
  BY RecType, ReferenceAssumption
<1>2. DownloadVersion \in CVs \cup {None}
  BY <1>1, ResolveType DEF DownloadVersion
<1>3. DownloadVersion \in CVs /\ c \in Resolved(DeployerKey[rec.deployer], DownloadVersion)
  BY <1>2 DEF DownloadedContent
<1> QED BY <1>1, <1>3, ResolvedType

LEMMA TypeDeployerEnds ==
  ASSUME TypeInv, DeployerEnds
  PROVE  TypeInv'
<1>1. rec' \in Recs /\ rec'.pc = "idle"
  BY DEF DeployerEnds, Recs, RecIdle
<1> QED BY <1>1, TypeRecStep, RecType DEF DeployerEnds

LEMMA TypeDeployer ==
  ASSUME TypeInv, ReconcileDeployer
  PROVE  TypeInv'
<1>1. ASSUME NEW r \in Resources, BeginDeployer(r) PROVE TypeInv'
  <2>1. status[r] \in Statuses /\ status[r].cv \in CVs
    BY <1>1, TypeParts DEF StatusesOK, StatusOK, BeginDeployer
  <2>2. CASE \E i \in Downloaded(DownloadKey(status[r])) :
               /\ downloads' = Touch(i)
               /\ rec' = [RecIdle EXCEPT !.pc = "apply", !.deployer = r, !.status = status[r],
                                         !.data = downloads[i].data]
    <3>1. PICK i \in DOMAIN downloads :
               /\ downloads' = Touch(i)
               /\ rec' = [RecIdle EXCEPT !.pc = "apply", !.deployer = r, !.status = status[r],
                                         !.data = downloads[i].data]
      BY <2>2 DEF Downloaded
    <3>2. CacheOK(downloads)'
      <4>1. CacheOK(Touch(i))
        BY TouchProperties, RecType
      <4> QED BY <3>1, <4>1 DEF CacheOK
    <3>3. downloads[i].data \in Digests \cup {None}
      <4>1. downloads[i] \in Entries
        BY RecType, ElementOfSeq, LenProperties DEF CacheOK
      <4> QED BY <4>1 DEF Entries
    <3>4. DeployerOK'
      BY <2>1, <3>1, <3>3 DEF DeployerOK, RecOK, Recs, RecIdle
    <3> QED BY <1>1, <3>2, <3>4, TypeParts, TypePartsPrime, SameParts DEF BeginDeployer
  <2>3. CASE /\ Downloaded(DownloadKey(status[r])) = {}
             /\ rec' = [RecIdle EXCEPT !.pc = "lookup", !.deployer = r, !.status = status[r],
                                       !.open = TRUE]
             /\ UNCHANGED downloads
    <3>1. /\ rec' \in Recs /\ rec'.deployer = r /\ rec'.status = status[r]
      BY <2>1, <2>3 DEF Recs, RecIdle
    <3> QED BY <1>1, <2>1, <2>3, <3>1, TypeRecStep, RecType DEF BeginDeployer
  <2> QED BY <1>1, <2>2, <2>3 DEF BeginDeployer
<1>2. CASE DeployerFails \/ DeployerSessionClosed \/ DownloadFails
  BY <1>2, TypeDeployerEnds DEF DeployerFails, DeployerSessionClosed, DownloadFails
<1>3. CASE LookupDownload
  <2>1. /\ rec' \in Recs /\ rec'.deployer = rec.deployer /\ rec'.status = rec.status
        /\ rec'.pc = "download" /\ rec.pc = "lookup"
    BY <1>3, RecType DEF LookupDownload, Recs
  <2>2. sessions' \in [SessionKeys -> [CVs -> Contents \cup {None}]]
    BY <1>3, <2>1, RecType, CachedType, RememberType DEF LookupDownload
  <2> QED BY <1>3, <2>1, <2>2, TypeRecStep, RecType DEF LookupDownload
<1>4. CASE Download
  <2>1. PICK c \in DownloadedContent :
          /\ Accepts(c)
          /\ Remember(DeployerKey[rec.deployer], DownloadVersion, c)
          /\ AddDownload(DownloadKey(rec.status), c.data)
          /\ rec' = [rec EXCEPT !.pc = "apply", !.data = c.data]
    BY <1>4 DEF Download
  <2>2. rec.pc = "download"
    BY <1>4 DEF Download
  <2>3. c \in Contents /\ c.data \in Digests /\ DownloadVersion \in CVs
    BY <2>1, <2>2, DownloadedType, ContentDigests
  <2>4. StoresOK'
    <3>1. sessions' \in [SessionKeys -> [CVs -> Contents \cup {None}]]
      BY <2>1, <2>2, <2>3, RecType, RememberType
    <3> QED BY <1>4, <3>1, TypeParts DEF Download, StoresOK
  <2>5. DeployerOK'
    BY <2>1, <2>2, <2>3, RecType DEF DeployerOK, RecOK, Recs
  <2>6. CacheOK(downloads')
    <3> DEFINE e == [key |-> DownloadKey(rec.status), data |-> c.data]
    <3>1. rec.status.digest \in Digests \cup {None}
      BY <2>2, RecType DEF Statuses
    <3>2. e \in Entries /\ e.key = DownloadKey(rec.status) /\ e.data = c.data
      BY <2>3, <3>1 DEF Entries, DownloadKey
    <3> HIDE DEF e
    <3> QED BY <2>1, <2>2, <3>2, RecType, AddProperties
  <2>7. CacheOK(downloads)'
    BY <2>6 DEF CacheOK
  <2> QED BY <1>4, <2>4, <2>5, <2>7, TypeParts, TypePartsPrime, SameParts DEF Download
<1>5. CASE Apply
  <2>1. rec.deployer \in Resources /\ rec.status \in Statuses /\ rec.data \in Digests \cup {None}
    BY <1>5, RecType DEF Apply, Recs
  <2>2. AppliedOK'
    BY <1>5, <2>1, TypeParts DEF Apply, AppliedOK
  <2>3. DeployerOK'
    BY <1>5 DEF Apply, DeployerOK, RecOK, Recs, RecIdle
  <2> QED BY <1>5, <2>2, <2>3, TypeParts, TypePartsPrime, SameParts DEF Apply
<1> QED BY <1>1, <1>2, <1>3, <1>4, <1>5 DEF ReconcileDeployer

(* Every step keeps the types.                                              *)
LEMMA TypeNext == TypeInv /\ [Next]_vars => TypeInv'
<1>1. ASSUME TypeInv, UNCHANGED vars PROVE TypeInv'
  BY <1>1, TypeParts, TypePartsPrime, SameParts DEF vars
<1> QED BY <1>1, TypePublish, TypeRestart, TypeComponent, TypeResource, TypeObserve, TypeDeployer
   DEF Next

LEMMA TypeInvariant == Spec => []TypeInv
  BY TypeInit, TypeNext, PTL DEF Spec

(* TypeOK: the goroutines of the controllers leave every store with its     *)
(* type, and MemoryDigestObjectCache.Load keeps at most CacheSize entries   *)
(* of different digests.                                                    *)
THEOREM TypeCorrect == Spec => []TypeOK
<1>1. TypeInv => TypeOK
  BY DEF TypeInv
<1> QED BY <1>1, TypeInvariant, PTL

-----------------------------------------------------------------------------
(* Digests                                                                  *)

LEMMA DigestInit == Init => DigestInv
  BY DEF Init, DigestInv, AppliedHasDigest, RecIdle

(* A step that leaves cache, cluster and data of the goroutine alone.       *)
LEMMA DigestSame ==
  ASSUME DigestInv, UNCHANGED <<downloads, applied>>, rec'.pc = "apply" => UNCHANGED rec
  PROVE  DigestInv'
  BY DEF DigestInv, AppliedHasDigest

LEMMA DigestDeployer ==
  ASSUME TypeInv, DigestInv, ReconcileDeployer
  PROVE  DigestInv'
<1>1. ASSUME NEW r \in Resources, BeginDeployer(r) PROVE DigestInv'
  <2>1. CASE \E i \in Downloaded(DownloadKey(status[r])) :
               /\ downloads' = Touch(i)
               /\ rec' = [RecIdle EXCEPT !.pc = "apply", !.deployer = r, !.status = status[r],
                                         !.data = downloads[i].data]
    <3>1. PICK i \in Downloaded(DownloadKey(status[r])) :
               /\ downloads' = Touch(i)
               /\ rec' = [RecIdle EXCEPT !.pc = "apply", !.deployer = r, !.status = status[r],
                                         !.data = downloads[i].data]
      BY <2>1
    <3>2. i \in DOMAIN downloads /\ downloads[i].key = status[r].digest
      BY DEF Downloaded, DownloadKey
    <3>3. rec'.data = rec'.status.digest
      BY <3>1, <3>2 DEF DigestInv, RecIdle
    <3>4. \A j \in DOMAIN downloads' : downloads'[j].key = downloads'[j].data
      <4>1. From(downloads', downloads, {})
        BY <3>1, <3>2, RecType, TouchProperties
      <4> QED BY <4>1 DEF From, DigestInv
    <3> QED BY <1>1, <3>3, <3>4 DEF BeginDeployer, DigestInv, AppliedHasDigest
  <2>2. CASE /\ rec' = [RecIdle EXCEPT !.pc = "lookup", !.deployer = r, !.status = status[r],
                                       !.open = TRUE]
             /\ UNCHANGED downloads
    BY <1>1, <2>2, DigestSame DEF BeginDeployer, RecIdle
  <2> QED BY <1>1, <2>1, <2>2 DEF BeginDeployer
<1>2. CASE DeployerFails \/ DeployerSessionClosed \/ DownloadFails
  BY <1>2, DigestSame DEF DeployerFails, DeployerSessionClosed, DownloadFails, DeployerEnds, RecIdle
<1>3. CASE LookupDownload
  BY <1>3, DigestSame, RecType DEF LookupDownload, Recs
<1>4. CASE Download
  <2>1. PICK c \in DownloadedContent :
          /\ Accepts(c)
          /\ AddDownload(DownloadKey(rec.status), c.data)
          /\ rec' = [rec EXCEPT !.pc = "apply", !.data = c.data]
    BY <1>4 DEF Download
  <2>2. rec.pc = "download" /\ c.data = rec.status.digest
    BY <1>4, <2>1 DEF Download, Accepts
  <2>3. c.data \in Digests
    BY <2>1, <2>2, DownloadedType, ContentDigests
  <2>4. rec'.data = rec'.status.digest
    BY <2>1, <2>2, RecType DEF Recs
  <2> DEFINE e == [key |-> DownloadKey(rec.status), data |-> c.data]
  <2>5. e \in Entries /\ e.key = DownloadKey(rec.status) /\ e.data = c.data /\ e.key = e.data
    BY <2>2, <2>3 DEF Entries, DownloadKey
  <2> HIDE DEF e
  <2>6. From(downloads', downloads, {e})
    BY <2>1, <2>2, <2>5, RecType, AddProperties
  <2>7. \A j \in DOMAIN downloads' : downloads'[j].key = downloads'[j].data
    BY <2>5, <2>6 DEF From, DigestInv
  <2> QED BY <1>4, <2>4, <2>7 DEF Download, DigestInv, AppliedHasDigest
<1>5. CASE Apply
  <2>1. rec'.pc = "idle"
    BY <1>5 DEF Apply, RecIdle
  <2>2. AppliedHasDigest'
    BY <1>5, TypeParts DEF Apply, AppliedOK, AppliedHasDigest, DigestInv
  <2> QED BY <1>5, <2>1, <2>2 DEF Apply, DigestInv
<1> QED BY <1>1, <1>2, <1>3, <1>4, <1>5 DEF ReconcileDeployer

(* Every step keeps the data under their digests.                           *)
LEMMA DigestNext == TypeInv /\ DigestInv /\ [Next]_vars => DigestInv'
<1> SUFFICES ASSUME TypeInv, DigestInv, [Next]_vars PROVE DigestInv'
  OBVIOUS
<1>1. CASE UNCHANGED vars
  BY <1>1, DigestSame DEF vars
<1>2. ASSUME NEW v \in CVs, NEW c \in Contents, Publish(v, c) PROVE DigestInv'
  BY <1>2, DigestSame DEF Publish
<1>3. CASE Restart
  BY <1>3 DEF Restart, RecIdle, DigestInv, AppliedHasDigest
<1>4. CASE ReportComponent
  BY <1>4, DigestSame DEF ReportComponent
<1>5. CASE CloseSession
  <2>1. UNCHANGED <<downloads, applied>> /\ rec'.pc = rec.pc /\ rec'.data = rec.data /\ rec'.status = rec.status
    BY <1>5, RecType DEF CloseSession, Recs
  <2> QED BY <2>1 DEF DigestInv, AppliedHasDigest
<1>6. ASSUME NEW r \in Resources, ReconcileResource(r) PROVE DigestInv'
  <2>1. UNCHANGED <<rec, downloads, applied>>
    BY <1>6 DEF ReconcileResource, BeginResource, SessionClosed, ResourceFails, MarkNotReady,
       ResourceEnds, LookupComponentVersion, ListDescriptors, DescriptorMissing, GetResourceAccess,
       NoResourceAccess, ReportResource, StatusFieldsFail
  <2> QED BY <2>1, DigestSame
<1>7. ASSUME NEW r \in Resources, ObserveResource(r) PROVE DigestInv'
  BY <1>7, DigestSame DEF ObserveResource
<1> QED BY <1>1, <1>2, <1>3, <1>4, <1>5, <1>6, <1>7, DigestDeployer DEF Next, ReconcileComponent

(* AppliedHasDigest: what the deployer applies has the digest that the      *)
(* resource had reported, whichever session or cache entry it comes from    *)
(* and whatever the repository holds by then.                               *)
THEOREM AppliedDigests == Spec => []AppliedHasDigest
<1>1. DigestInv => AppliedHasDigest
  BY DEF DigestInv
<1> QED BY <1>1, DigestInit, DigestNext, TypeInvariant, PTL DEF Spec

-----------------------------------------------------------------------------
(* Publication                                                              *)

LEMMA PublishedInit == Init => PublishedInv
  BY DEF Init, PublishedInv, NewSession, Idle

(* A session that looks up what was published.                              *)
SessionsPublished ==
    \A k \in SessionKeys, v \in CVs : sessions[k][v] # None => <<v, sessions[k][v]>> \in published

LEMMA RememberPublished ==
  ASSUME TypeInv, PublishedInv, NEW k \in SessionKeys, NEW v \in CVs, NEW c,
         c # None => <<v, c>> \in published, Remember(k, v, c), published' = published
  PROVE  SessionsPublished'
<1> SUFFICES ASSUME NEW h \in SessionKeys, NEW w \in CVs, sessions'[h][w] # None
             PROVE  <<w, sessions'[h][w]>> \in published
  BY DEF SessionsPublished
<1>1. sessions'[h][w] = IF h = k /\ w = v /\ sessions[k][v] = None THEN c ELSE sessions[h][w]
  BY RecType DEF Remember
<1> QED BY <1>1 DEF PublishedInv

LEMMA CachedPublished ==
  ASSUME PublishedInv, NEW k \in SessionKeys, NEW v \in CVs
  PROVE  /\ Cached(k, v) # None => <<v, Cached(k, v)>> \in published
         /\ \A c \in Resolved(k, v) : <<v, c>> \in published
  BY DEF PublishedInv, Cached, Resolved

(* A step that publishes nothing and has no run find an access.             *)
LEMMA PublishedSame ==
  ASSUME PublishedInv, SessionsPublished', UNCHANGED <<repository, published>>,
         \A r \in Resources : run'[r].pc = "report" => run[r].pc = "report" /\ run'[r].status = run[r].status
  PROVE  PublishedInv'
  BY DEF PublishedInv, SessionsPublished, WasPublished

LEMMA PublishedSessions ==
  ASSUME PublishedInv, UNCHANGED <<sessions, published>>
  PROVE  SessionsPublished'
  BY DEF PublishedInv, SessionsPublished

LEMMA PublishedResourceEnds ==
  ASSUME TypeInv, PublishedInv, NEW r \in Resources, NEW s, ResourceEnds(r, s)
  PROVE  PublishedInv'
<1>1. \A q \in Resources : run'[q].pc = "report" => run'[q] = run[q]
  BY RunType DEF ResourceEnds, Idle
<1>2. UNCHANGED <<repository, sessions, published>>
  BY DEF ResourceEnds
<1> QED BY <1>1, <1>2, PublishedSame, PublishedSessions

LEMMA PublishedResource ==
  ASSUME TypeInv, PublishedInv, NEW r \in Resources, ReconcileResource(r)
  PROVE  PublishedInv'
<1>1. CASE BeginResource(r)
  <2>1. \A q \in Resources : run'[q].pc = "report" => run'[q] = run[q]
    BY <1>1, RunType DEF BeginResource, Idle
  <2> QED BY <1>1, <2>1, PublishedSame, PublishedSessions DEF BeginResource
<1>2. CASE SessionClosed(r) \/ ResourceFails(r) \/ DescriptorMissing(r) \/ NoResourceAccess(r)
  BY <1>2, PublishedResourceEnds DEF MarkNotReady, SessionClosed, ResourceFails,
     DescriptorMissing, NoResourceAccess
<1>3. CASE LookupComponentVersion(r)
  <2>1. SessionsPublished'
    BY <1>3, RunType, CachedPublished, RememberPublished DEF LookupComponentVersion
  <2>2. \A q \in Resources : run'[q].pc = "report" => run'[q] = run[q]
    BY <1>3, RunType DEF LookupComponentVersion, Runs
  <2> QED BY <1>3, <2>1, <2>2, PublishedSame DEF LookupComponentVersion
<1>4. CASE ListDescriptors(r)
  <2>1. \A q \in Resources : run'[q].pc = "report" => run'[q] = run[q]
    BY <1>4, RunType DEF ListDescriptors, Runs
  <2> QED BY <1>4, <2>1, PublishedSame, PublishedSessions DEF ListDescriptors
<1>5. CASE GetResourceAccess(r)
  <2> DEFINE v == ResolveReferencePath(run[r].cv, ReferencePath[r], Descriptors(run[r].cv))
  <2>1. v \in CVs
    <3>1. run[r].cv \in CVs /\ ReferencePath[r] \in Nat /\ v # None
      BY <1>5, RunType, ReferenceAssumption DEF GetResourceAccess
    <3> QED BY <3>1, ResolveType
  <2>2. PICK c \in Resolved(ResourceKey[r], v) :
          /\ Remember(ResourceKey[r], v, c)
          /\ run' = [run EXCEPT ![r].pc = "report", ![r].status = Access(v, c)]
    BY <1>5 DEF GetResourceAccess
  <2> HIDE DEF v
  <2>3. <<v, c>> \in published
    BY <2>1, RunType, CachedPublished
  <2>4. SessionsPublished'
    BY <1>5, <2>1, <2>2, <2>3, RunType, RememberPublished DEF GetResourceAccess
  <2>5. WasPublished(Access(v, c))
    BY <2>3 DEF WasPublished, Access
  <2>6. \A q \in Resources : run'[q].pc = "report" => run'[q].status = Access(v, c) \/ run'[q] = run[q]
    BY <2>2, RunType DEF Runs
  <2>7. UNCHANGED <<repository, published>>
    BY <1>5 DEF GetResourceAccess
  <2>8. \A s : WasPublished(s) => WasPublished(s)'
    BY <2>7 DEF WasPublished
  <2>9. \A q \in Resources : run'[q].pc = "report" => WasPublished(run'[q].status)
    BY <2>5, <2>6 DEF PublishedInv
  <2> QED BY <2>4, <2>7, <2>8, <2>9 DEF PublishedInv, SessionsPublished, WasPublished
<1>6. CASE ReportResource(r) \/ StatusFieldsFail(r)
  BY <1>6, PublishedResourceEnds DEF ReportResource, StatusFieldsFail
<1> QED BY <1>1, <1>2, <1>3, <1>4, <1>5, <1>6 DEF ReconcileResource

LEMMA PublishedDeployer ==
  ASSUME TypeInv, PublishedInv, ReconcileDeployer
  PROVE  PublishedInv'
<1>1. SessionsPublished'
  <2>1. CASE LookupDownload
    BY <2>1, RecType, CachedPublished, RememberPublished DEF LookupDownload
  <2>2. CASE Download
    <3>1. PICK c \in DownloadedContent : Remember(DeployerKey[rec.deployer], DownloadVersion, c)
      BY <2>2 DEF Download
    <3>2. rec.pc = "download" /\ published' = published
      BY <2>2 DEF Download
    <3>3. DownloadVersion \in CVs /\ <<DownloadVersion, c>> \in published
      BY <3>1, <3>2, DownloadedType, RecType, CachedPublished
    <3> QED BY <3>1, <3>2, <3>3, RecType, RememberPublished
  <2>3. CASE UNCHANGED <<sessions, published>>
    BY <2>3, PublishedSessions
  <2> QED BY <2>1, <2>2, <2>3 DEF ReconcileDeployer, BeginDeployer, DeployerFails, DeployerSessionClosed,
             DownloadFails, DeployerEnds, Apply
<1>2. UNCHANGED <<repository, published, run>>
  BY DEF ReconcileDeployer, BeginDeployer, DeployerFails, DeployerSessionClosed, DownloadFails,
     DeployerEnds, LookupDownload, Download, Apply
<1> QED BY <1>1, <1>2, PublishedSame

LEMMA PublishedComponent ==
  ASSUME TypeInv, PublishedInv, ReconcileComponent
  PROVE  PublishedInv'
<1>1. CASE ReportComponent
  <2>1. Latest \in CVs
    BY <1>1, LatestType DEF ReportComponent, Available, CVs
  <2>2. SessionsPublished'
    BY <1>1, <2>1, KeyAssumption, RememberPublished DEF ReportComponent, PublishedInv
  <2> QED BY <1>1, <2>2, PublishedSame DEF ReportComponent
<1>2. CASE CloseSession
  <2>1. SessionsPublished'
    <3> SUFFICES ASSUME NEW h \in SessionKeys, NEW w \in CVs, sessions'[h][w] # None
                 PROVE  <<w, sessions'[h][w]>> \in published'
      BY DEF SessionsPublished
    <3>1. sessions'[h][w] = IF h = ComponentKey THEN None ELSE sessions[h][w]
      BY <1>2, RecType DEF CloseSession, NewSession
    <3> QED BY <1>2, <3>1 DEF CloseSession, PublishedInv
  <2>2. \A r \in Resources : run'[r].pc = run[r].pc /\ run'[r].status = run[r].status
    BY <1>2, RunType DEF CloseSession, Runs
  <2> QED BY <1>2, <2>1, <2>2, PublishedSame DEF CloseSession
<1> QED BY <1>1, <1>2 DEF ReconcileComponent

(* Every step keeps it that what can be looked up was published.            *)
LEMMA PublishedNext == TypeInv /\ PublishedInv /\ [Next]_vars => PublishedInv'
<1> SUFFICES ASSUME TypeInv, PublishedInv, [Next]_vars PROVE PublishedInv'
  OBVIOUS
<1>1. CASE UNCHANGED vars
  BY <1>1, PublishedSame, PublishedSessions DEF vars
<1>2. ASSUME NEW v \in CVs, NEW c \in Contents, Publish(v, c) PROVE PublishedInv'
  <2>1. \A w \in CVs : repository'[w] = IF w = v THEN c ELSE repository[w]
    BY <1>2, TypeParts DEF Publish, StoresOK
  <2>2. published' = published \cup {<<v, c>>} /\ UNCHANGED <<sessions, run>>
    BY <1>2 DEF Publish
  <2>3. \A w \in CVs : repository'[w] # None => <<w, repository'[w]>> \in published'
    BY <2>1, <2>2 DEF PublishedInv
  <2>4. \A s : WasPublished(s) => WasPublished(s)'
    BY <2>2 DEF WasPublished
  <2> QED BY <2>2, <2>3, <2>4 DEF PublishedInv, WasPublished
<1>3. CASE Restart
  <2>1. SessionsPublished'
    BY <1>3 DEF Restart, SessionsPublished, NewSession
  <2>2. \A r \in Resources : run'[r].pc # "report"
    BY <1>3 DEF Restart, Idle
  <2> QED BY <1>3, <2>1, <2>2, PublishedSame DEF Restart
<1>4. ASSUME NEW r \in Resources, ObserveResource(r) PROVE PublishedInv'
  BY <1>4, PublishedSame, PublishedSessions DEF ObserveResource
<1> QED BY <1>1, <1>2, <1>3, <1>4, PublishedComponent, PublishedResource, PublishedDeployer DEF Next

(* The statuses of resources change at the end of a run only.               *)
LEMMA StatusSteps ==
  ASSUME TypeInv, [Next]_vars
  PROVE  \/ status' = status
         \/ \E r \in Resources : /\ run[r].pc # "idle"
                                 /\ MarkNotReady(r) \/ ReportResource(r) \/ StatusFieldsFail(r)
<1>1. CASE UNCHANGED vars
  BY <1>1 DEF vars
<1>2. ASSUME NEW v \in CVs, NEW c \in Contents, Publish(v, c) PROVE status' = status
  BY <1>2 DEF Publish
<1>3. CASE Restart \/ ReconcileComponent
  BY <1>3 DEF Restart, ReconcileComponent, ReportComponent, CloseSession
<1>4. ASSUME NEW r \in Resources, ObserveResource(r) PROVE status' = status
  BY <1>4 DEF ObserveResource
<1>5. CASE ReconcileDeployer
  BY <1>5 DEF ReconcileDeployer, BeginDeployer, DeployerFails, DeployerSessionClosed, DownloadFails,
     DeployerEnds, LookupDownload, Download, Apply
<1>6. ASSUME NEW r \in Resources, ReconcileResource(r)
      PROVE  \/ status' = status
             \/ /\ run[r].pc # "idle"
                /\ MarkNotReady(r) \/ ReportResource(r) \/ StatusFieldsFail(r)
  BY <1>6 DEF ReconcileResource, BeginResource, SessionClosed, ResourceFails,
     LookupComponentVersion, ListDescriptors, DescriptorMissing, GetResourceAccess,
     NoResourceAccess, ReportResource, StatusFieldsFail
<1> QED BY <1>1, <1>2, <1>3, <1>4, <1>5, <1>6 DEF Next

(* What a patch reports as ready, by a run that has read the stored status  *)
(* or writes both fields, is what the run has found.                        *)
LEMMA ReportIsOfOneRun ==
  ASSUME TypeInv, PublishedInv, NEW r \in Resources, run[r].pc # "idle",
         MarkNotReady(r) \/ ReportResource(r) \/ StatusFieldsFail(r),
         status'[r] # status[r], status'[r].ready,
         \/ run[r].before = status[r]
         \/ status'[r].cv # status[r].cv /\ status'[r].digest # status[r].digest
  PROVE  WasPublished(status'[r])
<1>0. status[r] \in Statuses /\ run[r].before \in Statuses
  BY TypeParts, RunType DEF StatusesOK
<1>1. ASSUME NEW s \in Statuses, ResourceEnds(r, s)
      PROVE  /\ run[r].before = status[r] => status'[r] = s
             /\ status'[r].cv # status[r].cv => status'[r].cv = s.cv /\ s.cv # run[r].before.cv
             /\ status'[r].digest # status[r].digest => status'[r].digest = s.digest
  BY <1>0, <1>1, ResourceEndsProperties, PatchedProperties
<1>2. ASSUME NEW s \in Statuses, ~s.ready, s.cv = run[r].before.cv, ResourceEnds(r, s)
      PROVE  FALSE
  BY <1>1, <1>2
<1>3. CASE MarkNotReady(r)
  <2> DEFINE s == [run[r].before EXCEPT !.ready = FALSE]
  <2>1. s \in Statuses /\ ~s.ready /\ s.cv = run[r].before.cv /\ ResourceEnds(r, s)
    BY <1>0, <1>3 DEF Statuses, MarkNotReady
  <2> HIDE DEF s
  <2> QED BY <1>2, <2>1
<1>4. CASE StatusFieldsFail(r)
  <2> DEFINE s == [run[r].before EXCEPT !.ready = FALSE, !.digest = run[r].status.digest]
  <2>1. s \in Statuses /\ ~s.ready /\ s.cv = run[r].before.cv /\ ResourceEnds(r, s)
    BY <1>0, <1>4, RunType DEF Statuses, StatusFieldsFail
  <2> HIDE DEF s
  <2> QED BY <1>2, <2>1
<1>5. CASE ReportResource(r)
  <2>1. run[r].status \in Statuses /\ WasPublished(run[r].status) /\ ResourceEnds(r, run[r].status)
    BY <1>5, RunType DEF ReportResource, PublishedInv
  <2>2. status'[r].cv = run[r].status.cv /\ status'[r].digest = run[r].status.digest
    BY <1>1, <2>1
  <2> QED BY <2>1, <2>2 DEF WasPublished
<1> QED BY <1>3, <1>4, <1>5

(* ReportedWasPublished: the component version and the digest that a run    *)
(* reports as ready have been published together, whatever was published    *)
(* between the look-ups of the run and whatever session they went to, if    *)
(* the run has read the stored status or writes both.                       *)
THEOREM ReportsWerePublished == Spec => ReportedWasPublished
<1>1. TypeInv /\ PublishedInv /\ [Next]_vars =>
        [\A r \in Resources :
           LET old == status[r]  new == status'[r] IN
           new # old /\ new.ready
             /\ (run[r].before = old \/ (new.cv # old.cv /\ new.digest # old.digest))
           => WasPublished(new)]_vars
  <2> SUFFICES ASSUME TypeInv, PublishedInv, [Next]_vars, NEW r \in Resources,
                      status'[r] # status[r], status'[r].ready,
                      \/ run[r].before = status[r]
                      \/ status'[r].cv # status[r].cv /\ status'[r].digest # status[r].digest
               PROVE  WasPublished(status'[r])
    OBVIOUS
  <2>1. PICK q \in Resources : /\ run[q].pc # "idle"
                               /\ MarkNotReady(q) \/ ReportResource(q) \/ StatusFieldsFail(q)
    BY StatusSteps
  <2>2. q = r
    <3>1. \A x \in Resources \ {q} : status'[x] = status[x]
      BY <2>1, TypeParts DEF MarkNotReady, ReportResource, StatusFieldsFail, ResourceEnds, StatusesOK
    <3> QED BY <3>1
  <2> QED BY <2>1, <2>2, ReportIsOfOneRun
<1> QED BY <1>1, PublishedInit, PublishedNext, TypeInvariant, PTL DEF Spec, ReportedWasPublished
=============================================================================
