------------------------ MODULE Configuration_proofs ------------------------
(***************************************************************************)
(* What Configuration promises, for every set of objects, whatever they     *)
(* refer to: TypeOK, ContextHasData and OnlyPropagated.                     *)
(*                                                                         *)
(* ContextHasData needs that a cached context has the hash of the data it   *)
(* was configured with (ContextInv).  OnlyPropagated needs that what an     *)
(* informer cache still shows of an object was propagated to it             *)
(* (PropagationInv), and that Reachable is closed under references: its     *)
(* iteration, one step for each object, has reached its fixed point, cyclic *)
(* references included.                                                     *)
(***************************************************************************)
EXTENDS Configuration, SequenceTheorems, FiniteSetTheorems, WellFoundedInduction, TLAPS

(* A list of specified entries, and a list of resolved ones.                *)
SpecifiedOK(o, s) ==
    /\ s \in Seq(Entries)
    /\ \A e \in ToSet(s) : e.kind \in ConfigKinds => Target(Qualified(o, e)) \in ConfigObjects

ResolvedOK(s) == s \in Seq(Entries) /\ \A e \in ToSet(s) : Target(e) \in ConfigObjects

Reads == Seq(Data \cup {None})

Runs == [pc: {"idle", "resolve", "report"}, todo: Seq(Entries), refs: Seq(Entries),
         read: Reads, applied: Reads]

RunOK(o) == SpecifiedOK(o, run[o].todo) /\ ResolvedOK(run[o].refs)

StatusOK(o) ==
    /\ spec[o] \in Specs[o]
    /\ ResolvedOK(effective[o])
    /\ view[o] # None => ResolvedOK(view[o])
    /\ view[o] = None <=> o \notin exists

TypeInv ==
    /\ spec \in [Objects -> UNION {Specs[o] : o \in Objects}]
    /\ exists \subseteq Objects
    /\ data \in [ConfigObjects -> Data \cup {None}]
    /\ effective \in [Objects -> Seq(Entries)]
    /\ view \in [Objects -> Seq(Entries) \cup {None}]
    /\ run \in [Objects -> Runs]
    /\ ever \in [Objects -> SUBSET Entries]
    /\ \A x \in contexts : x.applied \in Reads
    /\ \A o \in Objects : StatusOK(o) /\ RunOK(o)

(* The hash of a cached context is that of its data.                        *)
ContextInv ==
    /\ \A x \in contexts : x.hash = ToBag(x.applied)
    /\ ContextHasData

(* What is to be resolved was specified, and what others may still see of   *)
(* an object was propagated to it.                                          *)
PropagationInv ==
    /\ \A o \in Objects : \A e \in ToSet(spec[o]) \cup ToSet(run[o].todo) : Qualified(o, e) \in ever[o]
    /\ \A o \in Objects : view[o] # None => ToSet(view[o]) \subseteq Reachable(ever)[o]
    /\ OnlyPropagated

-----------------------------------------------------------------------------
(* Induction and lists                                                      *)

(* Induction over the natural numbers, for a set.                           *)
LEMMA InductiveSet ==
  ASSUME NEW T \in SUBSET Nat, 0 \in T, \A n \in Nat : n \in T => n + 1 \in T
  PROVE  T = Nat
<1> DEFINE U == Nat \ T
<1> SUFFICES ASSUME U # {} PROVE FALSE
  OBVIOUS
<1>1. PICK x \in U : \A y \in U : ~(<<y, x>> \in OpToRel(<, Nat))
  BY WFMin, NatLessThanWellFounded
<1>2. x # 0 /\ x - 1 \in Nat /\ x \in Nat
  OBVIOUS
<1>3. x - 1 \in U
  <2>1. x = (x - 1) + 1
    BY <1>2
  <2> QED BY <1>2, <2>1
<1>4. <<x - 1, x>> \in OpToRel(<, Nat)
  BY <1>2 DEF OpToRel
<1> QED BY <1>1, <1>3, <1>4

(* The elements of lists.                                                   *)
LEMMA ElementsOf ==
  ASSUME NEW S, NEW s \in Seq(S)
  PROVE  /\ ToSet(s) \subseteq S
         /\ \A x \in ToSet(s) : \E i \in 1 .. Len(s) : x = s[i]
         /\ \A i \in 1 .. Len(s) : s[i] \in ToSet(s)
<1>1. DOMAIN s = 1 .. Len(s) /\ \A i \in 1 .. Len(s) : s[i] \in S
  BY LenProperties, ElementOfSeq
<1> QED BY <1>1 DEF ToSet

LEMMA TailElements ==
  ASSUME NEW S, NEW s \in Seq(S), s # <<>>
  PROVE  /\ Head(s) \in ToSet(s) /\ Head(s) \in S
         /\ Tail(s) \in Seq(S)
         /\ ToSet(Tail(s)) \subseteq ToSet(s)
<1>1. Len(s) \in Nat /\ 1 \in 1 .. Len(s) /\ Head(s) = s[1]
  BY LenProperties, EmptySeq
<1>2. /\ Tail(s) \in Seq(S)
      /\ Len(Tail(s)) = Len(s) - 1
      /\ \A i \in 1 .. Len(Tail(s)) : Tail(s)[i] = s[i + 1]
  BY HeadTailProperties
<1>3. \A i \in 1 .. Len(Tail(s)) : i + 1 \in 1 .. Len(s)
  BY <1>1, <1>2
<1>4. /\ \A x \in ToSet(Tail(s)) : \E i \in 1 .. Len(Tail(s)) : x = Tail(s)[i]
      /\ \A i \in 1 .. Len(s) : s[i] \in ToSet(s)
      /\ ToSet(s) \subseteq S
  BY <1>2, ElementsOf
<1> QED BY <1>1, <1>2, <1>3, <1>4

LEMMA AppendElements ==
  ASSUME NEW S, NEW s \in Seq(S), NEW x \in S
  PROVE  Append(s, x) \in Seq(S) /\ ToSet(Append(s, x)) \subseteq ToSet(s) \cup {x}
<1>1. /\ Append(s, x) \in Seq(S)
      /\ Len(Append(s, x)) = Len(s) + 1
      /\ \A i \in 1 .. Len(s) : Append(s, x)[i] = s[i]
      /\ Append(s, x)[Len(s) + 1] = x
  BY AppendProperties
<1>2. \A i \in 1 .. Len(s) + 1 : i \in 1 .. Len(s) \/ i = Len(s) + 1
  BY LenProperties
<1>3. /\ \A y \in ToSet(Append(s, x)) : \E i \in 1 .. Len(s) + 1 : y = Append(s, x)[i]
      /\ \A i \in 1 .. Len(s) : s[i] \in ToSet(s)
  <2>1. \A y \in ToSet(Append(s, x)) : \E i \in 1 .. Len(Append(s, x)) : y = Append(s, x)[i]
    BY <1>1, ElementsOf
  <2> QED BY <1>1, <2>1, ElementsOf
<1>4. ASSUME NEW y \in ToSet(Append(s, x)) PROVE y \in ToSet(s) \cup {x}
  BY <1>1, <1>2, <1>3
<1> QED BY <1>1, <1>4

LEMMA ConcatElements ==
  ASSUME NEW S, NEW s \in Seq(S), NEW t \in Seq(S)
  PROVE  s \o t \in Seq(S) /\ ToSet(s \o t) \subseteq ToSet(s) \cup ToSet(t)
<1>1. /\ s \o t \in Seq(S)
      /\ Len(s \o t) = Len(s) + Len(t)
      /\ \A i \in 1 .. Len(s) + Len(t) :
           (s \o t)[i] = IF i <= Len(s) THEN s[i] ELSE t[i - Len(s)]
  BY ConcatProperties
<1>2. \A i \in 1 .. Len(s) + Len(t) :
        (i <= Len(s) /\ i \in 1 .. Len(s)) \/ (~(i <= Len(s)) /\ i - Len(s) \in 1 .. Len(t))
  <2>1. Len(s) \in Nat /\ Len(t) \in Nat
    BY LenProperties
  <2> QED BY <2>1
<1>3. /\ \A y \in ToSet(s \o t) : \E i \in 1 .. Len(s) + Len(t) : y = (s \o t)[i]
      /\ \A i \in 1 .. Len(s) : s[i] \in ToSet(s)
      /\ \A i \in 1 .. Len(t) : t[i] \in ToSet(t)
  <2>1. \A y \in ToSet(s \o t) : \E i \in 1 .. Len(s \o t) : y = (s \o t)[i]
    BY <1>1, ElementsOf
  <2> QED BY <1>1, <2>1, ElementsOf
<1>4. ASSUME NEW y \in ToSet(s \o t) PROVE y \in ToSet(s) \cup ToSet(t)
  BY <1>1, <1>2, <1>3
<1> QED BY <1>1, <1>4

-----------------------------------------------------------------------------
(* Propagated                                                               *)

(* What an object gets from another one are the entries that are propagated, *)
(* under the policy of its reference.                                       *)
LEMMA PropagatedProperties ==
  ASSUME NEW config \in Entries, NEW s \in Seq(Entries)
  PROVE  /\ Propagated(config, s) \in Seq(Entries)
         /\ \A e \in ToSet(Propagated(config, s)) : \E q \in ToSet(s) :
              q.policy = "Propagate" /\ e = [q EXCEPT !.policy = config.policy]
<1> DEFINE next(n, t) == IF s[n].policy = "Propagate"
                         THEN Append(t, [s[n] EXCEPT !.policy = config.policy]) ELSE t
           Is(f, m) == f = [n \in 0 .. m |-> IF n = 0 THEN <<>> ELSE next(n, f[n - 1])]
           Good(t) == /\ t \in Seq(Entries)
                      /\ \A e \in ToSet(t) : \E q \in ToSet(s) :
                           q.policy = "Propagate" /\ e = [q EXCEPT !.policy = config.policy]
<1>1. ASSUME NEW n \in 1 .. Len(s), NEW t, Good(t) PROVE Good(next(n, t))
  <2> DEFINE q == s[n]
             x == [q EXCEPT !.policy = config.policy]
  <2>1. q \in Entries /\ q \in ToSet(s)
    BY ElementsOf, ElementOfSeq
  <2>2. x \in Entries
    BY <2>1 DEF Entries
  <2>3. CASE q.policy = "Propagate"
    <3>1. next(n, t) = Append(t, x)
      BY <2>3
    <3>2. t \in Seq(Entries)
      BY <1>1
    <3> HIDE DEF x, next, q
    <3>3. Append(t, x) \in Seq(Entries) /\ ToSet(Append(t, x)) \subseteq ToSet(t) \cup {x}
      BY <2>2, <3>2, AppendElements
    <3>4. \E p \in ToSet(s) : p.policy = "Propagate" /\ x = [p EXCEPT !.policy = config.policy]
      BY <2>1, <2>3 DEF x
    <3> QED BY <1>1, <3>1, <3>3, <3>4
  <2>4. CASE q.policy # "Propagate"
    BY <1>1, <2>4
  <2> QED BY <2>3, <2>4
<1>2. Propagated(config, s) = (CHOOSE f : Is(f, Len(s)))[Len(s)]
  BY Zenon DEF Propagated
<1>3. Good(<<>>)
  BY DEF ToSet
<1>4. Len(s) \in Nat
  BY LenProperties
<1> HIDE DEF next, Good
<1>5. \A m \in Nat : \E f : Is(f, m)
  <2> DEFINE T == {m \in Nat : \E f : Is(f, m)}
  <2>1. 0 \in T
    <3>1. Is([n \in 0 .. 0 |-> <<>>], 0)
      OBVIOUS
    <3> HIDE DEF Is
    <3> QED BY <3>1
  <2>2. ASSUME NEW m \in Nat, m \in T PROVE m + 1 \in T
    <3>1. PICK f : Is(f, m)
      BY <2>2
    <3> DEFINE g == [n \in 0 .. m + 1 |-> IF n = m + 1 THEN next(m + 1, f[m]) ELSE f[n]]
    <3>2. g = [n \in 0 .. m + 1 |-> IF n = 0 THEN <<>> ELSE next(n, g[n - 1])]
      <4> SUFFICES ASSUME NEW n \in 0 .. m + 1
                   PROVE  g[n] = IF n = 0 THEN <<>> ELSE next(n, g[n - 1])
        BY Zenon
      <4>1. CASE n = m + 1
        <5>1. n # 0 /\ n - 1 = m /\ m \in 0 .. m + 1 /\ m # m + 1
          BY <4>1
        <5>2. g[n] = next(m + 1, f[m]) /\ g[m] = f[m]
          BY <4>1, <5>1
        <5> QED BY <4>1, <5>1, <5>2, Zenon
      <4>2. CASE n # m + 1 /\ n = 0
        BY <3>1, <4>2
      <4>3. CASE n # m + 1 /\ n # 0
        <5>1. n \in 0 .. m /\ n - 1 \in 0 .. m + 1 /\ n - 1 # m + 1
          BY <4>3
        <5>2. g[n] = f[n] /\ g[n - 1] = f[n - 1]
          BY <4>3, <5>1
        <5>3. f[n] = next(n, f[n - 1])
          BY <3>1, <4>3, <5>1
        <5> QED BY <4>3, <5>2, <5>3
      <4> QED BY <4>1, <4>2, <4>3
    <3>3. Is(g, m + 1)
      BY <3>2, Zenon
    <3> HIDE DEF Is, g
    <3> QED BY <3>3
  <2> HIDE DEF Is
  <2>3. T = Nat
    BY <2>1, <2>2, InductiveSet
  <2> QED BY <2>3
<1>6. PICK f : Is(f, Len(s)) /\ f = CHOOSE g : Is(g, Len(s))
  <2> HIDE DEF Is
  <2> QED BY <1>4, <1>5
<1>7. Good(f[Len(s)])
  <2> DEFINE T == {n \in Nat : n <= Len(s) => Good(f[n])}
  <2>1. 0 \in T
    BY <1>3, <1>4, <1>6
  <2>2. ASSUME NEW n \in Nat, n \in T PROVE n + 1 \in T
    <3> SUFFICES ASSUME n + 1 <= Len(s) PROVE Good(f[n + 1])
      BY <2>2
    <3>1. /\ Good(f[n]) /\ n + 1 \in 0 .. Len(s) /\ n + 1 \in 1 .. Len(s)
          /\ n + 1 # 0 /\ (n + 1) - 1 = n
      BY <1>4, <2>2
    <3>2. f[n + 1] = next(n + 1, f[n])
      BY <1>6, <3>1
    <3> QED BY <1>1, <3>1, <3>2
  <2>3. T = Nat
    BY <2>1, <2>2, InductiveSet
  <2> QED BY <1>4, <2>3
<1> QED BY <1>2, <1>6, <1>7 DEF Good

-----------------------------------------------------------------------------
(* Reachable                                                                *)

Size == Cardinality(Objects)

Own(entries, o) == {e \in entries[o] : e.kind \in ConfigKinds}

Via(entries, f, o) ==
    UNION {{[e EXCEPT !.policy = link.policy] :
              e \in {r \in f[Target(link)] : r.policy = "Propagate"}} :
           link \in {l \in entries[o] : Target(l) \in Objects}}

Step(entries, f) == [o \in Objects |-> Own(entries, o) \cup Via(entries, f, o)]

First(entries) == [o \in Objects |-> Own(entries, o)]

(* f is the iteration that Reachable is defined by.                         *)
Iterates(entries, f) ==
    f = [n \in 0 .. Size |-> IF n = 0 THEN First(entries) ELSE Step(entries, f[n - 1])]

LEMMA SizeType == Size \in Nat
  BY ObjectsAssumption, FS_CardinalityType DEF Size

(* There is such an iteration, and Reachable is its last element.           *)
LEMMA ReachableIterates ==
  ASSUME NEW entries
  PROVE  \E f : Iterates(entries, f) /\ Reachable(entries) = f[Size]
<1> DEFINE Is(f, m) ==
             f = [n \in 0 .. m |-> IF n = 0 THEN First(entries) ELSE Step(entries, f[n - 1])]
           Def(f) ==
             f = [n \in 0 .. Size |->
                    [o \in Objects |->
                       {e \in entries[o] : e.kind \in ConfigKinds} \cup
                       IF n = 0 THEN {}
                       ELSE UNION {{[e EXCEPT !.policy = link.policy] :
                                      e \in {r \in f[n - 1][Target(link)] : r.policy = "Propagate"}} :
                                   link \in {l \in entries[o] : Target(l) \in Objects}}]]
<1>1. Reachable(entries) = (CHOOSE f : Def(f))[Size]
  BY Zenon DEF Reachable, Size
<1>2. \A f : Def(f) <=> Is(f, Size)
  <2> TAKE f
  <2> DEFINE a(n) == [o \in Objects |->
                       {e \in entries[o] : e.kind \in ConfigKinds} \cup
                       IF n = 0 THEN {}
                       ELSE UNION {{[e EXCEPT !.policy = link.policy] :
                                      e \in {r \in f[n - 1][Target(link)] : r.policy = "Propagate"}} :
                                   link \in {l \in entries[o] : Target(l) \in Objects}}]
             b(n) == IF n = 0 THEN First(entries) ELSE Step(entries, f[n - 1])
  <2>1. ASSUME NEW n \in 0 .. Size PROVE a(n) = b(n)
    <3>1. CASE n = 0
      <4>1. \A o \in Objects : a(n)[o] = b(n)[o]
        BY <3>1 DEF First, Own
      <4> QED BY <3>1, <4>1 DEF First
    <3>2. CASE n # 0
      <4>1. b(n) = Step(entries, f[n - 1])
        BY <3>2
      <4>2. a(n) = [o \in Objects |-> Own(entries, o) \cup Via(entries, f[n - 1], o)]
        BY <3>2, Zenon DEF Own, Via
      <4> QED BY <4>1, <4>2, Zenon DEF Step
    <3> QED BY <3>1, <3>2
  <2> HIDE DEF a, b
  <2>2. [n \in 0 .. Size |-> a(n)] = [n \in 0 .. Size |-> b(n)]
    BY <2>1, Zenon
  <2> QED BY <2>2, Zenon DEF a, b
<1> HIDE DEF Def
<1>3. \A m \in Nat : \E f : Is(f, m)
  <2> DEFINE T == {m \in Nat : \E f : Is(f, m)}
  <2>1. 0 \in T
    <3>1. Is([n \in 0 .. 0 |-> First(entries)], 0)
      OBVIOUS
    <3> HIDE DEF Is
    <3> QED BY <3>1
  <2>2. ASSUME NEW m \in Nat, m \in T PROVE m + 1 \in T
    <3>1. PICK f : Is(f, m)
      BY <2>2
    <3> DEFINE g == [n \in 0 .. m + 1 |-> IF n = m + 1 THEN Step(entries, f[m]) ELSE f[n]]
    <3>2. g = [n \in 0 .. m + 1 |-> IF n = 0 THEN First(entries) ELSE Step(entries, g[n - 1])]
      <4> SUFFICES ASSUME NEW n \in 0 .. m + 1
                   PROVE  g[n] = IF n = 0 THEN First(entries) ELSE Step(entries, g[n - 1])
        BY Zenon
      <4>1. CASE n = m + 1
        <5>1. n # 0 /\ n - 1 = m /\ m \in 0 .. m + 1 /\ m # m + 1
          BY <4>1
        <5>2. g[n] = Step(entries, f[m]) /\ g[m] = f[m]
          BY <4>1, <5>1
        <5> QED BY <4>1, <5>1, <5>2, Zenon
      <4>2. CASE n # m + 1 /\ n = 0
        BY <3>1, <4>2
      <4>3. CASE n # m + 1 /\ n # 0
        <5>1. n \in 0 .. m /\ n - 1 \in 0 .. m + 1 /\ n - 1 # m + 1
          BY <4>3
        <5>2. g[n] = f[n] /\ g[n - 1] = f[n - 1]
          BY <4>3, <5>1
        <5>3. f[n] = Step(entries, f[n - 1])
          BY <3>1, <4>3, <5>1
        <5> QED BY <4>3, <5>2, <5>3
      <4> QED BY <4>1, <4>2, <4>3
    <3>3. Is(g, m + 1)
      BY <3>2, Zenon
    <3> HIDE DEF Is, g
    <3> QED BY <3>3
  <2> HIDE DEF Is
  <2>3. T = Nat
    BY <2>1, <2>2, InductiveSet
  <2> QED BY <2>3
<1>4. \A f : Is(f, Size) <=> Iterates(entries, f)
  BY Zenon DEF Iterates
<1> HIDE DEF Is
<1>5. PICK f : Def(f) /\ f = CHOOSE g : Def(g)
  BY <1>2, <1>3, SizeType
<1> QED BY <1>1, <1>2, <1>4, <1>5

(* The elements of the iteration.                                           *)
LEMMA IterationStep ==
  ASSUME NEW entries, NEW f, Iterates(entries, f)
  PROVE  /\ \A o \in Objects : f[0][o] = Own(entries, o)
         /\ \A n \in Nat : n + 1 <= Size =>
              \A o \in Objects : f[n + 1][o] = Own(entries, o) \cup Via(entries, f[n], o)
<1>1. f[0] = First(entries)
  BY SizeType DEF Iterates
<1>2. ASSUME NEW n \in Nat, n + 1 <= Size PROVE f[n + 1] = Step(entries, f[n])
  <2>1. n + 1 \in 0 .. Size /\ n + 1 # 0 /\ (n + 1) - 1 = n
    BY <1>2, SizeType
  <2> QED BY <2>1 DEF Iterates
<1> QED BY <1>1, <1>2 DEF First, Step

(* A link adds to an object what the other one propagates.                  *)
LEMMA ViaElements ==
  ASSUME NEW entries, NEW f, NEW o \in Objects, NEW e
  PROVE  e \in Via(entries, f, o) <=>
           \E link \in entries[o] : /\ Target(link) \in Objects
                                    /\ \E r \in f[Target(link)] :
                                         r.policy = "Propagate" /\ e = [r EXCEPT !.policy = link.policy]
  BY DEF Via

(* More entries reach more.                                                 *)
LEMMA IterationMonotone ==
  ASSUME NEW entries, NEW f, Iterates(entries, f), NEW more, NEW g, Iterates(more, g),
         \A o \in Objects : entries[o] \subseteq more[o]
  PROVE  \A o \in Objects : f[Size][o] \subseteq g[Size][o]
<1> DEFINE T == {n \in Nat : n <= Size => \A o \in Objects : f[n][o] \subseteq g[n][o]}
<1>0. \A o \in Objects : Own(entries, o) \subseteq Own(more, o)
  BY DEF Own
<1>1. 0 \in T
  BY <1>0, IterationStep
<1>2. ASSUME NEW n \in Nat, n \in T PROVE n + 1 \in T
  <2> SUFFICES ASSUME n + 1 <= Size, NEW o \in Objects, NEW e \in f[n + 1][o]
               PROVE  e \in g[n + 1][o]
    BY <1>2
  <2>1. n <= Size
    BY SizeType
  <2>2. \A p \in Objects : f[n][p] \subseteq g[n][p]
    BY <1>2, <2>1
  <2>3. /\ f[n + 1][o] = Own(entries, o) \cup Via(entries, f[n], o)
        /\ g[n + 1][o] = Own(more, o) \cup Via(more, g[n], o)
    BY IterationStep
  <2>4. CASE e \in Own(entries, o)
    BY <1>0, <2>3, <2>4
  <2>5. CASE e \in Via(entries, f[n], o)
    <3>0. PICK link \in entries[o] :
            /\ Target(link) \in Objects
            /\ \E r \in f[n][Target(link)] :
                 r.policy = "Propagate" /\ e = [r EXCEPT !.policy = link.policy]
      BY <2>5, ViaElements
    <3>1. PICK r \in f[n][Target(link)] :
            /\ Target(link) \in Objects
            /\ r.policy = "Propagate" /\ e = [r EXCEPT !.policy = link.policy]
      BY <3>0
    <3>2. link \in more[o] /\ r \in g[n][Target(link)]
      BY <2>2, <3>1
    <3>3. e \in Via(more, g[n], o)
      BY <3>1, <3>2, ViaElements
    <3> QED BY <2>3, <3>3
  <2> QED BY <2>3, <2>4, <2>5
<1>3. T = Nat
  BY <1>1, <1>2, InductiveSet
<1> QED BY <1>3, SizeType

(* The iteration consists of entries and grows.                             *)
LEMMA IterationGrows ==
  ASSUME NEW entries \in [Objects -> SUBSET Entries], NEW f, Iterates(entries, f)
  PROVE  /\ \A n \in Nat : n <= Size => \A o \in Objects : f[n][o] \subseteq Entries
         /\ \A n \in Nat : n + 1 <= Size => \A o \in Objects : f[n][o] \subseteq f[n + 1][o]
<1>1. \A n \in Nat : n <= Size => \A o \in Objects : f[n][o] \subseteq Entries
  <2> DEFINE T == {n \in Nat : n <= Size => \A o \in Objects : f[n][o] \subseteq Entries}
  <2>0. \A o \in Objects : Own(entries, o) \subseteq Entries
    BY DEF Own
  <2>1. 0 \in T
    BY <2>0, IterationStep
  <2>2. ASSUME NEW n \in Nat, n \in T PROVE n + 1 \in T
    <3> SUFFICES ASSUME n + 1 <= Size, NEW o \in Objects, NEW e \in f[n + 1][o]
                 PROVE  e \in Entries
      BY <2>2
    <3>1. \A p \in Objects : f[n][p] \subseteq Entries
      BY <2>2, SizeType
    <3>2. f[n + 1][o] = Own(entries, o) \cup Via(entries, f[n], o)
      BY IterationStep
    <3>3. ASSUME e \in Via(entries, f[n], o) PROVE e \in Entries
      <4>0. PICK link \in entries[o] :
              /\ Target(link) \in Objects
              /\ \E r \in f[n][Target(link)] :
                   r.policy = "Propagate" /\ e = [r EXCEPT !.policy = link.policy]
        BY <3>3, ViaElements
      <4>1. PICK r \in f[n][Target(link)] :
              /\ Target(link) \in Objects
              /\ r.policy = "Propagate" /\ e = [r EXCEPT !.policy = link.policy]
        BY <4>0
      <4>2. link \in Entries /\ r \in Entries
        BY <3>1, <4>1
      <4> QED BY <4>1, <4>2 DEF Entries
    <3> QED BY <2>0, <3>2, <3>3
  <2>3. T = Nat
    BY <2>1, <2>2, InductiveSet
  <2> QED BY <2>3
<1>2. \A n \in Nat : n + 1 <= Size => \A o \in Objects : f[n][o] \subseteq f[n + 1][o]
  <2> DEFINE T == {n \in Nat : n + 1 <= Size => \A o \in Objects : f[n][o] \subseteq f[n + 1][o]}
  <2>1. 0 \in T
    <3> SUFFICES ASSUME 0 + 1 <= Size, NEW o \in Objects PROVE f[0][o] \subseteq f[0 + 1][o]
      OBVIOUS
    <3> QED BY IterationStep
  <2>2. ASSUME NEW n \in Nat, n \in T PROVE n + 1 \in T
    <3> SUFFICES ASSUME (n + 1) + 1 <= Size, NEW o \in Objects, NEW e \in f[n + 1][o]
                 PROVE  e \in f[(n + 1) + 1][o]
      BY <2>2
    <3>1. n + 1 <= Size /\ n + 1 \in Nat
      BY SizeType
    <3>2. \A p \in Objects : f[n][p] \subseteq f[n + 1][p]
      BY <2>2, <3>1
    <3>3. /\ f[n + 1][o] = Own(entries, o) \cup Via(entries, f[n], o)
          /\ f[(n + 1) + 1][o] = Own(entries, o) \cup Via(entries, f[n + 1], o)
      BY <3>1, IterationStep
    <3>4. ASSUME e \in Via(entries, f[n], o) PROVE e \in Via(entries, f[n + 1], o)
      BY <3>2, <3>4, ViaElements
    <3> QED BY <3>3, <3>4
  <2>3. T = Nat
    BY <2>1, <2>2, InductiveSet
  <2> QED BY <2>3
<1> QED BY <1>1, <1>2

(* A proper subset of a set of objects has fewer elements.                  *)
LEMMA SmallerSubset ==
  ASSUME NEW S \in SUBSET Objects, NEW U \in SUBSET S, U # S
  PROVE  /\ Cardinality(S) \in Nat /\ Cardinality(U) \in Nat
         /\ Cardinality(U) + 1 <= Cardinality(S) /\ Cardinality(S) <= Size
<1>1. IsFiniteSet(S) /\ IsFiniteSet(U) /\ Cardinality(S) <= Size
  BY ObjectsAssumption, FS_Subset DEF Size
<1>2. Cardinality(U) \in Nat /\ Cardinality(S) \in Nat
  BY <1>1, FS_CardinalityType
<1>3. Cardinality(U) <= Cardinality(S) /\ Cardinality(U) # Cardinality(S)
  BY <1>1, FS_Subset
<1> QED BY <1>1, <1>2, <1>3

(* The iteration ends at a fixed point: the objects that an entry can be    *)
(* propagated from grow in every step or never again, and there are Size of *)
(* them.                                                                    *)
LEMMA IterationStable ==
  ASSUME NEW entries \in [Objects -> SUBSET Entries], NEW f, Iterates(entries, f),
         NEW p \in Objects, NEW e \in f[Size][p], e.policy = "Propagate"
  PROVE  Size - 1 \in Nat /\ e \in f[Size - 1][p]
<1> DEFINE S(n) == {o \in Objects : e \in f[n][o]}
           P(n) == \/ S(n) = {}
                   \/ Cardinality(S(n)) >= n + 1
                   \/ n >= 1 /\ S(n - 1) = S(n)
<1>1. ASSUME NEW n \in Nat, n + 1 <= Size PROVE S(n) \subseteq S(n + 1)
  BY <1>1, IterationGrows
<1>2. ASSUME NEW n \in Nat, n + 1 <= Size, NEW o \in S(n + 1)
      PROVE  \/ o \in S(0)
             \/ \E link \in entries[o] : /\ Target(link) \in S(n)
                                         /\ link.policy = "Propagate"
  <2>1. f[n + 1][o] = Own(entries, o) \cup Via(entries, f[n], o) /\ f[0][o] = Own(entries, o)
    BY <1>2, IterationStep
  <2>2. CASE e \in Via(entries, f[n], o)
    <3>0. PICK link \in entries[o] :
            /\ Target(link) \in Objects
            /\ \E r \in f[n][Target(link)] :
                 r.policy = "Propagate" /\ e = [r EXCEPT !.policy = link.policy]
      BY <2>2, ViaElements
    <3>1. PICK r \in f[n][Target(link)] :
            /\ Target(link) \in Objects
            /\ r.policy = "Propagate" /\ e = [r EXCEPT !.policy = link.policy]
      BY <3>0
    <3>2. r \in Entries
      <4>1. n <= Size
        BY <1>2, SizeType
      <4> QED BY <3>1, <4>1, IterationGrows
    <3>3. link.policy = "Propagate"
      BY <3>1, <3>2 DEF Entries
    <3>4. e = r
      BY <3>1, <3>2, <3>3 DEF Entries
    <3> QED BY <3>1, <3>3, <3>4
  <2> QED BY <1>2, <2>1, <2>2
<1>3. ASSUME NEW n \in Nat, (n + 1) + 1 <= Size, S(n + 1) = S(n) PROVE S((n + 1) + 1) = S(n + 1)
  <2>1. n + 1 \in Nat /\ n + 1 <= Size
    BY <1>3, SizeType
  <2>2. S(n + 1) \subseteq S((n + 1) + 1)
    BY <1>1, <1>3, <2>1
  <2>3. ASSUME NEW o \in S((n + 1) + 1) PROVE o \in S(n + 1)
    <3>1. CASE o \in S(0)
      <4>1. e \in Own(entries, o)
        BY <3>1, IterationStep
      <4>2. f[n + 1][o] = Own(entries, o) \cup Via(entries, f[n], o)
        BY <2>1, IterationStep
      <4> QED BY <4>1, <4>2
    <3>2. CASE \E link \in entries[o] : Target(link) \in S(n + 1) /\ link.policy = "Propagate"
      <4>1. PICK link \in entries[o] : Target(link) \in S(n) /\ link.policy = "Propagate"
        BY <1>3, <3>2
      <4>2. e = [e EXCEPT !.policy = link.policy]
        <5>1. e \in Entries
          BY SizeType, IterationGrows
        <5> QED BY <4>1, <5>1 DEF Entries
      <4>3. e \in Via(entries, f[n], o)
        BY <4>1, <4>2, ViaElements
      <4> QED BY <2>1, <4>3, IterationStep
    <3> QED BY <1>2, <1>3, <2>1, <2>3, <3>1, <3>2
  <2> QED BY <2>2, <2>3
<1>4. ASSUME NEW n \in Nat, n + 1 <= Size, S(n) = {} PROVE S(n + 1) = S(n)
  <2> DEFINE T == {m \in Nat : m <= n => S(0) \subseteq S(m)}
  <2>1. 0 \in T
    OBVIOUS
  <2>2. ASSUME NEW m \in Nat, m \in T PROVE m + 1 \in T
    <3> SUFFICES ASSUME m + 1 <= n PROVE S(0) \subseteq S(m + 1)
      BY <2>2
    <3>1. m <= n /\ m + 1 <= Size
      BY <1>4, SizeType
    <3>2. S(0) \subseteq S(m) /\ S(m) \subseteq S(m + 1)
      BY <1>1, <2>2, <3>1
    <3> QED BY <3>2
  <2>3. T = Nat
    BY <2>1, <2>2, InductiveSet
  <2>4. S(0) = {}
    BY <1>4, <2>3
  <2> HIDE DEF S
  <2> QED BY <1>2, <1>4, <2>4
<1>5. \A n \in Nat : S(n) \subseteq Objects
  OBVIOUS
<1>6. p \in S(Size)
  OBVIOUS
<1> HIDE DEF S
<1>7. \A n \in Nat : n <= Size => P(n)
  <2> DEFINE T == {n \in Nat : n <= Size => P(n)}
  <2>1. 0 \in T
    <3>1. S(0) # {} => Cardinality(S(0)) >= 0 + 1
      <4>1. Cardinality({}) = 0 /\ {} \in SUBSET S(0)
        BY FS_EmptySet
      <4>2. ASSUME S(0) # {} PROVE Cardinality({}) + 1 <= Cardinality(S(0)) /\ Cardinality(S(0)) \in Nat
        BY <1>5, <4>1, <4>2, SmallerSubset
      <4> QED BY <4>1, <4>2
    <3> QED BY <3>1
  <2>2. ASSUME NEW n \in Nat, n \in T PROVE n + 1 \in T
    <3> SUFFICES ASSUME n + 1 <= Size PROVE P(n + 1)
      BY <2>2
    <3>1. n <= Size /\ n + 1 >= 1 /\ (n + 1) - 1 = n
      BY SizeType
    <3>2. P(n)
      BY <2>2, <3>1
    <3>3. CASE S(n) = {}
      BY <1>4, <3>1, <3>3
    <3>4. CASE n >= 1 /\ S(n - 1) = S(n)
      <4>1. n - 1 \in Nat /\ (n - 1) + 1 = n
        BY <3>4
      <4>2. S(n + 1) = S(n)
        BY <1>3, <3>4, <4>1
      <4> QED BY <3>1, <4>2
    <3>5. CASE Cardinality(S(n)) >= n + 1 /\ S(n) # S(n + 1)
      <4>1. Cardinality(S(n)) + 1 <= Cardinality(S(n + 1)) /\ Cardinality(S(n)) \in Nat
            /\ Cardinality(S(n + 1)) \in Nat
        BY <1>1, <1>5, <3>5, SmallerSubset
      <4> QED BY <3>5, <4>1
    <3>6. CASE S(n) = S(n + 1)
      BY <3>1, <3>6
    <3> QED BY <3>2, <3>3, <3>4, <3>5, <3>6
  <2>3. T = Nat
    BY <2>1, <2>2, InductiveSet
  <2> QED BY <2>3
<1>8. P(Size)
  BY <1>7, SizeType
<1>9. ~(Cardinality(S(Size)) >= Size + 1)
  <2>1. Cardinality(S(Size)) <= Size /\ Cardinality(S(Size)) \in Nat
    BY <1>5, SizeType, ObjectsAssumption, FS_Subset, FS_CardinalityType DEF Size
  <2> QED BY <2>1, SizeType
<1>10. Size >= 1 /\ S(Size - 1) = S(Size)
  BY <1>6, <1>8, <1>9
<1> QED BY <1>6, <1>10, SizeType DEF S

(* What an object specifies reaches it, and so does what a reference        *)
(* propagates, however the references are linked.                           *)
LEMMA ReachableClosed ==
  ASSUME NEW entries \in [Objects -> SUBSET Entries], NEW o \in Objects
  PROVE  /\ \A e \in entries[o] : e.kind \in ConfigKinds => e \in Reachable(entries)[o]
         /\ \A link \in entries[o] : Target(link) \in Objects =>
              \A r \in Reachable(entries)[Target(link)] : r.policy = "Propagate" =>
                [r EXCEPT !.policy = link.policy] \in Reachable(entries)[o]
<1>1. PICK f : Iterates(entries, f) /\ Reachable(entries) = f[Size]
  BY ReachableIterates
<1>2. ASSUME NEW e \in entries[o], e.kind \in ConfigKinds PROVE e \in f[Size][o]
  <2>1. e \in Own(entries, o)
    BY <1>2 DEF Own
  <2>2. CASE Size = 0
    BY <1>1, <2>1, <2>2, IterationStep
  <2>3. CASE Size # 0
    <3>1. Size - 1 \in Nat /\ (Size - 1) + 1 = Size
      BY <2>3, SizeType
    <3>2. f[(Size - 1) + 1][o] = Own(entries, o) \cup Via(entries, f[Size - 1], o)
      BY <1>1, <3>1, SizeType, IterationStep
    <3> QED BY <2>1, <3>1, <3>2
  <2> QED BY <2>2, <2>3
<1>3. ASSUME NEW link \in entries[o], Target(link) \in Objects,
             NEW r \in f[Size][Target(link)], r.policy = "Propagate"
      PROVE  [r EXCEPT !.policy = link.policy] \in f[Size][o]
  <2>1. Size - 1 \in Nat /\ r \in f[Size - 1][Target(link)]
    BY <1>1, <1>3, IterationStable
  <2>2. (Size - 1) + 1 = Size
    BY <2>1, SizeType
  <2>3. f[(Size - 1) + 1][o] = Own(entries, o) \cup Via(entries, f[Size - 1], o)
    BY <1>1, <2>1, <2>2, SizeType, IterationStep
  <2>4. [r EXCEPT !.policy = link.policy] \in Via(entries, f[Size - 1], o)
    BY <1>3, <2>1, ViaElements
  <2> QED BY <2>2, <2>3, <2>4
<1> QED BY <1>1, <1>2, <1>3

LEMMA ReachableMonotone ==
  ASSUME NEW entries, NEW more, \A o \in Objects : entries[o] \subseteq more[o]
  PROVE  \A o \in Objects : Reachable(entries)[o] \subseteq Reachable(more)[o]
<1>1. PICK f : Iterates(entries, f) /\ Reachable(entries) = f[Size]
  BY ReachableIterates
<1>2. PICK g : Iterates(more, g) /\ Reachable(more) = g[Size]
  BY ReachableIterates
<1> QED BY <1>1, <1>2, IterationMonotone

-----------------------------------------------------------------------------
(* Types                                                                    *)

(* The empty list has no elements.                                          *)
LEMMA Empty == ToSet(<<>>) = {} /\ <<>> \in Seq(Entries) /\ <<>> \in Reads
  BY DEF ToSet, Reads

LEMMA IdleType == /\ Idle \in Runs /\ Idle.todo = <<>> /\ Idle.refs = <<>> /\ Idle.pc = "idle"
                  /\ \A o : SpecifiedOK(o, Idle.todo) /\ ResolvedOK(Idle.refs)
  BY Empty DEF Idle, Runs, SpecifiedOK, ResolvedOK

(* What is specified is resolved to secrets and config maps that can be     *)
(* looked up.                                                               *)
LEMMA SpecsType ==
  ASSUME NEW o \in Objects, NEW s \in Specs[o]
  PROVE  SpecifiedOK(o, s) /\ \A e \in ToSet(s) : Qualified(o, e) \in Entries
<1>1. s \in Seq(Entries) /\ o \in Identities /\ ConfigObjects \subseteq Identities
  BY SpecsAssumption, ObjectsAssumption
<1>2. \A e \in ToSet(s) : e \in Entries
  BY <1>1, ElementsOf
<1>3. ASSUME NEW e \in ToSet(s) PROVE Qualified(o, e) \in Entries
  BY <1>1, <1>2 DEF Qualified, Entries, Identities
<1>4. ASSUME NEW e \in ToSet(s), e.kind \in ConfigKinds PROVE Target(Qualified(o, e)) \in ConfigObjects
  <2>1. PICK d \in ConfigObjects :
          /\ d.kind = e.kind /\ d.name = e.name
          /\ d.namespace = IF e.namespace = "" THEN o.namespace ELSE e.namespace
    BY <1>4, SpecsAssumption
  <2>2. d = Target(Qualified(o, e))
    BY <1>1, <1>2, <2>1 DEF Qualified, Target, Entries, Identities
  <2> QED BY <2>2
<1> QED BY <1>1, <1>3, <1>4 DEF SpecifiedOK

LEMMA QualifiedType ==
  ASSUME NEW o \in Objects, NEW e \in Entries
  PROVE  Qualified(o, e) \in Entries /\ Qualified(o, e).kind = e.kind /\ Qualified(o, e).policy = e.policy
  BY ObjectsAssumption DEF Qualified, Entries, Identities

(* What is read are contents of secrets and config maps.                    *)
LEMMA ContentsType ==
  ASSUME TypeInv, NEW o \in Objects
  PROVE  Contents(o) \in Reads
<1>1. run[o].refs \in Seq(Entries) /\ \A e \in ToSet(run[o].refs) : Target(e) \in ConfigObjects
  BY DEF TypeInv, RunOK, ResolvedOK
<1>2. DOMAIN run[o].refs = 1 .. Len(run[o].refs) /\ Len(run[o].refs) \in Nat
  BY <1>1, LenProperties
<1>3. \A i \in 1 .. Len(run[o].refs) : data[Target(run[o].refs[i])] \in Data \cup {None}
  BY <1>1, ElementsOf DEF TypeInv
<1> QED BY <1>2, <1>3 DEF Contents, Reads

(* The initial state has its types.                                         *)
LEMMA TypeInit == Init => TypeInv
<1> SUFFICES ASSUME Init PROVE TypeInv
  OBVIOUS
<1>1. ASSUME NEW o \in Objects PROVE spec[o] \in Specs[o] /\ ever[o] \subseteq Entries
  BY SpecsType DEF Init
<1>2. ASSUME NEW o \in Objects PROVE StatusOK(o)
  BY <1>1, Empty DEF Init, StatusOK, ResolvedOK
<1>3. ASSUME NEW o \in Objects PROVE RunOK(o) /\ run[o] \in Runs
  BY IdleType DEF Init, RunOK
<1>4. ever \in [Objects -> SUBSET Entries]
  BY <1>1 DEF Init
<1>5. effective \in [Objects -> Seq(Entries)] /\ view \in [Objects -> Seq(Entries) \cup {None}]
  BY Empty DEF Init
<1>6. run \in [Objects -> Runs]
  BY IdleType DEF Init
<1> QED BY <1>2, <1>3, <1>4, <1>5, <1>6, DataAssumption DEF Init, TypeInv

(* A step of a run.                                                         *)
LEMMA TypeRunStep ==
  ASSUME TypeInv, NEW o \in Objects, NEW new \in Runs, SpecifiedOK(o, new.todo), ResolvedOK(new.refs),
         run' = [run EXCEPT ![o] = new], \A x \in contexts' : x.applied \in Reads,
         UNCHANGED <<spec, exists, effective, view, data, ever>>
  PROVE  TypeInv'
<1>1. \A q \in Objects : run'[q] = IF q = o THEN new ELSE run[q]
  BY DEF TypeInv
<1>2. run' \in [Objects -> Runs]
  BY DEF TypeInv
<1>3. ASSUME NEW q \in Objects PROVE RunOK(q)'
  BY <1>1 DEF TypeInv, RunOK
<1>4. ASSUME NEW q \in Objects PROVE StatusOK(q)'
  BY DEF TypeInv, StatusOK
<1> QED BY <1>2, <1>3, <1>4 DEF TypeInv

LEMMA TypeRetry ==
  ASSUME TypeInv, NEW o \in Objects, Retry(o)
  PROVE  TypeInv'
<1>1. \A x \in contexts' : x.applied \in Reads
  BY DEF TypeInv, Retry
<1> QED BY <1>1, IdleType, TypeRunStep DEF Retry

LEMMA RunType ==
  ASSUME TypeInv, NEW o \in Objects
  PROVE  /\ run[o] \in Runs /\ run \in [Objects -> Runs]
         /\ SpecifiedOK(o, run[o].todo) /\ ResolvedOK(run[o].refs)
         /\ run[o].todo \in Seq(Entries) /\ run[o].refs \in Seq(Entries)
         /\ \A x \in contexts : x.applied \in Reads
  BY DEF TypeInv, RunOK, SpecifiedOK, ResolvedOK

(* The entry that is resolved next.                                         *)
LEMMA ConfigType ==
  ASSUME TypeInv, NEW o \in Objects, Resolving(o)
  PROVE  /\ Config(o) \in Entries
         /\ Config(o).kind \in ConfigKinds => Target(Config(o)) \in ConfigObjects
         /\ Head(run[o].todo) \in ToSet(run[o].todo)
<1>1. run[o].todo # <<>> /\ run[o].todo \in Seq(Entries)
  BY RunType DEF Resolving
<1>2. Head(run[o].todo) \in ToSet(run[o].todo) /\ Head(run[o].todo) \in Entries
  BY <1>1, TailElements
<1> QED BY <1>2, QualifiedType, RunType DEF Config, SpecifiedOK

LEMMA TypeAppendRefs ==
  ASSUME TypeInv, NEW o \in Objects, Resolving(o), NEW refs, ResolvedOK(refs), AppendRefs(o, refs)
  PROVE  TypeInv'
<1> DEFINE new == [run[o] EXCEPT !.todo = Tail(run[o].todo), !.refs = run[o].refs \o refs]
<1>1. run[o].todo # <<>> /\ run[o].todo \in Seq(Entries) /\ run[o].refs \in Seq(Entries) /\ refs \in Seq(Entries)
  BY RunType DEF Resolving, ResolvedOK
<1>2. Tail(run[o].todo) \in Seq(Entries) /\ ToSet(Tail(run[o].todo)) \subseteq ToSet(run[o].todo)
  BY <1>1, TailElements
<1>3. run[o].refs \o refs \in Seq(Entries) /\ ToSet(run[o].refs \o refs) \subseteq ToSet(run[o].refs) \cup ToSet(refs)
  BY <1>1, ConcatElements
<1>4. new \in Runs /\ new.todo = Tail(run[o].todo) /\ new.refs = run[o].refs \o refs
  BY <1>2, <1>3, RunType DEF Runs
<1>5. SpecifiedOK(o, new.todo)
  BY <1>2, <1>4, RunType DEF SpecifiedOK
<1>6. ResolvedOK(new.refs)
  BY <1>3, <1>4, RunType DEF ResolvedOK
<1>7. run' = [run EXCEPT ![o] = new]
  BY RunType DEF AppendRefs
<1> HIDE DEF new
<1> QED BY <1>4, <1>5, <1>6, <1>7, RunType, TypeRunStep DEF AppendRefs

(* What is propagated refers to secrets and config maps as well.            *)
LEMMA PropagatedResolved ==
  ASSUME NEW config \in Entries, NEW s, ResolvedOK(s)
  PROVE  ResolvedOK(Propagated(config, s))
<1>1. s \in Seq(Entries)
  BY DEF ResolvedOK
<1>2. ASSUME NEW e \in ToSet(Propagated(config, s)) PROVE Target(e) \in ConfigObjects
  <2>1. PICK q \in ToSet(s) : e = [q EXCEPT !.policy = config.policy]
    BY <1>1, <1>2, PropagatedProperties
  <2>2. q \in Entries
    BY <1>1, ElementsOf
  <2>3. Target(e) = Target(q)
    BY <2>1, <2>2 DEF Target, Entries
  <2> QED BY <2>3 DEF ResolvedOK
<1> QED BY <1>1, <1>2, PropagatedProperties DEF ResolvedOK

LEMMA TypeConfigured ==
  ASSUME TypeInv, NEW o \in Objects, NEW x, x.applied \in Reads, Configured(o, x),
         \A y \in contexts' : y.applied \in Reads, UNCHANGED <<spec, exists, effective, view, data, ever>>
  PROVE  TypeInv'
<1> DEFINE new == [run[o] EXCEPT !.pc = "report", !.read = Contents(o), !.applied = x.applied]
<1>1. new \in Runs /\ new.todo = run[o].todo /\ new.refs = run[o].refs
  BY RunType, ContentsType DEF Runs
<1>2. run' = [run EXCEPT ![o] = new]
  BY RunType DEF Configured
<1> HIDE DEF new
<1> QED BY <1>1, <1>2, RunType, TypeRunStep

LEMMA TypeReconcile ==
  ASSUME TypeInv, NEW o \in Objects, Reconcile(o)
  PROVE  TypeInv'
<1>1. CASE Begin(o)
  <2> DEFINE new == [Idle EXCEPT !.pc = "resolve", !.todo = spec[o]]
  <2>1. SpecifiedOK(o, spec[o])
    BY SpecsType DEF TypeInv, StatusOK
  <2>2. new \in Runs /\ new.todo = spec[o] /\ new.refs = <<>>
    BY <2>1, Empty DEF Runs, Idle, SpecifiedOK
  <2>3. ResolvedOK(new.refs)
    BY <2>2, Empty DEF ResolvedOK
  <2>4. run' = [run EXCEPT ![o] = new]
    BY <1>1 DEF Begin
  <2> HIDE DEF new
  <2> QED BY <1>1, <2>1, <2>2, <2>3, <2>4, RunType, TypeRunStep DEF Begin
<1>2. CASE ResolveConfig(o)
  <2>1. ResolvedOK(<<Config(o)>>)
    BY <1>2, ConfigType DEF ResolveConfig, ResolvedOK, ToSet
  <2> QED BY <1>2, <2>1, TypeAppendRefs DEF ResolveConfig
<1>3. CASE ResolveObject(o)
  <2>1. Resolving(o) /\ Config(o) \in Entries /\ Found(Config(o))
    BY <1>3, ConfigType DEF ResolveObject
  <2>2. ResolvedOK(view[Target(Config(o))])
    BY <2>1 DEF TypeInv, StatusOK, Found
  <2>3. ResolvedOK(Propagated(Config(o), view[Target(Config(o))]))
    BY <2>1, <2>2, PropagatedResolved
  <2> QED BY <1>3, <2>3, TypeAppendRefs DEF ResolveObject
<1>4. CASE ResolveFails(o) \/ ContextFails(o) \/ Fails(o)
  BY <1>4, TypeRetry DEF ResolveFails, ContextFails, Fails
<1>5. CASE ReuseContext(o)
  <2>1. PICK x \in contexts : Configured(o, x)
    BY <1>5 DEF ReuseContext
  <2> QED BY <1>5, <2>1, RunType, TypeConfigured DEF ReuseContext
<1>6. CASE CreateContext(o)
  <2> DEFINE x == [hash |-> GetObjectDataHash(o), applied |-> Contents(o)]
  <2>1. Configured(o, x) /\ \A y \in contexts' : y \in contexts \/ y = x
    BY <1>6 DEF CreateContext
  <2>2. x.applied \in Reads
    BY ContentsType
  <2> HIDE DEF x
  <2> QED BY <1>6, <2>1, <2>2, RunType, TypeConfigured DEF CreateContext
<1>7. CASE Report(o)
  <2> DEFINE refs == IF o.kind = "Deployer" THEN effective[o] ELSE run[o].refs
  <2>1. ResolvedOK(refs)
    BY RunType DEF TypeInv, StatusOK
  <2>2. /\ effective' = [effective EXCEPT ![o] = refs] /\ run' = [run EXCEPT ![o] = Idle]
        /\ UNCHANGED <<spec, exists, view, data, contexts, ever>>
    BY <1>7 DEF Report, Ends
  <2> HIDE DEF refs
  <2>3. \A q \in Objects : effective'[q] = IF q = o THEN refs ELSE effective[q]
    BY <2>2 DEF TypeInv
  <2>4. \A q \in Objects : run'[q] = IF q = o THEN Idle ELSE run[q]
    BY <2>2 DEF TypeInv
  <2>5. effective' \in [Objects -> Seq(Entries)] /\ run' \in [Objects -> Runs]
    BY <2>1, <2>2, IdleType DEF TypeInv, ResolvedOK
  <2>6. ASSUME NEW q \in Objects PROVE StatusOK(q)'
    BY <2>1, <2>2, <2>3 DEF TypeInv, StatusOK
  <2>7. ASSUME NEW q \in Objects PROVE RunOK(q)'
    BY <2>4, IdleType DEF TypeInv, RunOK
  <2> QED BY <2>2, <2>5, <2>6, <2>7 DEF TypeInv
<1> QED BY <1>1, <1>2, <1>3, <1>4, <1>5, <1>6, <1>7 DEF Reconcile, GetEffectiveConfig, GetContext

LEMMA TypeEnvironment ==
  ASSUME TypeInv, Environment \/ \E o \in Objects : Observe(o)
  PROVE  TypeInv'
<1>1. ASSUME NEW o \in Objects, Create(o) PROVE TypeInv'
  <2>1. \A q \in Objects : view'[q] = IF q = o THEN <<>> ELSE view[q]
    BY <1>1 DEF Create, TypeInv
  <2>2. <<>> # None
    BY Empty, DataAssumption
  <2>3. ASSUME NEW q \in Objects PROVE StatusOK(q)'
    BY <1>1, <2>1, <2>2, Empty DEF Create, TypeInv, StatusOK, ResolvedOK
  <2>4. ASSUME NEW q \in Objects PROVE RunOK(q)'
    BY <1>1 DEF Create, TypeInv, RunOK
  <2>5. view' \in [Objects -> Seq(Entries) \cup {None}]
    BY <1>1, Empty DEF Create, TypeInv
  <2> QED BY <1>1, <2>3, <2>4, <2>5 DEF Create, TypeInv
<1>2. ASSUME NEW o \in Objects, NEW s \in Specs[o], ChangeSpec(o, s) PROVE TypeInv'
  <2>1. spec' \in [Objects -> UNION {Specs[q] : q \in Objects}]
    BY <1>2 DEF ChangeSpec, TypeInv
  <2>2. \A q \in Objects : spec'[q] = IF q = o THEN s ELSE spec[q]
    BY <1>2 DEF ChangeSpec, TypeInv
  <2>3. ever' \in [Objects -> SUBSET Entries]
    <3>1. {Qualified(o, e) : e \in ToSet(s)} \subseteq Entries
      BY SpecsType
    <3> QED BY <1>2, <3>1 DEF ChangeSpec, TypeInv
  <2>4. ASSUME NEW q \in Objects PROVE StatusOK(q)' /\ RunOK(q)'
    BY <1>2, <2>2 DEF ChangeSpec, TypeInv, StatusOK, RunOK
  <2> QED BY <1>2, <2>1, <2>3, <2>4 DEF ChangeSpec, TypeInv
<1>3. ASSUME NEW d \in ConfigObjects, NEW content \in Data \cup {None}, ChangeData(d, content) PROVE TypeInv'
  <2>1. ASSUME NEW q \in Objects PROVE StatusOK(q)' /\ RunOK(q)'
    BY <1>3 DEF ChangeData, TypeInv, StatusOK, RunOK
  <2> QED BY <1>3, <2>1 DEF ChangeData, TypeInv
<1>4. ASSUME NEW o \in Objects, Observe(o) PROVE TypeInv'
  <2>1. \A q \in Objects : view'[q] = IF q = o THEN effective[o] ELSE view[q]
    BY <1>4 DEF Observe, TypeInv
  <2>2. effective[o] \in Seq(Entries) /\ effective[o] # None /\ o \in exists
    BY <1>4, DataAssumption DEF Observe, TypeInv
  <2>3. ASSUME NEW q \in Objects PROVE StatusOK(q)' /\ RunOK(q)'
    BY <1>4, <2>1, <2>2 DEF Observe, TypeInv, StatusOK, RunOK
  <2>4. view' \in [Objects -> Seq(Entries) \cup {None}]
    BY <1>4, <2>2 DEF Observe, TypeInv
  <2> QED BY <1>4, <2>3, <2>4 DEF Observe, TypeInv
<1> QED BY <1>1, <1>2, <1>3, <1>4 DEF Environment

(* Every step keeps the types.                                              *)
LEMMA TypeNext == TypeInv /\ [Next]_vars => TypeInv'
<1>1. ASSUME TypeInv, UNCHANGED vars PROVE TypeInv'
  <2>1. ASSUME NEW q \in Objects PROVE StatusOK(q)' /\ RunOK(q)'
    BY <1>1 DEF vars, TypeInv, StatusOK, RunOK
  <2> QED BY <1>1, <2>1 DEF vars, TypeInv
<1> QED BY <1>1, TypeReconcile, TypeEnvironment DEF Next

LEMMA TypeInvariant == Spec => []TypeInv
  BY TypeInit, TypeNext, PTL DEF Spec

(* TypeOK: GetEffectiveConfig resolves every configuration, specified or    *)
(* propagated, to a secret or config map of the namespace where it was      *)
(* specified, and every object keeps one of the policies.                   *)
THEOREM TypeCorrect == Spec => []TypeOK
<1>1. TypeInv => TypeOK
  <2> SUFFICES ASSUME TypeInv PROVE TypeOK
    OBVIOUS
  <2>1. ASSUME NEW o \in Objects, NEW e \in ToSet(effective[o]) \cup ToSet(run[o].refs)
        PROVE  Target(e) \in ConfigObjects /\ e.policy \in Policies
    <3>1. ResolvedOK(effective[o]) /\ ResolvedOK(run[o].refs)
      BY RunType DEF TypeInv, StatusOK
    <3>2. e \in Entries
      BY <3>1, ElementsOf DEF ResolvedOK
    <3> QED BY <3>1, <3>2 DEF ResolvedOK, Entries
  <2> QED BY <2>1, RunType DEF TypeInv, TypeOK, StatusOK, Runs
<1> QED BY <1>1, TypeInvariant, PTL

-----------------------------------------------------------------------------
(* Contexts                                                                 *)

LEMMA ContextInit == Init => ContextInv
  BY DEF Init, ContextInv, ContextHasData, Idle

(* A step that configures nothing.                                          *)
LEMMA ContextSame ==
  ASSUME ContextInv, UNCHANGED contexts,
         \A o \in Objects : run'[o].pc = "report" => run'[o] = run[o]
  PROVE  ContextInv'
<1>1. ASSUME NEW o \in Objects, run'[o].pc = "report" PROVE ToBag(run'[o].applied) = ToBag(run'[o].read)
  <2>1. run'[o] = run[o]
    BY <1>1
  <2> QED BY <1>1, <2>1 DEF ContextInv, ContextHasData
<1> QED BY <1>1 DEF ContextInv, ContextHasData

(* A run is given a context that has its data.                              *)
LEMMA ContextConfigured ==
  ASSUME TypeInv, ContextInv, NEW o \in Objects, NEW x, Configured(o, x),
         ToBag(x.applied) = ToBag(Contents(o)), \A y \in contexts' : y.hash = ToBag(y.applied)
  PROVE  ContextInv'
<1>1. \A q \in Objects : q # o => run'[q] = run[q]
  BY RunType DEF Configured
<1>2. run'[o].read = Contents(o) /\ run'[o].applied = x.applied
  BY RunType DEF Configured, Runs
<1>3. ASSUME NEW q \in Objects, run'[q].pc = "report" PROVE ToBag(run'[q].applied) = ToBag(run'[q].read)
  <2>1. CASE q = o
    BY <1>2, <2>1
  <2>2. CASE q # o
    <3>1. run'[q] = run[q]
      BY <1>1, <2>2
    <3> QED BY <1>3, <3>1 DEF ContextInv, ContextHasData
  <2> QED BY <2>1, <2>2
<1> QED BY <1>3 DEF ContextInv, ContextHasData

LEMMA ContextReconcile ==
  ASSUME TypeInv, ContextInv, NEW o \in Objects, Reconcile(o)
  PROVE  ContextInv'
<1>1. CASE Begin(o)
  <2>1. \A q \in Objects : run'[q].pc = "report" => run'[q] = run[q]
    BY <1>1, RunType DEF Begin, Idle
  <2> QED BY <1>1, <2>1, ContextSame DEF Begin
<1>2. CASE Resolving(o) /\ \E refs : AppendRefs(o, refs)
  <2>1. run[o].pc = "resolve" /\ UNCHANGED contexts
    BY <1>2 DEF Resolving, AppendRefs
  <2>2. PICK refs : AppendRefs(o, refs)
    BY <1>2
  <2>3. \A q \in Objects : q # o => run'[q] = run[q]
    BY <2>2, RunType DEF AppendRefs
  <2>4. run'[o].pc = "resolve"
    BY <2>1, <2>2, RunType DEF AppendRefs, Runs
  <2> QED BY <2>1, <2>3, <2>4, ContextSame
<1>3. CASE Retry(o)
  <2>1. \A q \in Objects : run'[q].pc = "report" => run'[q] = run[q]
    BY <1>3, RunType DEF Retry, Idle
  <2> QED BY <1>3, <2>1, ContextSame DEF Retry
<1>4. CASE ReuseContext(o)
  <2>1. PICK x \in contexts : x.hash = GetObjectDataHash(o) /\ Configured(o, x)
    BY <1>4 DEF ReuseContext
  <2>2. ToBag(x.applied) = ToBag(Contents(o))
    BY <2>1 DEF ContextInv, GetObjectDataHash
  <2>3. \A y \in contexts' : y.hash = ToBag(y.applied)
    BY <1>4 DEF ReuseContext, ContextInv
  <2> QED BY <2>1, <2>2, <2>3, ContextConfigured
<1>5. CASE CreateContext(o)
  <2> DEFINE x == [hash |-> GetObjectDataHash(o), applied |-> Contents(o)]
  <2>1. Configured(o, x) /\ \A y \in contexts' : y \in contexts \/ y = x
    BY <1>5 DEF CreateContext
  <2>2. x.hash = ToBag(x.applied) /\ ToBag(x.applied) = ToBag(Contents(o))
    BY DEF GetObjectDataHash
  <2> HIDE DEF x
  <2>3. \A y \in contexts' : y.hash = ToBag(y.applied)
    BY <2>1, <2>2 DEF ContextInv
  <2> QED BY <2>1, <2>2, <2>3, ContextConfigured
<1>6. CASE Report(o)
  <2>1. \A q \in Objects : run'[q].pc = "report" => run'[q] = run[q]
    BY <1>6, RunType DEF Report, Ends, Idle
  <2> QED BY <1>6, <2>1, ContextSame DEF Report, Ends
<1> QED BY <1>1, <1>2, <1>3, <1>4, <1>5, <1>6 DEF Reconcile, GetEffectiveConfig, GetContext,
          ResolveConfig, ResolveObject, ResolveFails, ContextFails, Fails

(* Every step keeps the hashes of the contexts.                             *)
LEMMA ContextNext == TypeInv /\ ContextInv /\ [Next]_vars => ContextInv'
<1> SUFFICES ASSUME TypeInv, ContextInv, [Next]_vars PROVE ContextInv'
  OBVIOUS
<1>1. ASSUME UNCHANGED <<run, contexts>> PROVE ContextInv'
  BY <1>1, ContextSame
<1>2. ASSUME Environment \/ \E o \in Objects : Observe(o) PROVE UNCHANGED <<run, contexts>>
  BY <1>2 DEF Environment, Create, ChangeSpec, ChangeData, Observe
<1> QED BY <1>1, <1>2, ContextReconcile DEF Next, vars

(* ContextHasData: the context that getOrCreateContext gives to a run was   *)
(* configured with the data that the run has read, although the secrets and *)
(* config maps change while contexts stay cached.                           *)
THEOREM ContextsHaveData == Spec => []ContextHasData
<1>1. ContextInv => ContextHasData
  BY DEF ContextInv
<1> QED BY <1>1, ContextInit, ContextNext, TypeInvariant, PTL DEF Spec

-----------------------------------------------------------------------------
(* Propagation                                                              *)

LEMMA PropagationInit == Init => PropagationInv
<1> SUFFICES ASSUME Init PROVE PropagationInv
  OBVIOUS
<1>1. \A o \in Objects : ToSet(effective[o]) = {} /\ ToSet(run[o].refs) = {} /\ ToSet(run[o].todo) = {}
  BY Empty DEF Init, Idle
<1>2. \A o \in Objects : \A e \in ToSet(spec[o]) : Qualified(o, e) \in ever[o]
  BY DEF Init
<1>3. \A o \in Objects : view[o] = None
  BY DEF Init
<1> QED BY <1>1, <1>2, <1>3 DEF PropagationInv, OnlyPropagated

(* A step of a run, which adds references that were propagated.             *)
LEMMA PropagationRunStep ==
  ASSUME TypeInv, PropagationInv, NEW o \in Objects, NEW new, run' = [run EXCEPT ![o] = new],
         \A e \in ToSet(new.todo) : Qualified(o, e) \in ever[o],
         ToSet(new.refs) \subseteq Reachable(ever)[o],
         UNCHANGED <<spec, effective, view, ever>>
  PROVE  PropagationInv'
<1>1. run'[o] = new /\ \A q \in Objects : q # o => run'[q] = run[q]
  BY RunType
<1>2. ASSUME NEW q \in Objects
      PROVE  /\ \A e \in ToSet(run'[q].todo) : Qualified(q, e) \in ever[q]
             /\ ToSet(run'[q].refs) \subseteq Reachable(ever)[q]
  <2>1. CASE q = o
    BY <1>1, <2>1
  <2>2. CASE q # o
    BY <1>1, <2>2 DEF PropagationInv, OnlyPropagated
  <2> QED BY <2>1, <2>2
<1> QED BY <1>2 DEF PropagationInv, OnlyPropagated

LEMMA PropagationRetry ==
  ASSUME TypeInv, PropagationInv, NEW o \in Objects, run' = [run EXCEPT ![o] = Idle],
         UNCHANGED <<spec, effective, view, ever>>
  PROVE  PropagationInv'
<1>1. ToSet(Idle.todo) = {} /\ ToSet(Idle.refs) = {}
  BY Empty, IdleType
<1> QED BY <1>1, PropagationRunStep

LEMMA PropagationAppend ==
  ASSUME TypeInv, PropagationInv, NEW o \in Objects, Resolving(o), NEW refs \in Seq(Entries),
         ToSet(refs) \subseteq Reachable(ever)[o], AppendRefs(o, refs)
  PROVE  PropagationInv'
<1> DEFINE new == [run[o] EXCEPT !.todo = Tail(run[o].todo), !.refs = run[o].refs \o refs]
<1>1. run[o].todo # <<>> /\ run[o].todo \in Seq(Entries) /\ run[o].refs \in Seq(Entries)
  BY RunType DEF Resolving
<1>2. new.todo = Tail(run[o].todo) /\ new.refs = run[o].refs \o refs /\ run' = [run EXCEPT ![o] = new]
  BY RunType DEF Runs, AppendRefs
<1>3. ToSet(new.todo) \subseteq ToSet(run[o].todo)
  BY <1>1, <1>2, TailElements
<1>4. ToSet(new.refs) \subseteq ToSet(run[o].refs) \cup ToSet(refs)
  BY <1>1, <1>2, ConcatElements
<1> HIDE DEF new
<1>5. \A e \in ToSet(new.todo) : Qualified(o, e) \in ever[o]
  BY <1>3 DEF PropagationInv
<1>6. ToSet(new.refs) \subseteq Reachable(ever)[o]
  BY <1>4 DEF PropagationInv, OnlyPropagated
<1> QED BY <1>2, <1>5, <1>6, PropagationRunStep DEF AppendRefs

LEMMA PropagationReconcile ==
  ASSUME TypeInv, PropagationInv, NEW o \in Objects, Reconcile(o)
  PROVE  PropagationInv'
<1>0. ever \in [Objects -> SUBSET Entries]
  BY DEF TypeInv
<1>1. CASE Begin(o)
  <2> DEFINE new == [Idle EXCEPT !.pc = "resolve", !.todo = spec[o]]
  <2>1. new.todo = spec[o] /\ ToSet(new.refs) = {} /\ run' = [run EXCEPT ![o] = new]
    BY <1>1, Empty DEF Begin, Idle
  <2> HIDE DEF new
  <2>2. \A e \in ToSet(new.todo) : Qualified(o, e) \in ever[o]
    BY <2>1 DEF PropagationInv
  <2> QED BY <1>1, <2>1, <2>2, PropagationRunStep DEF Begin
<1>2. CASE ResolveConfig(o)
  <2>1. Resolving(o) /\ Config(o) \in Entries /\ Config(o).kind \in ConfigKinds /\ Config(o) \in ever[o]
    BY <1>2, ConfigType DEF ResolveConfig, Config, PropagationInv
  <2>2. Config(o) \in Reachable(ever)[o]
    BY <1>0, <2>1, ReachableClosed
  <2>3. <<Config(o)>> \in Seq(Entries) /\ ToSet(<<Config(o)>>) \subseteq Reachable(ever)[o]
    BY <2>1, <2>2 DEF ToSet
  <2> QED BY <1>2, <2>1, <2>3, PropagationAppend DEF ResolveConfig
<1>3. CASE ResolveObject(o)
  <2>1. Resolving(o) /\ Found(Config(o)) /\ Config(o) \in Entries /\ Config(o) \in ever[o]
    BY <1>3, ConfigType DEF ResolveObject, Config, PropagationInv
  <2> DEFINE p == Target(Config(o))
             refs == Propagated(Config(o), view[p])
  <2>2. p \in Objects /\ view[p] # None /\ ToSet(view[p]) \subseteq Reachable(ever)[p]
    BY <2>1 DEF Found, PropagationInv
  <2>3. view[p] \in Seq(Entries)
    BY <2>2 DEF TypeInv
  <2>4. refs \in Seq(Entries)
    BY <2>1, <2>3, PropagatedProperties
  <2>5. ASSUME NEW e \in ToSet(refs) PROVE e \in Reachable(ever)[o]
    <3>1. PICK q \in ToSet(view[p]) : q.policy = "Propagate" /\ e = [q EXCEPT !.policy = Config(o).policy]
      BY <2>1, <2>3, <2>5, PropagatedProperties
    <3>2. q \in Reachable(ever)[p]
      BY <2>2
    <3> QED BY <1>0, <2>1, <2>2, <3>1, <3>2, ReachableClosed
  <2>6. AppendRefs(o, refs)
    BY <1>3 DEF ResolveObject
  <2> HIDE DEF refs
  <2> QED BY <2>1, <2>4, <2>5, <2>6, PropagationAppend
<1>4. CASE Retry(o)
  BY <1>4, PropagationRetry DEF Retry
<1>5. CASE (\E x : Configured(o, x)) /\ UNCHANGED <<spec, effective, view, ever>>
  <2>1. PICK x : Configured(o, x)
    BY <1>5
  <2> DEFINE new == [run[o] EXCEPT !.pc = "report", !.read = Contents(o), !.applied = x.applied]
  <2>2. new.todo = run[o].todo /\ new.refs = run[o].refs /\ run' = [run EXCEPT ![o] = new]
    BY <2>1, RunType DEF Configured, Runs
  <2> HIDE DEF new
  <2>3. /\ \A e \in ToSet(new.todo) : Qualified(o, e) \in ever[o]
        /\ ToSet(new.refs) \subseteq Reachable(ever)[o]
    BY <2>2 DEF PropagationInv, OnlyPropagated
  <2> QED BY <1>5, <2>2, <2>3, PropagationRunStep
<1>6. CASE Report(o)
  <2> DEFINE refs == IF o.kind = "Deployer" THEN effective[o] ELSE run[o].refs
  <2>1. ToSet(refs) \subseteq Reachable(ever)[o]
    BY DEF PropagationInv, OnlyPropagated
  <2>2. /\ effective' = [effective EXCEPT ![o] = refs] /\ run' = [run EXCEPT ![o] = Idle]
        /\ UNCHANGED <<spec, view, ever>>
    BY <1>6 DEF Report, Ends
  <2> HIDE DEF refs
  <2>3. effective'[o] = refs /\ \A q \in Objects : q # o => effective'[q] = effective[q]
    BY <2>2 DEF TypeInv
  <2>4. run'[o] = Idle /\ \A q \in Objects : q # o => run'[q] = run[q]
    BY <2>2, RunType
  <2>5. ASSUME NEW q \in Objects
        PROVE  /\ \A e \in ToSet(spec[q]) \cup ToSet(run'[q].todo) : Qualified(q, e) \in ever[q]
               /\ ToSet(effective'[q]) \cup ToSet(run'[q].refs) \subseteq Reachable(ever)[q]
    <3>1. CASE q = o
      <4>1. ToSet(run'[o].todo) = {} /\ ToSet(run'[o].refs) = {}
        BY <2>4, Empty, IdleType
      <4> QED BY <2>1, <2>3, <3>1, <4>1 DEF PropagationInv
    <3>2. CASE q # o
      BY <2>3, <2>4, <3>2 DEF PropagationInv, OnlyPropagated
    <3> QED BY <3>1, <3>2
  <2> QED BY <2>2, <2>5 DEF PropagationInv, OnlyPropagated
<1>7. ReuseContext(o) \/ CreateContext(o) => (\E x : Configured(o, x)) /\ UNCHANGED <<spec, effective, view, ever>>
  BY DEF ReuseContext, CreateContext
<1> QED BY <1>1, <1>2, <1>3, <1>4, <1>5, <1>6, <1>7 DEF Reconcile, GetEffectiveConfig, GetContext,
          ResolveFails, ContextFails, Fails

LEMMA PropagationChangeSpec ==
  ASSUME TypeInv, PropagationInv, NEW o \in Objects, NEW s \in Specs[o], ChangeSpec(o, s)
  PROVE  PropagationInv'
<1>1. /\ spec'[o] = s /\ \A q \in Objects : q # o => spec'[q] = spec[q]
      /\ ever'[o] = ever[o] \cup {Qualified(o, e) : e \in ToSet(s)}
      /\ \A q \in Objects : q # o => ever'[q] = ever[q]
      /\ UNCHANGED <<effective, view, run>>
  BY DEF ChangeSpec, TypeInv
<1>2. \A q \in Objects : ever[q] \subseteq ever'[q]
  BY <1>1
<1>3. \A q \in Objects : Reachable(ever)[q] \subseteq Reachable(ever')[q]
  BY <1>2, ReachableMonotone
<1>4. ASSUME NEW q \in Objects, NEW e \in ToSet(spec'[q]) \cup ToSet(run[q].todo)
      PROVE  Qualified(q, e) \in ever'[q]
  <2>1. CASE q = o /\ e \in ToSet(s)
    BY <1>1, <2>1
  <2>2. CASE e \in ToSet(spec[q]) \cup ToSet(run[q].todo)
    BY <1>2, <2>2 DEF PropagationInv
  <2> QED BY <1>1, <1>4, <2>1, <2>2
<1>5. ASSUME NEW q \in Objects, view[q] # None PROVE ToSet(view[q]) \subseteq Reachable(ever')[q]
  BY <1>3, <1>5 DEF PropagationInv
<1>6. ASSUME NEW q \in Objects PROVE ToSet(effective[q]) \cup ToSet(run[q].refs) \subseteq Reachable(ever')[q]
  BY <1>3 DEF PropagationInv, OnlyPropagated
<1> QED BY <1>1, <1>4, <1>5, <1>6 DEF PropagationInv, OnlyPropagated

(* Every step keeps it that what is reported or still shown was propagated. *)
LEMMA PropagationNext == TypeInv /\ PropagationInv /\ [Next]_vars => PropagationInv'
<1> SUFFICES ASSUME TypeInv, PropagationInv, [Next]_vars PROVE PropagationInv'
  OBVIOUS
<1>1. ASSUME UNCHANGED <<spec, effective, view, run, ever>> PROVE PropagationInv'
  BY <1>1 DEF PropagationInv, OnlyPropagated
<1>2. ASSUME NEW o \in Objects, NEW list,
             ToSet(list) \subseteq Reachable(ever)[o], view' = [view EXCEPT ![o] = list],
             UNCHANGED <<spec, effective, run, ever>>
      PROVE  PropagationInv'
  <2>1. \A q \in Objects : view'[q] = IF q = o THEN list ELSE view[q]
    BY <1>2 DEF TypeInv
  <2>2. ASSUME NEW q \in Objects, view'[q] # None PROVE ToSet(view'[q]) \subseteq Reachable(ever)[q]
    <3>1. CASE q = o
      BY <1>2, <2>1, <3>1
    <3>2. CASE q # o
      BY <2>1, <2>2, <3>2 DEF PropagationInv
    <3> QED BY <3>1, <3>2
  <2> QED BY <1>2, <2>2 DEF PropagationInv, OnlyPropagated
<1>3. ASSUME NEW o \in Objects, Create(o) PROVE PropagationInv'
  <2>1. ToSet(<<>>) \subseteq Reachable(ever)[o]
    BY Empty
  <2> QED BY <1>2, <1>3, <2>1 DEF Create
<1>4. ASSUME NEW o \in Objects, Observe(o) PROVE PropagationInv'
  BY <1>2, <1>4 DEF Observe, PropagationInv, OnlyPropagated
<1>5. ASSUME NEW d, NEW content, ChangeData(d, content) PROVE PropagationInv'
  BY <1>1, <1>5 DEF ChangeData
<1>6. CASE UNCHANGED vars
  BY <1>1, <1>6 DEF vars
<1> QED BY <1>3, <1>4, <1>5, <1>6, PropagationReconcile, PropagationChangeSpec DEF Next, Environment

(* OnlyPropagated: GetEffectiveConfig gives an object only what a chain of  *)
(* references propagates to it, whatever status it read and however         *)
(* specifications change, for references of any shape, cycles included.     *)
THEOREM ConfigurationPropagated == Spec => []OnlyPropagated
<1>1. PropagationInv => OnlyPropagated
  BY DEF PropagationInv
<1> QED BY <1>1, PropagationInit, PropagationNext, TypeInvariant, PTL DEF Spec
=============================================================================
