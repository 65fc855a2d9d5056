--------------------------- MODULE MCConfiguration ---------------------------
(* Small sets of objects for the model checking of Configuration.           *)
EXTENDS Configuration

CONSTANTS d1, d2

Identity(kind, ns, name) == [kind |-> kind, namespace |-> ns, name |-> name]

Repository == Identity("Repository", "a", "repo")
Component  == Identity("Component", "a", "comp")
Resource   == Identity("Resource", "b", "res")
Secret     == Identity("Secret", "a", "s")
ConfigMap  == Identity("ConfigMap", "a", "m")

Entry(kind, ns, name, policy) ==
    [kind |-> kind, namespace |-> ns, name |-> name, policy |-> policy]

Own(policy)   == Entry("Secret", "", "s", policy)
Map(ns)       == Entry("ConfigMap", ns, "m", "Propagate")
Repo(policy)  == Entry("Repository", "a", "repo", policy)
Comp(policy)  == Entry("Component", "a", "comp", policy)

TwoConfigs == {Secret, ConfigMap}
SameData == [d \in TwoConfigs |-> d1]
Chain == {Repository, Component, Resource}
ChainSpecs ==
    Repository :> {<<Own("Propagate"), Map("")>>, <<Own("DoNotPropagate")>>} @@
    Component  :> {<<Repo("Propagate")>>, <<Map(""), Repo("DoNotPropagate")>>} @@
    Resource   :> {<<Comp("Propagate")>>}

(* The same configurations in two orders, with different data.              *)
Pair == {Repository, Component}
DifferentData == Secret :> d1 @@ ConfigMap :> d2
PairSpecs ==
    Repository :> {<<Own("Propagate"), Map("")>>} @@
    Component  :> {<<Map(""), Own("Propagate")>>}
==============================================================================
