---------------------------- MODULE MCReferences ----------------------------
(* Small sets of objects for the model checking of References.              *)
EXTENDS References

Object(kind, ns, name, refNs, ref) ==
    [kind |-> kind, namespace |-> ns, name |-> name, refNamespace |-> refNs, refName |-> ref]

Repository == Object("Repository", "a", "repo", "", "")
Component  == Object("Component", "a", "comp", "", "repo")
Resource   == Object("Resource", "a", "res", "", "comp")
Unqualified == Object("Deployer", "a", "dep", "", "res")

None == {}
TwoLinks == {Repository, Component}
ThreeLinks == {Repository, Component, Resource}
UnqualifiedLink == {Resource, Unqualified}
=============================================================================
