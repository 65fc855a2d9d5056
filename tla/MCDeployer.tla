----------------------------- MODULE MCDeployer -----------------------------
(* Manifests for the model checking of Deployer.                            *)
EXTENDS Deployer

CONSTANTS p1, g1, n1, n2, d1, d2

ConfigMap(ns) == [parent |-> p1, gvk |-> g1, namespace |-> ns]

OneObject == d1 :> <<ConfigMap(n1)>>
TwoObjects == d1 :> <<ConfigMap(n1), ConfigMap(n2)>>
SharedKind == d1 :> <<ConfigMap(n1)>> @@ d2 :> <<ConfigMap(n1)>>

(* Identities are interchangeable; no liveness property is checked with it. *)
Symmetric == Permutations(Informers) \cup Permutations(Registrations)
=============================================================================
