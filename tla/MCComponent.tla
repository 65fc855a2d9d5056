----------------------------- MODULE MCComponent -----------------------------
(* Small repositories and specifications for the model checking of Component. *)
EXTENDS Component, TLC

AllowedDown == [v \in Versions |-> IF v = 3 THEN {1} ELSE {}]

ComponentSpec(constraint, filter, policy) ==
    [constraint |-> constraint, filter |-> filter, policy |-> policy]

(* All versions, or those up to 2, under each policy, with a filter that    *)
(* matches one version.                                                     *)
EveryPolicy ==
    {ComponentSpec(c, {1}, p) : c \in {Versions, Versions \cap 1 .. 2}, p \in Policies}

(* An upgrade policy without downgrades and one that enforces them.         *)
FollowLatest ==
    {ComponentSpec(Versions, Versions, "Deny"), ComponentSpec({1}, Versions, "Enforce")}

(* Digests are only compared with each other.                               *)
DigestSymmetry == Permutations(Digests)
==============================================================================
