------------------------------ MODULE MCDelivery ------------------------------
(* Small repositories and resources for the model checking of Delivery.     *)
EXTENDS Delivery, TLC

CONSTANTS n, r1, shared, own

Sound(x) == [digest |-> x, data |-> x]

(* The data are not what the descriptor says.                               *)
Broken == [digest |-> "b", data |-> "a"]

TwoContents == {Sound("a"), Sound("b")}
ThreeContents == TwoContents \cup {Broken}

(* Version 1 is published; version 2, which refers to n, and n may be.      *)
FirstPublished == (1 :> Sound("a")) @@ (2 :> None) @@ (n :> None)
SecondRefers == (1 :> None) @@ (2 :> n) @@ (n :> None)

(* Version 1 refers to n, and both are published.                           *)
BothPublished == (1 :> Sound("a")) @@ (2 :> None) @@ (n :> Sound("b"))
FirstRefers == (1 :> n) @@ (2 :> None) @@ (n :> None)

OneDirect == r1 :> 0
OneNested == r1 :> 1

SharedKey == shared
AllShared == [r \in Resources |-> shared]
AllOwn == [r \in Resources |-> own]
==============================================================================
