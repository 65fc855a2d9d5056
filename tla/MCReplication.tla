---------------------------- MODULE MCReplication ----------------------------
(* Small sets for the model checking of Replication.                        *)
EXTENDS Replication

TwoItems == {"v1", "v2"}
TwoErrors == {"e1", "e2"}
(* Histories are switched on and off and their length is reduced.           *)
UpToTwo == 0 .. 2
=============================================================================
