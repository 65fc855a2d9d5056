------------------------- MODULE MCInformerManager -------------------------
(* Model checking of InformerManager: the callers send at most MaxRequests  *)
(* events, which also bounds the gauge.                                     *)
EXTENDS InformerManager

CONSTANT MaxRequests

VARIABLE requests

MCInit == Init /\ requests = 0

MCNext ==
    \/ requests < MaxRequests /\ Send /\ requests' = requests + 1
    \/ System /\ UNCHANGED requests

MCSpec == MCInit /\ [][MCNext]_<<vars, requests>>

MCFairSpec == MCSpec /\ Fairness
=============================================================================
