--------------------------- MODULE MCContextCache ---------------------------
(* Model checking of ContextCache: GetSession is called at most MaxCalls    *)
(* times, which also bounds the gauges, and a key is replaced at most       *)
(* MaxReplacements times.                                                   *)
EXTENDS ContextCache

CONSTANTS MaxCalls, MaxReplacements

VARIABLES calls, replacements

MCInit == Init /\ calls = 0 /\ replacements = 0

MCNext ==
    \/ /\ calls < MaxCalls
       /\ \E c \in Reconcilers : Call(c)
       /\ calls' = calls + 1
       /\ UNCHANGED replacements
    \/ /\ replacements < MaxReplacements
       /\ ReplaceKeys
       /\ replacements' = replacements + 1
       /\ UNCHANGED calls
    \/ ((\E c \in Reconcilers : Proceed(c)) \/ Clear) /\ UNCHANGED <<calls, replacements>>

MCSpec == MCInit /\ [][MCNext]_<<vars, calls, replacements>>
=============================================================================
