---------------------------- MODULE MCEventAnalysis ----------------------------
(***************************************************************************)
(* The instance of EventAnalysis for TLC: two deliveries of one event.     *)
(***************************************************************************)
EXTENDS EventAnalysis

CONSTANTS w1, w2

Deliveries == {w1, w2}
=============================================================================
