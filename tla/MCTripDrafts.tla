---------------------------- MODULE MCTripDrafts ----------------------------
(***************************************************************************)
(* Instances of TripDrafts for TLC.                                        *)
(***************************************************************************)
EXTENDS TripDrafts, TLC

CONSTANTS r1, r2, a, b, x

Requests == Permutations(Request)
=============================================================================
