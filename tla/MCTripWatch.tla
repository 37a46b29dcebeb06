----------------------------- MODULE MCTripWatch -----------------------------
(***************************************************************************)
(* Instances of TripWatch for TLC: one flight watchpoint and one Search    *)
(* watchpoint, a delay that may start a recovery and news that may not.    *)
(***************************************************************************)
EXTENDS TripWatch

CONSTANTS flight, weather, delay, news, t1, t2

Watchpoint == {flight, weather}
Reported == {delay, news}
AboutWhat == [f \in Reported |-> IF f = delay THEN flight ELSE weather]
\* One tick over both watchpoints with a fault, or two over one without.
SmallInit ==
    /\ Init
    /\ tick[t1] = Idle
    /\ \/ watches = Watch /\ tick[t2] = Off
       \/ Cardinality(watches) = 1 /\ tick[t2] = Idle /\ faults = MaxFaults
SmallSpec == SmallInit /\ [][Next]_vars /\ Fairness
=============================================================================
