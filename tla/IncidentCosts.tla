----------------------------- MODULE IncidentCosts -----------------------------
(***************************************************************************)
(* One disruption of one trip from its impact to its costs: the trip is    *)
(* built as the intake or the demo builds it, ImpactEngine walks it,       *)
(* RecoveryPlanner plans, TripCosts books what the recovery came to. What  *)
(* ConnectionAdvice and Compensation say of the same disruption depends on *)
(* stored data only and can be asked for in every state.                   *)
(***************************************************************************)
EXTENDS TripCosts, ConnectionAdvice

CONSTANT Case       \* the disruptions looked at

C == INSTANCE Compensation

VARIABLES
    route,      \* the late flight's route and carrier
    cause       \* what the event says of the cause

vars == <<impactVars, planVars, costVars, hub, route, cause>>

-----------------------------------------------------------------------------
(* Trips that exist                                                        *)

Flights == <<"f1", "f2", "f3", "f4">>
Late(item, arrival) == [item |-> item, arrival |-> arrival]

\* TripIntakeService.build_trip: n flights of two hours with the same time between
\* them, each connected to the next, and a hotel that follows on the last.
Imported(n, first, gap, buffer, hotel) ==
    LET leg(i) == CHOOSE k \in 1..4 : Flights[k] = i
        flown == {Flights[k] : k \in 1..n}
        departs(k) == first + (k - 1) * (120 + gap) IN
    [kind |-> [i \in Item |-> IF i \in flown THEN "FLIGHT"
                              ELSE IF hotel /\ i = "hotel" THEN "HOTEL" ELSE None],
     start |-> [i \in Item |-> IF i \in flown THEN departs(leg(i)) ELSE departs(n) + 180],
     end |-> [i \in Item |-> IF i \in flown THEN departs(leg(i)) + 120 ELSE departs(n) + 1080],
     deps |-> {[from |-> Flights[k], to |-> Flights[k + 1], kind |-> "CONNECTION",
                buffer |-> buffer] : k \in 1..n - 1}
              \cup {[from |-> Flights[n], to |-> "hotel", kind |-> "FOLLOW_ON",
                     buffer |-> 0] : h \in {hotel} \cap {TRUE}},
     demo |-> FALSE, canonical |-> FALSE]

\* build_demo_trip, and with demo the traveler's own copy of it.
Demo(demo) ==
    [kind |-> [i \in Item |-> CASE i \in {"f1", "f2"} -> "FLIGHT"
                                [] i = "transfer" -> "TRANSFER"
                                [] i = "hotel" -> "HOTEL"
                                [] OTHER -> None],
     start |-> [i \in Item |-> CASE i = "f1" -> 990 [] i = "f2" -> 1135
                                 [] i = "transfer" -> 1280 [] OTHER -> 1335],
     end |-> [i \in Item |-> CASE i = "f1" -> 1080 [] i = "f2" -> 1265
                               [] i = "transfer" -> 1320 [] OTHER -> 1350],
     deps |-> {[from |-> "f1", to |-> "f2", kind |-> "CONNECTION", buffer |-> 45],
               [from |-> "f2", to |-> "transfer", kind |-> "FOLLOW_ON", buffer |-> 15],
               [from |-> "transfer", to |-> "hotel", kind |-> "FOLLOW_ON", buffer |-> 15]},
     demo |-> demo, canonical |-> ~demo]

\* What the code validates of any trip it stores: flights that follow one another
\* and come first, each item depending on the one before it.
Chained(t) ==
    LET booked == {i \in Item : t.kind[i] # None} IN
    /\ \A i, j \in booked :
           /\ i # j => t.start[i] # t.start[j]
           /\ t.start[i] < t.start[j] =>
                  /\ t.end[i] <= t.start[j]
                  /\ t.kind[j] = "FLIGHT" => t.kind[i] = "FLIGHT"
                  /\ \/ \E d \in t.deps : d.from = i /\ d.to = j
                     \/ \E k \in booked : t.start[i] < t.start[k] /\ t.start[k] < t.start[j]
    /\ \A i \in booked : t.kind[i] = "FLIGHT" => t.start[i] < t.end[i]

WellFormed(t) ==
    /\ t.start \in [Item -> Int] /\ t.end \in [Item -> Int]
    /\ t.deps \subseteq Dependency
    /\ \A d \in t.deps :
           d.kind = "CONNECTION" => t.kind[d.from] = "FLIGHT" /\ t.kind[d.to] = "FLIGHT"
    /\ Chained(t)

\* Only a later arrival is an event.
ASSUME CasesAreValid ==
    \A c \in Case :
        /\ WellFormed(c.trip)
        /\ c.event.item \in Item /\ c.event.arrival \in Int
        /\ c.event.arrival > c.trip.end[c.event.item]
        /\ c.policy \in Policy
        /\ c.market.live \in BOOLEAN /\ c.market.offers \subseteq Offer
        /\ c.hub \in 0..35
        /\ c.route \in [from : C!Place, to : C!Place, carrier : C!Carrier, distance : Nat,
                        cancelled : BOOLEAN]
        /\ c.cause \in C!Cause

ASSUME NoneIsNoLaw == None \notin {"EU261", "UK261"}

ASSUME ItemsAreFinite == IsFiniteSet(Item)

-----------------------------------------------------------------------------
Init ==
    /\ \E c \in Case :
           /\ trip = c.trip /\ event = c.event
           /\ policy = c.policy /\ market = c.market
           /\ hub = c.hub /\ route = c.route /\ cause = c.cause
    /\ ImpactInit /\ PlanInit /\ CostInit

Next ==
    \/ ImpactStep /\ UNCHANGED <<planVars, costVars, hub, route, cause>>
    \/ PlanStep /\ UNCHANGED <<costVars, hub, route, cause>>
    \/ /\ stage = "planned"
       /\ CostStep
       /\ UNCHANGED <<impactVars, planVars, hub, route, cause>>

Spec == Init /\ [][Next]_vars

\* The late flight as assess_incident sees it.
Disrupted ==
    [from |-> route.from, to |-> route.to, carrier |-> route.carrier,
     distance |-> route.distance, cancelled |-> route.cancelled, delay |-> Delay]

-----------------------------------------------------------------------------
TypeOK ==
    /\ ImpactTypeOK /\ PlanTypeOK /\ CostTypeOK
    /\ stage \in {"event", "walk", "assessed", "refused", "planning", "planned"}
    /\ hub \in 0..35 /\ Disrupted \in C!Disrupted /\ cause \in C!Cause

\* The claim drafted for this disruption is sound: see ClaimIsSound.
ClaimIsDue == C!ClaimIsSound(Disrupted, cause)
=============================================================================
