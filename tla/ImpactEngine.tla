----------------------------- MODULE ImpactEngine -----------------------------
(***************************************************************************)
(* What a delay does to a trip: DeterministicImpactEngine.calculate walks  *)
(* the dependency graph from the connections the late flight misses. The   *)
(* code keeps the items still to visit in a queue, whose order decides     *)
(* only the order of the lists it returns; here it is a set. Times are     *)
(* minutes.                                                                *)
(***************************************************************************)
EXTENDS Integers

CONSTANT Item       \* identifiers of travel items

VARIABLES
    trip,       \* the stored trip
    event,      \* the disruption: the late flight and its new arrival
    pending,    \* queue
    seen,       \* seen_items, and so affected_items
    touched,    \* seen_dependencies
    impact,     \* the DeterministicImpact that is returned
    stage       \* what has been done about the event

impactVars == <<trip, event, pending, seen, touched, impact, stage>>

Dependency == [from : Item, to : Item, kind : {"CONNECTION", "FOLLOW_ON"}, buffer : Nat]
NoImpact == [feasible |-> TRUE, items |-> {}, deps |-> {}]

Outgoing(i) == {d \in trip.deps : d.from = i}
Targets(deps) == {d.to : d \in deps}
Available(d) == trip.start[d.to] - event.arrival

\* The connections of the late flight that its new arrival leaves too short.
Violated == {d \in Outgoing(event.item) : d.kind = "CONNECTION" /\ Available(d) < d.buffer}

ImpactTypeOK ==
    /\ trip.deps \subseteq Dependency
    /\ trip.start \in [Item -> Int]
    /\ event.item \in Item /\ event.arrival \in Int
    /\ pending \subseteq Item /\ seen \subseteq Item /\ touched \subseteq trip.deps
    /\ impact \in [feasible : BOOLEAN, items : SUBSET Item, deps : SUBSET trip.deps]

ImpactInit ==
    /\ pending = {} /\ seen = {} /\ touched = {}
    /\ impact = NoImpact
    /\ stage = "event"

Begin ==
    /\ stage = "event"
    /\ stage' = "walk"
    /\ pending' = Targets(Violated)
    /\ UNCHANGED <<trip, event, seen, touched, impact>>

\* Mutant: only what is directly connected is queued.
VisitHere(i) ==
    /\ stage = "walk" /\ i \in pending
    /\ seen' = seen \cup {i}
    /\ touched' = touched \cup Outgoing(i)
    /\ pending' = pending \ {i}
    /\ UNCHANGED <<trip, event, impact, stage>>

\* The code queues a target it has seen and drops it when its turn comes.
Visit(i) ==
    /\ stage = "walk" /\ i \in pending
    /\ seen' = seen \cup {i}
    /\ touched' = touched \cup Outgoing(i)
    /\ pending' = (pending \cup Targets(Outgoing(i))) \ seen'
    /\ UNCHANGED <<trip, event, impact, stage>>

Assess ==
    /\ stage = "walk" /\ pending = {}
    /\ stage' = "assessed"
    /\ impact' = [feasible |-> Violated = {}, items |-> seen, deps |-> Violated \cup touched]
    /\ UNCHANGED <<trip, event, pending, seen, touched>>

ImpactStep == Begin \/ Assess \/ \E i \in Item : Visit(i)

ImpactSpec == ImpactInit /\ ImpactTypeOK /\ [][ImpactStep]_impactVars

-----------------------------------------------------------------------------
Closed(S) == \A d \in trip.deps : d.from \in S => d.to \in S

\* Declaratively: what depends, over any number of steps, on a missed flight.
LeastClosed(S) ==
    /\ Targets(Violated) \subseteq S /\ Closed(S)
    /\ \A T \in SUBSET Item : Targets(Violated) \subseteq T /\ Closed(T) => S \subseteq T

(***************************************************************************)
(* The walk, which stops at items it has seen and takes repeated and       *)
(* cyclic dependencies as they come, reports exactly what a missed         *)
(* connection reaches: no item the delay leaves alone, none it forgets,    *)
(* and every dependency among them once. Recovery moves what is listed.    *)
(***************************************************************************)
ImpactIsExact ==
    stage \notin {"event", "walk"} =>
        /\ LeastClosed(impact.items)
        /\ impact.deps = Violated \cup {d \in trip.deps : d.from \in impact.items}
        /\ impact.feasible <=> Violated = {}

\* The inductive invariant behind it: what the queue still has to bring in.
WalkIsSound ==
    /\ stage = "event" => pending = {} /\ seen = {} /\ touched = {}
    /\ stage = "walk" =>
        /\ Targets(Violated) \subseteq seen \cup pending
        /\ \A d \in trip.deps : d.from \in seen => d.to \in seen \cup pending
        /\ touched = {d \in trip.deps : d.from \in seen}
        /\ \A T \in SUBSET Item :
               Targets(Violated) \subseteq T /\ Closed(T) => seen \cup pending \subseteq T
=============================================================================
