--------------------------- MODULE ConnectionAdvice ---------------------------
(***************************************************************************)
(* What travelers are told of a connection before it breaks: the risk and  *)
(* the hold of PredictiveShadowEngine, and the findings of the readiness   *)
(* report. Both look at the stored times, the impact engine at the delay.  *)
(* Probabilities are hundredths.                                           *)
(***************************************************************************)
EXTENDS ImpactEngine

VARIABLE hub        \* where the late flight lands: HUB_CONGESTION_INDEX

Connections == {d \in trip.deps : d.kind = "CONNECTION"}
Scheduled(d) == trip.start[d.to] - trip.end[d.from]
Delay == event.arrival - trip.end[event.item]

\* Mutant: the delay lengthens the connection.
SlackFromArrival(d, delay) == Scheduled(d) + delay - (IF d.buffer = 0 THEN 45 ELSE d.buffer)

\* effective_buffer less required_buffer, 45 where the dependency asks for none.
Slack(d, delay) == Scheduled(d) - delay - (IF d.buffer = 0 THEN 45 ELSE d.buffer)

Base(slack) ==
    CASE slack <= 0 -> 85
      [] slack \in 1..15 -> 65
      [] slack \in 16..30 -> 40
      [] OTHER -> 15

Hour(t) == (t \div 60) % 24
Peak(t) == IF Hour(t) \in 8..10 \cup 16..19 THEN 10 ELSE 0

AtMost98(p) == IF p < 98 THEN p ELSE 98

\* _calculate_connection_risk. Base and index never leave it below the floor of 5.
Risk(d, delay) == AtMost98(Base(Slack(d, delay)) + hub + Peak(trip.start[d.to]))

\* evaluate_trip_risk: connections between flights that get a hold.
Holds(delay) ==
    {d \in Connections : /\ trip.kind[d.from] = "FLIGHT" /\ trip.kind[d.to] = "FLIGHT"
                         /\ Risk(d, delay) >= 65}

\* report: what is in conflict or tight as scheduled.
Conflict(d) == d \in Connections /\ Scheduled(d) < d.buffer
Tight(d) == d \in Connections /\ ~Conflict(d) /\ Scheduled(d) < d.buffer + 30

-----------------------------------------------------------------------------
(***************************************************************************)
(* Three services judge one connection from different data, and none       *)
(* contradicts another: what the impact engine calls missed had a hold to  *)
(* promote, for the delay that was reported; a conflict of the readiness   *)
(* report is a connection that is missed with any delay; and a connection  *)
(* the report has nothing to say about needs a delay of 30 minutes to be   *)
(* missed.                                                                 *)
(***************************************************************************)
AdviceAgreesWithImpact ==
    /\ Violated \subseteq Holds(Delay)
    /\ \A d \in Connections : d.from = event.item /\ Conflict(d) => d \in Violated
    /\ \A d \in Violated : Conflict(d) \/ Tight(d) \/ Delay > 30
=============================================================================
