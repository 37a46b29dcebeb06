----------------------------- MODULE Compensation -----------------------------
(***************************************************************************)
(* PassengerCompensationService: which law a disrupted flight falls under, *)
(* what it pays, and when a claim letter is written for an incident. The   *)
(* airport and airline registries are reduced to the regions they tell     *)
(* apart; "ELSEWHERE" also stands for what they do not list. Distances are *)
(* kilometres, amounts minor units.                                        *)
(***************************************************************************)
EXTENDS Integers

CONSTANT None       \* no value

Place == {"EU", "UK", "US", "ELSEWHERE"}
Carrier == {"EU", "UK", "ELSEWHERE"}

\* The late or cancelled flight, and what the event's context says of the cause.
Disrupted == [from : Place, to : Place, carrier : Carrier, distance : Nat, delay : Nat,
              cancelled : BOOLEAN]
Cause == [fault : {"YES", "NO", "UNKNOWN"}, extraordinary : BOOLEAN]

\* qualifies_for_statutory_payment.
Qualifies(f) == f.cancelled \/ f.delay >= 180

Covers(region, f) == f.from = region \/ (f.to = region /\ f.carrier = region)

\* The European law comes first where both apply.
Law(f) ==
    CASE Covers("EU", f) -> "EU261"
      [] ~Covers("EU", f) /\ Covers("UK", f) -> "UK261"
      [] OTHER -> None

Band(f) ==
    CASE f.distance <= 1500 -> 1
      [] f.distance > 1500 /\ (f.distance <= 3500 \/ (f.from = "EU" /\ f.to = "EU")) -> 2
      [] OTHER -> 3

Amount(f) ==
    CASE Law(f) = "EU261" -> [currency |-> "EUR", units |-> <<25000, 40000, 60000>>[Band(f)]]
      [] Law(f) = "UK261" -> [currency |-> "GBP", units |-> <<22000, 35000, 52000>>[Band(f)]]

Nothing(law, ready) == [eligible |-> FALSE, law |-> law, amount |-> None, ready |-> ready]

\* assess_flight_disruption. A qualifying US flight yields a request that names no sum.
Assess(f, extraordinary) ==
    CASE Qualifies(f) /\ Law(f) # None /\ extraordinary -> Nothing(Law(f), FALSE)
      [] Qualifies(f) /\ Law(f) # None /\ ~extraordinary ->
             [eligible |-> TRUE, law |-> Law(f), amount |-> Amount(f), ready |-> TRUE]
      [] OTHER -> IF "US" \in {f.from, f.to} THEN Nothing("US_DOT", Qualifies(f))
                  ELSE Nothing(None, FALSE)

\* Mutant: only a carrier that is known not to be at fault is let off.
AssessUnlessCleared(f, cause) == Assess(f, cause.extraordinary \/ cause.fault = "NO")

\* assess_incident: without a source that blames the airline nothing is claimed.
AssessIncident(f, cause) ==
    LET a == Assess(f, cause.extraordinary \/ cause.fault = "NO") IN
    IF cause.fault = "YES" THEN a ELSE Nothing(a.law, FALSE)

\* generate_claim_letter is called, and accepts, exactly what is claim_ready.
Letter(f, cause) == AssessIncident(f, cause).ready

-----------------------------------------------------------------------------
\* The same flight later still, farther, much farther, or cancelled.
Worse(f) == {[f EXCEPT !.delay = @ + 60], [f EXCEPT !.distance = @ + 1],
             [f EXCEPT !.distance = @ + 2000], [f EXCEPT !.cancelled = TRUE]}

(***************************************************************************)
(* No claim without a cause, no sum without a law: a letter is written     *)
(* only when a source blames the airline for a disruption that qualifies,  *)
(* names a sum only under a law that covers the flight and when the cause  *)
(* was not extraordinary, and a flight that is later still, or goes        *)
(* farther under the same law, is never owed less.                         *)
(***************************************************************************)
ClaimIsSound(f, cause) ==
    LET a == AssessIncident(f, cause) IN
    /\ Letter(f, cause) => cause.fault = "YES" /\ Qualifies(f)
    /\ a.amount # None =>
           /\ Letter(f, cause) /\ a.eligible /\ ~cause.extraordinary
           /\ \E region \in {"EU", "UK"} : Covers(region, f)
           /\ \A g \in Worse(f) : /\ AssessIncident(g, cause).amount # None
                                  /\ AssessIncident(g, cause).amount.units >= a.amount.units
=============================================================================
