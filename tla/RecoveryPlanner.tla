---------------------------- MODULE RecoveryPlanner ----------------------------
(***************************************************************************)
(* From an impact to a plan: the live quote (DuffelQuoteClient), the       *)
(* actions CanonicalRecoveryPlanner derives from the trip, the verdict of  *)
(* PolicyEngine on each, and the check of verifier.py that ends the        *)
(* recovery. Money is in minor units. What the plan's actions go through   *)
(* between the two is RecoveryWorkflow's and ActionExecutor's business.    *)
(***************************************************************************)
EXTENDS ImpactEngine, Sequences, FiniteSets

CONSTANT None       \* no value

VARIABLES
    policy,     \* AutonomyPolicy
    market,     \* what the quote service would answer, if there is one
    option,     \* selected_option
    todo,       \* action_specs not yet decided
    plan,       \* actions, by label
    spent       \* cumulative_auto_spend

planVars == <<policy, market, option, todo, plan, spent>>

Money == [currency : {"EUR", "GBP"}, units : Nat]

ASSUME NoneIsNoValue == None \notin Money
ASSUME NoneIsNoKind == None \notin {"FLIGHT", "TRANSFER", "HOTEL"}

Euro(n) == [currency |-> "EUR", units |-> n]
Offer == [price : Money, arrival : Int \cup {None}]
Option == [cost : Money, arrival : Int, reversible : BOOLEAN]
Label == {"transfer", "hotel", "calendar", "flight"}
Action == [category : {"CHANGE", "MESSAGE", "CALENDAR", "FLIGHT"}, target : Item \cup {None},
           time : Int, cost : Money, reversible : BOOLEAN, verdict : {"AUTO", "ASK"}]
Mode == {"AUTO", "ASK"}
Policy == [calendar : Mode, message : Mode, change : Mode,
           spending : BOOLEAN, limit : Nat \cup {None}]

ItemsOf(kind) == {i \in Item : trip.kind[i] = kind}

\* Mutant: the first flight instead of the last.
FirstFlight == CHOOSE i \in ItemsOf("FLIGHT") : \A j \in ItemsOf("FLIGHT") : trip.end[i] <= trip.end[j]

FinalFlight == CHOOSE i \in ItemsOf("FLIGHT") : \A j \in ItemsOf("FLIGHT") : trip.end[j] <= trip.end[i]

PlanInit ==
    /\ option = None /\ todo = <<>> /\ spent = 0
    /\ plan = [l \in {} |-> None]

-----------------------------------------------------------------------------
(* The option                                                              *)

\* The simulated option arrives 130 minutes after the flight it replaces; the
\* canonical demo trip has the same hour as a literal.
Simulated == [cost |-> Euro(3400), arrival |-> trip.end[FinalFlight] + 130, reversible |-> TRUE]

\* _select_offer: the cheapest; it is an error when it says no arrival.
Cheapest(o) == o \in market.offers /\ \A p \in market.offers : o.price.units <= p.price.units

Refuse == stage' = "refused" /\ UNCHANGED <<option, todo>>

Choose(o) ==
    /\ stage' = "planning"
    /\ option' = o
    /\ todo' = (IF ItemsOf("TRANSFER") = {} THEN <<>> ELSE <<"transfer">>)
               \o (IF ItemsOf("HOTEL") = {} THEN <<>> ELSE <<"hotel">>)
               \o <<"calendar", "flight">>

\* create_plan and the quote client refuse a connection that holds, and without
\* a quote two flights are needed.
NothingToRecover ==
    /\ stage = "assessed"
    /\ impact.feasible \/ (~market.live /\ Cardinality(ItemsOf("FLIGHT")) < 2)
    /\ Refuse

Simulate ==
    /\ stage = "assessed" /\ ~impact.feasible /\ ~market.live
    /\ Cardinality(ItemsOf("FLIGHT")) >= 2
    /\ Choose(Simulated)

\* A live offer is never called reversible.
Quote(o) ==
    /\ stage = "assessed" /\ ~impact.feasible /\ market.live
    /\ Cheapest(o) /\ o.arrival # None
    /\ Choose([cost |-> o.price, arrival |-> o.arrival, reversible |-> FALSE])

\* An unavailable service is an error, never a simulated flight.
NoQuote ==
    /\ stage = "assessed" /\ ~impact.feasible /\ market.live
    /\ market.offers = {} \/ \E o \in market.offers : Cheapest(o) /\ o.arrival = None
    /\ Refuse

-----------------------------------------------------------------------------
(* The actions and their verdicts                                          *)

Category(l) ==
    CASE l = "transfer" -> "CHANGE"
      [] l = "hotel" -> IF trip.canonical /\ ~market.live THEN "CHANGE" ELSE "MESSAGE"
      [] l = "calendar" -> "CALENDAR"
      [] l = "flight" -> "FLIGHT"

Target(l) ==
    CASE l = "transfer" -> CHOOSE i \in ItemsOf("TRANSFER") : TRUE
      [] l = "hotel" -> CHOOSE i \in ItemsOf("HOTEL") : TRUE
      [] l = "calendar" -> None
      [] l = "flight" -> FinalFlight

\* Mutant: the pickup follows the late flight instead of the replacement.
TimeOfLateFlight(l) == IF l = "transfer" THEN event.arrival + 20 ELSE option.arrival

\* desired_state: when the transfer picks up, the hotel expects, the traveler arrives.
Time(l) == IF l = "transfer" THEN option.arrival + 20 ELSE option.arrival

Cost(l) == IF l = "flight" THEN option.cost ELSE Euro(0)
Reversible(l) == l = "flight" => option.reversible

\* _remaining_spend: None without a limit and for a currency it does not cover.
Remaining(cost) ==
    IF policy.limit = None \/ cost.currency # "EUR" THEN None ELSE policy.limit - spent

MaySpend(cost) ==
    cost.units > 0 =>
        /\ policy.spending
        /\ Remaining(cost) # None
        /\ cost.units <= Remaining(cost)

\* decide. The planner passes no penalty, ambiguity or major_change_reasons, so
\* those three rules never have a reason to ask.
Verdict(l) ==
    IF /\ Reversible(l)
       /\ Category(l) = "CALENDAR" => policy.calendar = "AUTO"
       /\ Category(l) = "MESSAGE" => policy.message = "AUTO"
       /\ Category(l) = "CHANGE" => policy.change = "AUTO"
       /\ MaySpend(Cost(l))
    THEN "AUTO" ELSE "ASK"

Decide ==
    /\ stage = "planning" /\ todo # <<>>
    /\ LET l == Head(todo) IN
       /\ plan' = [k \in DOMAIN plan \cup {l} |->
              IF k # l THEN plan[k]
              ELSE [category |-> Category(l), target |-> Target(l), time |-> Time(l),
                    cost |-> Cost(l), reversible |-> Reversible(l), verdict |-> Verdict(l)]]
       /\ spent' = spent + IF Verdict(l) = "AUTO" THEN Cost(l).units ELSE 0
    /\ todo' = Tail(todo)
    /\ UNCHANGED <<option, stage>>

CommitPlan ==
    /\ stage = "planning" /\ todo = <<>>
    /\ stage' = "planned"
    /\ UNCHANGED <<option, todo, plan, spent>>

PlanStep ==
    /\ \/ (NothingToRecover \/ NoQuote \/ Simulate \/ \E o \in market.offers : Quote(o))
          /\ UNCHANGED <<plan, spent>>
       \/ Decide
       \/ CommitPlan
    /\ UNCHANGED <<trip, event, pending, seen, touched, impact, policy, market>>

-----------------------------------------------------------------------------
(* The verifier                                                            *)

Asked == {l \in DOMAIN plan : plan[l].verdict = "ASK"}

\* deterministic_itinerary_conflicts.
InTime(l) ==
    LET arrival == plan["flight"].time IN
    CASE l \in {"transfer", "hotel"} -> plan[l].time >= arrival
      [] OTHER -> plan[l].time = arrival

\* can_mark_recovered, once the actions in done are VERIFIED and the current
\* approval, if there is one, has the scope approved.
CanMarkRecovered(done, approved) ==
    /\ "flight" \in DOMAIN plan
    /\ DOMAIN plan \subseteq done
    /\ Asked # {} => approved # {} /\ Asked \subseteq approved
    /\ \A l \in DOMAIN plan : InTime(l)

-----------------------------------------------------------------------------
PlanTypeOK ==
    /\ policy \in Policy
    /\ market.live \in BOOLEAN /\ market.offers \subseteq Offer
    /\ option \in Option \cup {None}
    /\ \A l \in DOMAIN plan : l \in Label /\ plan[l] \in Action
    /\ todo \in Seq(Label) /\ \A k \in 1..Len(todo) : todo[k] \notin DOMAIN plan
    /\ spent \in Nat

(***************************************************************************)
(* A committed plan can end in RECOVERED, and only in the right way: with  *)
(* every action verified and what was asked approved the verifier accepts  *)
(* it, so that the planner's times and the verifier's agree; with an       *)
(* action missing or without the approval it does not.                     *)
(***************************************************************************)
PlanIsVerifiable ==
    stage = "planned" =>
        /\ CanMarkRecovered(DOMAIN plan, Asked)
        /\ \A done, approved \in SUBSET DOMAIN plan :
               CanMarkRecovered(done, approved) => done = DOMAIN plan /\ Asked \subseteq approved

(***************************************************************************)
(* A plan moves only what the impact engine found affected: the flight it  *)
(* replaces, the transfer and the hotel it moves all depend on the missed  *)
(* connection, though the planner picks them from the trip by their kind   *)
(* and never looks at the affected items.                                  *)
(***************************************************************************)
PlanMovesOnlyAffected ==
    stage = "planned" => {plan[l].target : l \in DOMAIN plan} \ {None} \subseteq impact.items

(***************************************************************************)
(* docs/hackathon-build/prd.md:70: "`RECOVERED` is impossible while any    *)
(* required action, approval, or itinerary conflict remains unresolved".   *)
(* A plan the verifier accepts replaces each flight that was missed.       *)
(***************************************************************************)
RecoveredTripConnects ==
    stage = "planned" /\ CanMarkRecovered(DOMAIN plan, Asked) =>
        \A d \in Violated : trip.kind[d.to] = "FLIGHT" => plan["flight"].target = d.to
=============================================================================
