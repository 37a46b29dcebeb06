-------------------------- MODULE IncidentCosts_proofs --------------------------
(***************************************************************************)
(* Proofs about IncidentCosts and the modules it composes, for any trips   *)
(* and disruptions the code lets through, any quotes and policies, and any *)
(* number of callbacks and incidents.                                      *)
(***************************************************************************)
EXTENDS IncidentCosts, ImpactEngine_proofs, FiniteSetTheorems, SequenceTheorems

\* Of finitely many items one is first by any measure.
LEMMA FirstOf ==
  ASSUME NEW S, IsFiniteSet(S), S # {}, NEW f, \A i \in S : f[i] \in Int
  PROVE  \E i \in S : \A j \in S : f[i] <= f[j]
<1> DEFINE Below(i) == {j \in S : f[j] < f[i]}
           R == StrictSubsetOrdering(S)
           D == {Below(i) : i \in S}
<1>1. IsWellFoundedOn(R, SUBSET S)
  <2>1. FiniteSubsetsOf(S) = SUBSET S
    BY FS_FiniteSubsetsOfFinite
  <2> QED BY <2>1, FS_StrictSubsetOrderingWellFounded
<1>2. D \subseteq SUBSET S /\ D # {}
  OBVIOUS
<1>3. PICK d \in D : \A e \in D : <<e, d>> \notin R
  <2> HIDE DEF R, D
  <2> QED BY <1>1, <1>2, WFMin
<1>4. PICK i \in S : d = Below(i)
  OBVIOUS
<1>5. ASSUME NEW j \in S, f[j] < f[i] PROVE FALSE
  <2>1. Below(j) \in D /\ Below(j) \subseteq S /\ Below(i) \subseteq S
    OBVIOUS
  <2>2. Below(j) \subseteq Below(i) /\ j \in Below(i) /\ j \notin Below(j)
    BY <1>5
  <2>3. <<Below(j), d>> \in R
    BY <1>4, <2>1, <2>2 DEF StrictSubsetOrdering
  <2> QED BY <2>1, <2>3, <1>3
<1> QED BY <1>5

\* And one is last.
LEMMA LastOf ==
  ASSUME NEW S, IsFiniteSet(S), S # {}, NEW f, \A i \in S : f[i] \in Int
  PROVE  \E i \in S : \A j \in S : f[j] <= f[i]
<1> DEFINE g == [i \in S |-> 0 - f[i]]
<1>1. \A i \in S : g[i] \in Int /\ g[i] = 0 - f[i]
  OBVIOUS
<1> HIDE DEF g
<1>2. PICK i \in S : \A j \in S : g[i] <= g[j]
  BY <1>1, FirstOf
<1> QED BY <1>1, <1>2


-----------------------------------------------------------------------------
(* The inductive invariant                                                 *)

\* What is given with a disruption, and never changes.
Given ==
    /\ WellFormed(trip)
    /\ event.item \in Item /\ event.arrival \in Int
    /\ event.arrival > trip.end[event.item]
    /\ policy \in Policy
    /\ market.live \in BOOLEAN /\ market.offers \subseteq Offer
    /\ hub \in 0..35
    /\ route \in [from : C!Place, to : C!Place, carrier : C!Carrier, distance : Nat,
                  cancelled : BOOLEAN]
    /\ cause \in C!Cause

Stage == {"event", "walk", "assessed", "refused", "planning", "planned"}

Elements(s) == {s[k] : k \in 1..Len(s)}

\* What is still to be decided.
Queued == Elements(todo)

NoRepeats(s) == \A j, k \in 1..Len(s) : s[j] = s[k] => j = k

\* Before a plan there is nothing to charge or to record.
Untouched ==
    stage # "planned" => charged = {} /\ expense = {} /\ header.status = "HEALTHY"
                         /\ \A c \in Call : call[c].at = "new"

\* Planning follows a missed connection; the simulated option has a price.
OptionIsKnown ==
    /\ stage \in {"event", "walk", "assessed", "refused"} =>
           DOMAIN plan = {} /\ todo = <<>> /\ spent = 0
    /\ stage \in {"planning", "planned"} =>
           /\ ~impact.feasible /\ option \in Option
           /\ option.reversible => option.cost = Euro(3400)
    /\ stage = "planned" => todo = <<>>

\* What is queued or planned: the same four for every trip that has them.
Planned ==
    LET all == Queued \cup DOMAIN plan IN
    /\ NoRepeats(todo)
    /\ stage \in {"planning", "planned"} => {"calendar", "flight"} \subseteq all
    /\ "transfer" \in all => ItemsOf("TRANSFER") # {}
    /\ "hotel" \in all => ItemsOf("HOTEL") # {}

\* Each action as it was decided, on the budget that was left.
Decided ==
    /\ \A l \in DOMAIN plan :
           /\ plan[l].target = Target(l) /\ plan[l].time = Time(l) /\ plan[l].cost = Cost(l)
           /\ plan[l].reversible = Reversible(l)
           /\ plan[l].verdict = "AUTO" => Reversible(l)
    /\ "flight" \in DOMAIN plan /\ plan["flight"].verdict = "AUTO" =>
           /\ policy.spending /\ policy.limit \in Nat
           /\ plan["flight"].cost.units <= policy.limit
    /\ spent = IF "flight" \in DOMAIN plan /\ plan["flight"].verdict = "AUTO"
               THEN plan["flight"].cost.units ELSE 0

\* A call about to close has seen everything settled.
ReportIsCurrent ==
    \A c \in Call :
        call[c].at = "close" \/ (call[c].at = "incident" /\ ~call[c].open)
            => \A f \in FinancialItem : Settled(f)

\* A receipt is for a recovery that succeeded, and success is final.
ReceiptIsDue == \A c \in Call : call[c].at = "taxi" => incident[call[c].saw.active] = "RECOVERED"

\* What is charged was sanctioned.
ChargesAreSanctioned ==
    \A i \in charged :
        IF "flight" \in Asked THEN i \in approved
        ELSE policy.spending /\ plan["flight"].cost.units <= policy.limit

PlannerInv == PlanTypeOK /\ OptionIsKnown /\ Planned /\ Decided

CostInv ==
    /\ CostTypeOK /\ Untouched /\ ReportIsCurrent /\ ReceiptIsDue /\ ChargesAreSanctioned
    /\ ClosedIsSettled /\ ExpenseFollowsEffect

IncidentInv == Inv /\ Given /\ stage \in Stage /\ PlannerInv /\ CostInv

-----------------------------------------------------------------------------
(* What is given                                                           *)

LEMMA GivenStays ==
  ASSUME Given, UNCHANGED <<trip, event, policy, market, hub, route, cause>>
  PROVE  Given'
BY DEF Given, WellFormed, Chained

LEMMA InitGiven == Init => Given
<1> SUFFICES ASSUME Init PROVE Given
  OBVIOUS
<1>1. PICK c \in Case : /\ trip = c.trip /\ event = c.event
                        /\ policy = c.policy /\ market = c.market
                        /\ hub = c.hub /\ route = c.route /\ cause = c.cause
  BY DEF Init
<1> QED BY <1>1, CasesAreValid DEF Given

LEMMA InitImpact == Init => Inv
<1> SUFFICES ASSUME Init PROVE Inv
  OBVIOUS
<1>1. Given /\ ImpactInit
  BY InitGiven DEF Init
<1>2. ImpactTypeOK
  BY <1>1 DEF Given, WellFormed, ImpactTypeOK, ImpactInit, NoImpact
<1> QED BY <1>1, <1>2, InitInv

\* After the walk the impact stands.
LEMMA ImpactStands ==
  ASSUME Inv, stage \notin {"event", "walk"}, stage' \notin {"event", "walk"},
         UNCHANGED <<trip, event, pending, seen, touched, impact>>
  PROVE  Inv'
<1>1. /\ Violated' = Violated
      /\ Targets(Violated)' = Targets(Violated)
      /\ \A S : Closed(S)' <=> Closed(S)
  BY InputsStay DEF Targets
<1>2. ImpactTypeOK'
  BY DEF Inv, ImpactTypeOK
<1>3. WalkIsSound'
  BY DEF WalkIsSound
<1>4. ImpactIsExact'
  BY <1>1 DEF Inv, ImpactIsExact, LeastClosed
<1> QED BY <1>2, <1>3, <1>4 DEF Inv

LEMMA ImpactStepInv == Inv /\ ImpactStep => Inv'
BY BeginInv, VisitInv, AssessInv DEF ImpactStep

\* A missed connection goes to a flight, so that there is one that ends last.
LEMMA FinalFlightExists ==
  ASSUME Inv, Given, stage \notin {"event", "walk"}, ~impact.feasible
  PROVE  /\ FinalFlight \in ItemsOf("FLIGHT") /\ FinalFlight \in Item
         /\ \A j \in ItemsOf("FLIGHT") : trip.end[j] <= trip.end[FinalFlight]
<1>1. PICK d \in Violated : TRUE
  BY DEF Inv, ImpactIsExact
<1>2. d \in trip.deps /\ d.kind = "CONNECTION" /\ d.to \in Item
  BY DEF Violated, Outgoing, Given, WellFormed, Dependency
<1>3. d.to \in ItemsOf("FLIGHT")
  BY <1>2 DEF ItemsOf, Given, WellFormed
<1>4. IsFiniteSet(ItemsOf("FLIGHT"))
  BY ItemsAreFinite, FS_Subset DEF ItemsOf
<1>5. \A i \in ItemsOf("FLIGHT") : trip.end[i] \in Int
  BY DEF ItemsOf, Given, WellFormed
<1>6. \E i \in ItemsOf("FLIGHT") : \A j \in ItemsOf("FLIGHT") : trip.end[j] <= trip.end[i]
  BY <1>3, <1>4, <1>5, LastOf
<1>7. /\ FinalFlight \in ItemsOf("FLIGHT")
      /\ \A j \in ItemsOf("FLIGHT") : trip.end[j] <= trip.end[FinalFlight]
  BY <1>6 DEF FinalFlight
<1> QED BY <1>7 DEF ItemsOf

-----------------------------------------------------------------------------
(* The planner                                                             *)

LEMMA InitPlanner == Init => PlannerInv
<1> SUFFICES ASSUME Init PROVE PlannerInv
  OBVIOUS
<1>1. PlanInit /\ stage = "event" /\ Given
  BY InitGiven DEF Init, ImpactInit
<1>2. DOMAIN plan = {} /\ todo = <<>> /\ spent = 0 /\ option = None
  BY <1>1 DEF PlanInit
<1>3. PlanTypeOK
  BY <1>1, <1>2 DEF PlanTypeOK, Given
<1> QED BY <1>1, <1>2, <1>3 DEF PlannerInv, OptionIsKnown, Planned, Decided, Queued, NoRepeats,
  Elements

\* The plan does not change with what is done before or after planning.
LEMMA PlanStays ==
  ASSUME PlannerInv, UNCHANGED <<trip, event, planVars>>,
         stage' = stage \/ (stage \in {"event", "walk"} /\ stage' \in {"walk", "assessed"}),
         stage \in {"planning", "planned"} => impact' = impact
  PROVE  PlannerInv'
<1>1. /\ trip' = trip /\ event' = event /\ policy' = policy /\ market' = market
      /\ option' = option /\ todo' = todo /\ plan' = plan /\ spent' = spent
  BY DEF planVars
<1>2. PlanTypeOK'
  BY <1>1 DEF PlannerInv, PlanTypeOK
<1>3. OptionIsKnown'
  BY <1>1 DEF PlannerInv, OptionIsKnown
<1>4. Queued' = Queued /\ \A k : ItemsOf(k)' = ItemsOf(k)
  BY <1>1 DEF Queued, ItemsOf
<1>5. Planned'
  BY <1>1, <1>3, <1>4 DEF PlannerInv, Planned, OptionIsKnown
<1>6. \A l : /\ Target(l)' = Target(l) /\ Time(l)' = Time(l) /\ Cost(l)' = Cost(l)
             /\ Reversible(l)' = Reversible(l)
  BY <1>1 DEF Target, Time, Cost, Reversible, FinalFlight, ItemsOf
<1>7. Decided'
  BY <1>1, <1>6 DEF PlannerInv, Decided
<1> QED BY <1>2, <1>3, <1>5, <1>7 DEF PlannerInv

LEMMA RefuseInv ==
  ASSUME PlannerInv, Refuse, stage = "assessed",
         UNCHANGED <<trip, event, impact, policy, market, plan, spent>>
  PROVE  PlannerInv'
<1>1. stage' = "refused" /\ option' = option /\ todo' = todo
  BY DEF Refuse
<1>2. PlanTypeOK'
  BY <1>1 DEF PlannerInv, PlanTypeOK
<1>3. OptionIsKnown' /\ DOMAIN plan = {} /\ todo = <<>> /\ spent = 0
  BY <1>1 DEF PlannerInv, OptionIsKnown
<1>4. Planned' /\ Decided'
  BY <1>1, <1>3 DEF Planned, Decided, Queued, NoRepeats, Elements
<1> QED BY <1>2, <1>3, <1>4 DEF PlannerInv

\* Two lists without repeats and with nothing in common joined.
LEMMA JoinOf ==
  ASSUME NEW S, NEW s \in Seq(S), NEW t \in Seq(S), NoRepeats(s), NoRepeats(t),
         Elements(s) \cap Elements(t) = {}
  PROVE  /\ s \o t \in Seq(S) /\ NoRepeats(s \o t)
         /\ Elements(s \o t) = Elements(s) \cup Elements(t)
<1> DEFINE m == Len(s)
           n == Len(t)
           u == s \o t
<1>1. m \in Nat /\ n \in Nat
  OBVIOUS
<1>2. /\ u \in Seq(S) /\ Len(u) = m + n
      /\ \A i \in 1..m + n : u[i] = IF i <= m THEN s[i] ELSE t[i - m]
  BY ConcatProperties
<1>3. /\ \A i \in 1..m : i \in 1..m + n /\ u[i] = s[i]
      /\ \A i \in 1..n : i + m \in 1..m + n /\ u[i + m] = t[i]
  <2> HIDE DEF u, m, n
  <2>1. \A i \in 1..m : i \in 1..m + n /\ i <= m
    BY <1>1
  <2>2. \A i \in 1..n : i + m \in 1..m + n /\ ~(i + m <= m) /\ (i + m) - m = i
    BY <1>1
  <2> QED BY <1>2, <2>1, <2>2
<1>4. \A i \in 1..m + n : i \in 1..m \/ i - m \in 1..n
  <2> HIDE DEF m, n
  <2> QED BY <1>1
<1>5. /\ Elements(s) = {s[i] : i \in 1..m} /\ Elements(t) = {t[i] : i \in 1..n}
      /\ Elements(u) = {u[i] : i \in 1..m + n}
  BY <1>2 DEF Elements
<1>6. /\ \A i, j \in 1..m : s[i] = s[j] => i = j
      /\ \A i, j \in 1..n : t[i] = t[j] => i = j
  BY DEF NoRepeats
<1>7. NoRepeats(u)
  <2> HIDE DEF u, m, n
  <2> SUFFICES ASSUME NEW i \in 1..m + n, NEW j \in 1..m + n, u[i] = u[j] PROVE i = j
    BY <1>2 DEF NoRepeats
  <2>1. CASE i \in 1..m /\ j \in 1..m
    BY <1>3, <1>6, <2>1
  <2>2. CASE i - m \in 1..n /\ j - m \in 1..n
    <3>1. i - m = j - m
      BY <1>1, <1>2, <1>3, <1>6, <2>2
    <3> QED BY <1>1, <3>1
  <2>3. CASE i \in 1..m /\ j - m \in 1..n
    <3>1. u[i] \in Elements(s)
      BY <1>3, <1>5, <2>3
    <3>2. (j - m) + m = j
      BY <1>1
    <3>3. u[j] = t[j - m]
      BY <1>3, <2>3, <3>2
    <3> QED BY <1>5, <2>3, <3>1, <3>3
  <2>4. CASE i - m \in 1..n /\ j \in 1..m
    <3>1. u[j] \in Elements(s)
      BY <1>3, <1>5, <2>4
    <3>2. (i - m) + m = i
      BY <1>1
    <3>3. u[i] = t[i - m]
      BY <1>3, <2>4, <3>2
    <3> QED BY <1>5, <2>4, <3>1, <3>3
  <2> QED BY <1>4, <2>1, <2>2, <2>3, <2>4
<1>8. Elements(u) = Elements(s) \cup Elements(t)
  <2> HIDE DEF u, m, n
  <2>1. \A i \in 1..m + n : u[i] \in Elements(s) \cup Elements(t)
    <3> SUFFICES ASSUME NEW i \in 1..m + n PROVE u[i] \in Elements(s) \cup Elements(t)
      OBVIOUS
    <3>1. CASE i \in 1..m
      BY <1>3, <1>5, <3>1
    <3>2. CASE i - m \in 1..n
      <4>1. (i - m) + m = i
        BY <1>1
      <4> QED BY <1>3, <1>5, <3>2, <4>1
    <3> QED BY <1>4, <3>1, <3>2
  <2>2. /\ \A i \in 1..m : s[i] \in Elements(u)
        /\ \A i \in 1..n : t[i] \in Elements(u)
    BY <1>3, <1>5
  <2> QED BY <1>5, <2>1, <2>2
<1> QED BY <1>2, <1>7, <1>8

\* What is queued, for each kind of trip.
Actions(transfer, hotel) ==
    (IF transfer = {} THEN <<>> ELSE <<"transfer">>)
    \o (IF hotel = {} THEN <<>> ELSE <<"hotel">>)
    \o <<"calendar", "flight">>

LEMMA ActionsAre ==
  ASSUME NEW t, NEW h
  PROVE  /\ Actions(t, h) \in Seq(Label) /\ NoRepeats(Actions(t, h))
         /\ {"calendar", "flight"} \subseteq Elements(Actions(t, h))
         /\ "transfer" \in Elements(Actions(t, h)) => t # {}
         /\ "hotel" \in Elements(Actions(t, h)) => h # {}
<1> DEFINE a == IF t = {} THEN <<>> ELSE <<"transfer">>
           b == IF h = {} THEN <<>> ELSE <<"hotel">>
           c == <<"calendar", "flight">>
<1>1. /\ a \in Seq(Label) /\ NoRepeats(a)
      /\ Elements(a) = IF t = {} THEN {} ELSE {"transfer"}
  <2>1. CASE t = {}
    BY <2>1 DEF NoRepeats, Elements
  <2>2. CASE t # {}
    <3>1. a = <<"transfer">>
      BY <2>2
    <3> HIDE DEF a
    <3> QED BY <2>2, <3>1 DEF Label, NoRepeats, Elements
  <2> QED BY <2>1, <2>2
<1>2. /\ b \in Seq(Label) /\ NoRepeats(b)
      /\ Elements(b) = IF h = {} THEN {} ELSE {"hotel"}
  <2>1. CASE h = {}
    BY <2>1 DEF NoRepeats, Elements
  <2>2. CASE h # {}
    <3>1. b = <<"hotel">>
      BY <2>2
    <3> HIDE DEF b
    <3> QED BY <2>2, <3>1 DEF Label, NoRepeats, Elements
  <2> QED BY <2>1, <2>2
<1>3. c \in Seq(Label) /\ NoRepeats(c) /\ Elements(c) = {"calendar", "flight"}
  BY DEF Label, NoRepeats, Elements
<1>4. Actions(t, h) = (a \o b) \o c
  BY DEF Actions
<1> HIDE DEF a, b, c
<1>5. a \o b \in Seq(Label) /\ NoRepeats(a \o b) /\ Elements(a \o b) = Elements(a) \cup Elements(b)
  <2>1. Elements(a) \cap Elements(b) = {}
    BY <1>1, <1>2
  <2> QED BY <1>1, <1>2, <2>1, JoinOf
<1>6. /\ (a \o b) \o c \in Seq(Label) /\ NoRepeats((a \o b) \o c)
      /\ Elements((a \o b) \o c) = Elements(a) \cup Elements(b) \cup Elements(c)
  <2> DEFINE ab == a \o b
  <2>1. /\ ab \in Seq(Label) /\ NoRepeats(ab) /\ Elements(ab) = Elements(a) \cup Elements(b)
        /\ Elements(ab) \cap Elements(c) = {}
    BY <1>1, <1>2, <1>3, <1>5
  <2> HIDE DEF ab
  <2>2. /\ ab \o c \in Seq(Label) /\ NoRepeats(ab \o c)
        /\ Elements(ab \o c) = Elements(ab) \cup Elements(c)
    BY <1>3, <2>1, JoinOf
  <2> QED BY <2>1, <2>2 DEF ab
<1> QED BY <1>1, <1>2, <1>3, <1>4, <1>6

LEMMA ChooseInv ==
  ASSUME PlannerInv, stage = "assessed", ~impact.feasible,
         NEW o \in Option, o.reversible => o.cost = Euro(3400), Choose(o),
         UNCHANGED <<trip, event, impact, policy, market, plan, spent>>
  PROVE  PlannerInv'
<1>1. /\ stage' = "planning" /\ option' = o
      /\ todo' = Actions(ItemsOf("TRANSFER"), ItemsOf("HOTEL"))
  BY DEF Choose, Actions
<1>2. DOMAIN plan = {} /\ spent = 0
  BY DEF PlannerInv, OptionIsKnown
<1>3. PlanTypeOK'
  BY <1>1, <1>2, ActionsAre DEF PlannerInv, PlanTypeOK
<1>4. OptionIsKnown'
  BY <1>1 DEF OptionIsKnown
<1>5. ItemsOf("TRANSFER")' = ItemsOf("TRANSFER") /\ ItemsOf("HOTEL")' = ItemsOf("HOTEL")
  BY DEF ItemsOf
<1>6. Queued' = Elements(Actions(ItemsOf("TRANSFER"), ItemsOf("HOTEL")))
  BY <1>1 DEF Queued
<1>7. Planned'
  BY <1>1, <1>2, <1>5, <1>6, ActionsAre DEF Planned
<1>8. Decided'
  BY <1>2 DEF Decided
<1> QED BY <1>3, <1>4, <1>7, <1>8 DEF PlannerInv

\* Taking the head of a list without repeats takes it out of the list.
LEMMA TailOf ==
  ASSUME NEW S, NEW s \in Seq(S), s # <<>>, NoRepeats(s)
  PROVE  /\ Head(s) \in S /\ Tail(s) \in Seq(S) /\ NoRepeats(Tail(s))
         /\ Head(s) = s[1] /\ 1 \in 1..Len(s)
         /\ Elements(Tail(s)) = Elements(s) \ {Head(s)}
<1>1. Len(s) \in Nat /\ Len(s) >= 1 /\ Head(s) = s[1] /\ Head(s) \in S
  OBVIOUS
<1>2. /\ Tail(s) \in Seq(S) /\ Len(Tail(s)) = Len(s) - 1
      /\ \A k \in 1..Len(s) - 1 : Tail(s)[k] = s[k + 1]
  OBVIOUS
<1>3. NoRepeats(Tail(s))
  <2> SUFFICES ASSUME NEW j \in 1..Len(s) - 1, NEW k \in 1..Len(s) - 1, Tail(s)[j] = Tail(s)[k]
               PROVE  j = k
    BY <1>2 DEF NoRepeats
  <2>1. s[j + 1] = s[k + 1] /\ j + 1 \in 1..Len(s) /\ k + 1 \in 1..Len(s)
    BY <1>1, <1>2
  <2>2. j + 1 = k + 1
    BY <2>1 DEF NoRepeats
  <2> QED BY <2>2
<1>4. ASSUME NEW x \in Elements(Tail(s))
      PROVE  x \in Elements(s) \ {Head(s)}
  <2>1. PICK k \in 1..Len(s) - 1 : x = s[k + 1]
    BY <1>2 DEF Elements
  <2>2. k + 1 \in 1..Len(s) /\ 1 \in 1..Len(s) /\ k + 1 # 1
    BY <1>1
  <2>3. x # s[1]
    BY <2>1, <2>2 DEF NoRepeats
  <2> QED BY <1>1, <2>1, <2>2, <2>3 DEF Elements
<1>5. ASSUME NEW x \in Elements(s) \ {Head(s)}
      PROVE  x \in Elements(Tail(s))
  <2>1. PICK k \in 1..Len(s) : x = s[k]
    BY DEF Elements
  <2>2. k # 1
    BY <1>1, <1>5, <2>1
  <2>3. k - 1 \in 1..Len(s) - 1 /\ s[(k - 1) + 1] = x
    BY <1>1, <2>1, <2>2
  <2> QED BY <1>2, <2>3 DEF Elements
<1>6. Elements(Tail(s)) = Elements(s) \ {Head(s)}
  BY <1>4, <1>5
<1> QED BY <1>1, <1>2, <1>3, <1>6

\* The action decided is a well-formed one.
LEMMA DecidedIsTyped ==
  ASSUME Inv, Given, PlannerInv, stage = "planning", todo # <<>>
  PROVE  LET l == Head(todo) IN
         /\ l \in Label
         /\ Category(l) \in {"CHANGE", "MESSAGE", "CALENDAR", "FLIGHT"}
         /\ Target(l) \in Item \cup {None} /\ Time(l) \in Int /\ Cost(l) \in Money
         /\ Reversible(l) \in BOOLEAN /\ Verdict(l) \in {"AUTO", "ASK"}
<1> DEFINE l == Head(todo)
<1>1. l \in Label /\ l \in Queued
  <2>1. todo \in Seq(Label) /\ NoRepeats(todo)
    BY DEF PlannerInv, PlanTypeOK, Planned
  <2> QED BY <2>1, TailOf DEF Queued, Elements
<1>2. option \in Option /\ ~impact.feasible
  BY DEF PlannerInv, OptionIsKnown
<1>3. /\ l = "transfer" => ItemsOf("TRANSFER") # {}
      /\ l = "hotel" => ItemsOf("HOTEL") # {}
  BY <1>1 DEF PlannerInv, Planned
<1>4. FinalFlight \in Item
  BY <1>2, FinalFlightExists
<1> HIDE DEF l
<1>5. Category(l) \in {"CHANGE", "MESSAGE", "CALENDAR", "FLIGHT"}
  BY <1>1 DEF Category, Label
<1>6. Target(l) \in Item \cup {None}
  <2>1. ItemsOf("TRANSFER") \subseteq Item /\ ItemsOf("HOTEL") \subseteq Item
    BY DEF ItemsOf
  <2> QED BY <1>1, <1>3, <1>4, <2>1 DEF Target, Label
<1>7. Time(l) \in Int
  BY <1>2 DEF Time, Option
<1>8. Cost(l) \in Money
  BY <1>2 DEF Cost, Option, Euro, Money
<1>9. Reversible(l) \in BOOLEAN
  BY <1>2 DEF Reversible, Option
<1>10. Verdict(l) \in {"AUTO", "ASK"}
  BY DEF Verdict
<1> QED BY <1>1, <1>5, <1>6, <1>7, <1>8, <1>9, <1>10 DEF l

\* Only the flight costs anything, and what an automatic one costs is granted.
LEMMA VerdictIsGranted ==
  ASSUME Given, PlannerInv, stage = "planning", NEW l \in Label, Verdict(l) = "AUTO",
         spent = 0
  PROVE  /\ Reversible(l)
         /\ l = "flight" =>
                policy.spending /\ policy.limit \in Nat /\ Cost(l).units <= policy.limit
<1>1. Reversible(l) /\ MaySpend(Cost(l))
  BY DEF Verdict
<1>2. ASSUME l = "flight"
      PROVE  policy.spending /\ policy.limit \in Nat /\ Cost(l).units <= policy.limit
  <2>1. option.reversible /\ Cost(l) = option.cost
    BY <1>1, <1>2 DEF Reversible, Cost
  <2>2. Cost(l) = Euro(3400)
    BY <2>1 DEF PlannerInv, OptionIsKnown
  <2>3. Cost(l).units > 0
    BY <2>2 DEF Euro
  <2>4. policy.spending /\ Remaining(Cost(l)) # None /\ Cost(l).units <= Remaining(Cost(l))
    BY <1>1, <2>3 DEF MaySpend
  <2>5. policy.limit # None /\ Remaining(Cost(l)) = policy.limit - 0
    BY <2>4 DEF Remaining
  <2>6. policy.limit \in Nat
    BY <2>5 DEF Given, Policy
  <2> QED BY <2>4, <2>5, <2>6
<1> QED BY <1>1, <1>2

LEMMA DecideInv ==
  ASSUME Inv, Given, PlannerInv, Decide,
         UNCHANGED <<trip, event, impact, policy, market>>
  PROVE  PlannerInv'
<1> DEFINE l == Head(todo)
           decision == [category |-> Category(l), target |-> Target(l), time |-> Time(l),
                        cost |-> Cost(l), reversible |-> Reversible(l), verdict |-> Verdict(l)]
<1>1. /\ stage = "planning" /\ stage' = "planning" /\ todo # <<>> /\ todo' = Tail(todo)
      /\ option' = option
      /\ spent' = spent + IF Verdict(l) = "AUTO" THEN Cost(l).units ELSE 0
      /\ plan' = [k \in DOMAIN plan \cup {l} |-> IF k # l THEN plan[k] ELSE decision]
  BY DEF Decide
<1>2. /\ todo \in Seq(Label) /\ NoRepeats(todo)
      /\ \A k \in 1..Len(todo) : todo[k] \notin DOMAIN plan
  BY DEF PlannerInv, PlanTypeOK, Planned
<1>3. /\ l \in Label /\ Tail(todo) \in Seq(Label) /\ NoRepeats(Tail(todo))
      /\ l \in Queued /\ l \notin DOMAIN plan
      /\ Elements(Tail(todo)) = Queued \ {l}
  <2>1. /\ Head(todo) = todo[1] /\ 1 \in 1..Len(todo)
        /\ Elements(Tail(todo)) = Elements(todo) \ {Head(todo)}
        /\ l \in Label /\ Tail(todo) \in Seq(Label) /\ NoRepeats(Tail(todo))
    BY <1>1, <1>2, TailOf
  <2>2. l \in Queued /\ l \notin DOMAIN plan
    BY <1>2, <2>1 DEF Queued, Elements
  <2> QED BY <2>1, <2>2 DEF Queued
<1>4. decision \in Action
  <2>1. /\ Category(l) \in {"CHANGE", "MESSAGE", "CALENDAR", "FLIGHT"}
        /\ Target(l) \in Item \cup {None} /\ Time(l) \in Int /\ Cost(l) \in Money
        /\ Reversible(l) \in BOOLEAN /\ Verdict(l) \in {"AUTO", "ASK"}
    BY <1>1, DecidedIsTyped
  <2> QED BY <2>1 DEF Action
<1>5. /\ \A k : /\ Target(k)' = Target(k) /\ Time(k)' = Time(k) /\ Cost(k)' = Cost(k)
                /\ Reversible(k)' = Reversible(k)
      /\ \A k : ItemsOf(k)' = ItemsOf(k)
  BY <1>1 DEF Target, Time, Cost, Reversible, FinalFlight, ItemsOf
<1> HIDE DEF l
<1>6. /\ DOMAIN plan' = DOMAIN plan \cup {l} /\ plan'[l] = decision
      /\ \A k \in DOMAIN plan : plan'[k] = plan[k]
  <2> HIDE DEF decision
  <2> QED BY <1>1, <1>3
<1>7. spent' \in Nat
  <2>1. spent \in Nat /\ Cost(l).units \in Nat
    BY <1>4 DEF PlannerInv, PlanTypeOK, Action, Money
  <2> QED BY <1>1, <2>1
<1>8. PlanTypeOK'
  <2>1. \A k \in DOMAIN plan' : k \in Label /\ plan'[k] \in Action
    <3> HIDE DEF decision
    <3> QED BY <1>3, <1>4, <1>6 DEF PlannerInv, PlanTypeOK
  <2>2. \A k \in 1..Len(todo') : todo'[k] \notin DOMAIN plan'
    <3> SUFFICES ASSUME NEW k \in 1..Len(Tail(todo)) PROVE Tail(todo)[k] \notin DOMAIN plan'
      BY <1>1
    <3>1. Tail(todo)[k] \in Queued \ {l}
      BY <1>3 DEF Elements
    <3>2. Tail(todo)[k] \notin DOMAIN plan
      BY <1>2, <3>1 DEF Queued, Elements
    <3> QED BY <1>6, <3>1, <3>2
  <2> QED BY <1>1, <1>3, <1>7, <2>1, <2>2 DEF PlannerInv, PlanTypeOK
<1>9. OptionIsKnown'
  BY <1>1 DEF PlannerInv, OptionIsKnown
<1>10. Planned'
  <2>1. Queued' = Queued \ {l} /\ NoRepeats(todo')
    BY <1>1, <1>3 DEF Queued
  <2>2. Queued' \cup DOMAIN plan' = Queued \cup DOMAIN plan
    BY <1>3, <1>6, <2>1
  <2> QED BY <1>1, <1>5, <2>1, <2>2 DEF PlannerInv, Planned
<1>11. l # "flight" => Cost(l).units = 0
  BY DEF Cost, Euro
<1>12. l = "flight" => spent = 0
  BY <1>3 DEF PlannerInv, Decided
<1>13. \A k \in DOMAIN plan' :
           /\ plan'[k].target = Target(k) /\ plan'[k].time = Time(k) /\ plan'[k].cost = Cost(k)
           /\ plan'[k].reversible = Reversible(k)
           /\ plan'[k].verdict = "AUTO" => Reversible(k)
  <2>1. /\ decision.target = Target(l) /\ decision.time = Time(l) /\ decision.cost = Cost(l)
        /\ decision.reversible = Reversible(l)
        /\ decision.verdict = "AUTO" => Reversible(l)
    BY DEF Verdict
  <2> HIDE DEF decision
  <2> QED BY <1>6, <2>1 DEF PlannerInv, Decided
<1>14. Decided'
  <2>1. /\ \A k \in DOMAIN plan' :
               /\ plan'[k].target = Target(k)' /\ plan'[k].time = Time(k)'
               /\ plan'[k].cost = Cost(k)' /\ plan'[k].reversible = Reversible(k)'
               /\ plan'[k].verdict = "AUTO" => Reversible(k)'
    BY <1>5, <1>13
  <2>2. CASE l = "flight"
    <3>1. plan'["flight"].verdict = Verdict(l) /\ plan'["flight"].cost = Cost(l)
      BY <1>6, <2>2
    <3>2. Verdict(l) = "AUTO" => /\ policy.spending /\ policy.limit \in Nat
                                 /\ Cost(l).units <= policy.limit
      BY <1>1, <1>3, <1>12, <2>2, VerdictIsGranted
    <3>3. spent' = IF Verdict(l) = "AUTO" THEN Cost(l).units ELSE 0
      <4>1. Cost(l).units \in Nat
        BY <1>4 DEF Action, Money
      <4> QED BY <1>1, <1>12, <2>2, <4>1
    <3>4. "flight" \in DOMAIN plan'
      BY <1>6, <2>2
    <3> QED BY <2>1, <3>1, <3>2, <3>3, <3>4 DEF Decided
  <2>3. CASE l # "flight"
    <3>1. /\ "flight" \in DOMAIN plan' <=> "flight" \in DOMAIN plan
          /\ "flight" \in DOMAIN plan => plan'["flight"] = plan["flight"]
      BY <1>6, <2>3
    <3>2. spent' = spent
      BY <1>1, <1>11, <2>3 DEF PlannerInv, PlanTypeOK
    <3> QED BY <2>1, <3>1, <3>2 DEF PlannerInv, Decided
  <2> QED BY <2>2, <2>3
<1> QED BY <1>8, <1>9, <1>10, <1>14 DEF PlannerInv

LEMMA CommitPlanInv ==
  ASSUME PlannerInv, CommitPlan, UNCHANGED <<trip, event, impact, policy, market>>
  PROVE  PlannerInv'
<1>1. /\ stage = "planning" /\ stage' = "planned" /\ todo = <<>>
      /\ option' = option /\ todo' = todo /\ plan' = plan /\ spent' = spent
  BY DEF CommitPlan
<1>2. PlanTypeOK'
  BY <1>1 DEF PlannerInv, PlanTypeOK
<1>3. OptionIsKnown'
  BY <1>1 DEF PlannerInv, OptionIsKnown
<1>4. Queued' = Queued /\ \A k : ItemsOf(k)' = ItemsOf(k)
  BY <1>1 DEF Queued, ItemsOf
<1>5. Planned'
  BY <1>1, <1>4 DEF PlannerInv, Planned
<1>6. \A l : /\ Target(l)' = Target(l) /\ Time(l)' = Time(l) /\ Cost(l)' = Cost(l)
             /\ Reversible(l)' = Reversible(l)
  BY <1>1 DEF Target, Time, Cost, Reversible, FinalFlight, ItemsOf
<1>7. Decided'
  BY <1>1, <1>6 DEF PlannerInv, Decided
<1> QED BY <1>2, <1>3, <1>5, <1>7 DEF PlannerInv

LEMMA PlanStepInv ==
  ASSUME Inv, Given, PlannerInv, PlanStep
  PROVE  PlannerInv'
<1>0. UNCHANGED <<trip, event, impact, policy, market>>
  BY DEF PlanStep
<1>1. CASE (NothingToRecover \/ NoQuote) /\ UNCHANGED <<plan, spent>>
  BY <1>0, <1>1, RefuseInv DEF NothingToRecover, NoQuote
<1>2. CASE Simulate /\ UNCHANGED <<plan, spent>>
  <2>1. stage = "assessed" /\ ~impact.feasible /\ Choose(Simulated)
    BY <1>2 DEF Simulate
  <2>2. FinalFlight \in Item
    BY <2>1, FinalFlightExists
  <2>3. Simulated \in Option /\ Simulated.cost = Euro(3400)
    <3>1. trip.end[FinalFlight] + 130 \in Int
      BY <2>2 DEF Given, WellFormed
    <3> QED BY <3>1 DEF Simulated, Option, Euro, Money
  <2> QED BY <1>0, <1>2, <2>1, <2>3, ChooseInv
<1>3. CASE (\E o \in market.offers : Quote(o)) /\ UNCHANGED <<plan, spent>>
  <2>1. PICK o \in market.offers : Quote(o)
    BY <1>3
  <2> DEFINE q == [cost |-> o.price, arrival |-> o.arrival, reversible |-> FALSE]
  <2>2. stage = "assessed" /\ ~impact.feasible /\ o.arrival # None /\ Choose(q)
    BY <2>1 DEF Quote
  <2>3. o \in Offer
    BY DEF Given
  <2>4. q \in Option /\ ~q.reversible
    BY <2>2, <2>3 DEF Offer, Option
  <2> HIDE DEF q
  <2> QED BY <1>0, <1>3, <2>2, <2>4, ChooseInv
<1>4. CASE Decide
  BY <1>0, <1>4, DecideInv
<1>5. CASE CommitPlan
  BY <1>0, <1>5, CommitPlanInv
<1> QED BY <1>1, <1>2, <1>3, <1>4, <1>5 DEF PlanStep

-----------------------------------------------------------------------------
(* The callbacks                                                           *)

LEMMA InitCost == Init => CostInv
<1> SUFFICES ASSUME Init PROVE CostInv
  OBVIOUS
<1>1. /\ CostInit /\ stage = "event"
  BY DEF Init, ImpactInit
<1>2. /\ header = Stored /\ charged = {} /\ approved = {} /\ expense = {} /\ docs = {}
      /\ incident = [i \in Incident |-> IF i = 1 THEN "OPEN" ELSE None]
      /\ finance = [f \in FinancialItem |-> None]
      /\ call = [c \in Call |-> Idle]
  BY <1>1 DEF CostInit
<1>3. Stored \in Header /\ Idle \in Job
  BY IncidentsAreNumbered DEF Stored, Idle, Header, Job, Goal, At
<1>4. CostTypeOK
  BY <1>2, <1>3 DEF CostTypeOK
<1>5. ReportIsCurrent /\ ReceiptIsDue /\ Untouched
  BY <1>1, <1>2 DEF ReportIsCurrent, ReceiptIsDue, Untouched, Idle, Stored
<1>6. ClosedIsSettled /\ ExpenseFollowsEffect /\ ChargesAreSanctioned
  BY <1>1, <1>2 DEF ClosedIsSettled, ExpenseFollowsEffect, ChargesAreSanctioned, Stored
<1> QED BY <1>4, <1>5, <1>6 DEF CostInv

\* Nothing is charged before a plan is committed, and a committed plan is final.
LEMMA CostsStay ==
  ASSUME CostInv, UNCHANGED costVars, stage' = "planned" => stage # "planned" \/ UNCHANGED planVars,
         stage = "planned" => stage' = "planned"
  PROVE  CostInv'
<1>1. /\ header' = header /\ incident' = incident /\ approved' = approved /\ charged' = charged
      /\ finance' = finance /\ expense' = expense /\ docs' = docs /\ call' = call
  BY DEF costVars
<1>2. CostTypeOK'
  BY <1>1 DEF CostInv, CostTypeOK
<1>3. Untouched' /\ ReportIsCurrent' /\ ReceiptIsDue' /\ ClosedIsSettled'
  BY <1>1 DEF CostInv, Untouched, ReportIsCurrent, ReceiptIsDue, ClosedIsSettled, Settled
<1>4. ChargesAreSanctioned' /\ ExpenseFollowsEffect'
  <2>1. CASE stage # "planned"
    <3>1. charged' = {} /\ expense' = {}
      BY <1>1, <2>1 DEF CostInv, Untouched
    <3> QED BY <3>1 DEF ChargesAreSanctioned, ExpenseFollowsEffect
  <2>2. CASE stage = "planned"
    <3>1. plan' = plan /\ policy' = policy /\ Asked' = Asked
      BY <2>2 DEF planVars, Asked
    <3> QED BY <1>1, <3>1 DEF CostInv, ChargesAreSanctioned, ExpenseFollowsEffect
  <2> QED BY <2>1, <2>2
<1> QED BY <1>2, <1>3, <1>4 DEF CostInv

\* A flight that need not be asked is within what the traveler granted.
LEMMA NotAsked ==
  ASSUME PlannerInv, stage = "planned", "flight" \notin Asked
  PROVE  policy.spending /\ plan["flight"].cost.units <= policy.limit
<1>1. "flight" \in DOMAIN plan
  BY DEF PlannerInv, OptionIsKnown, Planned, Queued, Elements
<1>2. plan["flight"].verdict \in {"AUTO", "ASK"}
  BY <1>1 DEF PlannerInv, PlanTypeOK, Action
<1>3. plan["flight"].verdict = "AUTO"
  BY <1>1, <1>2 DEF Asked
<1> QED BY <1>1, <1>3 DEF PlannerInv, Decided

\* What the outcome of a recovery may do.
LEMMA OutcomeEffects ==
  ASSUME CostTypeOK, NEW i \in Incident, Outcome(i)
  PROVE  /\ header' = header /\ finance' = finance /\ docs' = docs /\ call' = call
         /\ incident' \in [Incident -> {None, "OPEN", "RECOVERED", "CANCELLED", "NEEDS_ATTENTION"}]
         /\ \A j \in Incident : incident[j] = "RECOVERED" => incident'[j] = "RECOVERED"
         /\ approved \subseteq approved' /\ approved' \subseteq Incident
         /\ charged \subseteq charged' /\ charged' \subseteq Incident
         /\ \A j \in charged' : j \in charged \/ ("flight" \in Asked => j \in approved')
         /\ \A e \in expense' :
                e \in expense \/ (/\ e = [kind |-> "flight", of |-> i] /\ i \in charged)
<1>0. /\ incident \in [Incident -> {None, "OPEN", "RECOVERED", "CANCELLED", "NEEDS_ATTENTION"}]
      /\ approved \subseteq Incident /\ charged \subseteq Incident
  BY DEF CostTypeOK
<1>1. CASE Approve(i)
  BY <1>0, <1>1 DEF Approve
<1>2. CASE Decline(i) \/ Recover(i) \/ Stall(i)
  <2>1. PICK outcome \in {"CANCELLED", "RECOVERED", "NEEDS_ATTENTION"} : End(i, outcome)
    BY <1>2 DEF Decline, Recover, Stall
  <2> QED BY <1>0, <2>1 DEF End
<1>3. CASE Resume(i)
  BY <1>0, <1>3 DEF Resume
<1>4. CASE Charge(i)
  BY <1>0, <1>4 DEF Charge
<1>5. CASE Record(i)
  BY <1>0, <1>5 DEF Record
<1> QED BY <1>1, <1>2, <1>3, <1>4, <1>5 DEF Outcome

LEMMA OutcomeInv ==
  ASSUME PlannerInv, CostInv, stage = "planned", stage' = stage, plan' = plan, policy' = policy,
         NEW i \in Incident, Outcome(i)
  PROVE  CostInv'
<1>1. /\ CostTypeOK /\ ChargesAreSanctioned /\ ExpenseFollowsEffect
      /\ ReportIsCurrent /\ ReceiptIsDue /\ ClosedIsSettled
  BY DEF CostInv
<1>2. /\ header' = header /\ finance' = finance /\ docs' = docs /\ call' = call
      /\ incident' \in [Incident -> {None, "OPEN", "RECOVERED", "CANCELLED", "NEEDS_ATTENTION"}]
      /\ \A j \in Incident : incident[j] = "RECOVERED" => incident'[j] = "RECOVERED"
      /\ approved \subseteq approved' /\ approved' \subseteq Incident
      /\ charged \subseteq charged' /\ charged' \subseteq Incident
      /\ \A j \in charged' : j \in charged \/ ("flight" \in Asked => j \in approved')
      /\ Asked' = Asked
      /\ \A e \in expense' :
             e \in expense \/ (/\ e = [kind |-> "flight", of |-> i] /\ i \in charged)
  BY <1>1, OutcomeEffects DEF Asked
<1>3. CostTypeOK'
  BY <1>1, <1>2 DEF CostTypeOK, Expense
<1>4. Untouched' /\ ReportIsCurrent' /\ ClosedIsSettled'
  BY <1>1, <1>2 DEF Untouched, ReportIsCurrent, ClosedIsSettled, Settled
<1>5. ReceiptIsDue'
  BY <1>1, <1>2 DEF ReceiptIsDue, CostTypeOK, Job, Header
<1>6. ChargesAreSanctioned'
  <2>1. "flight" \notin Asked => policy.spending /\ plan["flight"].cost.units <= policy.limit
    BY NotAsked
  <2> QED BY <1>1, <1>2, <2>1 DEF ChargesAreSanctioned
<1>7. ExpenseFollowsEffect'
  <2> SUFFICES ASSUME NEW e \in expense'
               PROVE  /\ e.kind = "flight" =>
                             /\ e.of \in charged'
                             /\ IF "flight" \in Asked THEN e.of \in approved'
                                ELSE policy.spending /\ plan["flight"].cost.units <= policy.limit
                      /\ e.kind = "taxi" => incident'[e.of] = "RECOVERED"
    BY <1>2 DEF ExpenseFollowsEffect
  <2>1. CASE e \in expense
    <3>1. e.of \in Incident
      BY <1>1, <2>1 DEF CostTypeOK, Expense
    <3> QED BY <1>1, <1>2, <2>1, <3>1 DEF ExpenseFollowsEffect
  <2>2. CASE e = [kind |-> "flight", of |-> i] /\ i \in charged
    BY <1>1, <1>2, <2>2 DEF ChargesAreSanctioned
  <2> QED BY <1>2, <2>1, <2>2
<1> QED BY <1>3, <1>4, <1>5, <1>6, <1>7 DEF CostInv

\* What each step of a callback has to show.
LEMMA CallStep ==
  ASSUME CostInv, stage = "planned", stage' = stage, plan' = plan, policy' = policy,
         approved' = approved, charged' = charged,
         NEW c \in Call, NEW j \in Job, call' = [call EXCEPT ![c] = j],
         header' \in Header, docs' \subseteq {"ticket", "hotel", "voucher"},
         header'.status = "CLOSED" =>
             header.status = "CLOSED" \/ \A f \in FinancialItem : Settled(f),
         incident' \in [Incident -> {None, "OPEN", "RECOVERED", "CANCELLED", "NEEDS_ATTENTION"}],
         \A i \in Incident : incident[i] = "RECOVERED" => incident'[i] = "RECOVERED",
         finance' \in [FinancialItem -> {None, "OPEN", "SETTLED"}],
         \A f \in FinancialItem : Settled(f) => finance'[f] = "SETTLED",
         \A e \in expense' : e \in expense
             \/ \E i \in Incident : e = [kind |-> "taxi", of |-> i] /\ incident[i] = "RECOVERED",
         j.at = "close" \/ (j.at = "incident" /\ ~j.open) => \A f \in FinancialItem : Settled(f),
         j.at = "taxi" => incident[j.saw.active] = "RECOVERED"
  PROVE  CostInv'
<1>1. /\ CostTypeOK /\ ChargesAreSanctioned /\ ExpenseFollowsEffect
      /\ ReportIsCurrent /\ ReceiptIsDue /\ ClosedIsSettled
  BY DEF CostInv
<1>2. call \in [Call -> Job] /\ expense \subseteq Expense /\ Asked' = Asked
  BY <1>1 DEF CostTypeOK, Asked
<1>3. call' \in [Call -> Job] /\ \A k \in Call : call'[k] = IF k = c THEN j ELSE call[k]
  BY <1>2
<1>4. CostTypeOK'
  <2>1. expense' \subseteq Expense
    BY <1>2 DEF Expense
  <2> QED BY <1>1, <1>3, <2>1 DEF CostTypeOK
<1>5. Untouched'
  BY DEF Untouched
<1>6. ReportIsCurrent'
  BY <1>1, <1>3 DEF ReportIsCurrent, Settled
<1>7. ReceiptIsDue'
  <2> SUFFICES ASSUME NEW k \in Call, call'[k].at = "taxi"
               PROVE  incident'[call'[k].saw.active] = "RECOVERED"
    BY DEF ReceiptIsDue
  <2>1. call'[k].saw.active \in Incident
    BY <1>3 DEF Job, Header
  <2>2. incident[call'[k].saw.active] = "RECOVERED"
    BY <1>1, <1>3 DEF ReceiptIsDue
  <2> QED BY <2>1, <2>2
<1>8. ChargesAreSanctioned'
  BY <1>1, <1>2 DEF ChargesAreSanctioned
<1>9. ClosedIsSettled'
  BY <1>1 DEF ClosedIsSettled, Settled
<1>10. ExpenseFollowsEffect'
  <2> SUFFICES ASSUME NEW e \in expense'
               PROVE  /\ e.kind = "flight" =>
                             /\ e.of \in charged
                             /\ IF "flight" \in Asked THEN e.of \in approved
                                ELSE policy.spending /\ plan["flight"].cost.units <= policy.limit
                      /\ e.kind = "taxi" => incident'[e.of] = "RECOVERED"
    BY <1>2 DEF ExpenseFollowsEffect
  <2>1. CASE e \in expense
    <3>1. e.of \in Incident
      BY <1>2, <2>1 DEF Expense
    <3> QED BY <1>1, <2>1, <3>1 DEF ExpenseFollowsEffect
  <2>2. CASE \E i \in Incident : e = [kind |-> "taxi", of |-> i] /\ incident[i] = "RECOVERED"
    BY <2>2
  <2> QED BY <2>1, <2>2
<1> QED BY <1>4, <1>5, <1>6, <1>7, <1>8, <1>9, <1>10 DEF CostInv

\* The same for the steps that only move the call on and leave what is stored.
LEMMA CallMoves ==
  ASSUME CostInv, stage = "planned", stage' = stage, plan' = plan, policy' = policy,
         NEW c \in Call, NEW j \in Job, call' = [call EXCEPT ![c] = j],
         UNCHANGED <<header, incident, approved, charged, finance, expense, docs>>,
         j.at = "close" \/ (j.at = "incident" /\ ~j.open) => \A f \in FinancialItem : Settled(f),
         j.at = "taxi" => incident[j.saw.active] = "RECOVERED"
  PROVE  CostInv'
<1>1. CostTypeOK
  BY DEF CostInv
<1>2. /\ header' \in Header /\ docs' \subseteq {"ticket", "hotel", "voucher"}
      /\ incident' \in [Incident -> {None, "OPEN", "RECOVERED", "CANCELLED", "NEEDS_ATTENTION"}]
      /\ finance' \in [FinancialItem -> {None, "OPEN", "SETTLED"}]
      /\ header' = header /\ incident' = incident /\ approved' = approved
      /\ charged' = charged /\ expense' = expense /\ finance' = finance
  BY <1>1 DEF CostTypeOK
<1>3. \A f \in FinancialItem : Settled(f) => finance'[f] = "SETTLED"
  BY <1>2 DEF Settled
<1> QED BY <1>2, <1>3, CallStep

\* Where a call goes on, and what it takes along.
LEMMA GoToAt ==
  ASSUME CostTypeOK, NEW c \in Call, NEW at \in At, GoTo(c, at)
  PROVE  LET j == [call[c] EXCEPT !.at = at] IN
         /\ call' = [call EXCEPT ![c] = j] /\ j \in Job
         /\ j.at = at /\ j.open = call[c].open /\ j.saw = call[c].saw
<1>1. call \in [Call -> Job]
  BY DEF CostTypeOK
<1>2. call[c] \in Job
  BY <1>1
<1> DEFINE j == [call[c] EXCEPT !.at = at]
<1>3. call' = [call EXCEPT ![c] = j]
  BY DEF GoTo
<1>4. j \in Job /\ j.at = at /\ j.open = call[c].open /\ j.saw = call[c].saw
  BY <1>2 DEF Job
<1> QED BY <1>3, <1>4

LEMMA ReceiveInv ==
  ASSUME CostInv, stage = "planned", stage' = stage, plan' = plan, policy' = policy,
         NEW c \in Call, NEW goal \in Goal, Receive(c, goal)
  PROVE  CostInv'
<1> DEFINE at == CASE goal \in {"closeout", "settle"} -> "seed"
                   [] goal = "expense" -> "receipt"
                   [] goal = "voucher" -> "add"
                   [] goal = "trigger" -> "event"
           j == [call[c] EXCEPT !.goal = goal, !.left = FinancialItem, !.at = at]
<1>1. CostTypeOK
  BY DEF CostInv
<1>2. call[c] \in Job
  BY <1>1 DEF CostTypeOK
<1>3. at \in At \ {"close", "incident", "taxi"}
  BY DEF At, Goal
<1>4. call' = [call EXCEPT ![c] = j]
  <2>1. call' = [call EXCEPT ![c].goal = goal, ![c].left = FinancialItem, ![c].at = at]
    BY Zenon DEF Receive
  <2> HIDE DEF at
  <2> QED BY <2>1
<1> HIDE DEF at
<1>5. j \in Job /\ j.at = at
  BY <1>2, <1>3 DEF Job
<1>6. /\ docs' \subseteq {"ticket", "hotel", "voucher"}
      /\ UNCHANGED <<header, incident, approved, charged, finance, expense>>
  BY <1>1 DEF CostTypeOK, Receive
<1> HIDE DEF j
<1>7. \A f \in FinancialItem : Settled(f) => finance'[f] = "SETTLED"
  BY <1>6 DEF Settled
<1> QED BY <1>1, <1>3, <1>4, <1>5, <1>6, <1>7, CallStep DEF CostTypeOK

LEMMA SeedInv ==
  ASSUME CostInv, stage = "planned", stage' = stage, plan' = plan, policy' = policy,
         NEW c \in Call, NEW f \in FinancialItem, Seed(c, f) \/ Settle(c, f)
  PROVE  CostInv'
<1> DEFINE j == [call[c] EXCEPT !.left = call[c].left \ {f}]
<1>1. CostTypeOK
  BY DEF CostInv
<1>2. call[c] \in Job
  BY <1>1 DEF CostTypeOK
<1>3. call' = [call EXCEPT ![c] = j]
  BY DEF Seed, Settle
<1>4. /\ call[c].at \in {"seed", "settle"}
      /\ UNCHANGED <<header, incident, approved, charged, expense, docs>>
  BY DEF Seed, Settle, From
<1>5. j \in Job /\ j.at = call[c].at
  BY <1>2 DEF Job
<1>6. /\ finance' \in [FinancialItem -> {None, "OPEN", "SETTLED"}]
      /\ \A g \in FinancialItem : Settled(g) => finance'[g] = "SETTLED"
  <2>1. finance \in [FinancialItem -> {None, "OPEN", "SETTLED"}]
    BY <1>1 DEF CostTypeOK
  <2>2. \/ finance' = [finance EXCEPT ![f] = IF finance[f] = None THEN "OPEN" ELSE finance[f]]
        \/ finance' = [finance EXCEPT ![f] = "SETTLED"]
    BY DEF Seed, Settle
  <2> QED BY <2>1, <2>2, NoneIsNoStatus DEF Settled
<1> HIDE DEF j
<1> QED BY <1>1, <1>3, <1>4, <1>5, <1>6, CallStep DEF CostTypeOK

LEMMA ReadInv ==
  ASSUME CostInv, stage = "planned", stage' = stage, plan' = plan, policy' = policy,
         NEW c \in Call, ListItems(c) \/ ReadTrip(c) \/ ReadItems(c)
  PROVE  CostInv'
<1>1. CostTypeOK
  BY DEF CostInv
<1>2. call[c] \in Job /\ header \in Header
  BY <1>1 DEF CostTypeOK
<1>3. UNCHANGED <<header, incident, approved, charged, finance, expense, docs>>
  BY DEF ListItems, ReadTrip, ReadItems
<1>4. CASE ListItems(c)
  <2> DEFINE j == [call[c] EXCEPT !.at = "settle", !.left = {f \in FinancialItem : ~Settled(f)}]
  <2>1. call' = [call EXCEPT ![c] = j]
    BY <1>4 DEF ListItems
  <2>2. j \in Job /\ j.at = "settle"
    BY <1>2 DEF Job, At
  <2> HIDE DEF j
  <2> QED BY <1>3, <2>1, <2>2, CallMoves
<1>5. CASE ReadTrip(c)
  <2>1. PICK next \in {<<"trip", "items">>, <<"receipt", "check">>} :
            call' = [call EXCEPT ![c].at = next[2], ![c].saw = header]
    BY <1>5 DEF ReadTrip
  <2> DEFINE j == [call[c] EXCEPT !.at = next[2], !.saw = header]
  <2>2. next[2] \in {"items", "check"}
    BY <2>1
  <2>3. call' = [call EXCEPT ![c] = j]
    BY <2>1
  <2>4. j \in Job /\ j.at \in {"items", "check"}
    BY <1>2, <2>2 DEF Job, At
  <2> HIDE DEF j
  <2> QED BY <1>3, <2>3, <2>4, CallMoves
<1>6. CASE ReadItems(c)
  <2> DEFINE blocked == \E f \in FinancialItem : ~Settled(f)
             j == [call[c] EXCEPT !.at = "incident", !.open = blocked]
  <2>1. call' = [call EXCEPT ![c] = j]
    BY <1>6 DEF ReadItems
  <2>2. blocked \in BOOLEAN
    OBVIOUS
  <2>3. j \in Job /\ j.at = "incident" /\ j.open = blocked
    <3> HIDE DEF blocked
    <3> QED BY <1>2, <2>2 DEF Job, At
  <2>4. ~blocked => \A f \in FinancialItem : Settled(f)
    OBVIOUS
  <2> HIDE DEF j, blocked
  <2> QED BY <1>3, <2>1, <2>3, <2>4, CallMoves
<1> QED BY <1>4, <1>5, <1>6

\* A trip closes only when the call that closes it saw every item settled.
LEMMA MoveInv ==
  ASSUME CostInv, stage = "planned", stage' = stage, plan' = plan, policy' = policy,
         NEW c \in Call,
         Seeded(c) \/ AllSettled(c) \/ ReadIncident(c) \/ CheckIncident(c) \/ Crash(c)
  PROVE  CostInv'
<1>1. CostTypeOK /\ ReportIsCurrent
  BY DEF CostInv
<1>2. UNCHANGED <<header, incident, approved, charged, finance, expense, docs>>
  BY DEF Seeded, AllSettled, ReadIncident, CheckIncident, Crash
<1>3. \E at \in At :
          /\ GoTo(c, at)
          /\ at # "incident"
          /\ at = "close" => call[c].at = "incident" /\ ~call[c].open
          /\ at = "taxi" => incident[call[c].saw.active] = "RECOVERED"
  BY DEF Seeded, AllSettled, ReadIncident, CheckIncident, Crash, From, At
<1>4. PICK at \in At :
          /\ GoTo(c, at)
          /\ at # "incident"
          /\ at = "close" => call[c].at = "incident" /\ ~call[c].open
          /\ at = "taxi" => incident[call[c].saw.active] = "RECOVERED"
  BY <1>3
<1> DEFINE j == [call[c] EXCEPT !.at = at]
<1>5. /\ call' = [call EXCEPT ![c] = j] /\ j \in Job
      /\ j.at = at /\ j.open = call[c].open /\ j.saw = call[c].saw
  BY <1>1, <1>4, GoToAt
<1> HIDE DEF j
<1>6. j.at = "close" => \A f \in FinancialItem : Settled(f)
  BY <1>1, <1>4, <1>5 DEF ReportIsCurrent
<1> QED BY <1>2, <1>4, <1>5, <1>6, CallMoves

\* The steps that end a call and write what it came for.
LEMMA WriteInv ==
  ASSUME CostInv, stage = "planned", stage' = stage, plan' = plan, policy' = policy,
         NEW c \in Call,
         AddVoucher(c) \/ Close(c) \/ SaveTaxi(c) \/ \E i \in Incident : Trigger(c, i)
  PROVE  CostInv'
<1>1. CostTypeOK /\ ReportIsCurrent /\ ReceiptIsDue
  BY DEF CostInv
<1>2. GoTo(c, "done") /\ "done" \in At
  BY DEF AddVoucher, Close, SaveTaxi, Trigger, At
<1> DEFINE j == [call[c] EXCEPT !.at = "done"]
<1>3. call' = [call EXCEPT ![c] = j] /\ j \in Job /\ j.at = "done"
  BY <1>1, <1>2, GoToAt
<1> HIDE DEF j
<1>4. /\ header \in Header /\ docs \subseteq {"ticket", "hotel", "voucher"}
      /\ incident \in [Incident -> {None, "OPEN", "RECOVERED", "CANCELLED", "NEEDS_ATTENTION"}]
      /\ finance \in [FinancialItem -> {None, "OPEN", "SETTLED"}]
      /\ call[c] \in Job
  BY <1>1 DEF CostTypeOK
<1>5. CASE AddVoucher(c)
  <2>1. /\ UNCHANGED <<header, incident, approved, charged, finance, expense>>
        /\ docs' \subseteq {"ticket", "hotel", "voucher"}
    BY <1>4, <1>5 DEF AddVoucher
  <2>2. \A f \in FinancialItem : Settled(f) => finance'[f] = "SETTLED"
    BY <2>1 DEF Settled
  <2> QED BY <1>3, <1>4, <2>1, <2>2, CallStep
<1>6. CASE Close(c)
  <2>1. /\ UNCHANGED <<incident, approved, charged, finance, expense, docs>>
        /\ header' = [header EXCEPT !.status = "CLOSED"] /\ call[c].at = "close"
    BY <1>6 DEF Close, From
  <2>2. header' \in Header
    BY <1>4, <2>1 DEF Header
  <2>3. \A f \in FinancialItem : Settled(f)
    BY <1>1, <2>1 DEF ReportIsCurrent
  <2>4. \A f \in FinancialItem : Settled(f) => finance'[f] = "SETTLED"
    BY <2>1 DEF Settled
  <2> QED BY <1>3, <1>4, <2>1, <2>2, <2>3, <2>4, CallStep
<1>7. CASE SaveTaxi(c)
  <2>1. /\ UNCHANGED <<header, incident, approved, charged, finance, docs>>
        /\ expense' = expense \cup {[kind |-> "taxi", of |-> call[c].saw.active]}
        /\ call[c].at = "taxi"
    BY <1>7 DEF SaveTaxi, From
  <2>2. call[c].saw.active \in Incident /\ incident[call[c].saw.active] = "RECOVERED"
    BY <1>1, <1>4, <2>1 DEF ReceiptIsDue, Job, Header
  <2>3. \A e \in expense' : e \in expense
            \/ \E i \in Incident : e = [kind |-> "taxi", of |-> i] /\ incident[i] = "RECOVERED"
    BY <2>1, <2>2
  <2>4. \A f \in FinancialItem : Settled(f) => finance'[f] = "SETTLED"
    BY <2>1 DEF Settled
  <2> QED BY <1>3, <1>4, <2>1, <2>3, <2>4, CallStep
<1>8. CASE \E i \in Incident : Trigger(c, i)
  <2>1. PICK i \in Incident : Trigger(c, i)
    BY <1>8
  <2>2. /\ UNCHANGED <<approved, charged, finance, expense, docs>>
        /\ incident[i] = None /\ incident' = [incident EXCEPT ![i] = "OPEN"]
        /\ header' = [header EXCEPT !.active = i]
    BY <2>1 DEF Trigger
  <2>3. /\ header' \in Header /\ header'.status = header.status
        /\ incident' \in [Incident -> {None, "OPEN", "RECOVERED", "CANCELLED", "NEEDS_ATTENTION"}]
        /\ \A k \in Incident : incident[k] = "RECOVERED" => incident'[k] = "RECOVERED"
    BY <1>4, <2>2, NoneIsNoStatus DEF Header
  <2>4. \A f \in FinancialItem : Settled(f) => finance'[f] = "SETTLED"
    BY <2>2 DEF Settled
  <2> QED BY <1>3, <1>4, <2>2, <2>3, <2>4, CallStep
<1> QED BY <1>5, <1>6, <1>7, <1>8

LEMMA HandleInv ==
  ASSUME CostInv, stage = "planned", stage' = stage, plan' = plan, policy' = policy,
         NEW c \in Call, Handle(c)
  PROVE  CostInv'
BY ReceiveInv, SeedInv, ReadInv, MoveInv, WriteInv DEF Handle

-----------------------------------------------------------------------------
(* The invariant holds                                                     *)

LEMMA InitIncident == Init => IncidentInv
BY InitImpact, InitGiven, InitPlanner, InitCost DEF IncidentInv, Init, ImpactInit, Stage

LEMMA ImpactStepAll ==
  ASSUME IncidentInv, ImpactStep, UNCHANGED <<planVars, costVars, hub, route, cause>>
  PROVE  IncidentInv'
<1>1. Inv /\ Given /\ PlannerInv /\ CostInv
  BY DEF IncidentInv
<1>2. /\ trip' = trip /\ event' = event
      /\ stage \in {"event", "walk"} /\ stage' \in {"walk", "assessed"}
  BY DEF ImpactStep, Begin, Visit, Assess
<1>3. Inv'
  BY <1>1, ImpactStepInv
<1>4. Given'
  BY <1>1, <1>2, GivenStays DEF planVars
<1>5. PlannerInv'
  BY <1>1, <1>2, PlanStays
<1>6. CostInv'
  BY <1>1, <1>2, CostsStay
<1> QED BY <1>2, <1>3, <1>4, <1>5, <1>6 DEF IncidentInv, Stage

LEMMA PlanStepAll ==
  ASSUME IncidentInv, PlanStep, UNCHANGED <<costVars, hub, route, cause>>
  PROVE  IncidentInv'
<1>1. Inv /\ Given /\ PlannerInv /\ CostInv
  BY DEF IncidentInv
<1>2. /\ UNCHANGED <<trip, event, pending, seen, touched, impact, policy, market>>
      /\ stage \in {"assessed", "planning"} /\ stage' \in {"refused", "planning", "planned"}
  BY DEF PlanStep, NothingToRecover, NoQuote, Simulate, Quote, Refuse, Choose, Decide, CommitPlan
<1>3. Inv'
  BY <1>1, <1>2, ImpactStands
<1>4. Given'
  BY <1>1, <1>2, GivenStays
<1>5. PlannerInv'
  BY <1>1, PlanStepInv
<1>6. CostInv'
  BY <1>1, <1>2, CostsStay
<1> QED BY <1>2, <1>3, <1>4, <1>5, <1>6 DEF IncidentInv, Stage

LEMMA CostStepAll ==
  ASSUME IncidentInv, stage = "planned", CostStep,
         UNCHANGED <<impactVars, planVars, hub, route, cause>>
  PROVE  IncidentInv'
<1>1. Inv /\ Given /\ PlannerInv /\ CostInv
  BY DEF IncidentInv
<1>2. /\ UNCHANGED <<trip, event, pending, seen, touched, impact, stage>>
      /\ policy' = policy /\ market' = market /\ plan' = plan
  BY DEF impactVars, planVars
<1>3. Inv'
  BY <1>1, <1>2, ImpactStands
<1>4. Given'
  BY <1>1, <1>2, GivenStays
<1>5. PlannerInv'
  BY <1>1, <1>2, PlanStays
<1>6. CostInv'
  BY <1>1, <1>2, OutcomeInv, HandleInv DEF CostStep
<1> QED BY <1>2, <1>3, <1>4, <1>5, <1>6 DEF IncidentInv

LEMMA StutterAll == ASSUME IncidentInv, UNCHANGED vars PROVE IncidentInv'
<1>1. Inv /\ Given /\ PlannerInv /\ CostInv
  BY DEF IncidentInv
<1>2. /\ UNCHANGED impactVars /\ UNCHANGED planVars /\ UNCHANGED costVars
      /\ UNCHANGED <<trip, event, impact, stage, policy, market, hub, route, cause>>
  BY DEF vars, impactVars, planVars
<1>3. Inv'
  BY <1>1, <1>2, StutterInv
<1>4. Given'
  BY <1>1, <1>2, GivenStays
<1>5. PlannerInv'
  BY <1>1, <1>2, PlanStays
<1>6. CostInv'
  BY <1>1, <1>2, CostsStay
<1> QED BY <1>2, <1>3, <1>4, <1>5, <1>6 DEF IncidentInv

(***************************************************************************)
(* The inductive invariant: the impact engine's own, what is given, the    *)
(* plan as it is decided action by action, and the callbacks' knowledge.   *)
(***************************************************************************)
THEOREM IncidentInvariance == Spec => []IncidentInv
<1>1. IncidentInv /\ [Next]_vars => IncidentInv'
  BY ImpactStepAll, PlanStepAll, CostStepAll, StutterAll DEF Next
<1> QED BY InitIncident, <1>1, PTL DEF Spec

\* Every variable keeps its type, the delay and the plan's targets among them.
THEOREM IncidentTypes == Spec => []TypeOK
<1>1. IncidentInv => TypeOK
  <2> SUFFICES ASSUME IncidentInv PROVE TypeOK
    OBVIOUS
  <2>1. ImpactTypeOK /\ PlanTypeOK /\ CostTypeOK /\ stage \in Stage /\ hub \in 0..35 /\ cause \in C!Cause
    BY DEF IncidentInv, Inv, PlannerInv, CostInv, Given
  <2>2. Delay \in Nat
    BY DEF IncidentInv, Given, WellFormed, Delay
  <2>3. Disrupted \in C!Disrupted
    BY <2>2 DEF IncidentInv, Given, Disrupted, C!Disrupted
  <2> QED BY <2>1, <2>3 DEF TypeOK, Stage
<1> QED BY <1>1, IncidentInvariance, PTL

(***************************************************************************)
(* The impact handed to the planner is exact, also while the incident goes *)
(* on: no later step of the planner or a callback touches what it rests on.*)
(***************************************************************************)
THEOREM ImpactStaysExact == Spec => []ImpactIsExact
<1>1. IncidentInv => ImpactIsExact
  BY DEF IncidentInv, Inv
<1> QED BY <1>1, IncidentInvariance, PTL

(***************************************************************************)
(* Whatever the trip, the market and the policy, a committed plan can be   *)
(* verified, and only as a whole and with everything asked approved.       *)
(***************************************************************************)
THEOREM PlansAreVerifiable == Spec => []PlanIsVerifiable
<1>1. IncidentInv => PlanIsVerifiable
  <2> SUFFICES ASSUME IncidentInv, stage = "planned"
               PROVE  /\ CanMarkRecovered(DOMAIN plan, Asked)
                      /\ \A done, approvals \in SUBSET DOMAIN plan :
                             CanMarkRecovered(done, approvals)
                                 => done = DOMAIN plan /\ Asked \subseteq approvals
    BY DEF PlanIsVerifiable
  <2>1. PlannerInv
    BY DEF IncidentInv
  <2>2. "flight" \in DOMAIN plan /\ option.arrival \in Int
    BY <2>1 DEF PlannerInv, OptionIsKnown, Planned, Queued, Elements, Option
  <2>3. \A l \in DOMAIN plan : plan[l].time = Time(l)
    BY <2>1 DEF PlannerInv, Decided
  <2>4. \A l \in DOMAIN plan : InTime(l)
    BY <2>2, <2>3 DEF InTime, Time
  <2>5. CanMarkRecovered(DOMAIN plan, Asked)
    BY <2>2, <2>4 DEF CanMarkRecovered
  <2>6. ASSUME NEW done \in SUBSET DOMAIN plan, NEW approvals \in SUBSET DOMAIN plan,
               CanMarkRecovered(done, approvals)
        PROVE  done = DOMAIN plan /\ Asked \subseteq approvals
    BY <2>6 DEF CanMarkRecovered
  <2> QED BY <2>5, <2>6
<1> QED BY <1>1, IncidentInvariance, PTL

(***************************************************************************)
(* For any times, buffers and delay, the advice given before a connection  *)
(* breaks and the impact found when it does say the same.                  *)
(***************************************************************************)
THEOREM AdviceAgrees == Spec => []AdviceAgreesWithImpact
<1>1. IncidentInv => AdviceAgreesWithImpact
  <2> SUFFICES ASSUME IncidentInv PROVE AdviceAgreesWithImpact
    OBVIOUS
  <2>1. /\ event.item \in Item /\ event.arrival \in Int /\ trip.end[event.item] \in Int
        /\ event.arrival > trip.end[event.item] /\ hub \in 0..35
    BY DEF IncidentInv, Given, WellFormed
  <2>2. \A d \in trip.deps :
            /\ d.buffer \in Nat /\ trip.start[d.to] \in Int /\ trip.end[d.from] \in Int
            /\ d.kind = "CONNECTION" => trip.kind[d.from] = "FLIGHT" /\ trip.kind[d.to] = "FLIGHT"
    BY DEF IncidentInv, Given, WellFormed, Dependency
  <2>3. ASSUME NEW d \in Violated PROVE d \in Holds(Delay)
    <3>1. /\ d \in Connections /\ d.from = event.item /\ d \in trip.deps
          /\ trip.start[d.to] - event.arrival < d.buffer
      BY DEF Violated, Outgoing, Available, Connections
    <3>2. Slack(d, Delay) <= 0 /\ Slack(d, Delay) \in Int
      BY <2>1, <2>2, <3>1 DEF Slack, Scheduled, Delay
    <3>3. Base(Slack(d, Delay)) = 85
      BY <3>2 DEF Base
    <3>4. Peak(trip.start[d.to]) \in {0, 10}
      BY DEF Peak
    <3>5. Risk(d, Delay) >= 65
      BY <2>1, <3>3, <3>4 DEF Risk, AtMost98
    <3>6. trip.kind[d.from] = "FLIGHT" /\ trip.kind[d.to] = "FLIGHT"
      BY <2>2, <3>1 DEF Connections
    <3> QED BY <3>1, <3>5, <3>6 DEF Holds
  <2>4. ASSUME NEW d \in Connections, d.from = event.item, Conflict(d) PROVE d \in Violated
    <3>1. d \in trip.deps /\ d.kind = "CONNECTION" /\ Scheduled(d) < d.buffer
      BY <2>4 DEF Connections, Conflict
    <3>2. Available(d) < d.buffer
      BY <2>1, <2>2, <2>4, <3>1 DEF Available, Scheduled
    <3> QED BY <2>4, <3>1, <3>2 DEF Violated, Outgoing
  <2>5. ASSUME NEW d \in Violated PROVE Conflict(d) \/ Tight(d) \/ Delay > 30
    <3>1. /\ d \in Connections /\ d.from = event.item /\ d \in trip.deps
          /\ trip.start[d.to] - event.arrival < d.buffer
      BY DEF Violated, Outgoing, Available, Connections
    <3> QED BY <2>1, <2>2, <3>1 DEF Conflict, Tight, Scheduled, Delay
  <2> QED BY <2>3, <2>4, <2>5 DEF AdviceAgreesWithImpact
<1> QED BY <1>1, IncidentInvariance, PTL

-----------------------------------------------------------------------------
(* The claim                                                               *)

LEMMA BandIs ==
  ASSUME NEW f \in C!Disrupted
  PROVE  C!Band(f) = IF f.distance <= 1500 THEN 1
                     ELSE IF f.distance <= 3500 \/ (f.from = "EU" /\ f.to = "EU") THEN 2 ELSE 3
<1>1. f.distance \in Nat
  BY DEF C!Disrupted
<1> QED BY <1>1 DEF C!Band

LEMMA LawIs ==
  ASSUME NEW f
  PROVE  C!Law(f) = IF C!Covers("EU", f) THEN "EU261"
                    ELSE IF C!Covers("UK", f) THEN "UK261" ELSE None
  BY DEF C!Law

\* The sum only grows with the distance.
LEMMA AmountIs ==
  ASSUME NEW f \in C!Disrupted, C!Law(f) \in {"EU261", "UK261"}
  PROVE  /\ C!Amount(f) \in Money
         /\ C!Law(f) = "EU261" => C!Amount(f).units =
                IF C!Band(f) = 1 THEN 25000 ELSE IF C!Band(f) = 2 THEN 40000 ELSE 60000
         /\ C!Law(f) = "UK261" => C!Amount(f).units =
                IF C!Band(f) = 1 THEN 22000 ELSE IF C!Band(f) = 2 THEN 35000 ELSE 52000
<1>1. C!Band(f) \in 1..3
  BY BandIs
<1>2. <<25000, 40000, 60000>>[C!Band(f)] =
          IF C!Band(f) = 1 THEN 25000 ELSE IF C!Band(f) = 2 THEN 40000 ELSE 60000
  BY <1>1
<1>3. <<22000, 35000, 52000>>[C!Band(f)] =
          IF C!Band(f) = 1 THEN 22000 ELSE IF C!Band(f) = 2 THEN 35000 ELSE 52000
  BY <1>1
<1>4. CASE C!Law(f) = "EU261"
  <2>1. C!Amount(f) = [currency |-> "EUR", units |-> <<25000, 40000, 60000>>[C!Band(f)]]
    BY <1>4 DEF C!Amount
  <2> QED BY <1>2, <1>4, <2>1 DEF Money
<1>5. CASE C!Law(f) = "UK261"
  <2>1. C!Amount(f) = [currency |-> "GBP", units |-> <<22000, 35000, 52000>>[C!Band(f)]]
    BY <1>5 DEF C!Amount
  <2> QED BY <1>3, <1>5, <2>1 DEF Money
<1> QED BY <1>4, <1>5

\* What a claim that names a sum rests on.
LEMMA AssessmentIs ==
  ASSUME NEW f \in C!Disrupted, NEW k \in C!Cause
  PROVE  LET a == C!AssessIncident(f, k) IN
         /\ a.amount # None <=>
                /\ k.fault = "YES" /\ ~k.extraordinary /\ C!Qualifies(f)
                /\ C!Covers("EU", f) \/ C!Covers("UK", f)
         /\ a.amount # None => a.ready /\ a.eligible /\ a.amount = C!Amount(f)
                               /\ C!Law(f) \in {"EU261", "UK261"}
         /\ a.ready => k.fault = "YES" /\ C!Qualifies(f)
<1> DEFINE spared == k.extraordinary \/ k.fault = "NO"
           b == C!Assess(f, spared)
           a == C!AssessIncident(f, k)
<1>1. k.fault \in {"YES", "NO", "UNKNOWN"} /\ k.extraordinary \in BOOLEAN
  BY DEF C!Cause
<1>2. a = IF k.fault = "YES" THEN b ELSE C!Nothing(b.law, FALSE)
  BY DEF C!AssessIncident
<1>3. \A law, ready : /\ C!Nothing(law, ready).amount = None
                      /\ C!Nothing(law, ready).ready = ready
  BY DEF C!Nothing
<1>4. b = C!Assess(f, spared)
  OBVIOUS
<1> HIDE DEF a, b
<1>5. CASE k.fault # "YES"
  <2>1. a.amount = None /\ a.ready = FALSE
    BY <1>2, <1>3, <1>5
  <2> QED BY <1>5, <2>1 DEF a
<1>6. CASE k.fault = "YES"
  <2>1. a = b /\ (spared <=> k.extraordinary)
    BY <1>2, <1>6
  <2>2. /\ C!Law(f) # None <=> C!Covers("EU", f) \/ C!Covers("UK", f)
        /\ C!Law(f) # None => C!Law(f) \in {"EU261", "UK261"}
    BY LawIs, NoneIsNoLaw
  <2>3. CASE C!Qualifies(f) /\ C!Law(f) # None /\ ~spared
    <3>1. b = [eligible |-> TRUE, law |-> C!Law(f), amount |-> C!Amount(f), ready |-> TRUE]
      BY <1>4, <2>3 DEF C!Assess
    <3>2. C!Amount(f) # None
      BY <2>2, <2>3, AmountIs, NoneIsNoValue
    <3> QED BY <1>6, <2>1, <2>2, <2>3, <3>1, <3>2 DEF a
  <2>4. CASE C!Qualifies(f) /\ C!Law(f) # None /\ spared
    <3>1. b = C!Nothing(C!Law(f), FALSE)
      BY <1>4, <2>4 DEF C!Assess
    <3>2. a.amount = None /\ a.ready = FALSE
      BY <1>3, <2>1, <3>1
    <3> QED BY <2>1, <2>4, <3>2 DEF a
  <2>5. CASE ~(C!Qualifies(f) /\ C!Law(f) # None)
    <3>1. b = C!Nothing("US_DOT", C!Qualifies(f)) \/ b = C!Nothing(None, FALSE)
      BY <1>4, <2>5 DEF C!Assess
    <3>2. a.amount = None /\ (a.ready => C!Qualifies(f))
      <4>1. CASE b = C!Nothing("US_DOT", C!Qualifies(f))
        BY <1>3, <2>1, <4>1
      <4>2. CASE b = C!Nothing(None, FALSE)
        BY <1>3, <2>1, <4>2
      <4> QED BY <3>1, <4>1, <4>2
    <3> QED BY <1>6, <2>2, <2>5, <3>2 DEF a
  <2> QED BY <2>3, <2>4, <2>5
<1> QED BY <1>5, <1>6

\* Later, farther or cancelled: at least as much, under the same law.
LEMMA WorsePaysMore ==
  ASSUME NEW f \in C!Disrupted, NEW k \in C!Cause,
         NEW g \in C!Worse(f),
         C!AssessIncident(f, k).amount # None
  PROVE  /\ C!AssessIncident(g, k).amount # None
         /\ C!AssessIncident(g, k).amount.units >= C!AssessIncident(f, k).amount.units
<1>1. /\ f.delay \in Nat /\ f.distance \in Nat /\ f.cancelled \in BOOLEAN
      /\ g \in C!Disrupted
      /\ g.from = f.from /\ g.to = f.to /\ g.carrier = f.carrier
      /\ g.delay >= f.delay /\ g.distance >= f.distance /\ (f.cancelled => g.cancelled)
  <2>1. CASE g = [f EXCEPT !.delay = @ + 60]
    BY <2>1 DEF C!Disrupted
  <2>2. CASE g = [f EXCEPT !.distance = @ + 1]
    BY <2>2 DEF C!Disrupted
  <2>3. CASE g = [f EXCEPT !.distance = @ + 2000]
    BY <2>3 DEF C!Disrupted
  <2>4. CASE g = [f EXCEPT !.cancelled = TRUE]
    <3>1. f = [from |-> f.from, to |-> f.to, carrier |-> f.carrier,
               distance |-> f.distance, delay |-> f.delay, cancelled |-> f.cancelled]
      BY DEF C!Disrupted
    <3>2. g = [from |-> f.from, to |-> f.to, carrier |-> f.carrier,
               distance |-> f.distance, delay |-> f.delay, cancelled |-> TRUE]
      BY <2>4, <3>1
    <3>3. /\ f.from \in C!Place /\ f.to \in C!Place /\ f.carrier \in C!Carrier
          /\ f.distance \in Nat /\ f.delay \in Nat
      BY DEF C!Disrupted
    <3>4. /\ g \in C!Disrupted /\ g.cancelled = TRUE /\ g.delay = f.delay
          /\ g.distance = f.distance
          /\ g.from = f.from /\ g.to = f.to /\ g.carrier = f.carrier
      BY <3>2, <3>3 DEF C!Disrupted
    <3>5. /\ f.delay \in Nat /\ f.distance \in Nat /\ f.cancelled \in BOOLEAN
      BY DEF C!Disrupted
    <3> QED BY <3>4, <3>5
  <2> QED BY <2>1, <2>2, <2>3, <2>4 DEF C!Worse
<1>2. C!Qualifies(f) => C!Qualifies(g)
  BY <1>1 DEF C!Qualifies, C!Disrupted
<1>3. \A r : C!Covers(r, g) <=> C!Covers(r, f)
  BY <1>1 DEF C!Covers
<1>4. C!Law(g) = C!Law(f)
  BY <1>3, LawIs
<1>5. C!AssessIncident(g, k).amount # None
  BY <1>1, <1>2, <1>3, AssessmentIs
<1>6. /\ C!AssessIncident(f, k).amount = C!Amount(f) /\ C!AssessIncident(g, k).amount = C!Amount(g)
      /\ C!Law(f) \in {"EU261", "UK261"}
  BY <1>1, <1>5, AssessmentIs
<1>7. C!Band(f) \in 1..3 /\ C!Band(g) \in 1..3 /\ C!Band(g) >= C!Band(f)
  <2>1. C!Band(f) = IF f.distance <= 1500 THEN 1
                    ELSE IF f.distance <= 3500 \/ (f.from = "EU" /\ f.to = "EU") THEN 2 ELSE 3
    BY BandIs
  <2>2. C!Band(g) = IF g.distance <= 1500 THEN 1
                    ELSE IF g.distance <= 3500 \/ (f.from = "EU" /\ f.to = "EU") THEN 2 ELSE 3
    BY <1>1, BandIs
  <2>3. g.distance \in Nat
    BY <1>1 DEF C!Disrupted
  <2> QED BY <1>1, <2>1, <2>2, <2>3
<1>8. C!Amount(g).units >= C!Amount(f).units
  BY <1>1, <1>4, <1>6, <1>7, AmountIs
<1> QED BY <1>5, <1>6, <1>8

(***************************************************************************)
(* A claim letter is due whenever it is written, for every route, distance,*)
(* delay and cause.                                                        *)
(***************************************************************************)
THEOREM ClaimsAreDue == Spec => []ClaimIsDue
<1>1. IncidentInv => ClaimIsDue
  <2> SUFFICES ASSUME IncidentInv PROVE C!ClaimIsSound(Disrupted, cause)
    BY DEF ClaimIsDue
  <2>1. Disrupted \in C!Disrupted /\ cause \in C!Cause
    <3>1. Delay \in Nat
      BY DEF IncidentInv, Given, WellFormed, Delay
    <3> QED BY <3>1 DEF IncidentInv, Given, Disrupted, C!Disrupted
  <2> DEFINE f == Disrupted
             a == C!AssessIncident(f, cause)
  <2>2. a.ready => cause.fault = "YES" /\ C!Qualifies(f)
    BY <2>1, AssessmentIs
  <2>3. a.amount # None =>
            /\ a.ready /\ a.eligible /\ ~cause.extraordinary
            /\ C!Covers("EU", f) \/ C!Covers("UK", f)
    BY <2>1, AssessmentIs
  <2>4. a.amount # None =>
            \A g \in C!Worse(f) :
                /\ C!AssessIncident(g, cause).amount # None
                /\ C!AssessIncident(g, cause).amount.units >= a.amount.units
    <3> HIDE DEF f
    <3>1. f \in C!Disrupted
      BY <2>1 DEF f
    <3>2. ASSUME a.amount # None, NEW g \in C!Worse(f)
          PROVE  /\ C!AssessIncident(g, cause).amount # None
                 /\ C!AssessIncident(g, cause).amount.units >= a.amount.units
      BY <2>1, <3>1, <3>2, WorsePaysMore
    <3> QED BY <3>2
  <2> HIDE DEF f
  <2> QED BY <2>2, <2>3, <2>4 DEF C!ClaimIsSound, C!Letter, f
<1> QED BY <1>1, IncidentInvariance, PTL

-----------------------------------------------------------------------------
(* What a plan moves                                                       *)

\* On a chain of items, what depends on one of them is everything after it.
LEMMA LaterItemsDepend ==
  ASSUME WellFormed(trip), NEW i \in Item, trip.kind[i] # None,
         NEW S, i \in S, Closed(S),
         NEW j \in Item, trip.kind[j] # None, trip.start[i] <= trip.start[j]
  PROVE  j \in S
<1> DEFINE booked == {k \in Item : trip.kind[k] # None}
           B == {k \in booked : trip.start[i] <= trip.start[k] /\ k \notin S}
<1>1. \A k \in Item : trip.start[k] \in Int
  BY DEF WellFormed
<1> SUFFICES ASSUME j \notin S PROVE FALSE
  OBVIOUS
<1>2. PICK b \in B : \A k \in B : trip.start[b] <= trip.start[k]
  <2>1. IsFiniteSet(B)
    BY ItemsAreFinite, FS_Subset
  <2>2. B # {} /\ \A k \in B : trip.start[k] \in Int
    BY <1>1
  <2> HIDE DEF B
  <2> QED BY <2>1, <2>2, FirstOf
<1> DEFINE A == {k \in booked : trip.start[i] <= trip.start[k] /\ trip.start[k] < trip.start[b]}
<1>3. trip.start[i] < trip.start[b]
  <2>1. b # i /\ b \in booked /\ i \in booked
    BY <1>2
  <2>2. trip.start[b] # trip.start[i]
    BY <2>1 DEF WellFormed, Chained
  <2> QED BY <1>1, <1>2, <2>2
<1>4. PICK a \in A : \A k \in A : trip.start[k] <= trip.start[a]
  <2>1. IsFiniteSet(A)
    BY ItemsAreFinite, FS_Subset
  <2>2. A # {} /\ \A k \in A : trip.start[k] \in Int
    BY <1>1, <1>3
  <2> HIDE DEF A
  <2> QED BY <2>1, <2>2, LastOf
<1>5. a \in S
  BY <1>1, <1>2, <1>4
<1>6. ~ \E k \in booked : trip.start[a] < trip.start[k] /\ trip.start[k] < trip.start[b]
  BY <1>1, <1>4
<1>7. PICK d \in trip.deps : d.from = a /\ d.to = b
  <2>1. a \in booked /\ b \in booked /\ trip.start[a] < trip.start[b]
    BY <1>2, <1>4
  <2> HIDE DEF A, B
  <2> QED BY <1>6, <2>1 DEF WellFormed, Chained
<1>8. b \in S
  BY <1>5, <1>7 DEF Closed
<1> QED BY <1>2, <1>8

(***************************************************************************)
(* On every chain of flights with what follows them, however long, the     *)
(* planner's choice by kind never reaches an item the impact left alone.   *)
(***************************************************************************)
THEOREM PlansMoveOnlyAffected == Spec => []PlanMovesOnlyAffected
<1>1. IncidentInv => PlanMovesOnlyAffected
  <2> SUFFICES ASSUME IncidentInv, stage = "planned",
                      NEW l \in DOMAIN plan, plan[l].target # None
               PROVE  plan[l].target \in impact.items
    BY DEF PlanMovesOnlyAffected
  <2>1. /\ Inv /\ Given /\ PlannerInv /\ ImpactIsExact /\ WellFormed(trip)
        /\ ~impact.feasible /\ plan[l].target = Target(l) /\ l \in Label
    BY DEF IncidentInv, Inv, Given, PlannerInv, OptionIsKnown, Decided, PlanTypeOK
  <2>2. PICK d \in Violated : TRUE
    BY <2>1 DEF ImpactIsExact
  <2>3. /\ d.to \in Item /\ trip.kind[d.to] = "FLIGHT"
        /\ d.to \in impact.items /\ Closed(impact.items)
    <3>1. d \in trip.deps /\ d.kind = "CONNECTION" /\ d.to \in Targets(Violated)
      BY <2>2 DEF Violated, Outgoing, Targets
    <3> QED BY <2>1, <3>1 DEF WellFormed, Dependency, ImpactIsExact, LeastClosed
  <2>4. /\ \A i \in Item : trip.start[i] \in Int /\ trip.end[i] \in Int
        /\ FinalFlight \in ItemsOf("FLIGHT")
        /\ \A j \in ItemsOf("FLIGHT") : trip.end[j] <= trip.end[FinalFlight]
    BY <2>1, FinalFlightExists DEF WellFormed
  <2>5. ASSUME NEW i \in Item, trip.kind[i] # None, trip.start[d.to] <= trip.start[i]
        PROVE  i \in impact.items
    BY <2>1, <2>3, <2>5, NoneIsNoKind, LaterItemsDepend
  <2>6. CASE l = "flight"
    <3>1. /\ FinalFlight \in Item /\ trip.kind[FinalFlight] = "FLIGHT"
          /\ trip.end[d.to] <= trip.end[FinalFlight]
      BY <2>3, <2>4 DEF ItemsOf
    <3>2. ~(trip.start[FinalFlight] < trip.start[d.to])
      <4> SUFFICES ASSUME trip.start[FinalFlight] < trip.start[d.to] PROVE FALSE
        OBVIOUS
      <4>1. trip.end[FinalFlight] <= trip.start[d.to] /\ trip.start[d.to] < trip.end[d.to]
        BY <2>1, <2>3, <3>1, NoneIsNoKind DEF WellFormed, Chained
      <4> QED BY <2>3, <2>4, <3>1, <4>1
    <3> QED BY <2>1, <2>3, <2>4, <2>5, <2>6, <3>1, <3>2, NoneIsNoKind DEF Target
  <2>7. CASE l \in {"transfer", "hotel"}
    <3>1. Target(l) \in ItemsOf("TRANSFER") \cup ItemsOf("HOTEL")
      <4>1. /\ l = "transfer" => ItemsOf("TRANSFER") # {}
            /\ l = "hotel" => ItemsOf("HOTEL") # {}
        BY <2>1 DEF PlannerInv, Planned
      <4> QED BY <2>7, <4>1 DEF Target
    <3>2. Target(l) \in Item /\ trip.kind[Target(l)] \in {"TRANSFER", "HOTEL"}
      BY <3>1 DEF ItemsOf
    <3>3. ~(trip.start[Target(l)] < trip.start[d.to])
      BY <2>1, <2>3, <3>2, NoneIsNoKind DEF WellFormed, Chained
    <3> QED BY <2>1, <2>3, <2>4, <2>5, <3>2, <3>3, NoneIsNoKind
  <2>8. CASE l = "calendar"
    BY <2>1, <2>8 DEF Target
  <2> QED BY <2>1, <2>6, <2>7, <2>8 DEF Label
<1> QED BY <1>1, IncidentInvariance, PTL

(***************************************************************************)
(* However many callbacks run beside one another, and wherever each of     *)
(* them dies, a closed trip has every deposit and refund settled.          *)
(***************************************************************************)
THEOREM ClosedTripsAreSettled == Spec => []ClosedIsSettled
<1>1. IncidentInv => ClosedIsSettled
  BY DEF IncidentInv, CostInv
<1> QED BY <1>1, IncidentInvariance, PTL

(***************************************************************************)
(* However many incidents a trip has had, every booked flight was verified *)
(* and sanctioned, and every receipt belongs to a recovery that succeeded. *)
(***************************************************************************)
THEOREM ExpensesFollowEffects == Spec => []ExpenseFollowsEffect
<1>1. IncidentInv => ExpenseFollowsEffect
  BY DEF IncidentInv, CostInv
<1> QED BY <1>1, IncidentInvariance, PTL
=============================================================================
