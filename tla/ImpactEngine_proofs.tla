-------------------------- MODULE ImpactEngine_proofs --------------------------
(***************************************************************************)
(* Proofs about ImpactEngine, for every trip: any graph of dependencies,   *)
(* cycles and repeated edges included, any times and buffers.              *)
(***************************************************************************)
EXTENDS ImpactEngine, TLAPS

Inv == ImpactTypeOK /\ WalkIsSound /\ ImpactIsExact

\* The trip and the event are what the walk reads and never writes.
LEMMA InputsStay ==
  ASSUME trip' = trip, event' = event
  PROVE  /\ Violated' = Violated
         /\ \A S : Targets(S)' = Targets(S)
         /\ \A S : Closed(S)' <=> Closed(S)
  BY DEF Violated, Outgoing, Available, Targets, Closed

LEMMA TargetsTyped ==
  ASSUME ImpactTypeOK
  PROVE  /\ Targets(Violated) \subseteq Item
         /\ \A i \in Item : Targets(Outgoing(i)) \subseteq Item
  BY DEF ImpactTypeOK, Targets, Violated, Outgoing, Dependency

LEMMA InitInv == ImpactInit /\ ImpactTypeOK => Inv
  BY DEF ImpactInit, Inv, WalkIsSound, ImpactIsExact

LEMMA BeginInv == Inv /\ Begin => Inv'
<1> SUFFICES ASSUME Inv, Begin PROVE Inv'
  OBVIOUS
<1>1. ImpactTypeOK'
  BY TargetsTyped DEF Inv, ImpactTypeOK, Begin, WalkIsSound
<1>2. /\ Violated' = Violated
      /\ Targets(Violated)' = Targets(Violated)
      /\ \A S : Closed(S)' <=> Closed(S)
  BY InputsStay DEF Begin, Targets
<1>3. WalkIsSound'
  BY <1>2 DEF Inv, WalkIsSound, Begin
<1>4. ImpactIsExact'
  BY DEF ImpactIsExact, Begin
<1> QED
  BY <1>1, <1>3, <1>4 DEF Inv

LEMMA VisitInv == ASSUME NEW i \in Item, Inv, Visit(i) PROVE Inv'
<1>1. ImpactTypeOK'
  BY TargetsTyped DEF Inv, ImpactTypeOK, Visit, Outgoing
<1>2. /\ Violated' = Violated
      /\ Targets(Violated)' = Targets(Violated)
      /\ \A S : Closed(S)' <=> Closed(S)
  BY InputsStay DEF Visit, Targets
<1>3. WalkIsSound'
  <2>1. /\ stage = "walk" /\ stage' = "walk" /\ trip' = trip
        /\ seen' = seen \cup {i}
        /\ pending' = (pending \cup Targets(Outgoing(i))) \ seen'
        /\ touched' = touched \cup Outgoing(i)
    BY DEF Visit
  <2>2. seen' \cup pending' = seen \cup pending \cup Targets(Outgoing(i))
    BY <2>1 DEF Visit
  <2>3. Targets(Violated) \subseteq seen' \cup pending'
    BY <2>1, <2>2 DEF Inv, WalkIsSound
  <2>4. ASSUME NEW d \in trip.deps, d.from \in seen' PROVE d.to \in seen' \cup pending'
    <3>1. CASE d.from = i
      BY <2>2, <3>1 DEF Outgoing, Targets
    <3>2. CASE d.from # i
      BY <2>1, <2>2, <2>4, <3>2 DEF Inv, WalkIsSound
    <3> QED
      BY <3>1, <3>2
  <2>5. touched' = {d \in trip.deps : d.from \in seen'}
    BY <2>1 DEF Inv, WalkIsSound, Outgoing
  <2>6. ASSUME NEW T \in SUBSET Item, Targets(Violated) \subseteq T, Closed(T)
        PROVE  seen' \cup pending' \subseteq T
    <3>1. seen \cup pending \subseteq T
      BY <2>1, <2>6 DEF Inv, WalkIsSound
    <3>2. i \in T
      BY <3>1 DEF Visit
    <3>3. Targets(Outgoing(i)) \subseteq T
      BY <2>6, <3>2 DEF Closed, Targets, Outgoing
    <3> QED
      BY <2>2, <3>1, <3>3
  <2> QED
    BY <1>2, <2>1, <2>3, <2>4, <2>5, <2>6 DEF WalkIsSound
<1>4. ImpactIsExact'
  BY DEF ImpactIsExact, Visit
<1> QED
  BY <1>1, <1>3, <1>4 DEF Inv

LEMMA AssessInv == Inv /\ Assess => Inv'
<1> SUFFICES ASSUME Inv, Assess PROVE Inv'
  OBVIOUS
<1>1. ImpactTypeOK'
  BY DEF Inv, ImpactTypeOK, Assess, Violated, Outgoing
<1>2. /\ Violated' = Violated
      /\ Targets(Violated)' = Targets(Violated)
      /\ \A S : Closed(S)' <=> Closed(S)
  BY InputsStay DEF Assess, Targets
<1>3. WalkIsSound'
  BY DEF WalkIsSound, Assess
<1>4. ImpactIsExact'
  <2>1. impact' = [feasible |-> Violated = {}, items |-> seen, deps |-> Violated \cup touched]
    BY DEF Assess
  <2>2. pending = {} /\ stage = "walk" /\ trip' = trip
    BY DEF Assess
  <2>3. LeastClosed(seen)
    BY <2>2 DEF Inv, WalkIsSound, LeastClosed, Closed
  <2>4. LeastClosed(impact.items)'
    BY <1>2, <2>1, <2>3 DEF LeastClosed
  <2>5. Violated \cup touched = Violated \cup {d \in trip.deps : d.from \in seen}
    BY <2>2 DEF Inv, WalkIsSound
  <2> QED
    BY <1>2, <2>1, <2>2, <2>4, <2>5 DEF ImpactIsExact
<1> QED
  BY <1>1, <1>3, <1>4 DEF Inv

LEMMA StutterInv == Inv /\ UNCHANGED impactVars => Inv'
<1> SUFFICES ASSUME Inv, UNCHANGED impactVars PROVE Inv'
  OBVIOUS
<1>1. /\ Violated' = Violated
      /\ Targets(Violated)' = Targets(Violated)
      /\ \A S : Closed(S)' <=> Closed(S)
  BY InputsStay DEF impactVars, Targets
<1>2. ImpactTypeOK'
  BY DEF Inv, ImpactTypeOK, impactVars
<1>3. WalkIsSound'
  BY <1>1 DEF Inv, WalkIsSound, impactVars
<1>4. ImpactIsExact'
  BY <1>1 DEF Inv, ImpactIsExact, LeastClosed, impactVars
<1> QED
  BY <1>2, <1>3, <1>4 DEF Inv

(***************************************************************************)
(* For every trip the impact lists exactly what the missed connections     *)
(* reach, and every dependency between those items.                        *)
(***************************************************************************)
THEOREM ImpactExact == ImpactSpec => []ImpactIsExact
<1>1. Inv /\ [ImpactStep]_impactVars => Inv'
  BY BeginInv, VisitInv, AssessInv, StutterInv DEF ImpactStep
<1>2. Inv => ImpactIsExact
  BY DEF Inv
<1> QED
  BY InitInv, <1>1, <1>2, PTL DEF ImpactSpec
=============================================================================
