----------------------------- MODULE Onboarding -----------------------------
(***************************************************************************)
(* services/onboarding.py: the traveler answers one card after the other   *)
(* and activates the answers as a numbered policy. Every answer reads the  *)
(* whole profile, changes it and stores the whole of it without a version; *)
(* only the activation is a transaction that compares.                     *)
(*                                                                         *)
(* The four settings are answered one after the other and go into the      *)
(* policy together; one stands for them here.                              *)
(***************************************************************************)
EXTENDS UpdateIntake

CONSTANT MaxPolicy \* bound: policies activated

ASSUME MaxPolicyIsPositive == MaxPolicy \in Nat \ {0}

VARIABLES
    profile, \* telegramUsers/{user}; step "NONE" when there is none
    policies \* travelers/{user}/policies/{version}, "NONE" when there is none

account == <<profile, policies>>

Mode == {"AUTO", "ASK"}
Order == <<"PROMISE", "CALENDAR", "SERVICE_MESSAGES", "REVERSIBLE_CHANGES", "SPENDING",
           "BOUNDARY", "SUMMARY", "COMPLETE">>
Step == {Order[i] : i \in 1 .. 8}
Asking == {Order[i] : i \in 2 .. 5}
After(step) == Order[1 + CHOOSE i \in 1 .. 7 : Order[i] = step]

NoProfile == [step |-> "NONE", mode |-> "AUTO", active |-> 0]
NewProfile == [NoProfile EXCEPT !.step = "PROMISE"]
Profile == [step : Step \cup {"NONE"}, mode : Mode, active : 0 .. MaxPolicy]
AccountTypeOK ==
    /\ profile \in Profile
    /\ policies \in [1 .. MaxPolicy -> Mode \cup {"NONE"}]

\* A new traveler, one near the end of the first settings and one that has it.
AccountInit ==
    \/ profile = NoProfile /\ policies = [v \in 1 .. MaxPolicy |-> "NONE"]
    \/ /\ profile = [NewProfile EXCEPT !.step = "BOUNDARY"]
       /\ policies = [v \in 1 .. MaxPolicy |-> "NONE"]
    \/ /\ profile = [step |-> "COMPLETE", mode |-> "AUTO", active |-> 1]
       /\ policies = [v \in 1 .. MaxPolicy |-> IF v = 1 THEN "AUTO" ELSE "NONE"]

\* /start: the profile is created where none was read.
Start(r) ==
    /\ At(r, "handle")
    /\ IF profile.step = "NONE" THEN Continue(r, "save", NewProfile) ELSE Answer(r)
    /\ UNCHANGED <<account, faults>>

\* Mutant: a setting is changed in the profile that is active.
AnsweredInPlace(p) ==
    CASE p.step = "COMPLETE" -> {[p EXCEPT !.mode = m] : m \in Mode}
      [] p.step \in Asking -> {[p EXCEPT !.mode = m, !.step = After(p.step)] : m \in Mode}
      [] p.step \in {"PROMISE", "BOUNDARY"} -> {[p EXCEPT !.step = After(p.step)]}
      [] OTHER -> {}
\* _apply, and the recommendations of telegram_planning.py: what the profile
\* that was read becomes. COMPLETE goes back to the first card or stays.
Answered(p) ==
    CASE p.step = "COMPLETE" -> {p, [p EXCEPT !.step = "CALENDAR"]}
      [] p.step \in Asking -> {[p EXCEPT !.mode = m, !.step = After(p.step)] : m \in Mode}
      [] p.step \in {"PROMISE", "BOUNDARY"} -> {[p EXCEPT !.step = After(p.step)]}
      [] OTHER -> {}
Activated(p) == [p EXCEPT !.step = "COMPLETE", !.active = @ + 1]

\* callback, custom_spending_limit: a card of another step is an error.
Reply(r) ==
    /\ At(r, "handle")
    /\ \/ \E p \in Answered(profile) : Continue(r, "save", p)
       \/ /\ profile.step = "SUMMARY" /\ profile.active < MaxPolicy
          /\ Continue(r, "activate", Activated(profile))
       \/ Fail(r)
    /\ UNCHANGED <<account, faults>>

\* save_traveler: the whole document.
SaveTraveler(r) ==
    /\ At(r, "save")
    /\ profile' = Arg(r)
    /\ Answer(r)
    /\ UNCHANGED <<policies, faults>>
\* activate_traveler_policy: the version follows the active one and is new.
Follows(p) == profile.step # "NONE" /\ policies[p.active] = "NONE" /\ profile.active = p.active - 1
Activate(r) ==
    /\ At(r, "activate")
    /\ IF Follows(Arg(r))
       THEN /\ policies' = [policies EXCEPT ![Arg(r).active] = Arg(r).mode]
            /\ profile' = Arg(r)
            /\ Answer(r)
       ELSE Fail(r) /\ UNCHANGED account
    /\ UNCHANGED faults

OnboardingStep(r) == Start(r) \/ Reply(r) \/ SaveTraveler(r) \/ Activate(r)
=============================================================================
