------------------------------ MODULE ActionLife ------------------------------
(***************************************************************************)
(* What the recovery of an incident takes an action to be, and what the    *)
(* executor makes of it: an action is begun only when its prerequisites    *)
(* are verified and, where policy asks, the traveler has approved it; each *)
(* attempt at it is counted before it can have an outcome; and a verified  *)
(* or failed action is over.  The attempts themselves, leases, receipts    *)
(* and the provider are ActionExecutor's matter; requests, plans and       *)
(* decisions are RecoveryWorkflow's.  Both implement this specification.   *)
(***************************************************************************)
EXTENDS Integers

CONSTANTS
    Action,     \* the actions
    Asks,       \* those whose policy verdict is APPROVAL_REQUIRED
    Needs       \* prerequisite actions of each

VARIABLES
    state,      \* what has become of each action
    tries,      \* attempts at it
    granted     \* actions the traveler approved

vars == <<state, tries, granted>>

Init ==
    /\ state = [a \in Action |-> "OPEN"]
    /\ tries = [a \in Action |-> 0]
    /\ granted = {}

MayRun(a) ==
    /\ a \in Asks => a \in granted
    /\ \A p \in Needs[a] : state[p] = "VERIFIED"

\* An approval is given, and never taken back.
Grant ==
    /\ granted \subseteq granted'
    /\ UNCHANGED <<state, tries>>

\* An attempt begins; it may take over one that died, or whose lease ran out.
Attempt(a) ==
    /\ MayRun(a)
    /\ state[a] \in {"OPEN", "RETRY", "TAKEN"}
    /\ state' = [state EXCEPT ![a] = "TAKEN"]
    /\ tries' = [tries EXCEPT ![a] = @ + 1]
    /\ UNCHANGED granted

\* It ends, or another request finds out how it ended.
Conclude(a, outcome) ==
    /\ MayRun(a)
    /\ state[a] = "TAKEN"
    /\ state' = [state EXCEPT ![a] = outcome]
    /\ UNCHANGED <<tries, granted>>

Next ==
    \/ Grant
    \/ \E a \in Action :
          Attempt(a) \/ \E outcome \in {"VERIFIED", "RETRY", "FAILED"} : Conclude(a, outcome)

Spec == Init /\ [][Next]_vars
=============================================================================
