---------------------------- MODULE CommandDelivery ----------------------------
(***************************************************************************)
(* Durable workflow commands: the outbox (services/outbox.py), the push    *)
(* subscription that delivers them to /internal/pubsub/commands, and the   *)
(* claim of a command by the worker that executes it.  Each definition     *)
(* below is one transaction or one message of that path; RecoveryWorkflow  *)
(* composes them with the handlers.                                        *)
(*                                                                         *)
(* A command is named by what its id is hashed from.  Most ids name an     *)
(* approval, and an approval is named by the version of its plan:          *)
(*    <<"RESUME", p>>, <<"EXPIRE", p>>, <<"REPLAN_EXPIRED", p>>,           *)
(*    <<"REPLAN_ANOTHER", p>>, <<"REPLAN_RESUMED", p>>.                    *)
(* The id of a retry names the phase it goes back to and an attempt count, *)
(* and neither the plan nor the action:                                    *)
(*    <<"EXECUTING_AUTO", n>>, <<"EXECUTING_APPROVED", n>>.                *)
(***************************************************************************)
EXTENDS Integers

CONSTANTS
    MaxPlan,     \* bound: plan versions
    MaxAttempt,  \* bound: attempts of an action that may fail retryably
    MaxCopy      \* bound: messages published for one command

ASSUME DeliveryAssumption ==
    MaxPlan \in Nat /\ MaxAttempt \in Nat /\ MaxCopy \in Nat

Version == 1..MaxPlan
Phase == {"EXECUTING_AUTO", "EXECUTING_APPROVED"}
Replan == {"REPLAN_EXPIRED", "REPLAN_ANOTHER", "REPLAN_RESUMED"}
Command == (({"RESUME", "EXPIRE"} \cup Replan) \X Version) \cup (Phase \X (1..MaxAttempt))

\* The disruption event, whose delivery starts the recovery.
Event == <<"EVENT", 0>>
Message == (Command \cup {Event}) \X (0..MaxCopy)

VARIABLES
    outbox,   \* outbox record of each command; LATER: not_before lies ahead
    bound,    \* plan_version and payload approval_id it was created with; 0: None
    copies,   \* messages published for it
    claim,    \* workflowCommands record; LAPSED: its lease has run out
    holder,   \* lease_owner: the number of the message it was claimed for
    inbox     \* messages that have not been acknowledged

Binding == [plan : 0..MaxPlan, approval : 0..MaxPlan]

DeliveryTypeOK ==
    /\ outbox \in [Command -> {"NONE", "LATER", "PENDING", "PUBLISHED"}]
    /\ bound \in [Command -> Binding]
    /\ copies \in [Command -> 0..MaxCopy]
    /\ claim \in [Command -> {"NONE", "LEASED", "LAPSED", "COMPLETED"}]
    /\ holder \in [Command -> 0..MaxCopy]
    /\ inbox \subseteq Message

DeliveryInit ==
    /\ outbox = [c \in Command |-> "NONE"]
    /\ bound = [c \in Command |-> [plan |-> 0, approval |-> 0]]
    /\ copies = [c \in Command |-> 0]
    /\ claim = [c \in Command |-> "NONE"]
    /\ holder = [c \in Command |-> 0]
    /\ inbox = {<<Event, 0>>}

\* Write the outbox record of c, which does not exist yet.
Create(c, when, plan, approval) ==
    /\ outbox' = [outbox EXCEPT ![c] = when]
    /\ bound' = [bound EXCEPT ![c] = [plan |-> plan, approval |-> approval]]

\* enqueue_outbox_once succeeds without a write when the id is already taken.
Enqueue(c, when, plan, approval) ==
    IF outbox[c] = "NONE" THEN Create(c, when, plan, approval)
                          ELSE UNCHANGED <<outbox, bound>>

\* not_before of c is reached.
ComesDue(c) ==
    /\ outbox[c] = "LATER"
    /\ outbox' = [outbox EXCEPT ![c] = "PENDING"]

\* dispatch_pending publishes the command and marks the record.  A crash in
\* between, or a second dispatcher at work, leaves the record to be published
\* once more, as a message with an id of its own.
Publish(c, marked) ==
    /\ outbox[c] = "PENDING"
    /\ copies[c] < IF marked THEN MaxCopy ELSE MaxCopy - 1
    /\ copies' = [copies EXCEPT ![c] = @ + 1]
    /\ inbox' = inbox \cup {<<c, copies[c] + 1>>}
    /\ outbox' = IF marked THEN [outbox EXCEPT ![c] = "PUBLISHED"] ELSE outbox

Claimable(c) == claim[c] \in {"NONE", "LAPSED"}

\* claim_workflow_command for message m; every lease ends within a minute.
ClaimFor(m) ==
    /\ Claimable(m[1])
    /\ claim' = [claim EXCEPT ![m[1]] = "LEASED"]
    /\ holder' = [holder EXCEPT ![m[1]] = m[2]]

LeaseEnds(c) ==
    /\ claim[c] = "LEASED"
    /\ claim' = [claim EXCEPT ![c] = "LAPSED"]

\* complete_workflow_command succeeds for the holder and for a command that
\* is complete already.
CompletionAccepted(m) == claim[m[1]] = "COMPLETED" \/ holder[m[1]] = m[2]

CompleteFor(m) ==
    /\ CompletionAccepted(m)
    /\ claim' = [claim EXCEPT ![m[1]] = "COMPLETED"]

Acknowledge(m) == inbox' = inbox \ {m}
=============================================================================
