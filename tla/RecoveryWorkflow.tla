--------------------------- MODULE RecoveryWorkflow ---------------------------
(***************************************************************************)
(* Recovery of one incident: workflows/recovery.py, driven by the event    *)
(* and command deliveries of api/routes.py and by the traveler's decisions *)
(* (services/telegram_recovery.py), over the transactions of the           *)
(* repository.                                                             *)
(*                                                                         *)
(* A worker is one running request.  It handles a message: a command is    *)
(* claimed and carried out (stage "command"), then the incident is         *)
(* advanced from its stored state (stage "advance"); the event is only     *)
(* advanced.  A request that ends normally acknowledges its message, any   *)
(* other leaves it to be delivered again.                                  *)
(***************************************************************************)
EXTENDS CommandDelivery

CONSTANTS
    Worker,     \* concurrent requests
    Label,      \* actions of a plan
    Flight,     \* the label of its one flight action, stored last
    Transfer,   \* the label the flight waits for (need not be in the plan)
    Asked,      \* planned actions whose policy verdict is APPROVAL_REQUIRED
    MaxTerminal,\* bound: terminal refusals of a provider
    MaxFaults   \* bound: crashed requests and lost Telegram answers

ASSUME RecoveryAssumption ==
    /\ Flight \in Label
    /\ Asked \subseteq Version \X Label
    /\ MaxTerminal \in Nat /\ MaxFaults \in Nat

VARIABLES
    status,     \* incident.status
    plan,       \* version of the CURRENT plan; 0: none
    approval,   \* approval request of each plan; LAPSED: PENDING, expires_at past
    acts,       \* execution_status of the action of each plan and label
    tries,      \* its attempt_count
    sent,       \* the awareness and approval messages of each plan; LOST: no
                \* receipt came back, or the chat is blocked
    overtaken,  \* history: a plan was committed over an announced one, or
                \* announced after another had been committed
    job,        \* locals of each request
    fresh,      \* does the version read by prepare() still match the incident?
    refusals, faults

records == <<outbox, bound, copies, claim, holder>>
delivery == <<records, inbox>>
incident == <<status, fresh>>
actions == <<acts, tries, refusals>>
plans == <<plan, approval, sent, overtaken>>
vars == <<delivery, incident, plans, actions, job, faults>>

Terminal == {"RECOVERED", "NEEDS_ATTENTION", "CANCELLED"}
Status == Terminal \cup Phase \cup
          {"PLANNING", "NOTIFYING", "WAITING_APPROVAL", "RETRY_SCHEDULED", "VERIFYING"}
Undecided == {"PENDING", "LAPSED"}
ApprovalStatus == Undecided \cup {"NONE", "APPROVED", "DECLINED", "EXPIRED", "SUPERSEDED"}

\* BACKING_OFF and DUE: FAILED_RETRYABLE before and after retry_after;
\* LAPSED: LEASED, and the lease has run out.
\* FAILED_TERMINAL stands for VERIFICATION_FAILED too.
Retryable == {"BACKING_OFF", "DUE"}
\* Mutant: a claim does not see that the action is carried out already.
TakeableAgain == {"PENDING", "DUE", "LAPSED", "VERIFIED"}
Takeable == {"PENDING", "DUE", "LAPSED"}
ActionStatus == Retryable \cup Takeable \cup {"NONE", "LEASED", "VERIFIED", "FAILED_TERMINAL"}

Notification == {"AWARENESS", "APPROVAL"} \X Version
Planned == Version \X Label
Stored == {x \in Planned : acts[x] # "NONE"}
NeedsApproval(v) == \E l \in Label : <<v, l>> \in Asked
\* PlannedAction.prerequisites: the flight waits for the transfer of its plan.
Prerequisites(x) == IF x[2] = Flight THEN {x[1]} \X ({Transfer} \cap Label) ELSE {}

PC == {"idle", "claim", "load", "prepare", "commit", "put", "notify", "continue",
       "undelivered", "ask", "expiry", "decide", "card", "conclude", "resume", "list", "run",
       "call", "settle", "retry", "judge", "expire", "finish", "advance"}

Job == [pc : PC, msg : Message, advancing : BOOLEAN,
        plan : 0..MaxPlan,              \* version of the plan or approval in hand
        phase : Phase \cup {"VERIFYING"},
        todo : SUBSET Planned,          \* "remaining" of _execute_actions
        calling : SUBSET Planned,       \* the action at its provider
        next : Status, attempt : Nat]   \* what the barrier or the verifier decided

Idle == [pc |-> "idle", msg |-> <<Event, 0>>, advancing |-> FALSE, plan |-> 0,
         phase |-> "EXECUTING_AUTO", todo |-> {}, calling |-> {},
         next |-> "VERIFYING", attempt |-> 0]

Init ==
    /\ DeliveryInit
    /\ status = "PLANNING"
    /\ plan = 0
    /\ approval = [v \in Version |-> "NONE"]
    /\ acts = [x \in Planned |-> "NONE"]
    /\ tries = [x \in Planned |-> 0]
    /\ sent = [n \in Notification |-> "NONE"]
    /\ overtaken = FALSE
    /\ job = [w \in Worker |-> Idle]
    /\ fresh = [w \in Worker |-> FALSE]
    /\ refusals = 0 /\ faults = 0

-----------------------------------------------------------------------------
\* Every write to the incident raises its version.
MoveIncident(to) == status' = to /\ fresh' = [w \in Worker |-> FALSE]

Set(w, j) == job' = [job EXCEPT ![w] = j]
Goto(w, label) == Set(w, [job[w] EXCEPT !.pc = label])

\* Mutant: the error is answered like a success.
RaiseAcknowledged(w) == Set(w, Idle) /\ Acknowledge(job[w].msg)

\* An error: the request answers 500 and its message is delivered again.
Raise(w) == Set(w, Idle) /\ UNCHANGED inbox

\* The end of process_command's work, or of the request.
Return(w) ==
    IF job[w].advancing
    THEN Set(w, Idle) /\ Acknowledge(job[w].msg)
    ELSE Goto(w, "finish") /\ UNCHANGED inbox

Begin(w, m) ==
    /\ m \in inbox /\ job[w].pc = "idle"
    /\ Set(w, [Idle EXCEPT !.msg = m, !.advancing = (m[1] = Event),
                           !.pc = IF m[1] = Event THEN "advance" ELSE "claim"])
    /\ UNCHANGED <<delivery, incident, plans, actions, faults>>

-----------------------------------------------------------------------------
\* process_command
Claim(w) ==
    /\ job[w].pc = "claim"
    /\ ClaimFor(job[w].msg)
    /\ Goto(w, "load")
    /\ UNCHANGED <<outbox, bound, copies, inbox, incident, plans, actions, faults>>

\* A command that is leased or complete is not carried out, and yet the request
\* goes on to acknowledge the message.
ClaimRefused(w) ==
    /\ job[w].pc = "claim" /\ ~Claimable(job[w].msg[1])
    /\ Set(w, [job[w] EXCEPT !.pc = "advance", !.advancing = TRUE])
    /\ UNCHANGED <<delivery, incident, plans, actions, faults>>

\* The command is bound to a plan that is no longer current.
Stale(c) == bound[c].plan \notin {0, plan}

LoadNothingToDo(w) ==
    LET c == job[w].msg[1] IN
    /\ job[w].pc = "load"
    /\ \/ Stale(c)
       \/ c[1] \in Replan /\ status # "PLANNING"
       \/ c[1] \in Phase /\ status # "RETRY_SCHEDULED"
    /\ Goto(w, "finish")
    /\ UNCHANGED <<delivery, incident, plans, actions, faults>>

Load(w) ==
    LET c == job[w].msg[1] IN
    /\ job[w].pc = "load" /\ ~Stale(c)
    /\ \/ c[1] = "RESUME" /\ Set(w, [job[w] EXCEPT !.pc = "resume", !.plan = c[2]])
       \/ c[1] = "EXPIRE" /\ Goto(w, "expire")
       \/ c[1] \in Replan /\ status = "PLANNING" /\ Goto(w, "prepare")
    /\ UNCHANGED <<delivery, incident, plans, actions, faults>>

LoadRetry(w) ==
    LET c == job[w].msg[1] IN
    /\ job[w].pc = "load" /\ ~Stale(c)
    /\ c[1] \in Phase /\ status = "RETRY_SCHEDULED"
    /\ MoveIncident(c[1])
    /\ Set(w, IF c[1] = "EXECUTING_AUTO"
              THEN [job[w] EXCEPT !.pc = "continue", !.plan = plan]
              ELSE [job[w] EXCEPT !.pc = "resume", !.plan = bound[c].approval])
    /\ UNCHANGED <<delivery, plans, actions, faults>>

\* expire_approval_and_enqueue_replan
Expire(w) ==
    LET v == job[w].msg[1][2]
        replan == <<"REPLAN_EXPIRED", v>> IN
    /\ job[w].pc = "expire"
    /\ Goto(w, "finish")
    /\ IF status = "WAITING_APPROVAL" /\ approval[v] = "LAPSED" /\ outbox[replan] = "NONE"
       THEN /\ approval' = [approval EXCEPT ![v] = "EXPIRED"]
            /\ MoveIncident("PLANNING")
            /\ Create(replan, "PENDING", 0, v)
       ELSE UNCHANGED <<approval, incident, outbox, bound>>
    /\ UNCHANGED <<copies, claim, holder, inbox, plan, sent, overtaken, actions, faults>>

Finish(w) ==
    /\ job[w].pc = "finish"
    /\ IF CompletionAccepted(job[w].msg)
       THEN /\ CompleteFor(job[w].msg)
            /\ Set(w, [job[w] EXCEPT !.pc = "advance", !.advancing = TRUE])
            /\ UNCHANGED inbox
       ELSE Raise(w) /\ UNCHANGED claim
    /\ UNCHANGED <<outbox, bound, copies, holder, incident, plans, actions, faults>>
-----------------------------------------------------------------------------
\* _advance_recovery_for_owner: carry on from the stored state.
Advance(w) ==
    /\ job[w].pc = "advance"
    /\ CASE status = "PLANNING" -> Goto(w, "prepare") /\ UNCHANGED inbox
         [] status # "PLANNING" /\ plan = 0 -> Return(w)
         [] OTHER -> /\ Set(w, [job[w] EXCEPT !.pc = "notify", !.plan = plan])
                     /\ UNCHANGED inbox
    /\ UNCHANGED <<records, incident, plans, actions, faults>>

\* prepare() reads the incident, whose status it does not look at again, and
\* the current plan.
Prepare(w) ==
    /\ job[w].pc = "prepare" /\ plan < MaxPlan
    /\ fresh' = [fresh EXCEPT ![w] = TRUE]
    /\ Set(w, [job[w] EXCEPT !.pc = "commit", !.plan = plan + 1])
    /\ UNCHANGED <<delivery, status, plans, actions, faults>>

\* commit_plan compares the version only.
Commit(w) ==
    /\ job[w].pc = "commit" /\ fresh[w]
    /\ plan' = job[w].plan
    /\ overtaken' = (overtaken \/ status # "PLANNING")
    /\ MoveIncident(status)
    /\ Goto(w, "put")
    /\ UNCHANGED <<delivery, approval, sent, actions, faults>>

CommitRefused(w) ==
    /\ job[w].pc = "commit" /\ ~fresh[w]
    /\ Raise(w)
    /\ UNCHANGED <<records, incident, plans, actions, faults>>

\* The actions are stored one by one, the flight last.
Put(w, l) ==
    LET x == <<job[w].plan, l>> IN
    /\ job[w].pc = "put" /\ x \notin Stored
    /\ l = Flight => \A k \in Label \ {Flight} : <<job[w].plan, k>> \in Stored
    /\ acts' = [acts EXCEPT ![x] = "PENDING"]
    /\ UNCHANGED <<delivery, incident, plans, tries, refusals, job, faults>>

\* Mutant: the source status is not checked.
AnnounceUnchecked(w) ==
    /\ job[w].pc = "put" /\ {job[w].plan} \X Label \subseteq Stored
    /\ MoveIncident("NOTIFYING")
    /\ overtaken' = (overtaken \/ job[w].plan # plan)
    /\ Goto(w, IF job[w].advancing THEN "notify" ELSE "finish")
    /\ UNCHANGED <<delivery, plan, approval, sent, actions, faults>>

\* The incident is announced whatever its current plan has become by now.
Announce(w) ==
    /\ job[w].pc = "put" /\ {job[w].plan} \X Label \subseteq Stored
    /\ IF status = "PLANNING"
       THEN /\ MoveIncident("NOTIFYING")
            /\ overtaken' = (overtaken \/ job[w].plan # plan)
            /\ Goto(w, IF job[w].advancing THEN "notify" ELSE "finish")
            /\ UNCHANGED inbox
       ELSE Raise(w) /\ UNCHANGED <<incident, overtaken>>
    /\ UNCHANGED <<records, plan, approval, sent, actions, faults>>

\* send_once.  A message whose answer was lost or refused is not sent again.
SendOnce(kind, v, outcome) ==
    /\ sent[<<kind, v>>] \in {"NONE", outcome}
    /\ sent' = [sent EXCEPT ![<<kind, v>>] = outcome]
    /\ IF outcome = "LOST" /\ sent[<<kind, v>>] = "NONE"
       THEN faults < MaxFaults /\ faults' = faults + 1
       ELSE UNCHANGED faults

Notify(w, outcome) ==
    /\ job[w].pc = "notify"
    /\ IF status = "NOTIFYING"
       THEN SendOnce("AWARENESS", job[w].plan, outcome)
       ELSE outcome = "SENT" /\ UNCHANGED <<sent, faults>>
    /\ Goto(w, IF outcome = "SENT" THEN "continue" ELSE "undelivered")
    /\ UNCHANGED <<delivery, incident, plan, approval, overtaken, actions>>

-----------------------------------------------------------------------------
\* continue_plan
Execute(w, phase, todo) ==
    Set(w, [job[w] EXCEPT !.pc = "run", !.phase = phase, !.todo = todo])

Continue(w) ==
    LET own == {x \in Planned : x[1] = job[w].plan}
        auto == Execute(w, "EXECUTING_AUTO", own) /\ UNCHANGED inbox IN
    /\ job[w].pc \in {"continue", "undelivered"}
    /\ CASE status = "NOTIFYING" /\ job[w].pc = "continue" -> MoveIncident("EXECUTING_AUTO") /\ auto
         [] status = "NOTIFYING" /\ job[w].pc = "undelivered" -> Return(w) /\ UNCHANGED incident
         [] status = "EXECUTING_AUTO" -> auto /\ UNCHANGED incident
         [] OTHER -> /\ Goto(w, IF NeedsApproval(job[w].plan) THEN "ask" ELSE "conclude")
                     /\ UNCHANGED <<inbox, incident>>
    /\ UNCHANGED <<records, plans, actions, faults>>

\* store_approval
Ask(w) ==
    LET v == job[w].plan IN
    /\ job[w].pc = "ask"
    /\ approval' = [approval EXCEPT ![v] = IF @ = "NONE" THEN "PENDING" ELSE @]
    /\ Goto(w, "expiry")
    /\ UNCHANGED <<delivery, incident, plan, sent, overtaken, actions, faults>>

\* Mutant: the command is not held back until the approval lapses.
EnqueueExpiryAtOnce(w) ==
    /\ job[w].pc = "expiry"
    /\ Enqueue(<<"EXPIRE", job[w].plan>>, "PENDING", job[w].plan, job[w].plan)
    /\ Goto(w, "decide")
    /\ UNCHANGED <<copies, claim, holder, inbox, incident, plans, actions, faults>>

\* _enqueue_approval_expiry
EnqueueExpiry(w) ==
    LET v == job[w].plan IN
    /\ job[w].pc = "expiry"
    /\ Enqueue(<<"EXPIRE", v>>, "LATER", v, v)
    /\ Goto(w, "decide")
    /\ UNCHANGED <<copies, claim, holder, inbox, incident, plans, actions, faults>>

\* Mutant: the source status is not checked.
DecideUnchecked(w) ==
    /\ job[w].pc = "decide"
    /\ MoveIncident("WAITING_APPROVAL")
    /\ Goto(w, IF job[w].advancing THEN "card" ELSE "finish")
    /\ UNCHANGED <<delivery, plans, actions, faults>>

\* continue_plan for a plan whose approval is stored.
Decide(w) ==
    /\ job[w].pc = "decide"
    /\ IF status = "EXECUTING_AUTO" THEN MoveIncident("WAITING_APPROVAL") ELSE UNCHANGED incident
    /\ Goto(w, CASE status \in {"EXECUTING_APPROVED", "VERIFYING"} -> "resume"
                 [] status \notin {"EXECUTING_APPROVED", "VERIFYING"} /\ job[w].advancing -> "card"
                 [] OTHER -> "finish")
    /\ UNCHANGED <<delivery, plans, actions, faults>>

\* send_once of the approval card, whatever status continue_plan came back with.
Card(w, outcome) ==
    /\ job[w].pc = "card"
    /\ SendOnce("APPROVAL", job[w].plan, outcome)
    /\ Return(w)
    /\ UNCHANGED <<records, incident, plan, approval, overtaken, actions>>

\* The end of continue_plan for a plan that asks for nothing.
Conclude(w) ==
    /\ job[w].pc = "conclude"
    /\ CASE status = "EXECUTING_AUTO" ->
                MoveIncident("VERIFYING") /\ Goto(w, "judge") /\ UNCHANGED inbox
         [] status = "VERIFYING" -> Goto(w, "judge") /\ UNCHANGED <<inbox, incident>>
         [] OTHER -> Return(w) /\ UNCHANGED incident
    /\ UNCHANGED <<records, plans, actions, faults>>

\* resume_after_approval
Resume(w) ==
    /\ job[w].pc = "resume"
    /\ CASE approval[job[w].plan] # "APPROVED" -> Raise(w) /\ UNCHANGED incident
         [] approval[job[w].plan] = "APPROVED" /\ status = "WAITING_APPROVAL" ->
                MoveIncident("EXECUTING_APPROVED") /\ Goto(w, "list") /\ UNCHANGED inbox
         [] approval[job[w].plan] = "APPROVED" /\ status = "EXECUTING_APPROVED" ->
                Goto(w, "list") /\ UNCHANGED <<inbox, incident>>
         [] approval[job[w].plan] = "APPROVED" /\ status = "VERIFYING" ->
                Goto(w, "judge") /\ UNCHANGED <<inbox, incident>>
         [] OTHER -> Return(w) /\ UNCHANGED incident
    /\ UNCHANGED <<records, plans, actions, faults>>

\* The approved phase works through the stored actions of every plan version.
List(w) ==
    /\ job[w].pc = "list"
    /\ Execute(w, "EXECUTING_APPROVED", Stored)
    /\ UNCHANGED <<delivery, incident, plans, actions, faults>>

-----------------------------------------------------------------------------
(***************************************************************************)
(* _execute_actions.  ActionExecutor models execute in detail; here it is  *)
(* a claim (Take) and an outcome, or no effect at all.  The passes over    *)
(* "remaining" try an approved action again until its prerequisites have   *)
(* had their turn; any other action whose execution returns None is given  *)
(* up at once, in the order of the query.                                  *)
(***************************************************************************)
\* Mutant: any plan's actions are approved with the plan in hand.
GrantedForAnyPlan(w, x) == job[w].phase = "EXECUTING_APPROVED" /\ x \in Asked
Granted(w, x) ==
    job[w].phase = "EXECUTING_APPROVED" /\ x[1] = job[w].plan /\ x \in Asked

HasItsTurn(w, x) ==
    \/ Prerequisites(x) \cap job[w].todo = {}
    \/ job[w].phase = "EXECUTING_APPROVED" /\ ~Granted(w, x)

\* Mutant: the automatic phase leaves nothing out.
PermittedAtOnce(w, x) ==
    x \in Asked => job[w].phase = "EXECUTING_AUTO" \/ Granted(w, x)
Permitted(w, x) == x \in Asked => Granted(w, x)
PrerequisitesVerified(x) == \A y \in Prerequisites(x) : acts[y] = "VERIFIED"
Allowed(w, x) == Permitted(w, x) /\ PrerequisitesVerified(x)

Trying(w, x) == job[w].pc = "run" /\ x \in job[w].todo /\ HasItsTurn(w, x)
TurnOver(w, x) == Set(w, [job[w] EXCEPT !.todo = @ \ {x}])

Skip(w, x) ==
    /\ Trying(w, x)
    /\ Allowed(w, x) => acts[x] \in {"VERIFIED", "FAILED_TERMINAL", "BACKING_OFF", "LEASED"}
    /\ TurnOver(w, x)
    /\ UNCHANGED <<delivery, incident, plans, actions, faults>>

\* An action that is not stored yet is an error.
Missing(w, x) ==
    /\ Trying(w, x) /\ Allowed(w, x) /\ x \notin Stored
    /\ Raise(w)
    /\ UNCHANGED <<records, incident, plans, actions, faults>>

\* The effect of another request's attempt is found at the provider.
Reconcile(w, x) ==
    /\ Trying(w, x) /\ Allowed(w, x) /\ acts[x] \in {"LEASED", "LAPSED"}
    /\ acts' = [acts EXCEPT ![x] = "VERIFIED"]
    /\ TurnOver(w, x)
    /\ UNCHANGED <<delivery, incident, plans, tries, refusals, faults>>

Take(w, x) ==
    /\ Trying(w, x) /\ Allowed(w, x) /\ acts[x] \in Takeable
    /\ acts' = [acts EXCEPT ![x] = "LEASED"]
    /\ tries' = [tries EXCEPT ![x] = @ + 1]
    /\ Set(w, [job[w] EXCEPT !.pc = "call", !.todo = @ \ {x}, !.calling = {x}])
    /\ UNCHANGED <<delivery, incident, plans, refusals, faults>>

\* What the provider's answer makes of a leased action, whoever holds the lease
\* by now: every request passes the same worker id.
Answer(w, x, outcome) ==
    /\ job[w].pc = "call" /\ x \in job[w].calling
    /\ acts[x] \in {"LEASED", "LAPSED"}
    /\ outcome = "BACKING_OFF" => tries[x] <= MaxAttempt
    /\ outcome = "FAILED_TERMINAL" => refusals < MaxTerminal
    /\ acts' = [acts EXCEPT ![x] = outcome]
    /\ refusals' = IF outcome = "FAILED_TERMINAL" THEN refusals + 1 ELSE refusals
    /\ Set(w, [job[w] EXCEPT !.pc = "run", !.calling = {}])
    /\ UNCHANGED <<delivery, incident, plans, tries, faults>>

\* An answer to an attempt that another request has seen the end of changes nothing.
AnswerTooLate(w, x) ==
    /\ job[w].pc = "call" /\ x \in job[w].calling
    /\ acts[x] \notin {"LEASED", "LAPSED"}
    /\ Set(w, [job[w] EXCEPT !.pc = "run", !.calling = {}])
    /\ UNCHANGED <<delivery, incident, plans, actions, faults>>

-----------------------------------------------------------------------------
\* _execution_barrier over the stored actions of every plan version.
AtBarrier(w) == job[w].pc = "run" /\ job[w].todo = {}
AnyTerminal == \E x \in Planned : acts[x] = "FAILED_TERMINAL"
Waiting == {x \in Planned : acts[x] \in Retryable}
LatestAttempt(n) == /\ \E x \in Waiting : tries[x] = n
                    /\ \A x \in Waiting : tries[x] <= n

BarrierStops(w) ==
    /\ AtBarrier(w)
    /\ \/ AnyTerminal /\ Set(w, [job[w] EXCEPT !.pc = "settle", !.next = "NEEDS_ATTENTION"])
       \/ /\ ~AnyTerminal
          /\ \E n \in 1..MaxAttempt :
                /\ LatestAttempt(n)
                /\ Set(w, [job[w] EXCEPT !.pc = "settle", !.next = "RETRY_SCHEDULED",
                                         !.attempt = n])
    /\ UNCHANGED <<delivery, incident, plans, actions, faults>>

BarrierPasses(w) ==
    /\ AtBarrier(w) /\ ~AnyTerminal /\ Waiting = {}
    /\ CASE job[w].phase = "EXECUTING_APPROVED" ->
                Set(w, [job[w] EXCEPT !.pc = "settle", !.next = "VERIFYING"])
         [] job[w].phase = "EXECUTING_AUTO" /\ ~NeedsApproval(job[w].plan) ->
                Goto(w, "conclude")
         [] OTHER -> Goto(w, "ask")
    /\ UNCHANGED <<delivery, incident, plans, actions, faults>>

\* The transition decided by the barrier or the verifier.
Settle(w) ==
    /\ job[w].pc = "settle"
    /\ IF status # job[w].phase
       THEN Raise(w) /\ UNCHANGED incident
       ELSE /\ MoveIncident(job[w].next)
            /\ CASE job[w].next = "RETRY_SCHEDULED" -> Goto(w, "retry") /\ UNCHANGED inbox
                 [] job[w].next = "VERIFYING" -> Goto(w, "judge") /\ UNCHANGED inbox
                 [] OTHER -> Return(w)
    /\ UNCHANGED <<records, plans, actions, faults>>

\* Mutant: nothing is stored.
EnqueueNoRetry(w) ==
    /\ job[w].pc = "retry"
    /\ Return(w)
    /\ UNCHANGED <<records, incident, plans, actions, faults>>

\* The retry command is stored in a transaction of its own.
EnqueueRetry(w) ==
    /\ job[w].pc = "retry"
    /\ Enqueue(<<job[w].phase, job[w].attempt>>, "LATER", plan, job[w].plan)
    /\ Return(w)
    /\ UNCHANGED <<copies, claim, holder, incident, plans, actions, faults>>

\* Mutant: actions that have not failed are good enough.
RecoverableUnlessFailed(w) ==
    \E v \in Version :
        /\ \A x \in Stored : x[1] <= v
        /\ <<v, Flight>> \in Stored
        /\ \A x \in Stored : x[1] = v => acts[x] \in {"LEASED", "LAPSED", "VERIFIED"}
        /\ (\E l \in Label : <<v, l>> \in Asked \cap Stored) =>
               job[w].plan = v /\ approval[v] = "APPROVED"

\* can_mark_recovered: the newest stored actions, and the approval in hand.
Recoverable(w) ==
    \E v \in Version :
        /\ \A x \in Stored : x[1] <= v
        /\ <<v, Flight>> \in Stored
        /\ \A x \in Stored : x[1] = v => acts[x] = "VERIFIED"
        /\ (\E l \in Label : <<v, l>> \in Asked \cap Stored) =>
               job[w].plan = v /\ approval[v] = "APPROVED"

\* _finish_if_verified
Judge(w) ==
    /\ job[w].pc = "judge"
    /\ Set(w, [job[w] EXCEPT !.pc = "settle", !.phase = "VERIFYING",
                             !.next = IF Recoverable(w) THEN "RECOVERED" ELSE "NEEDS_ATTENTION"])
    /\ UNCHANGED <<delivery, incident, plans, actions, faults>>
-----------------------------------------------------------------------------
\* The traveler's decisions, on any card that was ever sent.
\* consume_approval is the only one that looks at the plan.
Approve(v) ==
    /\ status = "WAITING_APPROVAL" /\ v = plan
    /\ approval[v] = "PENDING" /\ outbox[<<"RESUME", v>>] = "NONE"
    /\ approval' = [approval EXCEPT ![v] = "APPROVED"]
    /\ Create(<<"RESUME", v>>, "PENDING", v, v)
    /\ UNCHANGED <<copies, claim, holder, inbox, incident, plan, sent, overtaken, actions, job, faults>>

Decline(v) ==
    /\ status = "WAITING_APPROVAL" /\ approval[v] = "PENDING"
    /\ approval' = [approval EXCEPT ![v] = "DECLINED"]
    /\ MoveIncident("CANCELLED")
    /\ UNCHANGED <<delivery, plan, sent, overtaken, actions, job, faults>>

\* Mutant: the old approval is not superseded.
RequestReplanOnly(v, kind) ==
    /\ plan < MaxPlan
    /\ \/ kind = "REPLAN_ANOTHER" /\ status = "WAITING_APPROVAL" /\ approval[v] \in Undecided
       \/ kind = "REPLAN_RESUMED" /\ status = "CANCELLED" /\ approval[v] = "DECLINED"
    /\ outbox[<<kind, v>>] = "NONE"
    /\ MoveIncident("PLANNING")
    /\ Create(<<kind, v>>, "PENDING", v, v)
    /\ UNCHANGED <<copies, claim, holder, inbox, plans, actions, job, faults>>

\* request_approval_replan: "find another", or "resume" after a decline.
RequestReplan(v, kind) ==
    /\ plan < MaxPlan
    /\ \/ /\ kind = "REPLAN_ANOTHER"
          /\ status = "WAITING_APPROVAL" /\ approval[v] \in Undecided
       \/ /\ kind = "REPLAN_RESUMED"
          /\ status = "CANCELLED" /\ approval[v] = "DECLINED"
    /\ outbox[<<kind, v>>] = "NONE"
    /\ approval' = [approval EXCEPT ![v] = "SUPERSEDED"]
    /\ MoveIncident("PLANNING")
    /\ Create(<<kind, v>>, "PENDING", v, v)
    /\ UNCHANGED <<copies, claim, holder, inbox, plan, sent, overtaken, actions, job, faults>>

-----------------------------------------------------------------------------
\* Time and failures
\* Only an approval whose expiry leaves room for another plan lapses.
Lapse(v) ==
    /\ approval[v] = "PENDING" /\ plan < MaxPlan
    /\ approval' = [approval EXCEPT ![v] = "LAPSED"]
    /\ UNCHANGED <<delivery, incident, plan, sent, overtaken, actions, job, faults>>

BackedOff(x) ==
    /\ acts[x] = "BACKING_OFF"
    /\ acts' = [acts EXCEPT ![x] = "DUE"]
    /\ UNCHANGED <<delivery, incident, plans, tries, refusals, job, faults>>

\* An expiry is due when its approval has lapsed, a retry when the first of
\* the failed actions may be tried again.
Due(c) ==
    /\ c[1] = "EXPIRE" => approval[c[2]] # "PENDING"
    /\ c[1] \in Phase => (\E x \in Planned : acts[x] = "DUE")
                         \/ \A x \in Planned : acts[x] # "BACKING_OFF"
    /\ ComesDue(c)
    /\ UNCHANGED <<bound, copies, claim, holder, inbox, incident, plans, actions, job, faults>>

Dispatch(c, marked) ==
    /\ Publish(c, marked)
    /\ UNCHANGED <<bound, claim, holder, incident, plans, actions, job, faults>>

CommandLeaseEnds(c) ==
    /\ LeaseEnds(c)
    /\ UNCHANGED <<outbox, bound, copies, holder, inbox, incident, plans, actions, job, faults>>

\* It ends by the clock, whether its holder has died or is still at the provider.
ActionLeaseEnds(x) ==
    /\ acts[x] = "LEASED"
    /\ acts' = [acts EXCEPT ![x] = "LAPSED"]
    /\ UNCHANGED <<delivery, incident, plans, tries, refusals, job, faults>>

\* The request dies, or what it awaits raises.
Fault(w) ==
    /\ job[w].pc # "idle" /\ faults < MaxFaults
    /\ faults' = faults + 1
    /\ Raise(w)
    /\ UNCHANGED <<records, incident, plans, actions>>

-----------------------------------------------------------------------------
CommandStep(w) ==
    \/ Claim(w) \/ ClaimRefused(w) \/ LoadNothingToDo(w) \/ Load(w) \/ LoadRetry(w)
    \/ Expire(w) \/ Finish(w)

AdvanceStep(w) ==
    \/ Advance(w) \/ Prepare(w) \/ Commit(w) \/ CommitRefused(w)
    \/ \E l \in Label : Put(w, l)
    \/ Announce(w)
    \/ \E outcome \in {"SENT", "LOST"} : Notify(w, outcome) \/ Card(w, outcome)

ContinueStep(w) ==
    \/ Continue(w) \/ Ask(w) \/ EnqueueExpiry(w) \/ Decide(w) \/ Conclude(w)
    \/ Resume(w) \/ List(w)

ExecuteStep(w) ==
    \/ \E x \in Planned :
          \/ Skip(w, x) \/ Missing(w, x) \/ Reconcile(w, x) \/ Take(w, x)
          \/ AnswerTooLate(w, x)
          \/ \E outcome \in {"VERIFIED", "BACKING_OFF", "FAILED_TERMINAL"} : Answer(w, x, outcome)
    \/ BarrierStops(w) \/ BarrierPasses(w) \/ Settle(w) \/ EnqueueRetry(w) \/ Judge(w)

Step(w) == CommandStep(w) \/ AdvanceStep(w) \/ ContinueStep(w) \/ ExecuteStep(w)

Traveler(v) ==
    /\ sent[<<"APPROVAL", v>>] # "NONE"
    /\ \/ Approve(v) \/ Decline(v)
       \/ \E kind \in {"REPLAN_ANOTHER", "REPLAN_RESUMED"} : RequestReplan(v, kind)

Environment ==
    \/ \E v \in Version : Traveler(v) \/ Lapse(v)
    \/ \E x \in Planned : BackedOff(x) \/ ActionLeaseEnds(x)
    \/ \E c \in Command : Due(c) \/ CommandLeaseEnds(c) \/ \E marked \in BOOLEAN : Dispatch(c, marked)

Next ==
    \/ \E w \in Worker : Step(w) \/ Fault(w) \/ \E m \in Message : Begin(w, m)
    \/ Environment

Spec == Init /\ [][Next]_vars

(***************************************************************************)
(* A running request goes on, an idle instance is given a waiting message, *)
(* time passes and the scheduler's tick sweeps the outbox.  The traveler   *)
(* need not do anything.                                                   *)
(***************************************************************************)
FairSpec ==
    /\ Spec
    /\ \A w \in Worker : WF_vars(Step(w)) /\ WF_vars(\E m \in Message : Begin(w, m))
    /\ \A v \in Version : WF_vars(Lapse(v))
    /\ \A x \in Planned : WF_vars(BackedOff(x)) /\ WF_vars(ActionLeaseEnds(x))
    /\ \A c \in Command : WF_vars(Due(c)) /\ WF_vars(CommandLeaseEnds(c))
                          /\ WF_vars(Dispatch(c, TRUE))
-----------------------------------------------------------------------------
TypeOK ==
    /\ DeliveryTypeOK
    /\ status \in Status
    /\ plan \in 0..MaxPlan
    /\ approval \in [Version -> ApprovalStatus]
    /\ acts \in [Planned -> ActionStatus]
    /\ tries \in [Planned -> Nat]
    /\ sent \in [Notification -> {"NONE", "SENT", "LOST"}]
    /\ overtaken \in BOOLEAN
    /\ job \in [Worker -> Job]
    /\ fresh \in [Worker -> BOOLEAN]
    /\ refusals \in 0..MaxTerminal /\ faults \in 0..MaxFaults

\* What can_mark_recovered must mean: every action of the plan is verified, and the
\* traveler approved the plan if any of them needs it.
PlanIsVerified(v) ==
    /\ <<v, Flight>> \in Stored
    /\ \A l \in Label : <<v, l>> \in Stored => acts[<<v, l>>] = "VERIFIED"
    /\ NeedsApproval(v) => approval[v] = "APPROVED"

\* can_mark_recovered, "the terminal success guard": an incident that counts as
\* recovered has a verified plan, whatever other requests do to plans, actions
\* and approvals between the verdict and the transition.
RecoveredIsVerified == status = "RECOVERED" => \E v \in Version : PlanIsVerified(v)

\* approved_action_ids of _execute_actions: nothing that asks for the traveler's
\* approval is begun under a plan that was not approved, though the approved
\* phase works through the actions of every plan version.
EffectsAreAuthorized ==
    \A x \in Planned :
        x \in Asked /\ acts[x] \notin {"NONE", "PENDING"} => approval[x[1]] = "APPROVED"

\* The workflow keeps to the table of services/state_machine.py, which it never
\* consults: every transition names its source states itself.
Lifecycle == INSTANCE IncidentLifecycle
FollowsLifecycle == Lifecycle!Spec

\* _execute_actions and execute: an action lives as ActionExecutor lets it, though
\* the workflow reads its prerequisites, approval and outcome in separate steps.
LifeState(s) ==
    CASE s \in {"NONE", "PENDING"} -> "OPEN"
      [] s \in {"LEASED", "LAPSED"} -> "TAKEN"
      [] s \in Retryable -> "RETRY"
      [] s = "FAILED_TERMINAL" -> "FAILED"
      [] s = "VERIFIED" -> "VERIFIED"

Life == INSTANCE ActionLife WITH
    Action <- Planned,
    Asks <- Asked,
    Needs <- [x \in Planned |-> Prerequisites(x)],
    granted <- {x \in Planned : approval[x[1]] = "APPROVED"},
    state <- [x \in Planned |-> LifeState(acts[x])]
KeepsToLife == Life!Spec

\* _execution_barrier, "retryable action failures schedule a retry": an incident waits
\* for a retry only while a command that will end the wait is in store or about to be.
RetryIsScheduled ==
    status = "RETRY_SCHEDULED" =>
        \/ \E w \in Worker : job[w].pc = "retry"
        \/ \E p \in Phase, n \in 1..MaxAttempt :
              /\ outbox[<<p, n>>] # "NONE" /\ ~Stale(<<p, n>>)
              /\ \/ outbox[<<p, n>>] # "PUBLISHED"
                 \/ \E k \in 1..MaxCopy : <<<<p, n>>, k>> \in inbox

\* prd.md "stale, expired, superseded ... callbacks execute nothing": decline, "find
\* another" and expiry do not look at the plan, and yet a decision on a card is only
\* taken while the card's plan is current -- unless two requests have planned at once
\* and one plan overtook the other.
DecisionsConcernCurrentPlan ==
    [][\A v \in Version :
          ~overtaken /\ approval'[v] # approval[v] /\ approval'[v] \notin Undecided
          => v = plan]_vars

\* Unless one plan overtook another, at most one plan's approval-bound actions are ever
\* begun, however many requests, retries and replans there are.
OnePlanIsActedOn ==
    overtaken \/ \A x, y \in Planned :
        /\ x \in Asked /\ acts[x] \notin {"NONE", "PENDING"}
        /\ y \in Asked /\ acts[y] \notin {"NONE", "PENDING"}
        => x[1] = y[1]

\* Unless one plan overtook another, an incident ends as its CURRENT plan did: it is
\* recovered by a plan that is carried out and approved, and cancelled by a decline of
\* that plan, whatever requests overlapped and decided in between.
OutcomeIsOfCurrentPlan ==
    ~overtaken =>
        /\ status = "RECOVERED" => PlanIsVerified(plan)
        /\ status = "CANCELLED" => plan \in Version /\ approval[plan] = "DECLINED"

\* "Multiple passes make dependency ordering independent from Firestore query order":
\* when the passes are over, no action of the plan in hand that may be carried out in
\* this phase, and whose prerequisites are verified, has been left out.
NoneIsLeftOut ==
    \A w \in Worker : AtBarrier(w) =>
        \A x \in Stored : x[1] = job[w].plan /\ Allowed(w, x) => acts[x] # "PENDING"

\* Where one request at a time leaves an incident, the stored records say why, wherever
\* a request died on the way: a retry waits for an action that can be retried, the
\* traveler is asked only when the automatic work is done, by an approval that can
\* be answered and will expire, a person is called in only when something failed or
\* is undone, recovered is what the current plan is, and nobody is at a provider.
RestHasAReason ==
    /\ status = "RETRY_SCHEDULED" => Waiting # {} /\ ~AnyTerminal
    /\ status = "WAITING_APPROVAL" =>
          /\ Waiting = {} /\ ~AnyTerminal
          /\ plan \in Version /\ approval[plan] \in Undecided \cup {"APPROVED"}
          /\ outbox[<<"EXPIRE", plan>>] # "NONE"
          /\ approval[plan] = "APPROVED" => outbox[<<"RESUME", plan>>] # "NONE"
    /\ status = "CANCELLED" => plan \in Version /\ approval[plan] = "DECLINED"
    /\ status = "NEEDS_ATTENTION" => AnyTerminal \/ ~PlanIsVerified(plan)
    /\ status = "RECOVERED" => PlanIsVerified(plan)
    /\ status \notin Phase => \A w \in Worker : job[w].pc # "call"

\* Nothing more will touch the incident, unless the traveler does.
Quiet == inbox = {} /\ \A c \in Command : outbox[c] \in {"NONE", "PUBLISHED"}

\* The command that should end the wait shares its id with one carried out before, so
\* that none was stored: the id names an attempt and neither plan nor action.
RetryIsSpent ==
    status = "RETRY_SCHEDULED" /\ \E p \in Phase, n \in 1..MaxAttempt :
        LatestAttempt(n) /\ claim[<<p, n>>] = "COMPLETED"

\* process_command, the outbox and the push subscription: when nothing is left to be
\* delivered, the incident is finished.  A request that died, or a lost Telegram answer,
\* may leave it waiting for its first message, a retry or a decision for ever, but never
\* in the middle of planning, carrying out or verifying.
QuietIsFinished ==
    Quiet => \/ status \in Terminal
             \/ faults > 0 /\ status \in {"NOTIFYING", "RETRY_SCHEDULED", "WAITING_APPROVAL"}
             \/ RetryIsSpent
-----------------------------------------------------------------------------
\* As long as no request dies and no Telegram answer is lost, redelivery brings the
\* workflow to rest: recovered, handed to a person, stopped, or waiting for the
\* traveler.  The exception is a retry whose command id is spent.
ComesToRest ==
    status \notin Terminal ~> status \in Terminal \cup {"WAITING_APPROVAL"} \/ RetryIsSpent

\* docs/CLOUD_PROOF.md of approve and the outbox sweep: a worker that is down cannot
\* turn a successful approval into a lost recovery, which is carried out or handed to
\* a person.
ApprovalIsCarriedOut ==
    \A v \in Version : approval[v] = "APPROVED" ~> status \in {"RECOVERED", "NEEDS_ATTENTION"}

\* _enqueue_approval_expiry: as long as no request dies, an incident does not go on
\* waiting for a decision whose time has passed.
LapsedApprovalsEnd ==
    \A v \in Version :
        status = "WAITING_APPROVAL" /\ v = plan /\ approval[v] = "LAPSED"
        ~> approval[v] # "LAPSED"
=============================================================================
