------------------------ MODULE RecoveryWorkflow_proofs ------------------------
(***************************************************************************)
(* Proofs about RecoveryWorkflow, for any number of requests, plans,       *)
(* actions, attempts, messages and failures, and however they overlap.     *)
(***************************************************************************)
EXTENDS RecoveryWorkflow, TLAPS

-----------------------------------------------------------------------------
(***************************************************************************)
(* The types of what the helpers of the handlers write.                    *)
(***************************************************************************)
JobsTyped == job \in [Worker -> Job]

LEMMA IdleTyped == Idle \in Job
  BY DeliveryAssumption DEF Idle, Job, PC, Message, Phase, Status, Terminal

\* The updates the handlers make to their locals.
LEMMA JobTyped ==
  ASSUME NEW j \in Job, NEW label \in PC
  PROVE  /\ [j EXCEPT !.pc = label] \in Job
         /\ [j EXCEPT !.pc = label, !.advancing = TRUE] \in Job
         /\ \A p \in 0..MaxPlan : [j EXCEPT !.pc = label, !.plan = p] \in Job
         /\ \A s \in Status :
               /\ [j EXCEPT !.pc = label, !.next = s] \in Job
               /\ [j EXCEPT !.pc = label, !.phase = "VERIFYING", !.next = s] \in Job
               /\ \A n \in Nat : [j EXCEPT !.pc = label, !.next = s, !.attempt = n] \in Job
         /\ \A p \in Phase, xs \in SUBSET Planned :
               [j EXCEPT !.pc = label, !.phase = p, !.todo = xs] \in Job
         /\ \A x \in Planned :
               [j EXCEPT !.pc = label, !.todo = @ \ {x}, !.calling = {x}] \in Job
         /\ [j EXCEPT !.pc = label, !.calling = {}] \in Job
  BY DEF Job

LEMMA SetTyped ==
  ASSUME JobsTyped, NEW w \in Worker, NEW j \in Job, Set(w, j)
  PROVE  JobsTyped'
  BY DEF Set, JobsTyped

LEMMA GotoTyped ==
  ASSUME JobsTyped, NEW w \in Worker, NEW label \in PC, Goto(w, label)
  PROVE  JobsTyped'
  BY JobTyped, SetTyped DEF Goto, JobsTyped

LEMMA RaiseTyped ==
  ASSUME JobsTyped, NEW w \in Worker, Raise(w)
  PROVE  JobsTyped' /\ inbox' = inbox
  BY IdleTyped, SetTyped DEF Raise

LEMMA ReturnTyped ==
  ASSUME JobsTyped, inbox \subseteq Message, NEW w \in Worker, Return(w)
  PROVE  JobsTyped' /\ inbox' \subseteq Message
<1>1. CASE job[w].advancing
  BY <1>1, IdleTyped, SetTyped DEF Return, Acknowledge
<1>2. CASE ~ job[w].advancing
  BY <1>2, GotoTyped DEF Return, PC
<1> QED
  BY <1>1, <1>2

IncidentTyped == status \in Status /\ fresh \in [Worker -> BOOLEAN]

LEMMA MoveTyped ==
  ASSUME NEW to \in Status, MoveIncident(to)
  PROVE  IncidentTyped'
<1>1. fresh' \in [Worker -> BOOLEAN]
  BY Zenon DEF MoveIncident
<1> QED
  BY <1>1 DEF MoveIncident, IncidentTyped

OutboxTyped ==
    /\ outbox \in [Command -> {"NONE", "LATER", "PENDING", "PUBLISHED"}]
    /\ bound \in [Command -> Binding]

LEMMA CreateTyped ==
  ASSUME OutboxTyped, NEW c, NEW when \in {"LATER", "PENDING"},
         NEW p \in 0..MaxPlan, NEW a \in 0..MaxPlan, Create(c, when, p, a)
  PROVE  OutboxTyped'
<1>1. [plan |-> p, approval |-> a] \in Binding
  BY DEF Binding
<1> QED
  BY <1>1 DEF OutboxTyped, Create

LEMMA EnqueueTyped ==
  ASSUME OutboxTyped, NEW c, NEW when \in {"LATER", "PENDING"},
         NEW p \in 0..MaxPlan, NEW a \in 0..MaxPlan, Enqueue(c, when, p, a)
  PROVE  OutboxTyped'
<1>1. CASE outbox[c] = "NONE"
  BY <1>1, CreateTyped DEF Enqueue
<1>2. CASE outbox[c] # "NONE"
  BY <1>2 DEF Enqueue, OutboxTyped
<1> QED
  BY <1>1, <1>2

\* What else there is to the type, in three parts.
ClaimsTyped ==
    /\ copies \in [Command -> 0..MaxCopy]
    /\ claim \in [Command -> {"NONE", "LEASED", "LAPSED", "COMPLETED"}]
    /\ holder \in [Command -> 0..MaxCopy]

PlansTyped ==
    /\ plan \in 0..MaxPlan
    /\ approval \in [Version -> ApprovalStatus]
    /\ sent \in [Notification -> {"NONE", "SENT", "LOST"}]
    /\ overtaken \in BOOLEAN

ActionsTyped ==
    /\ acts \in [Planned -> ActionStatus]
    /\ tries \in [Planned -> Nat]
    /\ refusals \in 0..MaxTerminal

AllTyped ==
    /\ OutboxTyped /\ ClaimsTyped /\ inbox \subseteq Message
    /\ IncidentTyped /\ PlansTyped /\ ActionsTyped
    /\ JobsTyped /\ faults \in 0..MaxFaults

LEMMA TypeParts == (TypeOK <=> AllTyped) /\ (TypeOK' <=> AllTyped')
<1> USE DEF TypeOK, DeliveryTypeOK, AllTyped, OutboxTyped, ClaimsTyped, IncidentTyped,
            PlansTyped, ActionsTyped, JobsTyped
<1>1. TypeOK <=> AllTyped
  OBVIOUS
<1>2. TypeOK' <=> AllTyped'
  OBVIOUS
<1> QED
  BY <1>1, <1>2

\* Each part depends on its own variables alone.
LEMMA PartsFrame ==
  /\ OutboxTyped /\ UNCHANGED <<outbox, bound>> => OutboxTyped'
  /\ ClaimsTyped /\ UNCHANGED <<copies, claim, holder>> => ClaimsTyped'
  /\ IncidentTyped /\ UNCHANGED incident => IncidentTyped'
  /\ PlansTyped /\ UNCHANGED plans => PlansTyped'
  /\ ActionsTyped /\ UNCHANGED actions => ActionsTyped'
  /\ JobsTyped /\ UNCHANGED job => JobsTyped'
  BY DEF OutboxTyped, ClaimsTyped, IncidentTyped, PlansTyped, ActionsTyped, JobsTyped,
         incident, plans, actions

LEMMA TypeInit == Init => TypeOK
<1> SUFFICES ASSUME Init PROVE AllTyped
  BY TypeParts
<1> USE DEF Init
<1>1. OutboxTyped /\ ClaimsTyped /\ inbox \subseteq Message
  BY DeliveryAssumption DEF DeliveryInit, OutboxTyped, ClaimsTyped, Binding, Message
<1>2. IncidentTyped /\ JobsTyped
  BY IdleTyped DEF IncidentTyped, JobsTyped, Status
<1>3. PlansTyped
  <2>1. plan \in 0..MaxPlan /\ approval \in [Version -> ApprovalStatus]
    BY DeliveryAssumption DEF ApprovalStatus
  <2>2. overtaken \in BOOLEAN /\ sent \in [Notification -> {"NONE", "SENT", "LOST"}]
    OBVIOUS
  <2> QED
    BY <2>1, <2>2 DEF PlansTyped
<1>4. ActionsTyped /\ faults \in 0..MaxFaults
  BY RecoveryAssumption DEF ActionsTyped, ActionStatus
<1> QED
  BY <1>1, <1>2, <1>3, <1>4 DEF AllTyped

-----------------------------------------------------------------------------
(***************************************************************************)
(* Type correctness, one step per action.                                  *)
(***************************************************************************)
LEMMA CommandStepTyped ==
  ASSUME AllTyped, NEW w \in Worker, CommandStep(w)
  PROVE  AllTyped'
<1> USE PartsFrame DEF AllTyped, delivery, records
<1>1. CASE Claim(w)
  <2>1. job[w].msg \in Message
    BY DEF JobsTyped, Job
  <2>2. ClaimsTyped'
    BY <1>1, <2>1 DEF Claim, ClaimFor, ClaimsTyped, Message
  <2> QED
    BY <1>1, <2>2, GotoTyped DEF Claim, PC
<1>2. CASE ClaimRefused(w)
  <2>1. [job[w] EXCEPT !.pc = "advance", !.advancing = TRUE] \in Job
    BY JobTyped DEF JobsTyped, PC
  <2> QED
    BY <1>2, <2>1, SetTyped DEF ClaimRefused
<1>3. CASE LoadNothingToDo(w)
  BY <1>3, GotoTyped DEF LoadNothingToDo, PC
<1>4. CASE Load(w)
  <2>1. CASE Goto(w, "expire") \/ Goto(w, "prepare")
    BY <1>4, <2>1, GotoTyped DEF Load, PC
  <2>2. CASE /\ job[w].msg[1][1] = "RESUME"
             /\ Set(w, [job[w] EXCEPT !.pc = "resume", !.plan = job[w].msg[1][2]])
    <3>1. job[w].msg[1][2] \in 0..MaxPlan
      BY <2>2, DeliveryAssumption DEF JobsTyped, Job, Message, Command, Event, Version, Phase
    <3>2. [job[w] EXCEPT !.pc = "resume", !.plan = job[w].msg[1][2]] \in Job
      BY <3>1, JobTyped DEF JobsTyped, PC
    <3> QED
      BY <1>4, <2>2, <3>2, SetTyped DEF Load
  <2> QED
    BY <1>4, <2>1, <2>2 DEF Load
<1>5. CASE LoadRetry(w)
  <2> DEFINE c == job[w].msg[1]
  <2>1. c \in Command /\ c[1] \in Status
    BY <1>5 DEF LoadRetry, JobsTyped, Job, Message, Event, Phase, Status
  <2>2. [job[w] EXCEPT !.pc = "continue", !.plan = plan] \in Job
    BY JobTyped DEF JobsTyped, PC, PlansTyped
  <2>3. [job[w] EXCEPT !.pc = "resume", !.plan = bound[c].approval] \in Job
    <3>1. bound[c].approval \in 0..MaxPlan
      BY <2>1 DEF OutboxTyped, Binding
    <3> QED
      BY <3>1, JobTyped DEF JobsTyped, PC
  <2> QED
    BY <1>5, <2>1, <2>2, <2>3, SetTyped, MoveTyped DEF LoadRetry
<1>6. CASE Expire(w)
  <2> DEFINE v == job[w].msg[1][2]
             replan == <<"REPLAN_EXPIRED", v>>
  <2>1. JobsTyped'
    BY <1>6, GotoTyped DEF Expire, PC
  <2>2. PlansTyped'
    BY <1>6 DEF Expire, PlansTyped, ApprovalStatus
  <2>3. IncidentTyped'
    BY <1>6, MoveTyped DEF Expire, Status
  <2>4. OutboxTyped'
    <3>1. CASE v \in 0..MaxPlan
      BY <1>6, <3>1, CreateTyped, DeliveryAssumption DEF Expire
    <3>2. CASE v \notin 0..MaxPlan
      <4>1. replan \notin Command
        BY <3>2, DeliveryAssumption DEF Command, Replan, Version, Phase
      <4>2. CASE Create(replan, "PENDING", 0, v)
        BY <4>1, <4>2 DEF OutboxTyped, Create
      <4> QED
        BY <1>6, <4>2 DEF Expire
    <3> QED
      BY <3>1, <3>2
  <2> QED
    BY <1>6, <2>1, <2>2, <2>3, <2>4 DEF Expire, actions
<1>7. CASE Finish(w)
  <2>1. JobsTyped' /\ inbox' = inbox
    <3>1. [job[w] EXCEPT !.pc = "advance", !.advancing = TRUE] \in Job
      BY JobTyped DEF JobsTyped, PC
    <3> QED
      BY <1>7, <3>1, SetTyped, RaiseTyped DEF Finish
  <2>2. ClaimsTyped'
    BY <1>7 DEF Finish, CompleteFor, ClaimsTyped
  <2> QED
    BY <1>7, <2>1, <2>2 DEF Finish
<1> QED
  BY <1>1, <1>2, <1>3, <1>4, <1>5, <1>6, <1>7 DEF CommandStep

LEMMA AdvanceStepTyped ==
  ASSUME AllTyped, NEW w \in Worker, AdvanceStep(w)
  PROVE  AllTyped'
<1> USE PartsFrame DEF AllTyped, delivery, records, incident
<1>1. CASE Advance(w)
  <2>1. [job[w] EXCEPT !.pc = "notify", !.plan = plan] \in Job
    BY JobTyped DEF JobsTyped, PC, PlansTyped
  <2>2. JobsTyped' /\ inbox' \subseteq Message
    BY <1>1, <2>1, GotoTyped, ReturnTyped, SetTyped DEF Advance, PC
  <2> QED
    BY <1>1, <2>2 DEF Advance
<1>2. CASE Prepare(w)
  <2>1. [job[w] EXCEPT !.pc = "commit", !.plan = plan + 1] \in Job
    <3>1. plan + 1 \in 0..MaxPlan
      BY <1>2, DeliveryAssumption DEF Prepare, PlansTyped
    <3> QED
      BY <3>1, JobTyped DEF JobsTyped, PC
  <2>2. IncidentTyped'
    BY <1>2 DEF Prepare, IncidentTyped
  <2> QED
    BY <1>2, <2>1, <2>2, SetTyped DEF Prepare
<1>3. CASE Commit(w)
  <2>1. PlansTyped'
    BY <1>3 DEF Commit, PlansTyped, JobsTyped, Job
  <2>2. IncidentTyped'
    BY <1>3, MoveTyped DEF Commit, IncidentTyped
  <2> QED
    BY <1>3, <2>1, <2>2, GotoTyped DEF Commit, PC
<1>4. CASE CommitRefused(w)
  BY <1>4, RaiseTyped DEF CommitRefused
<1>5. ASSUME NEW l \in Label, Put(w, l) PROVE AllTyped'
  <2>1. ActionsTyped'
    BY <1>5 DEF Put, ActionsTyped, ActionStatus, Takeable
  <2> QED
    BY <1>5, <2>1 DEF Put
<1>6. CASE Announce(w)
  <2>1. JobsTyped' /\ inbox' = inbox
    BY <1>6, GotoTyped, RaiseTyped DEF Announce, PC
  <2>2. IncidentTyped'
    BY <1>6, MoveTyped DEF Announce, Status
  <2>3. PlansTyped'
    BY <1>6 DEF Announce, PlansTyped
  <2> QED
    BY <1>6, <2>1, <2>2, <2>3 DEF Announce
<1>7. ASSUME NEW kind \in {"AWARENESS", "APPROVAL"}, NEW v, NEW outcome \in {"SENT", "LOST"},
             SendOnce(kind, v, outcome), UNCHANGED <<plan, approval, overtaken>>
      PROVE  PlansTyped' /\ faults' \in 0..MaxFaults
  <2>1. PlansTyped'
    BY <1>7 DEF SendOnce, PlansTyped
  <2>2. faults' \in 0..MaxFaults
    BY <1>7, RecoveryAssumption DEF SendOnce
  <2> QED
    BY <2>1, <2>2
<1>8. ASSUME NEW outcome \in {"SENT", "LOST"}, Notify(w, outcome) PROVE AllTyped'
  <2>1. JobsTyped'
    BY <1>8, GotoTyped DEF Notify, PC
  <2>2. PlansTyped' /\ faults' \in 0..MaxFaults
    BY <1>7, <1>8 DEF Notify, plans
  <2> QED
    BY <1>8, <2>1, <2>2 DEF Notify
<1>9. ASSUME NEW outcome \in {"SENT", "LOST"}, Card(w, outcome) PROVE AllTyped'
  <2>1. JobsTyped' /\ inbox' \subseteq Message
    BY <1>9, ReturnTyped DEF Card
  <2>2. PlansTyped' /\ faults' \in 0..MaxFaults
    BY <1>7, <1>9 DEF Card
  <2> QED
    BY <1>9, <2>1, <2>2 DEF Card
<1> QED
  BY <1>1, <1>2, <1>3, <1>4, <1>5, <1>6, <1>8, <1>9 DEF AdvanceStep

LEMMA ContinueStepTyped ==
  ASSUME AllTyped, NEW w \in Worker, ContinueStep(w)
  PROVE  AllTyped'
<1> USE PartsFrame DEF AllTyped, delivery, records
<1>1. ASSUME NEW phase \in Phase, NEW todo \in SUBSET Planned, Execute(w, phase, todo)
      PROVE  JobsTyped'
  <2>1. [job[w] EXCEPT !.pc = "run", !.phase = phase, !.todo = todo] \in Job
    BY JobTyped DEF JobsTyped, PC
  <2> QED
    BY <1>1, <2>1, SetTyped DEF Execute
<1>2. CASE Continue(w)
  <2>1. IncidentTyped'
    BY <1>2, MoveTyped DEF Continue, Status, Phase
  <2>2. JobsTyped' /\ inbox' \subseteq Message
    BY <1>1, <1>2, GotoTyped, ReturnTyped DEF Continue, Phase, PC
  <2> QED
    BY <1>2, <2>1, <2>2 DEF Continue
<1>3. CASE Ask(w)
  <2>1. PlansTyped'
    BY <1>3 DEF Ask, PlansTyped, ApprovalStatus, Undecided
  <2> QED
    BY <1>3, <2>1, GotoTyped DEF Ask, PC
<1>4. CASE EnqueueExpiry(w)
  <2>1. OutboxTyped'
    BY <1>4, EnqueueTyped DEF EnqueueExpiry, JobsTyped, Job
  <2> QED
    BY <1>4, <2>1, GotoTyped DEF EnqueueExpiry, PC
<1>5. CASE Decide(w)
  <2>1. IncidentTyped'
    BY <1>5, MoveTyped DEF Decide, Status
  <2>2. JobsTyped'
    BY <1>5, GotoTyped DEF Decide, PC
  <2> QED
    BY <1>5, <2>1, <2>2 DEF Decide
<1>6. CASE Conclude(w)
  <2>1. IncidentTyped'
    BY <1>6, MoveTyped DEF Conclude, Status
  <2>2. JobsTyped' /\ inbox' \subseteq Message
    BY <1>6, GotoTyped, ReturnTyped DEF Conclude, PC
  <2> QED
    BY <1>6, <2>1, <2>2 DEF Conclude
<1>7. CASE Resume(w)
  <2>1. IncidentTyped'
    BY <1>7, MoveTyped DEF Resume, Status, Phase
  <2>2. JobsTyped' /\ inbox' \subseteq Message
    BY <1>7, GotoTyped, ReturnTyped, RaiseTyped DEF Resume, PC
  <2> QED
    BY <1>7, <2>1, <2>2 DEF Resume
<1>8. CASE List(w)
  BY <1>1, <1>8 DEF List, Stored, Phase
<1> QED
  BY <1>2, <1>3, <1>4, <1>5, <1>6, <1>7, <1>8 DEF ContinueStep

LEMMA ExecuteStepTyped ==
  ASSUME AllTyped, NEW w \in Worker, ExecuteStep(w)
  PROVE  AllTyped'
<1> USE PartsFrame DEF AllTyped, delivery, records
<1>1. ASSUME NEW x \in Planned, TurnOver(w, x) PROVE JobsTyped'
  <2>1. [job[w] EXCEPT !.todo = @ \ {x}] \in Job
    BY DEF JobsTyped, Job
  <2> QED
    BY <1>1, <2>1, SetTyped DEF TurnOver
<1>2. ASSUME NEW x \in Planned, Skip(w, x) PROVE AllTyped'
  BY <1>1, <1>2 DEF Skip
<1>3. ASSUME NEW x \in Planned, Missing(w, x) PROVE AllTyped'
  BY <1>3, RaiseTyped DEF Missing
<1>4. ASSUME NEW x \in Planned, Reconcile(w, x) PROVE AllTyped'
  <2>1. ActionsTyped'
    BY <1>4 DEF Reconcile, ActionsTyped, ActionStatus
  <2> QED
    BY <1>1, <1>4, <2>1 DEF Reconcile
<1>5. ASSUME NEW x \in Planned, Take(w, x) PROVE AllTyped'
  <2>1. ActionsTyped'
    BY <1>5 DEF Take, ActionsTyped, ActionStatus
  <2>2. [job[w] EXCEPT !.pc = "call", !.todo = @ \ {x}, !.calling = {x}] \in Job
    BY JobTyped DEF JobsTyped, PC
  <2> QED
    BY <1>5, <2>1, <2>2, SetTyped DEF Take
<1>6. ASSUME NEW x \in Planned, NEW outcome \in {"VERIFIED", "BACKING_OFF", "FAILED_TERMINAL"},
             Answer(w, x, outcome)
      PROVE  AllTyped'
  <2>1. ActionsTyped'
    BY <1>6, RecoveryAssumption DEF Answer, ActionsTyped, ActionStatus, Retryable
  <2>2. [job[w] EXCEPT !.pc = "run", !.calling = {}] \in Job
    BY JobTyped DEF JobsTyped, PC
  <2> QED
    BY <1>6, <2>1, <2>2, SetTyped DEF Answer
<1>12. ASSUME NEW x \in Planned, AnswerTooLate(w, x) PROVE AllTyped'
  <2>1. [job[w] EXCEPT !.pc = "run", !.calling = {}] \in Job
    BY JobTyped DEF JobsTyped, PC
  <2> QED
    BY <1>12, <2>1, SetTyped DEF AnswerTooLate
<1>7. CASE BarrierStops(w)
  <2>1. [job[w] EXCEPT !.pc = "settle", !.next = "NEEDS_ATTENTION"] \in Job
    BY JobTyped DEF JobsTyped, PC, Status, Terminal
  <2>2. ASSUME NEW n \in 1..MaxAttempt
        PROVE  [job[w] EXCEPT !.pc = "settle", !.next = "RETRY_SCHEDULED", !.attempt = n] \in Job
    <3>1. n \in Nat
      BY DeliveryAssumption
    <3> QED
      BY <3>1, JobTyped DEF JobsTyped, PC, Status
  <2>3. JobsTyped'
    BY <1>7, <2>1, <2>2, SetTyped DEF BarrierStops
  <2> QED
    BY <1>7, <2>3 DEF BarrierStops
<1>8. CASE BarrierPasses(w)
  <2>1. [job[w] EXCEPT !.pc = "settle", !.next = "VERIFYING"] \in Job
    BY JobTyped DEF JobsTyped, PC, Status
  <2>2. JobsTyped'
    BY <1>8, <2>1, GotoTyped, SetTyped DEF BarrierPasses, PC
  <2> QED
    BY <1>8, <2>2 DEF BarrierPasses
<1>9. CASE Settle(w)
  <2>1. job[w].next \in Status
    BY DEF JobsTyped, Job
  <2>2. IncidentTyped'
    BY <1>9, <2>1, MoveTyped DEF Settle
  <2>3. JobsTyped' /\ inbox' \subseteq Message
    BY <1>9, GotoTyped, ReturnTyped, RaiseTyped DEF Settle, PC
  <2> QED
    BY <1>9, <2>2, <2>3 DEF Settle
<1>10. CASE EnqueueRetry(w)
  <2>1. OutboxTyped'
    BY <1>10, EnqueueTyped DEF EnqueueRetry, JobsTyped, Job, PlansTyped
  <2>2. JobsTyped' /\ inbox' \subseteq Message
    BY <1>10, ReturnTyped DEF EnqueueRetry
  <2> QED
    BY <1>10, <2>1, <2>2 DEF EnqueueRetry
<1>11. CASE Judge(w)
  <2>1. [job[w] EXCEPT !.pc = "settle", !.phase = "VERIFYING",
                       !.next = IF Recoverable(w) THEN "RECOVERED" ELSE "NEEDS_ATTENTION"] \in Job
    BY JobTyped DEF JobsTyped, PC, Status, Terminal
  <2> QED
    BY <1>11, <2>1, SetTyped DEF Judge
<1> QED
  BY <1>2, <1>3, <1>4, <1>5, <1>6, <1>7, <1>8, <1>9, <1>10, <1>11, <1>12 DEF ExecuteStep

LEMMA EnvironmentTyped ==
  ASSUME AllTyped, Environment
  PROVE  AllTyped'
<1> USE PartsFrame DEF AllTyped, delivery, records, plans, actions
<1>1. ASSUME NEW v \in Version, Approve(v) PROVE AllTyped'
  <2>1. PlansTyped'
    BY <1>1 DEF Approve, PlansTyped, ApprovalStatus
  <2>2. OutboxTyped'
    BY <1>1, CreateTyped, DeliveryAssumption DEF Approve, Version
  <2> QED
    BY <1>1, <2>1, <2>2 DEF Approve
<1>2. ASSUME NEW v \in Version, Decline(v) PROVE AllTyped'
  <2>1. PlansTyped'
    BY <1>2 DEF Decline, PlansTyped, ApprovalStatus
  <2>2. IncidentTyped'
    BY <1>2, MoveTyped DEF Decline, Status, Terminal
  <2> QED
    BY <1>2, <2>1, <2>2 DEF Decline
<1>3. ASSUME NEW v \in Version, NEW kind \in Replan, RequestReplan(v, kind) PROVE AllTyped'
  <2>1. PlansTyped'
    BY <1>3 DEF RequestReplan, PlansTyped, ApprovalStatus
  <2>2. IncidentTyped'
    BY <1>3, MoveTyped DEF RequestReplan, Status
  <2>3. OutboxTyped'
    BY <1>3, CreateTyped, DeliveryAssumption DEF RequestReplan, Version
  <2> QED
    BY <1>3, <2>1, <2>2, <2>3 DEF RequestReplan
<1>4. ASSUME NEW v \in Version, Lapse(v) PROVE AllTyped'
  <2>1. PlansTyped'
    BY <1>4 DEF Lapse, PlansTyped, ApprovalStatus, Undecided
  <2> QED
    BY <1>4, <2>1 DEF Lapse
<1>5. ASSUME NEW x \in Planned, BackedOff(x) \/ ActionLeaseEnds(x) PROVE AllTyped'
  <2>1. ActionsTyped'
    BY <1>5 DEF BackedOff, ActionLeaseEnds, ActionsTyped, ActionStatus, Retryable, Takeable
  <2> QED
    BY <1>5, <2>1 DEF BackedOff, ActionLeaseEnds
<1>6. ASSUME NEW c \in Command, Due(c) PROVE AllTyped'
  <2>1. OutboxTyped'
    BY <1>6 DEF Due, ComesDue, OutboxTyped
  <2> QED
    BY <1>6, <2>1 DEF Due
<1>7. ASSUME NEW c \in Command, CommandLeaseEnds(c) PROVE AllTyped'
  <2>1. ClaimsTyped'
    BY <1>7 DEF CommandLeaseEnds, LeaseEnds, ClaimsTyped
  <2> QED
    BY <1>7, <2>1 DEF CommandLeaseEnds
<1>8. ASSUME NEW c \in Command, NEW marked \in BOOLEAN, Dispatch(c, marked) PROVE AllTyped'
  <2>1. copies[c] + 1 \in 0..MaxCopy
    BY <1>8, DeliveryAssumption DEF Dispatch, Publish, ClaimsTyped
  <2>2. inbox' \subseteq Message
    BY <1>8, <2>1 DEF Dispatch, Publish, Message
  <2>3. ClaimsTyped'
    BY <1>8, <2>1 DEF Dispatch, Publish, ClaimsTyped
  <2>4. OutboxTyped'
    BY <1>8 DEF Dispatch, Publish, OutboxTyped
  <2> QED
    BY <1>8, <2>2, <2>3, <2>4 DEF Dispatch
<1> QED
  BY <1>1, <1>2, <1>3, <1>4, <1>5, <1>6, <1>7, <1>8 DEF Environment, Traveler, Replan

LEMMA TypeNext == TypeOK /\ [Next]_vars => TypeOK'
<1> SUFFICES ASSUME AllTyped, [Next]_vars PROVE AllTyped'
  BY TypeParts
<1>1. ASSUME NEW w \in Worker, Step(w) PROVE AllTyped'
  BY <1>1, CommandStepTyped, AdvanceStepTyped, ContinueStepTyped, ExecuteStepTyped DEF Step
<1>2. ASSUME NEW w \in Worker, Fault(w) PROVE AllTyped'
  BY <1>2, RaiseTyped, PartsFrame, RecoveryAssumption DEF Fault, AllTyped, records
<1>3. ASSUME NEW w \in Worker, NEW m \in Message, Begin(w, m) PROVE AllTyped'
  <2>1. [Idle EXCEPT !.msg = m, !.advancing = (m[1] = Event),
                     !.pc = IF m[1] = Event THEN "advance" ELSE "claim"] \in Job
    BY IdleTyped DEF Job, PC
  <2> QED
    BY <1>3, <2>1, SetTyped, PartsFrame DEF Begin, AllTyped, delivery, records
<1>4. CASE Environment
  BY <1>4, EnvironmentTyped
<1>5. CASE UNCHANGED vars
  BY <1>5, PartsFrame DEF vars, AllTyped, delivery, records
<1> QED
  BY <1>1, <1>2, <1>3, <1>4, <1>5 DEF Next

(***************************************************************************)
(* Every handler, and everything around it, keeps the incident, its plans, *)
(* approvals and actions, the commands and the locals of the requests in   *)
(* the types the code declares for them.                                   *)
(***************************************************************************)
THEOREM TypeCorrect == Spec => []TypeOK
  BY TypeInit, TypeNext, PTL DEF Spec

-----------------------------------------------------------------------------
(***************************************************************************)
(* What a step does to the locals of the requests.  The invariants below   *)
(* are about requests that execute actions or hold a decision, and most    *)
(* steps leave their request in some other place.                          *)
(***************************************************************************)
Elsewhere == PC \ {"list", "run", "call", "settle"}

OthersUnchanged(w) == \A v \in Worker : v # w => job'[v] = job[v]
Quietly(w) == OthersUnchanged(w) /\ job'[w].pc \in Elsewhere

LEMMA SetJob ==
  ASSUME JobsTyped, NEW w \in Worker, NEW j, Set(w, j)
  PROVE  OthersUnchanged(w) /\ job'[w] = j
  BY DEF Set, JobsTyped, OthersUnchanged

LEMMA SetQuietly ==
  ASSUME JobsTyped, NEW w \in Worker, NEW j, j.pc \in Elsewhere, Set(w, j)
  PROVE  Quietly(w)
  BY SetJob DEF Quietly

LEMMA GotoJob ==
  ASSUME JobsTyped, NEW w \in Worker, NEW label, Goto(w, label)
  PROVE  OthersUnchanged(w) /\ job'[w] = [job[w] EXCEPT !.pc = label] /\ job'[w].pc = label
  BY SetJob DEF Goto, JobsTyped, Job

LEMMA GotoQuietly ==
  ASSUME JobsTyped, NEW w \in Worker, NEW label \in Elsewhere, Goto(w, label)
  PROVE  Quietly(w)
  BY GotoJob DEF Quietly

LEMMA RaiseQuietly ==
  ASSUME JobsTyped, NEW w \in Worker, Raise(w)
  PROVE  Quietly(w)
  BY SetQuietly DEF Raise, Idle, Elsewhere, PC

LEMMA ReturnQuietly ==
  ASSUME JobsTyped, NEW w \in Worker, Return(w)
  PROVE  Quietly(w)
<1>1. CASE job[w].advancing
  BY <1>1, SetQuietly DEF Return, Idle, Elsewhere, PC
<1>2. CASE ~ job[w].advancing
  BY <1>2, GotoQuietly DEF Return, Elsewhere, PC
<1> QED
  BY <1>1, <1>2

LEMMA CommandStepQuietly ==
  ASSUME JobsTyped, NEW w \in Worker, CommandStep(w)
  PROVE  Quietly(w)
<1> USE DEF Elsewhere, PC
<1>1. job[w] \in Job
  BY DEF JobsTyped
<1>2. CASE Claim(w) \/ LoadNothingToDo(w) \/ Expire(w)
  BY <1>2, GotoQuietly DEF Claim, LoadNothingToDo, Expire
<1>3. CASE ClaimRefused(w) \/ Finish(w)
  <2>1. [job[w] EXCEPT !.pc = "advance", !.advancing = TRUE].pc = "advance"
    BY <1>1 DEF Job
  <2> QED
    BY <1>3, <2>1, SetQuietly, RaiseQuietly DEF ClaimRefused, Finish
<1>4. CASE Load(w) \/ LoadRetry(w)
  <2>1. \A p : /\ [job[w] EXCEPT !.pc = "resume", !.plan = p].pc = "resume"
               /\ [job[w] EXCEPT !.pc = "continue", !.plan = p].pc = "continue"
    BY <1>1 DEF Job
  <2> QED
    BY <1>4, <2>1, SetQuietly, GotoQuietly DEF Load, LoadRetry
<1> QED
  BY <1>2, <1>3, <1>4 DEF CommandStep

LEMMA AdvanceStepQuietly ==
  ASSUME JobsTyped, NEW w \in Worker, AdvanceStep(w)
  PROVE  Quietly(w) \/ UNCHANGED job
<1> USE DEF Elsewhere, PC
<1>1. job[w] \in Job
  BY DEF JobsTyped
<1>2. \A p : /\ [job[w] EXCEPT !.pc = "notify", !.plan = p].pc = "notify"
             /\ [job[w] EXCEPT !.pc = "commit", !.plan = p].pc = "commit"
  BY <1>1 DEF Job
<1>3. CASE Advance(w) \/ Prepare(w)
  BY <1>2, <1>3, SetQuietly, GotoQuietly, ReturnQuietly DEF Advance, Prepare
<1>4. CASE Commit(w) \/ CommitRefused(w) \/ Announce(w)
  BY <1>4, GotoQuietly, RaiseQuietly DEF Commit, CommitRefused, Announce
<1>5. ASSUME NEW outcome, Notify(w, outcome) \/ Card(w, outcome) PROVE Quietly(w)
  BY <1>5, GotoQuietly, ReturnQuietly DEF Notify, Card
<1> QED
  BY <1>3, <1>4, <1>5 DEF AdvanceStep, Put

\* The steps that begin or carry on with the execution of actions, or decide.
Executing(w) ==
    \/ Resume(w) \/ List(w) \/ Continue(w) \/ BarrierStops(w) \/ BarrierPasses(w) \/ Judge(w)
    \/ \E x \in Planned : \/ Skip(w, x) \/ Reconcile(w, x) \/ Take(w, x)
                          \/ AnswerTooLate(w, x) \/ \E outcome : Answer(w, x, outcome)

LEMMA JobChanges ==
  ASSUME JobsTyped, NEW w \in Worker, Step(w)
  PROVE  Quietly(w) \/ UNCHANGED job \/ (Executing(w) /\ OthersUnchanged(w))
<1> USE DEF Elsewhere, PC
<1>1. CASE Ask(w) \/ EnqueueExpiry(w) \/ Decide(w) \/ Conclude(w)
  BY <1>1, GotoQuietly, ReturnQuietly DEF Ask, EnqueueExpiry, Decide, Conclude
<1>2. CASE Settle(w) \/ EnqueueRetry(w) \/ \E x \in Planned : Missing(w, x)
  BY <1>2, GotoQuietly, ReturnQuietly, RaiseQuietly DEF Settle, EnqueueRetry, Missing
<1>3. CASE Executing(w)
  <2>1. OthersUnchanged(w)
    BY <1>3, SetJob, GotoJob, RaiseQuietly, ReturnQuietly
       DEF Executing, Resume, List, Continue, Execute, BarrierStops, BarrierPasses, Judge,
           Skip, Reconcile, Take, Answer, AnswerTooLate, TurnOver, Quietly
  <2> QED
    BY <1>3, <2>1
<1>4. CASE CommandStep(w) \/ AdvanceStep(w)
  BY <1>4, CommandStepQuietly, AdvanceStepQuietly
<1> QED
  BY <1>1, <1>2, <1>3, <1>4 DEF Step, ContinueStep, ExecuteStep, Executing

\* What the barrier and the verifier may decide, and in which phase.
DecidedFor(w, phase, next) ==
    \/ /\ phase \in {"EXECUTING_AUTO", "EXECUTING_APPROVED", "VERIFYING"}
       /\ next \in {"NEEDS_ATTENTION", "RETRY_SCHEDULED"}
    \/ phase = "EXECUTING_APPROVED" /\ next = "VERIFYING"
    \/ phase = "VERIFYING" /\ next = "RECOVERED" /\ Recoverable(w)

\* The locals after each of those steps.
LEMMA RunJob ==
  ASSUME JobsTyped, NEW w \in Worker, NEW phase, NEW todo, Execute(w, phase, todo)
  PROVE  job'[w].pc = "run" /\ job'[w].phase = phase /\ job'[w].plan = job[w].plan
<1>1. job'[w] = [job[w] EXCEPT !.pc = "run", !.phase = phase, !.todo = todo]
  BY SetJob DEF Execute
<1> QED
  BY <1>1 DEF JobsTyped, Job

LEMMA ResumeJob ==
  ASSUME JobsTyped, NEW w \in Worker, Resume(w)
  PROVE  \/ job'[w].pc \in Elsewhere
         \/ job'[w].pc = "list" /\ job'[w].plan = job[w].plan /\ approval[job[w].plan] = "APPROVED"
<1>1. CASE Goto(w, "list") /\ approval[job[w].plan] = "APPROVED"
  <2>1. job'[w] = [job[w] EXCEPT !.pc = "list"]
    BY <1>1, GotoJob
  <2> QED
    BY <1>1, <2>1 DEF JobsTyped, Job
<1>2. CASE Goto(w, "judge") \/ Raise(w) \/ Return(w)
  BY <1>2, GotoQuietly, RaiseQuietly, ReturnQuietly DEF Quietly, Elsewhere, PC
<1> QED
  BY <1>1, <1>2 DEF Resume

LEMMA ContinueJob ==
  ASSUME JobsTyped, NEW w \in Worker, Continue(w)
  PROVE  job'[w].pc \in Elsewhere \/ (job'[w].pc = "run" /\ job'[w].phase = "EXECUTING_AUTO")
<1>1. CASE \E todo : Execute(w, "EXECUTING_AUTO", todo)
  BY <1>1, RunJob
<1>2. CASE Return(w) \/ Goto(w, "conclude") \/ Goto(w, "ask")
  BY <1>2, GotoQuietly, ReturnQuietly DEF Quietly, Elsewhere, PC
<1> QED
  BY <1>1, <1>2 DEF Continue

LEMMA ActionJob ==
  ASSUME JobsTyped, NEW w \in Worker, NEW x \in Planned, NEW outcome,
         Skip(w, x) \/ Reconcile(w, x) \/ Take(w, x) \/ AnswerTooLate(w, x) \/ Answer(w, x, outcome)
  PROVE  /\ job[w].pc \in {"run", "call"} /\ job'[w].pc \in {"run", "call"}
         /\ job'[w].pc = "call" => Take(w, x) /\ job'[w].calling = {x}
         /\ job'[w].phase = job[w].phase /\ job'[w].plan = job[w].plan
<1>1. \/ job[w].pc = "run" /\ job'[w] = [job[w] EXCEPT !.todo = @ \ {x}]
      \/ /\ Take(w, x) /\ job[w].pc = "run"
         /\ job'[w] = [job[w] EXCEPT !.pc = "call", !.todo = @ \ {x}, !.calling = {x}]
      \/ job[w].pc = "call" /\ job'[w] = [job[w] EXCEPT !.pc = "run", !.calling = {}]
  BY SetJob DEF Skip, Reconcile, Take, Answer, AnswerTooLate, Trying, TurnOver
<1> QED
  BY <1>1 DEF JobsTyped, Job

LEMMA DecidedJob ==
  ASSUME JobsTyped, NEW w \in Worker, BarrierStops(w) \/ BarrierPasses(w) \/ Judge(w)
  PROVE  \/ job'[w].pc \in Elsewhere
         \/ job'[w].pc = "settle" /\ DecidedFor(w, job'[w].phase, job'[w].next)
<1> DEFINE Decides(phase, next) == job'[w].pc = "settle" /\ job'[w].phase = phase /\ job'[w].next = next
<1>1. ASSUME NEW next, NEW n,
             \/ job'[w] = [job[w] EXCEPT !.pc = "settle", !.next = next]
             \/ job'[w] = [job[w] EXCEPT !.pc = "settle", !.next = next, !.attempt = n]
      PROVE  Decides(job[w].phase, next)
  BY <1>1 DEF JobsTyped, Job
<1>2. CASE BarrierStops(w)
  <2>1. PICK next \in {"NEEDS_ATTENTION", "RETRY_SCHEDULED"} :
            \/ job'[w] = [job[w] EXCEPT !.pc = "settle", !.next = next]
            \/ \E n : job'[w] = [job[w] EXCEPT !.pc = "settle", !.next = next, !.attempt = n]
    BY <1>2, SetJob DEF BarrierStops
  <2>2. job[w].phase \in {"EXECUTING_AUTO", "EXECUTING_APPROVED", "VERIFYING"}
    BY DEF JobsTyped, Job, Phase
  <2> QED
    BY <1>1, <2>1, <2>2 DEF DecidedFor
<1>3. CASE BarrierPasses(w)
  <2>1. CASE Goto(w, "conclude") \/ Goto(w, "ask")
    BY <2>1, GotoQuietly DEF Quietly, Elsewhere, PC
  <2>2. CASE /\ job[w].phase = "EXECUTING_APPROVED"
             /\ Set(w, [job[w] EXCEPT !.pc = "settle", !.next = "VERIFYING"])
    <3>1. job'[w] = [job[w] EXCEPT !.pc = "settle", !.next = "VERIFYING"]
      BY <2>2, SetJob
    <3> QED
      BY <1>1, <2>2, <3>1 DEF DecidedFor
  <2> QED
    BY <1>3, <2>1, <2>2 DEF BarrierPasses
<1>4. CASE Judge(w)
  <2> DEFINE next == IF Recoverable(w) THEN "RECOVERED" ELSE "NEEDS_ATTENTION"
  <2>1. job'[w] = [job[w] EXCEPT !.pc = "settle", !.phase = "VERIFYING", !.next = next]
    BY <1>4, SetJob DEF Judge
  <2>2. Decides("VERIFYING", next)
    BY <2>1 DEF JobsTyped, Job
  <2> QED
    BY <2>2 DEF DecidedFor
<1> QED
  BY <1>2, <1>3, <1>4

\* The rest of the next-state relation does not execute anything.
LEMMA OtherJobChanges ==
  ASSUME JobsTyped, Environment \/ UNCHANGED vars
         \/ \E w \in Worker : Fault(w) \/ \E m \in Message : Begin(w, m)
  PROVE  UNCHANGED job \/ \E w \in Worker : Quietly(w)
<1>1. ASSUME NEW w \in Worker, NEW m \in Message, Begin(w, m) PROVE Quietly(w)
  BY <1>1, SetQuietly DEF Begin, Idle, Elsewhere, PC
<1>2. ASSUME NEW w \in Worker, Fault(w) PROVE Quietly(w)
  BY <1>2, RaiseQuietly DEF Fault
<1>3. CASE Environment
  BY <1>3 DEF Environment, Traveler, Approve, Decline, RequestReplan, Lapse, BackedOff,
              ActionLeaseEnds, Due, CommandLeaseEnds, Dispatch
<1> QED
  BY <1>1, <1>2, <1>3 DEF vars

-----------------------------------------------------------------------------
(***************************************************************************)
(* The table of incident transitions.                                      *)
(***************************************************************************)
\* A decision held between the barrier, or the verifier, and its transaction is
\* one the table allows from the status the transaction will ask for.
DecisionsInTable ==
    \A w \in Worker : job[w].pc = "settle" => job[w].next \in Lifecycle!Successors(job[w].phase)

LEMMA DecisionsInTableNext ==
  ASSUME AllTyped, DecisionsInTable, [Next]_vars
  PROVE  DecisionsInTable'
<1> USE DEF DecisionsInTable
<1>1. JobsTyped /\ \A w \in Worker : job[w] \in Job
  BY DEF AllTyped, JobsTyped
<1>2. ASSUME NEW w \in Worker, Quietly(w) \/ UNCHANGED job PROVE DecisionsInTable'
  BY <1>2 DEF Quietly, OthersUnchanged, Elsewhere
<1>3. ASSUME NEW w \in Worker, OthersUnchanged(w), Executing(w) PROVE DecisionsInTable'
  <2>1. SUFFICES ASSUME job'[w].pc = "settle"
                 PROVE  job'[w].next \in Lifecycle!Successors(job'[w].phase)
    BY <1>3 DEF OthersUnchanged
  <2>2. CASE BarrierStops(w) \/ BarrierPasses(w) \/ Judge(w)
    BY <1>1, <2>1, <2>2, DecidedJob DEF DecidedFor, Elsewhere, Lifecycle!Successors
  <2>3. CASE Resume(w) \/ Continue(w) \/ List(w)
    BY <1>1, <2>1, <2>3, ResumeJob, ContinueJob, RunJob DEF List, Elsewhere
  <2>4. CASE \E x \in Planned : \/ Skip(w, x) \/ Reconcile(w, x) \/ Take(w, x)
                                \/ AnswerTooLate(w, x) \/ \E outcome : Answer(w, x, outcome)
    BY <1>1, <2>1, <2>4, ActionJob
  <2> QED
    BY <1>3, <2>2, <2>3, <2>4 DEF Executing
<1> QED
  BY <1>1, <1>2, <1>3, JobChanges, OtherJobChanges DEF Next

\* Every write of the status, with the source states its transaction names.
LEMMA MovesInTable ==
  ASSUME AllTyped, DecisionsInTable, [Next]_vars
  PROVE  [Lifecycle!Move]_status
<1> DEFINE Follows == status' = status \/ status' \in Lifecycle!Successors(status)
<1> SUFFICES Follows
  BY DEF Lifecycle!Move
<1> USE DEF Lifecycle!Successors, incident, MoveIncident
<1>1. ASSUME NEW w \in Worker, CommandStep(w) PROVE Follows
  <2>1. CASE LoadRetry(w)
    BY <2>1 DEF LoadRetry, Phase
  <2>2. CASE Expire(w)
    BY <2>2 DEF Expire
  <2> QED
    BY <1>1, <2>1, <2>2 DEF CommandStep, Claim, ClaimRefused, LoadNothingToDo, Load, Finish
<1>2. ASSUME NEW w \in Worker, AdvanceStep(w) PROVE Follows
  <2>1. CASE Announce(w)
    BY <2>1 DEF Announce
  <2>2. CASE Commit(w)
    BY <2>2 DEF Commit
  <2> QED
    BY <1>2, <2>1, <2>2
       DEF AdvanceStep, Advance, Prepare, CommitRefused, Put, Notify, Card
<1>3. ASSUME NEW w \in Worker, ContinueStep(w) PROVE Follows
  <2>1. CASE Continue(w)
    BY <2>1 DEF Continue
  <2>2. CASE Decide(w)
    BY <2>2 DEF Decide
  <2>3. CASE Conclude(w)
    BY <2>3 DEF Conclude
  <2>4. CASE Resume(w)
    BY <2>4 DEF Resume
  <2> QED
    BY <1>3, <2>1, <2>2, <2>3, <2>4 DEF ContinueStep, Ask, EnqueueExpiry, List
<1>4. ASSUME NEW w \in Worker, ExecuteStep(w) PROVE Follows
  <2>1. CASE Settle(w)
    <3>1. status # job[w].phase \/ status' \in Lifecycle!Successors(job[w].phase)
      BY <2>1 DEF Settle, DecisionsInTable
    <3> QED
      BY <2>1, <3>1 DEF Settle
  <2> QED
    BY <1>4, <2>1 DEF ExecuteStep, Skip, Missing, Reconcile, Take, Answer, AnswerTooLate, BarrierStops,
                      BarrierPasses, EnqueueRetry, Judge
<1>5. CASE Environment
  <2>1. ASSUME NEW v \in Version, Decline(v) PROVE Follows
    BY <2>1 DEF Decline
  <2>2. ASSUME NEW v \in Version, NEW kind, RequestReplan(v, kind) PROVE Follows
    BY <2>2 DEF RequestReplan
  <2> QED
    BY <1>5, <2>1, <2>2 DEF Environment, Traveler, Approve, Lapse, BackedOff, ActionLeaseEnds,
                            Due, CommandLeaseEnds, Dispatch
<1>6. ASSUME NEW w \in Worker, NEW m, Begin(w, m) \/ Fault(w) PROVE Follows
  BY <1>6 DEF Begin, Fault
<1>7. CASE UNCHANGED vars
  BY <1>7 DEF vars
<1> QED
  BY <1>1, <1>2, <1>3, <1>4, <1>5, <1>6, <1>7 DEF Next, Step

(***************************************************************************)
(* Recovery implements the life of an incident that the state machine      *)
(* module tells: however requests, retries, decisions and failures         *)
(* interleave, each write of the status is a transition of its table.      *)
(***************************************************************************)
THEOREM LifecycleIsFollowed == Spec => FollowsLifecycle
<1>1. Init => DecisionsInTable /\ Lifecycle!Init
  BY DEF Init, DecisionsInTable, Idle, Lifecycle!Init
<1>2. TypeOK /\ DecisionsInTable /\ [Next]_vars => DecisionsInTable' /\ [Lifecycle!Move]_status
  BY TypeParts, DecisionsInTableNext, MovesInTable
<1> QED
  BY <1>1, <1>2, TypeCorrect, PTL DEF Spec, FollowsLifecycle, Lifecycle!Spec

-----------------------------------------------------------------------------
(***************************************************************************)
(* What cannot be undone: an approval once given, an action once begun or  *)
(* stored, an effect once verified.                                        *)
(***************************************************************************)
LEMMA ApprovedStays ==
  ASSUME AllTyped, [Next]_vars, NEW v \in Version, approval[v] = "APPROVED"
  PROVE  approval'[v] = "APPROVED"
<1> USE DEF plans
<1>1. approval \in [Version -> ApprovalStatus]
  BY DEF AllTyped, PlansTyped
<1>2. ASSUME NEW w \in Worker, CommandStep(w) PROVE approval'[v] = "APPROVED"
  BY <1>1, <1>2 DEF CommandStep, Claim, ClaimRefused, LoadNothingToDo, Load, LoadRetry,
                    Expire, Finish
<1>3. ASSUME NEW w \in Worker, ContinueStep(w) PROVE approval'[v] = "APPROVED"
  BY <1>1, <1>3 DEF ContinueStep, Continue, Ask, EnqueueExpiry, Decide, Conclude, Resume, List
<1>4. ASSUME NEW w \in Worker, AdvanceStep(w) \/ ExecuteStep(w) PROVE UNCHANGED approval
  BY <1>4 DEF AdvanceStep, Advance, Prepare, Commit, CommitRefused, Put, Announce, Notify, Card,
              ExecuteStep, Skip, Missing, Reconcile, Take, Answer, AnswerTooLate, BarrierStops, BarrierPasses,
              Settle, EnqueueRetry, Judge
<1>5. CASE Environment
  BY <1>1, <1>5 DEF Environment, Traveler, Approve, Decline, RequestReplan, Lapse, BackedOff,
                    ActionLeaseEnds, Due, CommandLeaseEnds, Dispatch, Undecided
<1>6. CASE UNCHANGED vars \/ \E w \in Worker : Fault(w) \/ \E m \in Message : Begin(w, m)
  BY <1>6 DEF vars, Fault, Begin
<1> QED
  BY <1>2, <1>3, <1>4, <1>5, <1>6 DEF Next, Step

Begun(x) == acts[x] \notin {"NONE", "PENDING"}

\* A request is at the provider only for an action it has begun.
CallsAreBegun ==
    \A w \in Worker : job[w].pc = "call" => \A x \in job[w].calling \cap Planned : Begun(x)

\* Only Take begins an action, and nothing takes a verified one back.
LEMMA ActionChanges ==
  ASSUME AllTyped, CallsAreBegun, [Next]_vars, NEW x \in Planned
  PROVE  /\ Begun(x) => Begun(x)'
         /\ Begun(x)' => Begun(x) \/ \E w \in Worker : Take(w, x)
         /\ x \in Stored => x \in Stored'
         /\ acts[x] = "VERIFIED" => acts'[x] = "VERIFIED"
         /\ x \in Stored' => \/ x \in Stored
                             \/ \E w \in Worker, l \in Label : Put(w, l) /\ x = <<job[w].plan, l>>
<1> DEFINE Goal == /\ Begun(x) => Begun(x)'
                   /\ Begun(x)' => Begun(x) \/ \E w \in Worker : Take(w, x)
                   /\ x \in Stored => x \in Stored'
                   /\ acts[x] = "VERIFIED" => acts'[x] = "VERIFIED"
                   /\ x \in Stored' =>
                        \/ x \in Stored
                        \/ \E w \in Worker, l \in Label : Put(w, l) /\ x = <<job[w].plan, l>>
<1>1. acts \in [Planned -> ActionStatus] /\ (x \in Stored <=> acts[x] # "NONE")
      /\ (x \in Stored' <=> acts'[x] # "NONE")
  BY DEF AllTyped, ActionsTyped, Stored
<1>2. CASE UNCHANGED acts
  BY <1>1, <1>2 DEF Begun
<1>3. ASSUME NEW w \in Worker, NEW y \in Planned, Take(w, y) PROVE Goal
  BY <1>1, <1>3 DEF Take, Takeable, Begun
<1>4. ASSUME NEW w \in Worker, NEW y \in Planned, Reconcile(w, y) PROVE Goal
  BY <1>1, <1>4 DEF Reconcile, Begun
<1>5. ASSUME NEW w \in Worker, NEW y \in Planned,
             NEW outcome \in {"VERIFIED", "BACKING_OFF", "FAILED_TERMINAL"}, Answer(w, y, outcome)
      PROVE  Goal
  <2>1. Begun(y)
    BY <1>5 DEF Answer, CallsAreBegun
  <2> QED
    BY <1>1, <1>5, <2>1 DEF Answer, Begun
<1>6. ASSUME NEW w \in Worker, NEW l \in Label, Put(w, l) PROVE Goal
  <2>1. acts[<<job[w].plan, l>>] = "NONE" \/ <<job[w].plan, l>> \notin Planned
    BY <1>6 DEF Put, Stored
  <2> QED
    BY <1>1, <1>6, <2>1 DEF Put, Begun
<1>7. CASE Environment
  <2>1. ASSUME NEW y \in Planned, BackedOff(y) \/ ActionLeaseEnds(y) PROVE Goal
    BY <1>1, <2>1 DEF BackedOff, ActionLeaseEnds, Begun
  <2>2. CASE \A y \in Planned : ~ BackedOff(y) /\ ~ ActionLeaseEnds(y)
    BY <1>2, <1>7, <2>2 DEF Environment, Traveler, Approve, Decline, RequestReplan, Lapse, Due,
                            CommandLeaseEnds, Dispatch, actions
  <2> QED
    BY <2>1, <2>2
<1>8. ASSUME NEW w \in Worker, CommandStep(w) \/ ContinueStep(w) PROVE UNCHANGED acts
  BY <1>8 DEF CommandStep, Claim, ClaimRefused, LoadNothingToDo, Load, LoadRetry, Expire, Finish,
              ContinueStep, Continue, Ask, EnqueueExpiry, Decide, Conclude, Resume, List, actions
<1>9. ASSUME NEW w \in Worker, AdvanceStep(w) PROVE Goal
  BY <1>2, <1>6, <1>9 DEF AdvanceStep, Advance, Prepare, Commit, CommitRefused, Announce, Notify,
                          Card, actions
<1>10. ASSUME NEW w \in Worker, ExecuteStep(w) PROVE Goal
  <2>1. CASE Settle(w) \/ BarrierStops(w) \/ BarrierPasses(w) \/ EnqueueRetry(w) \/ Judge(w)
             \/ \E y \in Planned : Skip(w, y) \/ Missing(w, y) \/ AnswerTooLate(w, y)
    BY <1>2, <2>1 DEF Settle, BarrierStops, BarrierPasses, EnqueueRetry, Judge, Skip, Missing,
                      AnswerTooLate, actions
  <2> QED
    BY <1>3, <1>4, <1>5, <1>10, <2>1 DEF ExecuteStep
<1>11. CASE UNCHANGED vars \/ \E w \in Worker : Fault(w) \/ \E m \in Message : Begin(w, m)
  BY <1>2, <1>11 DEF vars, Fault, Begin, actions
<1> QED
  BY <1>2, <1>7, <1>8, <1>9, <1>10, <1>11 DEF Next, Step

-----------------------------------------------------------------------------
(***************************************************************************)
(* Authorization.                                                          *)
(***************************************************************************)
\* A request in the approved phase holds a plan that was approved.
PhaseIsEntitled ==
    \A w \in Worker :
        \/ job[w].pc = "list"
        \/ job[w].pc \in {"run", "call"} /\ job[w].phase = "EXECUTING_APPROVED"
        => (job[w].plan \in Version => approval[job[w].plan] = "APPROVED")

Authority == CallsAreBegun /\ PhaseIsEntitled /\ EffectsAreAuthorized

LEMMA CallsAreBegunNext ==
  ASSUME AllTyped, CallsAreBegun, [Next]_vars
  PROVE  CallsAreBegun'
<1> SUFFICES ASSUME NEW w \in Worker, job'[w].pc = "call", NEW x \in job'[w].calling \cap Planned
             PROVE  Begun(x)'
  BY DEF CallsAreBegun
<1>1. JobsTyped
  BY DEF AllTyped
<1>2. CASE job'[w] = job[w]
  BY <1>2, ActionChanges DEF CallsAreBegun
<1>3. CASE Take(w, x)
  BY <1>3 DEF Take, Begun, AllTyped, ActionsTyped
<1>4. CASE OthersUnchanged(w) /\ Executing(w)
  BY <1>1, <1>3, <1>4, ActionJob, ResumeJob, ContinueJob, RunJob, DecidedJob
     DEF Executing, List, Elsewhere
<1> QED
  BY <1>1, <1>2, <1>4, JobChanges, OtherJobChanges DEF Next, Quietly, OthersUnchanged, Elsewhere

LEMMA PhaseIsEntitledNext ==
  ASSUME AllTyped, PhaseIsEntitled, [Next]_vars
  PROVE  PhaseIsEntitled'
<1> DEFINE Claims(w) == \/ job[w].pc = "list"
                        \/ job[w].pc \in {"run", "call"} /\ job[w].phase = "EXECUTING_APPROVED"
<1> SUFFICES ASSUME NEW w \in Worker, Claims(w)', job'[w].plan \in Version
             PROVE  approval'[job'[w].plan] = "APPROVED"
  BY DEF PhaseIsEntitled
<1>1. JobsTyped
  BY DEF AllTyped
<1>2. CASE Claims(w) /\ job'[w].plan = job[w].plan
  BY <1>2, ApprovedStays DEF PhaseIsEntitled
<1>3. CASE Resume(w)
  BY <1>1, <1>3, ResumeJob, ApprovedStays DEF Elsewhere
<1>4. CASE Executing(w) /\ ~ Resume(w)
  BY <1>1, <1>2, <1>4, ActionJob, ContinueJob, RunJob, DecidedJob DEF Executing, List, Elsewhere
<1>5. CASE job'[w] = job[w]
  BY <1>2, <1>5
<1> QED
  BY <1>1, <1>3, <1>4, <1>5, JobChanges, OtherJobChanges DEF Next, Quietly, OthersUnchanged, Elsewhere

LEMMA AuthorityNext ==
  ASSUME AllTyped, Authority, [Next]_vars
  PROVE  Authority'
<1>1. SUFFICES EffectsAreAuthorized'
  BY CallsAreBegunNext, PhaseIsEntitledNext DEF Authority
<1>2. SUFFICES ASSUME NEW x \in Planned, x \in Asked, Begun(x)'
               PROVE  approval'[x[1]] = "APPROVED"
  BY DEF EffectsAreAuthorized, Begun
<1>3. x[1] \in Version
  BY DEF Planned
<1>4. CASE Begun(x)
  BY <1>2, <1>3, <1>4, ApprovedStays DEF Authority, EffectsAreAuthorized, Begun
<1>5. ASSUME NEW w \in Worker, Take(w, x) PROVE approval'[x[1]] = "APPROVED"
  <2>1. job[w].pc = "run" /\ Granted(w, x)
    BY <1>2, <1>5 DEF Take, Trying, Allowed, Permitted
  <2>2. approval[x[1]] = "APPROVED"
    BY <1>3, <2>1 DEF Granted, Authority, PhaseIsEntitled
  <2> QED
    BY <1>3, <2>2, ApprovedStays
<1> QED
  BY <1>2, <1>4, <1>5, ActionChanges DEF Authority

(***************************************************************************)
(* However requests, decisions, retries and failures interleave, no action *)
(* that asks for the traveler's approval is begun under a plan that the    *)
(* traveler did not approve.                                               *)
(***************************************************************************)
THEOREM EffectsStayAuthorized == Spec => []EffectsAreAuthorized
<1>1. Init => Authority
  BY DEF Init, Authority, CallsAreBegun, PhaseIsEntitled, EffectsAreAuthorized, Idle
<1>2. TypeOK /\ Authority /\ [Next]_vars => Authority'
  BY TypeParts, AuthorityNext
<1>3. Authority => EffectsAreAuthorized
  BY DEF Authority
<1> QED
  BY <1>1, <1>2, <1>3, TypeCorrect, PTL DEF Spec

-----------------------------------------------------------------------------
(***************************************************************************)
(* The life of an action.                                                  *)
(***************************************************************************)
\* The steps that change an action.
LEMMA ActionSteps ==
  ASSUME [Next]_vars
  PROVE  \/ UNCHANGED <<acts, tries>>
         \/ \E w \in Worker, x \in Planned :
                \/ Take(w, x) \/ Reconcile(w, x)
                \/ \E outcome \in {"VERIFIED", "BACKING_OFF", "FAILED_TERMINAL"} :
                       Answer(w, x, outcome)
         \/ \E w \in Worker, l \in Label : Put(w, l)
         \/ \E x \in Planned : BackedOff(x) \/ ActionLeaseEnds(x)
<1>1. ASSUME NEW w \in Worker, CommandStep(w) \/ ContinueStep(w) PROVE UNCHANGED <<acts, tries>>
  BY <1>1 DEF CommandStep, Claim, ClaimRefused, LoadNothingToDo, Load, LoadRetry, Expire, Finish,
              ContinueStep, Continue, Ask, EnqueueExpiry, Decide, Conclude, Resume, List, actions
<1>2. ASSUME NEW w \in Worker, AdvanceStep(w)
      PROVE  UNCHANGED <<acts, tries>> \/ \E l \in Label : Put(w, l)
  BY <1>2 DEF AdvanceStep, Advance, Prepare, Commit, CommitRefused, Announce, Notify, Card, actions
<1>3. ASSUME NEW w \in Worker,
             \/ Settle(w) \/ BarrierStops(w) \/ BarrierPasses(w) \/ EnqueueRetry(w) \/ Judge(w)
             \/ \E x \in Planned : Skip(w, x) \/ Missing(w, x) \/ AnswerTooLate(w, x)
      PROVE  UNCHANGED <<acts, tries>>
  BY <1>3 DEF Settle, BarrierStops, BarrierPasses, EnqueueRetry, Judge, Skip, Missing,
              AnswerTooLate, actions
<1>4. CASE Environment
  BY <1>4 DEF Environment, Traveler, Approve, Decline, RequestReplan, Lapse, Due,
              CommandLeaseEnds, Dispatch, actions
<1>5. CASE UNCHANGED vars \/ \E w \in Worker : Fault(w) \/ \E m \in Message : Begin(w, m)
  BY <1>5 DEF vars, Fault, Begin, actions
<1> QED
  BY <1>1, <1>2, <1>3, <1>4, <1>5 DEF Next, Step, ExecuteStep

Approved(x) == x \in Asked => approval[x[1]] = "APPROVED"

\* What allowed a request to begin an action still holds while it is at the provider,
\* though its lease may have run out and others be there for the same action.
CallsAreSound ==
    \A w \in Worker : job[w].pc = "call" => \A x \in job[w].calling \cap Planned :
        Begun(x) /\ Approved(x) /\ PrerequisitesVerified(x)

Living == CallsAreSound /\ PhaseIsEntitled

LEMMA SoundCallsAreBegun == CallsAreSound => CallsAreBegun
  BY DEF CallsAreSound, CallsAreBegun

LEMMA PrerequisitesPlanned == \A x \in Planned : Prerequisites(x) \subseteq Planned
  BY DEF Planned, Prerequisites

\* What allows an action to begin is not taken back.
LEMMA StaysAllowed ==
  ASSUME AllTyped, CallsAreSound, [Next]_vars, NEW x \in Planned
  PROVE  /\ Approved(x) => Approved(x)'
         /\ PrerequisitesVerified(x) => PrerequisitesVerified(x)'
<1>1. x[1] \in Version
  BY DEF Planned
<1>2. Approved(x) => Approved(x)'
  BY <1>1, ApprovedStays DEF Approved
<1>3. PrerequisitesVerified(x) => PrerequisitesVerified(x)'
  BY ActionChanges, SoundCallsAreBegun, PrerequisitesPlanned DEF PrerequisitesVerified
<1> QED
  BY <1>2, <1>3

LEMMA AllowedIsApproved ==
  ASSUME PhaseIsEntitled, NEW w \in Worker, NEW x \in Planned, Trying(w, x), Allowed(w, x)
  PROVE  Approved(x) /\ PrerequisitesVerified(x)
<1>1. x[1] \in Version
  BY DEF Planned
<1> QED
  BY <1>1 DEF Trying, Allowed, Permitted, Granted, PhaseIsEntitled, Approved

\* Who is at a provider after a step was there before it, or has just begun.
LEMMA CallsBegin ==
  ASSUME AllTyped, [Next]_vars, NEW w \in Worker, NEW x \in Planned,
         job'[w].pc = "call", x \in job'[w].calling
  PROVE  (job[w].pc = "call" /\ x \in job[w].calling) \/ Take(w, x)
<1>1. JobsTyped
  BY DEF AllTyped
<1>2. CASE OthersUnchanged(w) /\ Executing(w)
  <2>1. ASSUME NEW y \in Planned, NEW outcome,
               \/ Skip(w, y) \/ Reconcile(w, y) \/ Take(w, y)
               \/ AnswerTooLate(w, y) \/ Answer(w, y, outcome)
        PROVE  Take(w, x)
    BY <1>1, <2>1, ActionJob
  <2>2. ~ (Resume(w) \/ List(w) \/ Continue(w) \/ BarrierStops(w) \/ BarrierPasses(w) \/ Judge(w))
    BY <1>1, ResumeJob, ContinueJob, RunJob, DecidedJob DEF List, Elsewhere
  <2> QED
    BY <1>2, <2>1, <2>2 DEF Executing
<1>3. CASE job'[w] = job[w]
  BY <1>3
<1> QED
  BY <1>1, <1>2, <1>3, JobChanges, OtherJobChanges DEF Next, Quietly, OthersUnchanged, Elsewhere

LEMMA CallsAreSoundNext ==
  ASSUME AllTyped, Living, [Next]_vars
  PROVE  CallsAreSound'
<1> USE DEF Living
<1> SUFFICES ASSUME NEW w \in Worker, job'[w].pc = "call", NEW x \in job'[w].calling \cap Planned
             PROVE  Begun(x)' /\ Approved(x)' /\ PrerequisitesVerified(x)'
  BY DEF CallsAreSound
<1>1. CASE job[w].pc = "call" /\ x \in job[w].calling
  BY <1>1, SoundCallsAreBegun, ActionChanges, StaysAllowed DEF CallsAreSound
<1>2. CASE Take(w, x)
  <2>1. Begun(x)'
    BY <1>2 DEF Take, Begun, AllTyped, ActionsTyped
  <2> QED
    BY <1>2, <2>1, AllowedIsApproved, StaysAllowed DEF Take
<1> QED
  BY <1>1, <1>2, CallsBegin

-----------------------------------------------------------------------------
LifeStates == [x \in Planned |-> LifeState(acts[x])]

LEMMA StateOfOne ==
  ASSUME ActionsTyped, NEW x \in Planned, NEW s, acts' = [acts EXCEPT ![x] = s]
  PROVE  LifeStates' = [LifeStates EXCEPT ![x] = LifeState(s)]
  BY DEF ActionsTyped, LifeStates

\* What the specification of that life calls MayRun.
LEMMA AllowedMayRun ==
  ASSUME NEW x \in Planned, Approved(x), PrerequisitesVerified(x)
  PROVE  Life!MayRun(x)
<1>1. ASSUME NEW y \in Prerequisites(x) PROVE LifeStates[y] = "VERIFIED"
  BY <1>1, PrerequisitesPlanned DEF PrerequisitesVerified, LifeStates, LifeState
<1> QED
  BY <1>1 DEF Approved, Life!MayRun, LifeStates

LEMMA LifeNext ==
  ASSUME AllTyped, Living, [Next]_vars
  PROVE  Life!Next \/ UNCHANGED Life!vars
<1> USE DEF Living
<1> DEFINE Grants == {x \in Planned : approval[x[1]] = "APPROVED"}
<1>1. ActionsTyped /\ JobsTyped
  BY DEF AllTyped
<1>2. Grants \subseteq Grants'
  BY ApprovedStays DEF Planned
<1>3. ASSUME LifeStates' = LifeStates, tries' = tries PROVE Life!Next
  BY <1>2, <1>3 DEF Life!Next, Life!Grant, LifeStates
<1>4. ASSUME NEW w \in Worker, NEW x \in Planned, Take(w, x) PROVE Life!Next
  <2>1. Life!MayRun(x)
    BY <1>4, AllowedIsApproved, AllowedMayRun DEF Take
  <2>2. LifeStates[x] \in {"OPEN", "RETRY", "TAKEN"}
    BY <1>4 DEF Take, Takeable, LifeStates, LifeState, Retryable
  <2>3. LifeStates' = [LifeStates EXCEPT ![x] = "TAKEN"]
    BY <1>1, <1>4, StateOfOne DEF Take, LifeState, Retryable
  <2>4. Life!Attempt(x)
    BY <1>4, <2>1, <2>2, <2>3 DEF Take, plans, Life!Attempt, LifeStates
  <2> QED
    BY <2>4 DEF Life!Next
<1>5. ASSUME NEW x \in Planned, NEW s \in {"VERIFIED", "BACKING_OFF", "FAILED_TERMINAL"},
             Approved(x), PrerequisitesVerified(x), acts[x] \in {"LEASED", "LAPSED"},
             acts' = [acts EXCEPT ![x] = s], UNCHANGED <<tries, approval>>
      PROVE  Life!Next
  <2>1. LifeStates[x] = "TAKEN" /\ LifeState(s) \in {"VERIFIED", "RETRY", "FAILED"}
    BY <1>5 DEF LifeStates, LifeState, Retryable
  <2>2. LifeStates' = [LifeStates EXCEPT ![x] = LifeState(s)]
    BY <1>1, <1>5, StateOfOne
  <2>3. Life!Conclude(x, LifeState(s))
    BY <1>5, <2>1, <2>2, AllowedMayRun DEF Life!Conclude, LifeStates
  <2> QED
    BY <2>1, <2>3 DEF Life!Next
<1>6. ASSUME NEW w \in Worker, NEW x \in Planned, Reconcile(w, x) PROVE Life!Next
  BY <1>5, <1>6, AllowedIsApproved DEF Reconcile, plans
<1>7. ASSUME NEW w \in Worker, NEW x \in Planned,
             NEW outcome \in {"VERIFIED", "BACKING_OFF", "FAILED_TERMINAL"}, Answer(w, x, outcome)
      PROVE  Life!Next
  <2>1. Approved(x) /\ PrerequisitesVerified(x)
    BY <1>7 DEF Answer, CallsAreSound
  <2> QED
    BY <1>5, <1>7, <2>1 DEF Answer, plans
<1>8. ASSUME NEW x \in Planned, NEW s, acts' = [acts EXCEPT ![x] = s],
             LifeState(s) = LifeState(acts[x])
      PROVE  LifeStates' = LifeStates
  BY <1>1, <1>8, StateOfOne DEF LifeStates
<1>9. ASSUME NEW w \in Worker, NEW l \in Label, Put(w, l) PROVE Life!Next
  <2>1. CASE <<job[w].plan, l>> \in Planned
    <3>1. acts[<<job[w].plan, l>>] = "NONE"
      BY <1>9, <2>1 DEF Put, Stored
    <3>2. LifeState("PENDING") = LifeState("NONE")
      BY DEF LifeState, Retryable
    <3> QED
      BY <1>3, <1>8, <1>9, <2>1, <3>1, <3>2 DEF Put
  <2>2. CASE <<job[w].plan, l>> \notin Planned
    BY <1>1, <1>3, <1>9, <2>2 DEF Put, ActionsTyped, LifeStates
  <2> QED
    BY <2>1, <2>2
<1>10. ASSUME NEW x \in Planned, BackedOff(x) \/ ActionLeaseEnds(x) PROVE Life!Next
  BY <1>3, <1>8, <1>10 DEF BackedOff, ActionLeaseEnds, LifeState, Retryable
<1>11. CASE UNCHANGED <<acts, tries>>
  BY <1>3, <1>11 DEF LifeStates
<1> QED
  BY <1>4, <1>6, <1>7, <1>9, <1>10, <1>11, ActionSteps

(***************************************************************************)
(* However requests overlap, retry, replan and die, the actions of every   *)
(* plan live as ActionExecutor lets one live: begun with prerequisites and *)
(* approval, counted before they end, and never taken up when over.        *)
(***************************************************************************)
THEOREM LifeIsKept == Spec => KeepsToLife
<1>1. Init => Living /\ Life!Init
  <2>1. Init => Living
    BY DEF Init, Living, CallsAreSound, PhaseIsEntitled, Idle
  <2>2. ASSUME Init PROVE {x \in Planned : approval[x[1]] = "APPROVED"} = {}
    BY <2>2 DEF Init, Planned
  <2>3. ASSUME Init PROVE LifeStates = [x \in Planned |-> "OPEN"]
    BY <2>3 DEF Init, LifeStates, LifeState, Retryable
  <2> QED
    BY <2>1, <2>2, <2>3 DEF Init, Life!Init, LifeStates
<1>2. TypeOK /\ Living /\ [Next]_vars => Living' /\ [Life!Next]_(Life!vars)
  BY TypeParts, CallsAreSoundNext, PhaseIsEntitledNext, LifeNext DEF Living
<1> QED
  BY <1>1, <1>2, TypeCorrect, PTL DEF Spec, KeepsToLife, Life!Spec

-----------------------------------------------------------------------------
(***************************************************************************)
(* The terminal success guard.                                             *)
(***************************************************************************)
\* prepare() stores the flight last, so that a plan with a flight is complete.
FlightIsLast ==
    \A v \in Version : <<v, Flight>> \in Stored => \A l \in Label : <<v, l>> \in Stored

\* The verdict of a request that has not written it yet still holds.
VerdictHolds ==
    \A w \in Worker :
        job[w].pc = "settle" /\ job[w].next = "RECOVERED" => \E v \in Version : PlanIsVerified(v)

Guarded == CallsAreBegun /\ FlightIsLast /\ VerdictHolds /\ RecoveredIsVerified

LEMMA PlannedPairs == \A v \in Version, l \in Label : <<v, l>> \in Planned
  BY DEF Planned

LEMMA FlightIsLastNext ==
  ASSUME AllTyped, CallsAreBegun, FlightIsLast, [Next]_vars
  PROVE  FlightIsLast'
<1> SUFFICES ASSUME NEW v \in Version, <<v, Flight>> \in Stored', NEW l \in Label
             PROVE  <<v, l>> \in Stored'
  BY DEF FlightIsLast
<1>1. CASE <<v, Flight>> \in Stored
  BY <1>1, PlannedPairs, ActionChanges DEF FlightIsLast
<1>2. ASSUME NEW w \in Worker, Put(w, Flight), job[w].plan = v PROVE <<v, l>> \in Stored'
  BY <1>2, PlannedPairs, ActionChanges DEF Put
<1> QED
  BY <1>1, <1>2, PlannedPairs, ActionChanges, RecoveryAssumption

\* Nothing is added to a verified plan, and nothing of it is taken back.
LEMMA VerifiedStays ==
  ASSUME AllTyped, CallsAreBegun, FlightIsLast, [Next]_vars,
         NEW v \in Version, PlanIsVerified(v)
  PROVE  PlanIsVerified(v)'
<1>1. <<v, Flight>> \in Stored'
  BY PlannedPairs, ActionChanges, RecoveryAssumption DEF PlanIsVerified
<1>2. ASSUME NEW l \in Label PROVE acts'[<<v, l>>] = "VERIFIED"
  <2>1. acts[<<v, l>>] = "VERIFIED"
    BY DEF PlanIsVerified, FlightIsLast
  <2> QED
    BY <2>1, PlannedPairs, ActionChanges
<1>3. NeedsApproval(v) => approval'[v] = "APPROVED"
  BY ApprovedStays DEF PlanIsVerified
<1> QED
  BY <1>1, <1>2, <1>3 DEF PlanIsVerified

LEMMA VerdictHoldsNext ==
  ASSUME AllTyped, CallsAreBegun, FlightIsLast, VerdictHolds, [Next]_vars
  PROVE  VerdictHolds'
<1> SUFFICES ASSUME NEW w \in Worker, job'[w].pc = "settle", job'[w].next = "RECOVERED"
             PROVE  \E v \in Version : PlanIsVerified(v)'
  BY DEF VerdictHolds
<1>1. JobsTyped
  BY DEF AllTyped
<1>2. CASE job'[w] = job[w]
  BY <1>2, VerifiedStays DEF VerdictHolds
<1>3. CASE BarrierStops(w) \/ BarrierPasses(w) \/ Judge(w)
  <2>1. Recoverable(w)
    BY <1>1, <1>3, DecidedJob DEF DecidedFor, Elsewhere
  <2>2. PICK v \in Version : /\ <<v, Flight>> \in Stored
                             /\ \A x \in Stored : x[1] = v => acts[x] = "VERIFIED"
                             /\ (\E l \in Label : <<v, l>> \in Asked \cap Stored) => approval[v] = "APPROVED"
    BY <2>1 DEF Recoverable
  <2>3. NeedsApproval(v) => \E l \in Label : <<v, l>> \in Asked \cap Stored
    BY <2>2, RecoveryAssumption DEF FlightIsLast, NeedsApproval
  <2>4. PlanIsVerified(v)
    BY <2>2, <2>3 DEF PlanIsVerified
  <2> QED
    BY <2>4, VerifiedStays
<1>4. CASE Executing(w) /\ ~ BarrierStops(w) /\ ~ BarrierPasses(w) /\ ~ Judge(w)
  BY <1>1, <1>4, ActionJob, ResumeJob, ContinueJob, RunJob DEF Executing, List, Elsewhere
<1> QED
  BY <1>1, <1>2, <1>3, <1>4, JobChanges, OtherJobChanges
     DEF Next, Quietly, OthersUnchanged, Elsewhere

\* RECOVERED is written by the transition that carries out a verdict.
LEMMA OnlySettleRecovers ==
  ASSUME [Next]_vars, status' = "RECOVERED", status # "RECOVERED"
  PROVE  \E w \in Worker : job[w].pc = "settle" /\ job[w].next = "RECOVERED"
<1> USE DEF incident, MoveIncident
<1>1. ASSUME NEW w \in Worker, Settle(w) PROVE job[w].pc = "settle" /\ job[w].next = "RECOVERED"
  BY <1>1 DEF Settle
<1>2. ASSUME NEW w \in Worker, CommandStep(w) PROVE FALSE
  BY <1>2 DEF CommandStep, Claim, ClaimRefused, LoadNothingToDo, Load, LoadRetry, Expire, Finish,
              Phase
<1>3. ASSUME NEW w \in Worker, AdvanceStep(w) PROVE FALSE
  BY <1>3 DEF AdvanceStep, Advance, Prepare, Commit, CommitRefused, Put, Announce, Notify, Card
<1>4. ASSUME NEW w \in Worker, ContinueStep(w) PROVE FALSE
  BY <1>4 DEF ContinueStep, Continue, Ask, EnqueueExpiry, Decide, Conclude, Resume, List
<1>5. ASSUME NEW w \in Worker, ExecuteStep(w), ~ Settle(w) PROVE FALSE
  BY <1>5 DEF ExecuteStep, Skip, Missing, Reconcile, Take, Answer, AnswerTooLate, BarrierStops, BarrierPasses,
              EnqueueRetry, Judge
<1>6. CASE Environment
  BY <1>6 DEF Environment, Traveler, Approve, Decline, RequestReplan, Lapse, BackedOff,
              ActionLeaseEnds, Due, CommandLeaseEnds, Dispatch
<1>7. CASE UNCHANGED vars \/ \E w \in Worker : Fault(w) \/ \E m \in Message : Begin(w, m)
  BY <1>7 DEF vars, Fault, Begin
<1> QED
  BY <1>1, <1>2, <1>3, <1>4, <1>5, <1>6, <1>7 DEF Next, Step

LEMMA GuardedNext ==
  ASSUME AllTyped, Guarded, [Next]_vars
  PROVE  Guarded'
<1>1. RecoveredIsVerified <=> (status = "RECOVERED" => \E v \in Version : PlanIsVerified(v))
  BY DEF RecoveredIsVerified, PlanIsVerified
<1>2. RecoveredIsVerified' <=> (status' = "RECOVERED" => \E v \in Version : PlanIsVerified(v)')
  BY DEF RecoveredIsVerified, PlanIsVerified
<1>3. (\E v \in Version : PlanIsVerified(v)) => \E v \in Version : PlanIsVerified(v)'
  BY VerifiedStays DEF Guarded
<1>4. RecoveredIsVerified'
  BY <1>1, <1>2, <1>3, OnlySettleRecovers DEF Guarded, VerdictHolds
<1> QED
  BY <1>4, CallsAreBegunNext, FlightIsLastNext, VerdictHoldsNext DEF Guarded

(***************************************************************************)
(* An incident is marked recovered only while some plan has every action   *)
(* verified, and approved if any of them asks for it; neither the time     *)
(* between the verdict and its write nor anything after it undoes that.    *)
(***************************************************************************)
THEOREM RecoveredStaysVerified == Spec => []RecoveredIsVerified
<1>1. Init => Guarded
  BY RecoveryAssumption DEF Init, Guarded, CallsAreBegun, FlightIsLast, VerdictHolds,
        RecoveredIsVerified, Idle, Stored, Planned
<1>2. TypeOK /\ Guarded /\ [Next]_vars => Guarded'
  BY TypeParts, GuardedNext
<1>3. Guarded => RecoveredIsVerified
  BY DEF Guarded
<1> QED
  BY <1>1, <1>2, <1>3, TypeCorrect, PTL DEF Spec

-----------------------------------------------------------------------------
(***************************************************************************)
(* Overlapping requests.  commit_plan compares a version that the caller   *)
(* read after it looked at the status, an incident is announced whatever   *)
(* its plan has become, and most decisions do not look at the plan.  What  *)
(* follows holds of any number of requests until one plan overtakes        *)
(* another in that way.                                                    *)
(***************************************************************************)
\* An approval that can still be decided, or was decided without a new plan, is
\* the current plan's, and nobody is planning.
Active(v) == approval[v] \in Undecided \cup {"APPROVED", "DECLINED"}
ActiveIsCurrent == \A v \in Version : Active(v) => v = plan /\ status # "PLANNING"

\* Once a plan is announced it stays, whole; nothing is known of later plans.
PlanIsStored == status # "PLANNING" => plan \in Version /\ <<plan, Flight>> \in Stored
NothingAhead ==
    /\ \A v \in Version : v > plan => approval[v] = "NONE"
    /\ \A x \in Stored : x[1] <= plan

\* A request that may come to store an approval for the plan in hand.
OnWayToAsk(w) ==
    \/ job[w].pc \in {"notify", "continue", "undelivered", "ask"}
    \/ job[w].pc \in {"run", "call"} /\ job[w].phase # "EXECUTING_APPROVED"

\* The plan such a request holds has been asked about, or is the one announced last.
Reached(v) ==
    v <= plan /\ (v \in Version /\ approval[v] = "NONE" => v = plan /\ status # "PLANNING")

\* What a request that plans, announces, expires or asks knows of the plan in hand.
KeepsPace(w) ==
    /\ job[w].pc = "commit" /\ fresh[w] => job[w].plan = plan + 1
    /\ job[w].pc = "put" => job[w].plan <= plan
    /\ job[w].pc = "expire" => job[w].msg[1][2] \in Version
    /\ OnWayToAsk(w) => Reached(job[w].plan)

InOrder == ActiveIsCurrent /\ NothingAhead /\ PlanIsStored /\ \A w \in Worker : KeepsPace(w)

\* All that is known before a step that lets no plan overtake another.
Orderly == AllTyped /\ DecisionsInTable /\ CallsAreBegun /\ InOrder

\* The steps that write a plan or an approval, or send the incident back to
\* planning.
KeepsPlans == UNCHANGED <<plan, approval>> /\ (status' = status \/ status' # "PLANNING")

LEMMA PlanChanges ==
  ASSUME AllTyped, DecisionsInTable, [Next]_vars
  PROVE  \/ KeepsPlans
         \/ \E w \in Worker : Commit(w) \/ Ask(w) \/ Expire(w)
         \/ \E v \in Version : \/ Approve(v) \/ Decline(v) \/ Lapse(v)
                               \/ \E kind : RequestReplan(v, kind)
<1> USE DEF plans, incident, MoveIncident, KeepsPlans
<1>1. ASSUME NEW w \in Worker, CommandStep(w) PROVE KeepsPlans \/ Expire(w)
  BY <1>1 DEF CommandStep, Claim, ClaimRefused, LoadNothingToDo, Load, LoadRetry, Finish, Phase
<1>2. ASSUME NEW w \in Worker, AdvanceStep(w) PROVE KeepsPlans \/ Commit(w)
  BY <1>2 DEF AdvanceStep, Advance, Prepare, CommitRefused, Put, Announce, Notify, Card
<1>3. ASSUME NEW w \in Worker, ContinueStep(w) PROVE KeepsPlans \/ Ask(w)
  BY <1>3 DEF ContinueStep, Continue, EnqueueExpiry, Decide, Conclude, Resume, List
<1>4. ASSUME NEW w \in Worker, ExecuteStep(w) PROVE KeepsPlans
  <2>1. CASE Settle(w)
    <3>1. job[w].next # "PLANNING"
      BY <2>1 DEF Settle, DecisionsInTable, AllTyped, JobsTyped, Job, Phase, Lifecycle!Successors
    <3> QED
      BY <2>1, <3>1 DEF Settle
  <2> QED
    BY <1>4, <2>1 DEF ExecuteStep, Skip, Missing, Reconcile, Take, Answer, AnswerTooLate, BarrierStops,
                      BarrierPasses, EnqueueRetry, Judge
<1>5. CASE Environment
  <2>1. CASE \E v \in Version : Traveler(v) \/ Lapse(v)
    BY <2>1 DEF Traveler
  <2> QED
    BY <1>5, <2>1 DEF Environment, BackedOff, ActionLeaseEnds, Due, CommandLeaseEnds, Dispatch
<1>6. ASSUME NEW w \in Worker, NEW m, Begin(w, m) \/ Fault(w) PROVE KeepsPlans
  BY <1>6 DEF Begin, Fault
<1>7. CASE UNCHANGED vars
  BY <1>7 DEF vars
<1> QED
  BY <1>1, <1>2, <1>3, <1>4, <1>5, <1>6, <1>7 DEF Next, Step

\* The steps that move the incident.
LEMMA StatusChanges ==
  ASSUME [Next]_vars
  PROVE  \/ status' = status
         \/ \E w \in Worker : \/ LoadRetry(w) \/ Expire(w) \/ Announce(w) \/ Continue(w)
                              \/ Decide(w) \/ Conclude(w) \/ Resume(w) \/ Settle(w)
         \/ \E v \in Version : Decline(v) \/ \E kind : RequestReplan(v, kind)
<1> USE DEF incident
<1>1. ASSUME NEW w \in Worker, CommandStep(w) PROVE status' = status \/ LoadRetry(w) \/ Expire(w)
  BY <1>1 DEF CommandStep, Claim, ClaimRefused, LoadNothingToDo, Load, Finish
<1>2. ASSUME NEW w \in Worker, AdvanceStep(w) PROVE status' = status \/ Announce(w)
  BY <1>2 DEF AdvanceStep, Advance, Prepare, Commit, CommitRefused, Put, Notify, Card, MoveIncident
<1>3. ASSUME NEW w \in Worker, ContinueStep(w)
      PROVE  status' = status \/ Continue(w) \/ Decide(w) \/ Conclude(w) \/ Resume(w)
  BY <1>3 DEF ContinueStep, Ask, EnqueueExpiry, List
<1>4. ASSUME NEW w \in Worker, ExecuteStep(w) PROVE status' = status \/ Settle(w)
  BY <1>4 DEF ExecuteStep, Skip, Missing, Reconcile, Take, Answer, AnswerTooLate,
              BarrierStops, BarrierPasses, EnqueueRetry, Judge
<1>5. CASE Environment
  BY <1>5 DEF Environment, Traveler, Approve, Lapse, BackedOff, ActionLeaseEnds, Due,
              CommandLeaseEnds, Dispatch
<1>6. CASE UNCHANGED vars \/ \E w \in Worker : Fault(w) \/ \E m \in Message : Begin(w, m)
  BY <1>6 DEF vars, Fault, Begin
<1> QED
  BY <1>1, <1>2, <1>3, <1>4, <1>5, <1>6 DEF Next, Step

\* Where the steps that move the incident find it, and where they leave it.
LEMMA Moves ==
  ASSUME AllTyped, NEW w \in Worker
  PROVE  /\ LoadRetry(w) => status = "RETRY_SCHEDULED" /\ status' \in Phase
         /\ Expire(w) => \/ status' = status
                         \/ status = "WAITING_APPROVAL" /\ status' = "PLANNING"
         /\ Announce(w) => \/ status' = status
                           \/ status = "PLANNING" /\ status' = "NOTIFYING"
         /\ Continue(w) => \/ status' = status
                           \/ status = "NOTIFYING" /\ status' = "EXECUTING_AUTO"
         /\ Decide(w) => \/ status' = status
                         \/ status = "EXECUTING_AUTO" /\ status' = "WAITING_APPROVAL"
         /\ Conclude(w) => \/ status' = status
                           \/ status = "EXECUTING_AUTO" /\ status' = "VERIFYING"
         /\ Resume(w) => \/ status' = status
                         \/ status = "WAITING_APPROVAL" /\ status' = "EXECUTING_APPROVED"
         /\ Settle(w) => \/ status' = status
                         \/ /\ status \in Phase \cup {"VERIFYING"} /\ status = job[w].phase
                            /\ job[w].pc = "settle" /\ status' = job[w].next
<1> USE DEF incident, MoveIncident
<1>1. job[w].phase \in Phase \cup {"VERIFYING"}
  BY DEF AllTyped, JobsTyped, Job
<1>2. LoadRetry(w) => status = "RETRY_SCHEDULED" /\ status' \in Phase
  BY DEF LoadRetry
<1>3. Expire(w) => status' = status \/ (status = "WAITING_APPROVAL" /\ status' = "PLANNING")
  BY DEF Expire
<1>4. Announce(w) => status' = status \/ (status = "PLANNING" /\ status' = "NOTIFYING")
  BY DEF Announce
<1>5. Continue(w) => status' = status \/ (status = "NOTIFYING" /\ status' = "EXECUTING_AUTO")
  BY DEF Continue
<1>6. Decide(w) => \/ status' = status
                   \/ status = "EXECUTING_AUTO" /\ status' = "WAITING_APPROVAL"
  BY DEF Decide
<1>7. Conclude(w) => status' = status \/ (status = "EXECUTING_AUTO" /\ status' = "VERIFYING")
  BY DEF Conclude
<1>8. Resume(w) => \/ status' = status
                   \/ status = "WAITING_APPROVAL" /\ status' = "EXECUTING_APPROVED"
  BY DEF Resume
<1>9. Settle(w) => \/ status' = status
                   \/ /\ status = job[w].phase
                      /\ job[w].pc = "settle" /\ status' = job[w].next
  BY DEF Settle
<1> QED
  BY <1>1, <1>2, <1>3, <1>4, <1>5, <1>6, <1>7, <1>8, <1>9

\* Planning ends when the plan is announced.
LEMMA PlanningEnds ==
  ASSUME AllTyped, [Next]_vars, status = "PLANNING", status' # "PLANNING"
  PROVE  \E w \in Worker : Announce(w) /\ status' = "NOTIFYING"
<1>1. ASSUME NEW v \in Version, Decline(v) \/ \E kind : RequestReplan(v, kind) PROVE FALSE
  BY <1>1 DEF Decline, RequestReplan
<1>2. ASSUME NEW w \in Worker, Settle(w) PROVE FALSE
  BY <1>2, Moves DEF Phase
<1> QED
  BY <1>1, <1>2, Moves, StatusChanges


\* Once a plan has overtaken another, it has.
LEMMA OvertakenStays ==
  ASSUME AllTyped, [Next]_vars, overtaken
  PROVE  overtaken'
<1> USE DEF plans
<1>1. ASSUME NEW w \in Worker, CommandStep(w) \/ ContinueStep(w) \/ ExecuteStep(w)
      PROVE  overtaken' = overtaken
  BY <1>1 DEF CommandStep, Claim, ClaimRefused, LoadNothingToDo, Load, LoadRetry, Expire, Finish,
              ContinueStep, Continue, Ask, EnqueueExpiry, Decide, Conclude, Resume, List,
              ExecuteStep, Skip, Missing, Reconcile, Take, Answer, AnswerTooLate, BarrierStops,
              BarrierPasses, Settle, EnqueueRetry, Judge
<1>2. ASSUME NEW w \in Worker, AdvanceStep(w) PROVE overtaken'
  <2>1. CASE Commit(w) \/ Announce(w)
    BY <2>1 DEF Commit, Announce
  <2>2. CASE ~ Commit(w) /\ ~ Announce(w)
    <3>1. overtaken' = overtaken
      BY <1>2, <2>2 DEF AdvanceStep, Advance, Prepare, CommitRefused, Put, Notify, Card
    <3> QED
      BY <3>1
  <2> QED
    BY <2>1, <2>2
<1>3. CASE Environment
  BY <1>3 DEF Environment, Traveler, Approve, Decline, RequestReplan, Lapse, BackedOff,
              ActionLeaseEnds, Due, CommandLeaseEnds, Dispatch
<1>4. CASE UNCHANGED vars \/ \E w \in Worker : Fault(w) \/ \E m \in Message : Begin(w, m)
  BY <1>4 DEF vars, Fault, Begin
<1> QED
  BY <1>1, <1>2, <1>3, <1>4 DEF Next, Step

\* A plan is only committed over one that was never announced.
LEMMA PlanMoves ==
  ASSUME Orderly, [Next]_vars, ~ overtaken', plan' # plan
  PROVE  /\ plan' = plan + 1 /\ status = "PLANNING" /\ status' = "PLANNING"
         /\ fresh' = [w \in Worker |-> FALSE] /\ UNCHANGED <<approval, acts>>
<1>1. PICK w \in Worker : Commit(w)
  BY PlanChanges DEF Orderly, KeepsPlans, Ask, Expire, Approve, Decline, Lapse, RequestReplan
<1>2. status = "PLANNING"
  BY <1>1 DEF Commit
<1>3. job[w].plan = plan + 1
  BY <1>1 DEF Commit, Orderly, InOrder, KeepsPace
<1> QED
  BY <1>1, <1>2, <1>3 DEF Commit, MoveIncident, actions

\* The plan that is announced is the current one.
LEMMA AnnouncedIsCurrent ==
  ASSUME NEW w \in Worker, Announce(w), ~ overtaken', status' # status
  PROVE  job[w].plan = plan /\ status' = "NOTIFYING" /\ UNCHANGED plan
         /\ {job[w].plan} \X Label \subseteq Stored
  BY DEF Announce, MoveIncident, incident

\* A decision is about the current plan.
LEMMA ApprovalChanges ==
  ASSUME Orderly, [Next]_vars, ~ overtaken', NEW v \in Version, approval'[v] # approval[v]
  PROVE  /\ v = plan /\ plan' = plan /\ status # "PLANNING" /\ approval'[v] # "NONE"
         /\ \/ approval[v] = "NONE" /\ approval'[v] = "PENDING" /\ status' = status
            \/ approval[v] = "PENDING" /\ approval'[v] \in {"LAPSED", "APPROVED"} /\ status' = status
            \/ approval'[v] = "DECLINED" /\ status = "WAITING_APPROVAL" /\ status' = "CANCELLED"
            \/ /\ approval'[v] \in {"EXPIRED", "SUPERSEDED"}
               /\ status \in {"WAITING_APPROVAL", "CANCELLED"} /\ status' = "PLANNING"
               /\ Active(v)
<1> DEFINE Goal ==
      /\ v = plan /\ plan' = plan /\ status # "PLANNING" /\ approval'[v] # "NONE"
      /\ \/ approval[v] = "NONE" /\ approval'[v] = "PENDING" /\ status' = status
         \/ approval[v] = "PENDING" /\ approval'[v] \in {"LAPSED", "APPROVED"} /\ status' = status
         \/ approval'[v] = "DECLINED" /\ status = "WAITING_APPROVAL" /\ status' = "CANCELLED"
         \/ /\ approval'[v] \in {"EXPIRED", "SUPERSEDED"}
            /\ status \in {"WAITING_APPROVAL", "CANCELLED"} /\ status' = "PLANNING"
            /\ Active(v)
<1>1. approval \in [Version -> ApprovalStatus]
  BY DEF Orderly, AllTyped, PlansTyped
<1>2. ASSUME Active(v) PROVE v = plan /\ status # "PLANNING"
  BY <1>2 DEF Orderly, InOrder, ActiveIsCurrent
<1>3. ASSUME NEW w \in Worker, Ask(w) PROVE Goal
  <2>1. v = job[w].plan /\ approval[v] = "NONE" /\ approval'[v] = "PENDING"
    BY <1>1, <1>3 DEF Ask
  <2>2. v = plan /\ status # "PLANNING"
    BY <1>3, <2>1 DEF Ask, Orderly, InOrder, KeepsPace, OnWayToAsk, Reached
  <2> QED
    BY <1>3, <2>1, <2>2 DEF Ask, incident
<1>4. ASSUME NEW w \in Worker, Expire(w) PROVE Goal
  <2>1. /\ approval[v] = "LAPSED" /\ approval'[v] = "EXPIRED" /\ plan' = plan
        /\ status = "WAITING_APPROVAL" /\ status' = "PLANNING"
    BY <1>1, <1>4 DEF Expire, MoveIncident
  <2> QED
    BY <1>2, <2>1 DEF Active, Undecided
<1>5. ASSUME NEW u \in Version, NEW kind, RequestReplan(u, kind) PROVE Goal
  <2>1. /\ Active(v) /\ approval'[v] = "SUPERSEDED" /\ plan' = plan
        /\ status \in {"WAITING_APPROVAL", "CANCELLED"} /\ status' = "PLANNING"
    BY <1>1, <1>5 DEF RequestReplan, MoveIncident, Active
  <2> QED
    BY <1>2, <2>1
<1>6. ASSUME NEW u \in Version, Approve(u) \/ Lapse(u) PROVE Goal
  <2>1. /\ approval[v] = "PENDING" /\ approval'[v] \in {"LAPSED", "APPROVED"}
        /\ plan' = plan /\ status' = status
    BY <1>1, <1>6 DEF Approve, Lapse, incident
  <2> QED
    BY <1>2, <2>1 DEF Active, Undecided
<1>7. ASSUME NEW u \in Version, Decline(u) PROVE Goal
  <2>1. /\ approval[v] = "PENDING" /\ approval'[v] = "DECLINED" /\ plan' = plan
        /\ status = "WAITING_APPROVAL" /\ status' = "CANCELLED"
    BY <1>1, <1>7 DEF Decline, MoveIncident
  <2> QED
    BY <1>2, <2>1 DEF Active, Undecided
<1>8. ~ KeepsPlans /\ ~ \E w \in Worker : Commit(w)
  BY DEF KeepsPlans, Commit
<1> QED
  BY <1>3, <1>4, <1>5, <1>6, <1>7, <1>8, PlanChanges DEF Orderly

\* The incident goes back to planning when the approval of its plan is closed.
LEMMA BackToPlanning ==
  ASSUME Orderly, [Next]_vars, status # "PLANNING", status' = "PLANNING"
  PROVE  \E v \in Version : v = plan /\ Active(v) /\ approval'[v] \in {"EXPIRED", "SUPERSEDED"}
<1>1. approval \in [Version -> ApprovalStatus]
  BY DEF Orderly, AllTyped, PlansTyped
<1>2. ASSUME NEW v \in Version, Active(v) PROVE v = plan
  BY <1>2 DEF Orderly, InOrder, ActiveIsCurrent
<1>3. CASE \E w \in Worker : Expire(w)
  <2>1. PICK w \in Worker : Expire(w)
    BY <1>3
  <2> DEFINE v == job[w].msg[1][2]
  <2>2. v \in Version
    BY <2>1 DEF Expire, Orderly, InOrder, KeepsPace
  <2>3. approval[v] = "LAPSED" /\ approval'[v] = "EXPIRED"
    BY <1>1, <2>1, <2>2 DEF Expire, incident
  <2> QED
    BY <1>2, <2>2, <2>3 DEF Active, Undecided
<1>4. ASSUME NEW v \in Version, NEW kind, RequestReplan(v, kind)
      PROVE  Active(v) /\ approval'[v] = "SUPERSEDED"
  BY <1>1, <1>4 DEF RequestReplan, Active
<1>5. ~ KeepsPlans /\ \A w \in Worker : ~ Commit(w) /\ ~ Ask(w)
  BY DEF KeepsPlans, Commit, Ask, MoveIncident, incident
<1>6. \A v \in Version : ~ Approve(v) /\ ~ Decline(v) /\ ~ Lapse(v)
  BY DEF Approve, Decline, Lapse, MoveIncident, incident
<1> QED
  BY <1>2, <1>3, <1>4, <1>5, <1>6, PlanChanges DEF Orderly

\* Only prepare() reads the version.
LEMMA FreshOnlyPrepared ==
  ASSUME AllTyped, [Next]_vars, NEW w \in Worker, fresh'[w]
  PROVE  fresh[w] \/ Prepare(w)
<1> USE DEF incident, MoveIncident
<1>1. ASSUME NEW u \in Worker, CommandStep(u) PROVE fresh'[w] = fresh[w]
  BY <1>1 DEF CommandStep, Claim, ClaimRefused, LoadNothingToDo, Load, LoadRetry, Expire, Finish
<1>2. ASSUME NEW u \in Worker, AdvanceStep(u) PROVE fresh'[w] = fresh[w] \/ Prepare(w)
  <2>1. CASE Prepare(u)
    BY <2>1 DEF Prepare, AllTyped, IncidentTyped
  <2> QED
    BY <1>2, <2>1 DEF AdvanceStep, Advance, Commit, CommitRefused, Put, Announce, Notify, Card
<1>3. ASSUME NEW u \in Worker, ContinueStep(u) PROVE fresh'[w] = fresh[w]
  BY <1>3 DEF ContinueStep, Continue, Ask, EnqueueExpiry, Decide, Conclude, Resume, List
<1>4. ASSUME NEW u \in Worker, ExecuteStep(u) PROVE fresh'[w] = fresh[w]
  BY <1>4 DEF ExecuteStep, Skip, Missing, Reconcile, Take, Answer, AnswerTooLate, BarrierStops,
              BarrierPasses, Settle, EnqueueRetry, Judge
<1>5. CASE Environment
  BY <1>5 DEF Environment, Traveler, Approve, Decline, RequestReplan, Lapse, BackedOff,
              ActionLeaseEnds, Due, CommandLeaseEnds, Dispatch
<1>6. CASE UNCHANGED vars \/ \E u \in Worker : Fault(u) \/ \E m \in Message : Begin(u, m)
  BY <1>6 DEF vars, Fault, Begin
<1> QED
  BY <1>1, <1>2, <1>3, <1>4, <1>5, <1>6 DEF Next, Step

\* The first three parts of the order.
LEMMA ActiveIsCurrentNext ==
  ASSUME Orderly, [Next]_vars, ~ overtaken'
  PROVE  ActiveIsCurrent'
<1> SUFFICES ASSUME NEW u \in Version, Active(u)' PROVE u = plan' /\ status' # "PLANNING"
  BY DEF ActiveIsCurrent
<1>1. \A v \in Version : Active(v) => v = plan /\ status # "PLANNING"
  BY DEF Orderly, InOrder, ActiveIsCurrent
<1>2. u = plan /\ plan' = plan /\ status # "PLANNING"
  <2>1. CASE approval'[u] # approval[u]
    BY <2>1, ApprovalChanges
  <2>2. CASE approval'[u] = approval[u]
    BY <1>1, <2>2, PlanMoves DEF Active
  <2> QED
    BY <2>1, <2>2
<1>3. CASE status' = "PLANNING"
  BY <1>2, <1>3, BackToPlanning DEF Active, Undecided
<1> QED
  BY <1>2, <1>3

LEMMA PlanIsStoredNext ==
  ASSUME Orderly, [Next]_vars, ~ overtaken'
  PROVE  PlanIsStored'
<1>1. ASSUME <<plan, Flight>> \in Stored, plan \in Version PROVE <<plan, Flight>> \in Stored'
  BY <1>1, PlannedPairs, ActionChanges, RecoveryAssumption DEF Orderly
<1>2. CASE plan' # plan
  BY <1>2, PlanMoves DEF PlanIsStored
<1>3. CASE plan' = plan /\ status # "PLANNING"
  BY <1>1, <1>3 DEF PlanIsStored, Orderly, InOrder
<1>4. CASE plan' = plan /\ status = "PLANNING" /\ status' # "PLANNING"
  <2>1. PICK w \in Worker : Announce(w)
    BY <1>4, PlanningEnds DEF Orderly
  <2>2. <<plan, Flight>> \in Stored
    BY <1>4, <2>1, AnnouncedIsCurrent, RecoveryAssumption
  <2>3. plan \in Version
    BY <2>2 DEF Stored, Planned
  <2> QED
    BY <1>1, <1>4, <2>2, <2>3 DEF PlanIsStored
<1> QED
  BY <1>2, <1>3, <1>4 DEF PlanIsStored

LEMMA NothingAheadNext ==
  ASSUME Orderly, [Next]_vars, ~ overtaken'
  PROVE  NothingAhead'
<1>1. plan \in Int /\ Version \subseteq Int
  BY DEF Orderly, AllTyped, PlansTyped, Version
<1>2. plan' \in Int /\ plan <= plan'
  BY <1>1, PlanMoves
<1>3. ASSUME NEW v \in Version, v > plan' PROVE approval'[v] = "NONE"
  <2>1. v > plan /\ v # plan
    BY <1>1, <1>2, <1>3
  <2> QED
    BY <2>1, ApprovalChanges DEF NothingAhead, Orderly, InOrder
<1>4. ASSUME NEW x \in Stored' PROVE x[1] <= plan'
  <2>1. x \in Planned /\ x[1] \in Int
    BY <1>1 DEF Stored, Planned
  <2>2. CASE x \in Stored
    BY <1>1, <1>2, <2>1, <2>2 DEF NothingAhead, Orderly, InOrder
  <2>3. ASSUME NEW w \in Worker, NEW l \in Label, Put(w, l), x = <<job[w].plan, l>>
        PROVE  x[1] <= plan
    BY <2>3 DEF Put, Orderly, InOrder, KeepsPace
  <2> QED
    BY <1>1, <1>2, <2>1, <2>2, <2>3, ActionChanges DEF Orderly
<1> QED
  BY <1>3, <1>4 DEF NothingAhead

\* What a request knows stays true while others take their steps.
LEMMA ReachedStays ==
  ASSUME Orderly, [Next]_vars, ~ overtaken', NEW v \in Int, Reached(v)
  PROVE  Reached(v)'
<1>1. plan \in Int /\ plan' \in Int /\ plan <= plan'
  BY PlanMoves DEF Orderly, AllTyped, PlansTyped
<1>2. v <= plan'
  BY <1>1 DEF Reached
<1>3. ASSUME v \in Version, approval'[v] = "NONE" PROVE v = plan' /\ status' # "PLANNING"
  <2>1. approval[v] = "NONE"
    BY <1>3, ApprovalChanges
  <2>2. v = plan /\ status # "PLANNING"
    BY <1>3, <2>1 DEF Reached
  <2>3. plan' = plan
    BY <2>2, PlanMoves
  <2>4. status' # "PLANNING"
    BY <2>1, <2>2, BackToPlanning DEF Active, Undecided
  <2> QED
    BY <2>2, <2>3, <2>4
<1> QED
  BY <1>2, <1>3 DEF Reached

LEMMA CurrentIsReached ==
  ASSUME Orderly, plan' = plan, status' # "PLANNING"
  PROVE  Reached(plan)'
<1>1. plan \in Int
  BY DEF Orderly, AllTyped, PlansTyped
<1> QED
  BY <1>1 DEF Reached

LEMMA OthersKeepPace ==
  ASSUME Orderly, [Next]_vars, ~ overtaken', NEW w \in Worker, job'[w] = job[w]
  PROVE  KeepsPace(w)'
<1>1. KeepsPace(w) /\ job[w].plan \in Int /\ plan \in Int /\ job \in [Worker -> Job]
  BY DEF Orderly, InOrder, AllTyped, JobsTyped, Job, PlansTyped
<1>2. ASSUME job[w].pc = "commit", fresh'[w] PROVE job[w].plan = plan' + 1
  <2>1. plan' = plan
    BY <1>2, PlanMoves
  <2>2. fresh[w]
    <3>1. ~ Prepare(w)
      BY <1>2 DEF Prepare
    <3> QED
      BY <1>2, <3>1, FreshOnlyPrepared DEF Orderly
  <2> QED
    BY <1>1, <1>2, <2>1, <2>2 DEF KeepsPace
<1>3. job[w].pc = "put" => job[w].plan <= plan'
  BY <1>1, PlanMoves DEF KeepsPace
<1>4. OnWayToAsk(w) => Reached(job[w].plan)'
  BY <1>1, ReachedStays DEF KeepsPace
<1> QED
  BY <1>1, <1>2, <1>3, <1>4 DEF KeepsPace, OnWayToAsk, Reached

\* Places where a request does not plan and will not ask.
Aside == PC \ {"commit", "put", "expire", "notify", "continue", "undelivered", "ask",
               "run", "call"}
StepsAside(w) == job'[w].pc \in Aside

LEMMA GoesAside ==
  ASSUME JobsTyped, NEW w \in Worker,
         Raise(w) \/ Return(w) \/ \E place \in Aside : Goto(w, place)
  PROVE  StepsAside(w)
<1>1. CASE Raise(w)
  BY <1>1, SetJob DEF Raise, Idle, StepsAside, Aside, PC
<1>2. ASSUME NEW place \in Aside, Goto(w, place) PROVE StepsAside(w)
  BY <1>2, GotoJob DEF StepsAside
<1>3. CASE Return(w)
  <2>1. CASE job[w].advancing
    BY <1>3, <2>1, SetJob DEF Return, Idle, StepsAside, Aside, PC
  <2>2. CASE ~ job[w].advancing
    BY <1>2, <1>3, <2>2 DEF Return, Aside, PC
  <2> QED
    BY <2>1, <2>2
<1> QED
  BY <1>1, <1>2, <1>3

LEMMA AsideIsFree == \A w \in Worker : StepsAside(w) => KeepsPace(w)'
  BY DEF StepsAside, Aside, KeepsPace, OnWayToAsk

\* Updates of the locals that plan or may come to ask.
LEMMA JobFields ==
  ASSUME JobsTyped, NEW w \in Worker, NEW place, NEW p
  PROVE  /\ Goto(w, place) => /\ job'[w].pc = place /\ job'[w].plan = job[w].plan
                              /\ job'[w].phase = job[w].phase /\ job'[w].msg = job[w].msg
         /\ Set(w, [job[w] EXCEPT !.pc = place, !.plan = p]) =>
                job'[w].pc = place /\ job'[w].plan = p
         /\ Set(w, [job[w] EXCEPT !.pc = place, !.advancing = TRUE]) => job'[w].pc = place
<1>1. job[w] \in Job
  BY DEF JobsTyped
<1>2. ASSUME NEW j, Set(w, j) PROVE job'[w] = j
  BY <1>2, SetJob
<1> QED
  BY <1>1, <1>2 DEF Goto, Job

\* After a decision.
LEMMA DecidedFields ==
  ASSUME JobsTyped, NEW w \in Worker, BarrierStops(w) \/ Judge(w) \/ BarrierPasses(w)
  PROVE  \/ job'[w].pc = "settle"
         \/ /\ BarrierPasses(w) /\ job[w].phase # "EXECUTING_APPROVED"
            /\ Goto(w, "conclude") \/ Goto(w, "ask")
<1>1. ASSUME NEW next, NEW n,
             \/ job'[w] = [job[w] EXCEPT !.pc = "settle", !.next = next]
             \/ job'[w] = [job[w] EXCEPT !.pc = "settle", !.next = next, !.attempt = n]
             \/ job'[w] = [job[w] EXCEPT !.pc = "settle", !.phase = "VERIFYING", !.next = next]
      PROVE  job'[w].pc = "settle"
  BY <1>1 DEF JobsTyped, Job
<1>2. CASE BarrierStops(w)
  <2>1. PICK next \in {"NEEDS_ATTENTION", "RETRY_SCHEDULED"} :
            \/ job'[w] = [job[w] EXCEPT !.pc = "settle", !.next = next]
            \/ \E n : job'[w] = [job[w] EXCEPT !.pc = "settle", !.next = next, !.attempt = n]
    BY <1>2, SetJob DEF BarrierStops
  <2> QED
    BY <1>1, <2>1
<1>3. CASE Judge(w)
  BY <1>1, <1>3, SetJob DEF Judge
<1>4. CASE BarrierPasses(w)
  <2>1. CASE Set(w, [job[w] EXCEPT !.pc = "settle", !.next = "VERIFYING"])
    <3>1. job'[w] = [job[w] EXCEPT !.pc = "settle", !.next = "VERIFYING"]
      BY <2>1, SetJob
    <3> QED
      BY <3>1 DEF JobsTyped, Job
  <2> QED
    BY <1>4, <2>1 DEF BarrierPasses
<1> QED
  BY <1>2, <1>3, <1>4

\* A request's locals are its own.
LEMMA OthersJobStays ==
  ASSUME AllTyped, [Next]_vars, NEW w \in Worker,
         ~ Step(w), ~ Fault(w), ~ \E m \in Message : Begin(w, m)
  PROVE  job'[w] = job[w]
<1>1. JobsTyped
  BY DEF AllTyped
<1>2. ASSUME NEW u \in Worker, Step(u) PROVE job'[w] = job[w]
  BY <1>1, <1>2, JobChanges DEF Quietly, OthersUnchanged
<1>3. ASSUME NEW u \in Worker, NEW m \in Message, Begin(u, m) \/ Fault(u) PROVE job'[w] = job[w]
  BY <1>1, <1>3, SetJob DEF Begin, Fault, Raise, OthersUnchanged
<1>4. CASE Environment
  BY <1>4 DEF Environment, Traveler, Approve, Decline, RequestReplan, Lapse, BackedOff,
              ActionLeaseEnds, Due, CommandLeaseEnds, Dispatch
<1>5. CASE UNCHANGED vars
  BY <1>5 DEF vars
<1>6. ASSUME NEW u \in Worker, Fault(u) PROVE job'[w] = job[w]
  BY <1>1, <1>6, SetJob DEF Fault, Raise, OthersUnchanged
<1> QED
  BY <1>2, <1>3, <1>4, <1>5, <1>6 DEF Next

\* A request that goes on with the plan it has, or with the current one.
LEMMA KeepsThePlan ==
  ASSUME Orderly, [Next]_vars, ~ overtaken', NEW w \in Worker, OnWayToAsk(w),
         OnWayToAsk(w)', job'[w].pc # "put", job'[w].pc # "commit", job'[w].pc # "expire",
         job'[w].plan = job[w].plan
  PROVE  KeepsPace(w)'
<1>1. Reached(job[w].plan) /\ job[w].plan \in Int
  BY DEF Orderly, InOrder, KeepsPace, AllTyped, JobsTyped, Job
<1>2. Reached(job[w].plan)'
  BY <1>1, ReachedStays
<1> QED
  BY <1>2 DEF KeepsPace, Reached

LEMMA TakesThePlan ==
  ASSUME Orderly, NEW w \in Worker, plan' = plan, status' # "PLANNING",
         job'[w].pc \in {"notify", "continue"}, job'[w].plan = plan
  PROVE  KeepsPace(w)'
<1>1. Reached(plan)'
  BY CurrentIsReached
<1> QED
  BY <1>1 DEF KeepsPace, Reached

LEMMA CommandStepKeepsPace ==
  ASSUME Orderly, NEW w \in Worker, CommandStep(w)
  PROVE  KeepsPace(w)'
<1>1. JobsTyped /\ job[w].msg \in Message
  BY DEF Orderly, AllTyped, JobsTyped, Job
<1>2. CASE Claim(w) \/ LoadNothingToDo(w) \/ Expire(w)
  BY <1>1, <1>2, GoesAside, AsideIsFree DEF Claim, LoadNothingToDo, Expire, Aside, PC
<1>3. CASE ClaimRefused(w) \/ Finish(w)
  <2>1. CASE Set(w, [job[w] EXCEPT !.pc = "advance", !.advancing = TRUE])
    <3>1. job'[w].pc = "advance"
      BY <1>1, <2>1, JobFields
    <3> QED
      BY <3>1, AsideIsFree DEF StepsAside, Aside, PC
  <2> QED
    BY <1>1, <1>3, <2>1, GoesAside, AsideIsFree DEF ClaimRefused, Finish
<1>4. CASE Load(w)
  <2>1. CASE Set(w, [job[w] EXCEPT !.pc = "resume", !.plan = job[w].msg[1][2]])
    <3>1. job'[w].pc = "resume"
      BY <1>1, <2>1, JobFields
    <3> QED
      BY <3>1, AsideIsFree DEF StepsAside, Aside, PC
  <2>2. CASE job[w].msg[1][1] = "EXPIRE" /\ Goto(w, "expire")
    <3>1. job[w].msg[1][2] \in Version
      BY <1>1, <2>2 DEF Message, Command, Event, Replan, Phase
    <3>2. job'[w].pc = "expire" /\ job'[w].msg = job[w].msg
      BY <1>1, <2>2, JobFields
    <3> QED
      BY <3>1, <3>2 DEF KeepsPace, OnWayToAsk
  <2>3. CASE Goto(w, "prepare")
    BY <1>1, <2>3, GoesAside, AsideIsFree DEF Aside, PC
  <2> QED
    BY <1>4, <2>1, <2>2, <2>3 DEF Load
<1>5. CASE LoadRetry(w)
  <2>1. CASE Set(w, [job[w] EXCEPT !.pc = "resume", !.plan = bound[job[w].msg[1]].approval])
    <3>1. job'[w].pc = "resume"
      BY <1>1, <2>1, JobFields
    <3> QED
      BY <3>1, AsideIsFree DEF StepsAside, Aside, PC
  <2>2. CASE Set(w, [job[w] EXCEPT !.pc = "continue", !.plan = plan])
    <3>1. job'[w].pc = "continue" /\ job'[w].plan = plan
      BY <1>1, <2>2, JobFields
    <3>2. plan' = plan /\ status' # "PLANNING"
      BY <1>5 DEF LoadRetry, plans, MoveIncident, Phase
    <3> QED
      BY <3>1, <3>2, TakesThePlan
  <2> QED
    BY <1>5, <2>1, <2>2 DEF LoadRetry
<1> QED
  BY <1>2, <1>3, <1>4, <1>5 DEF CommandStep

LEMMA AdvanceStepKeepsPace ==
  ASSUME Orderly, [Next]_vars, ~ overtaken', NEW w \in Worker, AdvanceStep(w)
  PROVE  KeepsPace(w)'
<1>1. JobsTyped /\ plan \in Int /\ KeepsPace(w)
  BY DEF Orderly, AllTyped, PlansTyped, InOrder
<1>2. CASE Advance(w)
  <2>1. CASE status # "PLANNING" /\ Set(w, [job[w] EXCEPT !.pc = "notify", !.plan = plan])
    <3>1. job'[w].pc = "notify" /\ job'[w].plan = plan
      BY <1>1, <2>1, JobFields
    <3>2. UNCHANGED <<status, plan>>
      BY <1>2 DEF Advance, incident, plans
    <3> QED
      BY <2>1, <3>1, <3>2, TakesThePlan
  <2> QED
    BY <1>1, <1>2, <2>1, GoesAside, AsideIsFree DEF Advance, Aside, PC
<1>3. CASE Prepare(w)
  <2>1. job'[w].pc = "commit" /\ job'[w].plan = plan + 1 /\ plan' = plan
    BY <1>1, <1>3, JobFields DEF Prepare, plans
  <2> QED
    BY <2>1 DEF KeepsPace, OnWayToAsk
<1>4. CASE Commit(w)
  <2>1. job'[w].pc = "put" /\ job'[w].plan = plan' /\ plan' = job[w].plan
    BY <1>1, <1>4, JobFields DEF Commit
  <2>2. job[w].plan \in Int
    BY <1>1 DEF JobsTyped, Job
  <2> QED
    BY <2>1, <2>2 DEF KeepsPace, OnWayToAsk
<1>5. CASE CommitRefused(w) \/ \E outcome : Card(w, outcome)
  BY <1>1, <1>5, GoesAside, AsideIsFree DEF CommitRefused, Card
<1>6. ASSUME NEW l \in Label, Put(w, l) PROVE KeepsPace(w)'
  BY <1>1, <1>6, OthersKeepPace DEF Put
<1>7. CASE Announce(w)
  <2>1. CASE MoveIncident("NOTIFYING") /\ Goto(w, "notify")
    <3>1. status' = "NOTIFYING" /\ status # "NOTIFYING"
      BY <1>1, <1>7, <2>1, SetJob DEF Announce, MoveIncident, Goto, Raise, Idle, JobsTyped, Job
    <3>2. job[w].plan = plan /\ UNCHANGED plan
      BY <1>7, <3>1, AnnouncedIsCurrent
    <3>3. job'[w].pc = "notify" /\ job'[w].plan = job[w].plan
      BY <1>1, <2>1, JobFields
    <3> QED
      BY <3>1, <3>2, <3>3, TakesThePlan
  <2>2. CASE Goto(w, "finish") \/ Raise(w)
    BY <1>1, <2>2, GoesAside, AsideIsFree DEF Aside, PC
  <2> QED
    BY <1>7, <2>1, <2>2 DEF Announce
<1>8. ASSUME NEW outcome, Notify(w, outcome) PROVE KeepsPace(w)'
  <2>1. /\ job'[w].pc \in {"continue", "undelivered"} /\ job'[w].plan = job[w].plan
        /\ job[w].pc = "notify"
    BY <1>1, <1>8, JobFields DEF Notify
  <2> QED
    BY <2>1, KeepsThePlan DEF OnWayToAsk
<1> QED
  BY <1>2, <1>3, <1>4, <1>5, <1>6, <1>7, <1>8 DEF AdvanceStep

LEMMA ContinueStepKeepsPace ==
  ASSUME Orderly, [Next]_vars, ~ overtaken', NEW w \in Worker, ContinueStep(w)
  PROVE  KeepsPace(w)'
<1>1. JobsTyped
  BY DEF Orderly, AllTyped
<1>2. CASE Continue(w)
  <2>1. OnWayToAsk(w)
    BY <1>2 DEF Continue, OnWayToAsk
  <2>2. CASE \E todo : Execute(w, "EXECUTING_AUTO", todo)
    <3>1. job'[w].pc = "run" /\ job'[w].phase = "EXECUTING_AUTO" /\ job'[w].plan = job[w].plan
      BY <1>1, <2>2, RunJob
    <3> QED
      BY <2>1, <3>1, KeepsThePlan DEF OnWayToAsk
  <2>3. CASE Goto(w, "ask")
    <3>1. job'[w].pc = "ask" /\ job'[w].plan = job[w].plan
      BY <1>1, <2>3, JobFields
    <3> QED
      BY <2>1, <3>1, KeepsThePlan DEF OnWayToAsk
  <2>4. CASE Return(w) \/ Goto(w, "conclude")
    BY <1>1, <2>4, GoesAside, AsideIsFree DEF Aside, PC
  <2> QED
    BY <1>2, <2>2, <2>3, <2>4 DEF Continue
<1>3. CASE List(w)
  <2>1. job'[w].pc = "run" /\ job'[w].phase = "EXECUTING_APPROVED"
    BY <1>1, <1>3, RunJob DEF List
  <2> QED
    BY <2>1 DEF KeepsPace, OnWayToAsk
<1>4. CASE Ask(w) \/ EnqueueExpiry(w) \/ Decide(w) \/ Conclude(w) \/ Resume(w)
  BY <1>1, <1>4, GoesAside, AsideIsFree
     DEF Ask, EnqueueExpiry, Decide, Conclude, Resume, Aside, PC
<1> QED
  BY <1>2, <1>3, <1>4 DEF ContinueStep

LEMMA ExecuteStepKeepsPace ==
  ASSUME Orderly, [Next]_vars, ~ overtaken', NEW w \in Worker, ExecuteStep(w)
  PROVE  KeepsPace(w)'
<1>1. JobsTyped
  BY DEF Orderly, AllTyped
<1>2. ASSUME NEW x \in Planned, NEW outcome,
             \/ Skip(w, x) \/ Reconcile(w, x) \/ Take(w, x)
             \/ AnswerTooLate(w, x) \/ Answer(w, x, outcome)
      PROVE  KeepsPace(w)'
  <2>1. /\ job[w].pc \in {"run", "call"} /\ job'[w].pc \in {"run", "call"}
        /\ job'[w].phase = job[w].phase /\ job'[w].plan = job[w].plan
    BY <1>1, <1>2, ActionJob
  <2>2. CASE job[w].phase # "EXECUTING_APPROVED"
    BY <2>1, <2>2, KeepsThePlan DEF OnWayToAsk
  <2>3. CASE job[w].phase = "EXECUTING_APPROVED"
    BY <2>1, <2>3 DEF KeepsPace, OnWayToAsk
  <2> QED
    BY <2>2, <2>3
<1>3. CASE BarrierPasses(w) /\ job[w].phase # "EXECUTING_APPROVED" /\ Goto(w, "ask")
  <2>1. job[w].pc = "run" /\ job'[w].pc = "ask" /\ job'[w].plan = job[w].plan
    BY <1>1, <1>3, JobFields DEF BarrierPasses, AtBarrier
  <2> QED
    BY <1>3, <2>1, KeepsThePlan DEF OnWayToAsk
<1>4. CASE BarrierStops(w) \/ Judge(w) \/ BarrierPasses(w)
  <2>1. CASE job'[w].pc = "settle"
    BY <2>1, AsideIsFree DEF StepsAside, Aside, PC
  <2>2. CASE BarrierPasses(w) /\ Goto(w, "conclude")
    BY <1>1, <2>2, GoesAside, AsideIsFree DEF Aside, PC
  <2> QED
    BY <1>1, <1>3, <1>4, <2>1, <2>2, DecidedFields
<1>5. CASE Settle(w) \/ EnqueueRetry(w) \/ \E x \in Planned : Missing(w, x)
  BY <1>1, <1>5, GoesAside, AsideIsFree DEF Settle, EnqueueRetry, Missing, Aside, PC
<1> QED
  BY <1>2, <1>4, <1>5 DEF ExecuteStep

\* Steps outside the handlers.
LEMMA OtherStepsKeepPace ==
  ASSUME Orderly, NEW w \in Worker, Fault(w) \/ \E m \in Message : Begin(w, m)
  PROVE  KeepsPace(w)'
<1>1. JobsTyped
  BY DEF Orderly, AllTyped
<1>2. CASE Fault(w)
  BY <1>1, <1>2, GoesAside, AsideIsFree DEF Fault
<1>3. ASSUME NEW m \in Message, Begin(w, m) PROVE KeepsPace(w)'
  <2>1. job'[w] = [Idle EXCEPT !.msg = m, !.advancing = (m[1] = Event),
                               !.pc = IF m[1] = Event THEN "advance" ELSE "claim"]
    BY <1>1, <1>3, SetJob DEF Begin
  <2>2. job'[w].pc \in {"advance", "claim"}
    BY <2>1 DEF Idle
  <2> QED
    BY <2>2, AsideIsFree DEF StepsAside, Aside, PC
<1> QED
  BY <1>2, <1>3

LEMMA InOrderNext ==
  ASSUME Orderly, [Next]_vars, ~ overtaken'
  PROVE  InOrder'
<1>1. SUFFICES ASSUME NEW w \in Worker PROVE KeepsPace(w)'
  BY ActiveIsCurrentNext, NothingAheadNext, PlanIsStoredNext DEF InOrder
<1>2. CASE Step(w)
  BY <1>2, CommandStepKeepsPace, AdvanceStepKeepsPace, ContinueStepKeepsPace,
     ExecuteStepKeepsPace DEF Step
<1>3. CASE Fault(w) \/ \E m \in Message : Begin(w, m)
  BY <1>3, OtherStepsKeepPace
<1>4. CASE ~ Step(w) /\ ~ Fault(w) /\ ~ \E m \in Message : Begin(w, m)
  <2>1. job'[w] = job[w]
    BY <1>4, OthersJobStays DEF Orderly
  <2> QED
    BY <2>1, OthersKeepPace
<1> QED
  BY <1>2, <1>3, <1>4

\* What holds of any number of requests.
OrderedUnlessOvertaken == DecisionsInTable /\ CallsAreBegun /\ (overtaken \/ InOrder)

LEMMA OrderNext ==
  ASSUME AllTyped, OrderedUnlessOvertaken, [Next]_vars
  PROVE  OrderedUnlessOvertaken'
<1> USE DEF OrderedUnlessOvertaken
<1>1. DecisionsInTable' /\ CallsAreBegun'
  BY DecisionsInTableNext, CallsAreBegunNext
<1>2. CASE overtaken
  BY <1>1, <1>2, OvertakenStays
<1>3. CASE ~ overtaken /\ ~ overtaken'
  BY <1>1, <1>3, InOrderNext DEF Orderly
<1> QED
  BY <1>1, <1>2, <1>3

LEMMA OrderInit == Init => OrderedUnlessOvertaken
<1> SUFFICES ASSUME Init PROVE DecisionsInTable /\ CallsAreBegun /\ InOrder
  BY DEF OrderedUnlessOvertaken
<1> USE DEF Init
<1>1. DecisionsInTable /\ CallsAreBegun
  BY DEF DecisionsInTable, CallsAreBegun, Idle
<1>2. ActiveIsCurrent /\ PlanIsStored
  BY DEF ActiveIsCurrent, Active, Undecided, PlanIsStored
<1>3. NothingAhead
  BY DEF NothingAhead, Stored
<1>4. \A w \in Worker : KeepsPace(w)
  BY DEF KeepsPace, OnWayToAsk, Idle
<1> QED
  BY <1>1, <1>2, <1>3, <1>4 DEF InOrder

LEMMA OrderAlways == Spec => []OrderedUnlessOvertaken
<1>1. TypeOK /\ OrderedUnlessOvertaken /\ [Next]_vars => OrderedUnlessOvertaken'
  BY TypeParts, OrderNext
<1> QED
  BY <1>1, OrderInit, TypeCorrect, PTL DEF Spec

LEMMA DecisionsAreCurrent ==
  ASSUME AllTyped, OrderedUnlessOvertaken, [Next]_vars, ~ overtaken, NEW u \in Version,
         approval'[u] # approval[u], approval'[u] \notin Undecided
  PROVE  u = plan
<1>1. approval \in [Version -> ApprovalStatus] /\ DecisionsInTable
  BY DEF AllTyped, PlansTyped, OrderedUnlessOvertaken
<1>2. ASSUME Active(u) PROVE u = plan
  BY <1>2 DEF OrderedUnlessOvertaken, InOrder, ActiveIsCurrent
<1>3. ASSUME NEW w \in Worker, Ask(w) PROVE FALSE
  BY <1>1, <1>3 DEF Ask, Undecided
<1>4. ASSUME NEW w \in Worker, Expire(w) PROVE Active(u)
  BY <1>1, <1>4 DEF Expire, Active, Undecided
<1>5. ASSUME NEW v \in Version, NEW kind,
             Approve(v) \/ Decline(v) \/ Lapse(v) \/ RequestReplan(v, kind)
      PROVE  Active(u)
  BY <1>1, <1>5 DEF Approve, Decline, Lapse, RequestReplan, Active, Undecided
<1>6. ~ KeepsPlans /\ ~ \E w \in Worker : Commit(w)
  BY DEF KeepsPlans, Commit
<1> QED
  BY <1>1, <1>2, <1>3, <1>4, <1>5, <1>6, PlanChanges

(***************************************************************************)
(* However many requests overlap, as long as no plan has overtaken another *)
(* a card that is approved, declined, replaced or expired is the card of   *)
(* the current plan, though three of these four transactions do not        *)
(* compare it with the plan.                                               *)
(***************************************************************************)
THEOREM DecisionsStayCurrent == Spec => DecisionsConcernCurrentPlan
<1>1. TypeOK /\ OrderedUnlessOvertaken /\ [Next]_vars =>
          [\A v \in Version :
              ~ overtaken /\ approval'[v] # approval[v] /\ approval'[v] \notin Undecided
              => v = plan]_vars
  BY TypeParts, DecisionsAreCurrent
<1> QED
  BY <1>1, TypeCorrect, OrderAlways, PTL DEF Spec, DecisionsConcernCurrentPlan

(***************************************************************************)
(* As long as no plan has overtaken another, the actions that ask for      *)
(* approval are only ever begun under one plan, over any number of         *)
(* requests, retries and replans.                                          *)
(***************************************************************************)
THEOREM OnePlanIsExecuted == Spec => []OnePlanIsActedOn
<1>1. EffectsAreAuthorized /\ OrderedUnlessOvertaken => OnePlanIsActedOn
  BY DEF EffectsAreAuthorized, OrderedUnlessOvertaken, InOrder, ActiveIsCurrent, Active,
         OnePlanIsActedOn, Planned
<1> QED
  BY <1>1, EffectsStayAuthorized, OrderAlways, PTL

-----------------------------------------------------------------------------
(***************************************************************************)
(* How an incident ends.                                                   *)
(***************************************************************************)
\* Once the verifier is at work, the plan is settled.
Late == {"VERIFYING", "RECOVERED", "NEEDS_ATTENTION"}

\* The barrier decides for its phase, the verifier for an incident that is late.
DecisionsInPhase ==
    \A w \in Worker :
        /\ job[w].pc \in {"run", "call"} => job[w].phase \in Phase
        /\ job[w].pc = "judge" => status \in Late
        /\ job[w].pc = "settle" =>
              \/ job[w].phase \in Phase /\ job[w].next \in {"NEEDS_ATTENTION", "RETRY_SCHEDULED", "VERIFYING"}
              \/ /\ job[w].phase = "VERIFYING" /\ status \in Late
                 /\ job[w].next \in {"RECOVERED", "NEEDS_ATTENTION"}

\* A verdict that is not written yet is about the current plan.
VerdictIsCurrent ==
    \A w \in Worker :
        job[w].pc = "settle" /\ job[w].next = "RECOVERED" => PlanIsVerified(plan)

\* Nothing leads out of there but the verdict.
LEMMA LateStays ==
  ASSUME AllTyped, DecisionsInPhase, [Next]_vars, status \in Late
  PROVE  status' \in Late
<1>1. ASSUME NEW v \in Version, Decline(v) \/ \E kind : RequestReplan(v, kind) PROVE FALSE
  BY <1>1 DEF Decline, RequestReplan, Late
<1>2. ASSUME NEW w \in Worker, Settle(w) PROVE status' \in Late
  BY <1>2, Moves DEF DecisionsInPhase, Late, Phase
<1> QED
  BY <1>1, <1>2, Moves, StatusChanges DEF Late

\* The verifier is entered by a request that has left the incident, or found it, late.
LEMMA NotToTheVerifier ==
  ASSUME JobsTyped, NEW w \in Worker,
         Raise(w) \/ Return(w) \/ \E place \in PC \ {"judge"} : Goto(w, place)
  PROVE  job'[w].pc # "judge"
<1>1. CASE Raise(w)
  BY <1>1, SetJob DEF Raise, Idle
<1>2. ASSUME NEW place \in PC \ {"judge"}, Goto(w, place) PROVE job'[w].pc # "judge"
  BY <1>2, GotoJob
<1>3. CASE Return(w)
  <2>1. CASE job[w].advancing
    BY <1>3, <2>1, SetJob DEF Return, Idle
  <2>2. CASE ~ job[w].advancing
    BY <1>2, <1>3, <2>2 DEF Return, PC
  <2> QED
    BY <2>1, <2>2
<1> QED
  BY <1>1, <1>2, <1>3

LEMMA ConcludedLate ==
  ASSUME JobsTyped, NEW w \in Worker, Conclude(w), job'[w].pc = "judge"
  PROVE  status' \in Late
<1>1. CASE status = "EXECUTING_AUTO" \/ status = "VERIFYING"
  BY <1>1 DEF Conclude, MoveIncident, incident, Late
<1>2. CASE ~ (status = "EXECUTING_AUTO" \/ status = "VERIFYING")
  BY <1>2, NotToTheVerifier DEF Conclude
<1> QED
  BY <1>1, <1>2

LEMMA ResumedLate ==
  ASSUME JobsTyped, NEW w \in Worker, Resume(w), job'[w].pc = "judge"
  PROVE  status' \in Late
<1>1. CASE Goto(w, "judge") /\ UNCHANGED incident /\ status = "VERIFYING"
  BY <1>1 DEF incident, Late
<1>2. CASE Raise(w) \/ Return(w) \/ Goto(w, "list")
  BY <1>2, NotToTheVerifier DEF PC
<1> QED
  BY <1>1, <1>2 DEF Resume

LEMMA VerifierEntered ==
  ASSUME JobsTyped, NEW w \in Worker, Step(w), job'[w].pc = "judge"
  PROVE  status' \in Late \/ job'[w] = job[w]
<1> USE DEF PC
<1>1. CASE CommandStep(w)
  <2>1. ASSUME NEW place, NEW q, place # "judge",
               \/ Set(w, [job[w] EXCEPT !.pc = place, !.plan = q])
               \/ Set(w, [job[w] EXCEPT !.pc = place, !.advancing = TRUE])
        PROVE  FALSE
    BY <2>1, JobFields
  <2> QED
    BY <1>1, <2>1, NotToTheVerifier
       DEF CommandStep, Claim, ClaimRefused, LoadNothingToDo, Load, LoadRetry, Expire, Finish
<1>2. CASE AdvanceStep(w)
  <2>1. ASSUME NEW place, NEW q, place # "judge",
               Set(w, [job[w] EXCEPT !.pc = place, !.plan = q])
        PROVE  FALSE
    BY <2>1, JobFields
  <2> QED
    BY <1>2, <2>1, NotToTheVerifier
       DEF AdvanceStep, Advance, Prepare, Commit, CommitRefused, Put, Announce, Notify, Card
<1>3. CASE ContinueStep(w)
  <2>1. ASSUME NEW phase, NEW todo, Execute(w, phase, todo) PROVE FALSE
    BY <2>1, RunJob
  <2>2. CASE Conclude(w) \/ Resume(w)
    BY <2>2, ConcludedLate, ResumedLate
  <2> QED
    BY <1>3, <2>1, <2>2, NotToTheVerifier
       DEF ContinueStep, Continue, Ask, EnqueueExpiry, Decide, List
<1>4. CASE ExecuteStep(w)
  <2>1. ASSUME NEW x \in Planned, NEW outcome,
               \/ Skip(w, x) \/ Reconcile(w, x) \/ Take(w, x)
               \/ AnswerTooLate(w, x) \/ Answer(w, x, outcome)
        PROVE  FALSE
    BY <2>1, ActionJob
  <2>2. CASE BarrierStops(w) \/ BarrierPasses(w) \/ Judge(w)
    BY <2>2, DecidedFields, NotToTheVerifier
  <2>3. CASE EnqueueRetry(w) \/ \E x \in Planned : Missing(w, x)
    BY <2>3, NotToTheVerifier DEF EnqueueRetry, Missing
  <2>4. CASE Settle(w)
    <3>1. CASE job[w].next = "VERIFYING" /\ MoveIncident(job[w].next)
      BY <3>1 DEF MoveIncident, Late
    <3>2. CASE ~ (job[w].next = "VERIFYING" /\ MoveIncident(job[w].next))
      BY <2>4, <3>2, NotToTheVerifier DEF Settle
    <3> QED
      BY <3>1, <3>2
  <2> QED
    BY <1>4, <2>1, <2>2, <2>3, <2>4 DEF ExecuteStep
<1> QED
  BY <1>1, <1>2, <1>3, <1>4 DEF Step

LEMMA DecidedByBarrier ==
  ASSUME JobsTyped, NEW w \in Worker, BarrierStops(w) \/ BarrierPasses(w), job'[w].pc = "settle"
  PROVE  /\ job'[w].phase = job[w].phase
         /\ job'[w].next \in {"NEEDS_ATTENTION", "RETRY_SCHEDULED", "VERIFYING"}
<1>1. ASSUME NEW next \in {"NEEDS_ATTENTION", "RETRY_SCHEDULED", "VERIFYING"}, NEW n,
             \/ job'[w] = [job[w] EXCEPT !.pc = "settle", !.next = next]
             \/ job'[w] = [job[w] EXCEPT !.pc = "settle", !.next = next, !.attempt = n]
      PROVE  job'[w].phase = job[w].phase /\ job'[w].next = next
  BY <1>1 DEF JobsTyped, Job
<1>2. CASE BarrierStops(w)
  <2>1. PICK next \in {"NEEDS_ATTENTION", "RETRY_SCHEDULED"} :
            \/ job'[w] = [job[w] EXCEPT !.pc = "settle", !.next = next]
            \/ \E n : job'[w] = [job[w] EXCEPT !.pc = "settle", !.next = next, !.attempt = n]
    BY <1>2, SetJob DEF BarrierStops
  <2> QED
    BY <1>1, <2>1
<1>3. CASE BarrierPasses(w)
  <2>1. ~(Goto(w, "conclude") \/ Goto(w, "ask"))
    <3>1. Goto(w, "conclude") => job'[w].pc = "conclude"
      BY GotoJob
    <3>2. Goto(w, "ask") => job'[w].pc = "ask"
      BY GotoJob
    <3> QED
      BY <3>1, <3>2
  <2>2. CASE Set(w, [job[w] EXCEPT !.pc = "settle", !.next = "VERIFYING"])
    <3>1. job'[w] = [job[w] EXCEPT !.pc = "settle", !.next = "VERIFYING"]
      BY <2>2, SetJob
    <3> QED
      BY <1>1, <3>1
  <2> QED
    BY <1>3, <2>1, <2>2 DEF BarrierPasses
<1> QED
  BY <1>2, <1>3

\* A request begins, or dies, in a place of its own.
LEMMA BeginsOrDies ==
  ASSUME JobsTyped, NEW w \in Worker, Fault(w) \/ \E m \in Message : Begin(w, m)
  PROVE  job'[w].pc \in {"idle", "advance", "claim"}
<1>1. CASE Fault(w)
  BY <1>1, SetJob DEF Fault, Raise, Idle
<1>2. ASSUME NEW m \in Message, Begin(w, m) PROVE job'[w].pc \in {"advance", "claim"}
  <2>1. job'[w] = [Idle EXCEPT !.msg = m, !.advancing = (m[1] = Event),
                               !.pc = IF m[1] = Event THEN "advance" ELSE "claim"]
    BY <1>2, SetJob DEF Begin
  <2> QED
    BY <2>1 DEF Idle
<1> QED
  BY <1>1, <1>2

LEMMA DecisionsInPhaseNext ==
  ASSUME AllTyped, DecisionsInPhase, [Next]_vars
  PROVE  DecisionsInPhase'
<1> DEFINE InPhase(w) ==
      /\ job[w].pc \in {"run", "call"} => job[w].phase \in Phase
      /\ job[w].pc = "judge" => status \in Late
      /\ job[w].pc = "settle" =>
            \/ job[w].phase \in Phase /\ job[w].next \in {"NEEDS_ATTENTION", "RETRY_SCHEDULED", "VERIFYING"}
            \/ /\ job[w].phase = "VERIFYING" /\ status \in Late
               /\ job[w].next \in {"RECOVERED", "NEEDS_ATTENTION"}
<1> SUFFICES ASSUME NEW w \in Worker PROVE InPhase(w)'
  BY DEF DecisionsInPhase
<1>1. JobsTyped /\ InPhase(w) /\ job[w] \in Job
  BY DEF AllTyped, JobsTyped, DecisionsInPhase
<1>2. CASE job'[w] = job[w]
  BY <1>1, <1>2, LateStays
<1>3. CASE job'[w].pc = "judge" /\ Step(w)
  BY <1>1, <1>2, <1>3, VerifierEntered
<1>4. CASE job'[w].pc \in {"run", "call"} /\ Executing(w)
  <2>1. CASE Resume(w) \/ BarrierStops(w) \/ BarrierPasses(w) \/ Judge(w)
    BY <1>1, <1>4, <2>1, ResumeJob, DecidedJob DEF Elsewhere
  <2>2. CASE List(w) \/ Continue(w)
    BY <1>1, <1>4, <2>2, RunJob, ContinueJob DEF List, Elsewhere, Phase
  <2>3. ASSUME NEW x \in Planned, NEW outcome,
               \/ Skip(w, x) \/ Reconcile(w, x) \/ Take(w, x)
               \/ AnswerTooLate(w, x) \/ Answer(w, x, outcome)
        PROVE  InPhase(w)'
    BY <1>1, <1>4, <2>3, ActionJob
  <2> QED
    BY <1>4, <2>1, <2>2, <2>3 DEF Executing
<1>5. CASE job'[w].pc = "settle" /\ Executing(w)
  <2>1. CASE Judge(w)
    <3>1. job'[w] = [job[w] EXCEPT !.pc = "settle", !.phase = "VERIFYING",
                                   !.next = IF Recoverable(w) THEN "RECOVERED" ELSE "NEEDS_ATTENTION"]
      BY <1>1, <2>1, SetJob DEF Judge
    <3>2. job'[w].phase = "VERIFYING" /\ job'[w].next \in {"RECOVERED", "NEEDS_ATTENTION"}
      BY <1>1, <3>1 DEF Job
    <3>3. status' \in Late
      BY <1>1, <2>1, LateStays DEF Judge
    <3> QED
      BY <1>5, <3>2, <3>3
  <2>2. CASE BarrierStops(w) \/ BarrierPasses(w)
    BY <1>1, <1>5, <2>2, DecidedByBarrier DEF BarrierStops, BarrierPasses, AtBarrier
  <2>3. CASE Resume(w) \/ List(w) \/ Continue(w)
    BY <1>1, <1>5, <2>3, ResumeJob, RunJob, ContinueJob DEF List, Elsewhere
  <2>4. CASE \E x \in Planned : \/ Skip(w, x) \/ Reconcile(w, x) \/ Take(w, x)
                                \/ AnswerTooLate(w, x) \/ \E outcome : Answer(w, x, outcome)
    BY <1>1, <1>5, <2>4, ActionJob
  <2> QED
    BY <1>5, <2>1, <2>2, <2>3, <2>4 DEF Executing
<1>6. CASE job'[w].pc \notin {"run", "call", "judge", "settle"}
  BY <1>6
<1>7. CASE Step(w)
  BY <1>1, <1>2, <1>3, <1>4, <1>5, <1>6, <1>7, JobChanges DEF Quietly, Elsewhere
<1>8. CASE Fault(w) \/ \E m \in Message : Begin(w, m)
  <2>1. job'[w].pc \in {"idle", "advance", "claim"}
    BY <1>1, <1>8, BeginsOrDies
  <2> QED
    BY <1>6, <2>1
<1> QED
  BY <1>2, <1>7, <1>8, OthersJobStays

\* The plan of an incident that is not planning stays.
LEMMA PlanStays ==
  ASSUME Orderly, [Next]_vars, ~ overtaken', status # "PLANNING"
  PROVE  plan' = plan
  BY PlanMoves

LEMMA JudgedRecoverable ==
  ASSUME JobsTyped, NEW w \in Worker, Judge(w), job'[w].next = "RECOVERED"
  PROVE  Recoverable(w)
<1>1. job'[w] = [job[w] EXCEPT !.pc = "settle", !.phase = "VERIFYING",
                               !.next = IF Recoverable(w) THEN "RECOVERED" ELSE "NEEDS_ATTENTION"]
  BY SetJob DEF Judge
<1>2. job'[w].next = IF Recoverable(w) THEN "RECOVERED" ELSE "NEEDS_ATTENTION"
  BY <1>1 DEF JobsTyped, Job
<1> QED
  BY <1>2

LEMMA VerdictIsCurrentNext ==
  ASSUME Orderly, FlightIsLast, DecisionsInPhase, VerdictIsCurrent, [Next]_vars, ~ overtaken'
  PROVE  VerdictIsCurrent'
<1> SUFFICES ASSUME NEW w \in Worker, job'[w].pc = "settle", job'[w].next = "RECOVERED"
             PROVE  PlanIsVerified(plan)'
  BY DEF VerdictIsCurrent, PlanIsVerified
<1>1. AllTyped /\ JobsTyped /\ CallsAreBegun
  BY DEF Orderly, AllTyped
<1>2. ASSUME PlanIsVerified(plan), plan' = plan PROVE PlanIsVerified(plan)'
  <2>1. plan \in Version
    BY <1>2 DEF PlanIsVerified, Stored, Planned
  <2>2. PICK v \in Version : v = plan
    BY <2>1
  <2>3. PlanIsVerified(v)'
    BY <1>1, <1>2, <2>2, VerifiedStays
  <2> QED
    BY <1>2, <2>2, <2>3 DEF PlanIsVerified
<1>3. CASE job'[w] = job[w]
  <2>1. PlanIsVerified(plan) /\ status # "PLANNING"
    BY <1>3 DEF VerdictIsCurrent, DecisionsInPhase, Late
  <2> QED
    BY <1>2, <2>1, PlanStays
<1>4. CASE Judge(w)
  <2>1. status # "PLANNING"
    BY <1>4 DEF Judge, DecisionsInPhase, Late
  <2>2. Recoverable(w)
    BY <1>1, <1>4, JudgedRecoverable
  <2>3. PICK v \in Version : /\ \A x \in Stored : x[1] <= v
                             /\ <<v, Flight>> \in Stored
                             /\ \A x \in Stored : x[1] = v => acts[x] = "VERIFIED"
                             /\ (\E l \in Label : <<v, l>> \in Asked \cap Stored) => approval[v] = "APPROVED"
    BY <2>2 DEF Recoverable
  <2>4. v = plan
    <3>1. <<plan, Flight>> \in Stored /\ plan <= v
      BY <2>1, <2>3 DEF Orderly, InOrder, PlanIsStored
    <3>2. v <= plan
      BY <2>3 DEF Orderly, InOrder, NothingAhead
    <3>3. v \in Int /\ plan \in Int
      BY <1>1 DEF AllTyped, PlansTyped, Version
    <3> QED
      BY <3>1, <3>2, <3>3
  <2>5. NeedsApproval(v) => \E l \in Label : <<v, l>> \in Asked \cap Stored
    BY <2>3, RecoveryAssumption DEF FlightIsLast, NeedsApproval
  <2>6. PlanIsVerified(plan)
    BY <2>3, <2>4, <2>5 DEF PlanIsVerified
  <2> QED
    BY <1>2, <2>1, <2>6, PlanStays
<1>5. CASE Step(w) /\ ~ Judge(w) /\ job'[w] # job[w]
  <2>1. Executing(w)
    BY <1>1, <1>5, JobChanges DEF Quietly, Elsewhere
  <2>2. CASE BarrierStops(w) \/ BarrierPasses(w)
    BY <1>1, <2>2, DecidedByBarrier
  <2>3. CASE Resume(w) \/ List(w) \/ Continue(w)
    BY <1>1, <2>3, ResumeJob, RunJob, ContinueJob DEF List, Elsewhere
  <2>4. CASE \E x \in Planned : \/ Skip(w, x) \/ Reconcile(w, x) \/ Take(w, x)
                                \/ AnswerTooLate(w, x) \/ \E outcome : Answer(w, x, outcome)
    BY <1>1, <2>4, ActionJob
  <2> QED
    BY <1>5, <2>1, <2>2, <2>3, <2>4 DEF Executing
<1>6. CASE Fault(w) \/ \E m \in Message : Begin(w, m)
  BY <1>1, <1>6, BeginsOrDies
<1> QED
  BY <1>1, <1>3, <1>4, <1>5, <1>6, OthersJobStays

LEMMA OutcomeNext ==
  ASSUME Orderly, FlightIsLast, DecisionsInPhase, VerdictIsCurrent,
         OutcomeIsOfCurrentPlan, [Next]_vars, ~ overtaken, ~ overtaken'
  PROVE  OutcomeIsOfCurrentPlan'
<1>1. AllTyped /\ CallsAreBegun
  BY DEF Orderly
<1>2. ASSUME status' = "RECOVERED" PROVE PlanIsVerified(plan)'
  <2>1. PlanIsVerified(plan) /\ status # "PLANNING"
    <3>1. CASE status = "RECOVERED"
      BY <3>1 DEF OutcomeIsOfCurrentPlan, PlanIsVerified
    <3>2. CASE status # "RECOVERED"
      <4>1. PICK w \in Worker : job[w].pc = "settle" /\ job[w].next = "RECOVERED"
        BY <1>2, <3>2, OnlySettleRecovers
      <4> QED
        BY <4>1 DEF VerdictIsCurrent, DecisionsInPhase, Late
    <3> QED
      BY <3>1, <3>2
  <2>2. plan' = plan
    BY <2>1, PlanStays
  <2>3. PICK v \in Version : v = plan
    BY <2>1 DEF PlanIsVerified, Stored, Planned
  <2>4. PlanIsVerified(v)'
    BY <1>1, <2>1, <2>3, VerifiedStays
  <2> QED
    BY <2>2, <2>3, <2>4 DEF PlanIsVerified
<1>3. ASSUME status' = "CANCELLED" PROVE plan' \in Version /\ approval'[plan'] = "DECLINED"
  <2>1. CASE status = "CANCELLED"
    <3>1. plan' = plan /\ plan \in Version /\ approval[plan] = "DECLINED"
      BY <2>1, PlanStays DEF OutcomeIsOfCurrentPlan
    <3> QED
      BY <1>3, <2>1, <3>1, ApprovalChanges
  <2>2. CASE status # "CANCELLED"
    <3>1. \E v \in Version : Decline(v)
      <4>1. ASSUME NEW w \in Worker, Settle(w) PROVE status' \in Late \cup {"RETRY_SCHEDULED"} \/ status' = status
        BY <1>1, <4>1, Moves DEF DecisionsInPhase, Late
      <4>2. ASSUME NEW v \in Version, NEW kind, RequestReplan(v, kind) PROVE status' = "PLANNING"
        BY <4>2 DEF RequestReplan, MoveIncident
      <4> QED
        BY <1>1, <1>3, <2>2, <4>1, <4>2, Moves, StatusChanges DEF Late, Phase
    <3>2. PICK v \in Version : Decline(v)
      BY <3>1
    <3>3. approval[v] = "PENDING" /\ approval'[v] = "DECLINED" /\ plan' = plan
      BY <1>1, <3>2 DEF Decline, AllTyped, PlansTyped
    <3>4. v = plan
      BY <3>3 DEF Orderly, InOrder, ActiveIsCurrent, Active, Undecided
    <3> QED
      BY <3>3, <3>4
  <2> QED
    BY <2>1, <2>2
<1> QED
  BY <1>2, <1>3 DEF OutcomeIsOfCurrentPlan, PlanIsVerified

Endings ==
    /\ OrderedUnlessOvertaken /\ FlightIsLast /\ DecisionsInPhase
    /\ overtaken \/ (VerdictIsCurrent /\ OutcomeIsOfCurrentPlan)

LEMMA EndingsNext ==
  ASSUME AllTyped, Endings, [Next]_vars
  PROVE  Endings'
<1>1. OrderedUnlessOvertaken' /\ FlightIsLast' /\ DecisionsInPhase'
  BY OrderNext, FlightIsLastNext, DecisionsInPhaseNext DEF Endings, OrderedUnlessOvertaken
<1>2. CASE overtaken
  BY <1>1, <1>2, OvertakenStays DEF Endings
<1>3. CASE ~ overtaken /\ ~ overtaken'
  <2>1. Orderly
    BY <1>3 DEF Endings, OrderedUnlessOvertaken, Orderly
  <2>2. VerdictIsCurrent' /\ OutcomeIsOfCurrentPlan'
    BY <1>3, <2>1, VerdictIsCurrentNext, OutcomeNext DEF Endings
  <2> QED
    BY <1>1, <2>2 DEF Endings
<1> QED
  BY <1>1, <1>2, <1>3 DEF Endings

(***************************************************************************)
(* However many requests overlap, an incident whose plans have not         *)
(* overtaken one another ends as its current plan did: recovered, every    *)
(* action of that plan is verified and the traveler approved it if any     *)
(* asks for it; cancelled, the traveler declined that plan.                *)
(***************************************************************************)
THEOREM OutcomeStaysCurrent == Spec => []OutcomeIsOfCurrentPlan
<1>1. Init => Endings
  <2>1. Init => FlightIsLast
    BY RecoveryAssumption DEF Init, FlightIsLast, Stored, Planned
  <2>2. Init => DecisionsInPhase /\ VerdictIsCurrent /\ OutcomeIsOfCurrentPlan
    BY DEF Init, DecisionsInPhase, VerdictIsCurrent, OutcomeIsOfCurrentPlan, Idle
  <2> QED
    BY <2>1, <2>2, OrderInit DEF Endings
<1>2. TypeOK /\ Endings /\ [Next]_vars => Endings'
  BY TypeParts, EndingsNext
<1>3. Endings => OutcomeIsOfCurrentPlan
  BY DEF Endings, OutcomeIsOfCurrentPlan
<1> QED
  BY <1>1, <1>2, <1>3, TypeCorrect, PTL DEF Spec

=============================================================================
