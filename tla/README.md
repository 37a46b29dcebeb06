# Trip Recovery Agent: verification models

TLA+ models of the backend in `src/backend/app`, checked with TLC on small
instances, with theorems that TLAPS checks for every value of the constants.
`PROJECT.json` maps every definition to the lines it models.

## 1. The system

A FastAPI service holds the trips of Telegram travelers. Disruption events reach
it through Pub/Sub; it analyses their impact, plans a recovery, tells the
traveler, carries out what policy allows on its own, asks for approval for the
rest, executes it at external providers, verifies it and reports. Everything
durable is in Firestore (`services/firestore.py`; `services/memory.py` is the
in-memory twin), one transaction per repository method. Any number of requests
run at once in any number of processes; a request can die at any await; Pub/Sub
delivers a message again until a handler returns 2xx, and may deliver it twice at
the same time. A Cloud Scheduler tick sweeps the outbox and drives Trip Watch.
Telegram delivers an update again until it is answered with 200.

### Components

| Component | State | Operations and interactions | What is hard | What makes it correct |
|---|---|---|---|---|
| Action executor (`services/action_executor.py`) | action status, lease, attempt count, `retry_after`; attempts; effect receipts | `execute`, called by the recovery workflow for each action; provider `apply`/`verify`; five transactions | lease takeover, lost answers, death between effect and receipt, reconciliation beside a live worker | effects repeated only where two calls were at one action, none unsanctioned; receipts real; verdicts final |
| Provider adapters (`providers/`) | the external resource, found again by a marker | `apply`, `verify` | search and insert are two requests | idempotent per effect key |
| Event analysis (`workflows/impact_analysis.py`) | processed-event record with a lease, incident with a version | `process`: claim, transition, impact, interpretation, complete; `mark_event_retryable` on an error | overlapping deliveries, model calls that outlive the lease | event and incident agree; one worker commits; interpretation fits impact; completed stays completed |
| Recovery workflow (`workflows/recovery.py`, `api/routes.py`) | incident status and version, plans, actions, approvals | `prepare`, `continue_plan`, `resume_after_approval`, `process_command`, barrier, retry; driven by deliveries and commands | overlapping requests on one incident, crashes between two transactions, old plans and old cards | recovered means verified; only approved effects; decisions meet the current plan; nothing gets stuck |
| Command delivery (`services/outbox.py`) | outbox records, command claims | enqueue once, dispatch, claim, complete | publish and mark are two steps; leases; redelivery | a stored command is carried out |
| Approval decisions (`services/telegram_recovery.py`) | approval status | approve, decline, find another, resume, expire | old cards, expiry racing a decision | one decision per approval, on the plan it was made for |
| Telegram delivery (`services/telegram_delivery.py`) | notification records | `send_once` | crash between send and receipt, unknown outcomes, racing senders | a message is neither lost nor put aside unsent |
| Recovery verifier (`services/verifier.py`) | none | `can_mark_recovered`, comparison of times | reads several records | no false RECOVERED |
| Incident table (`services/state_machine.py`) | none | the allowed transitions (not called by the workflows) | code and table may drift | workflows follow the table |
| Impact engine (`services/impact.py`) | none | walks the trip's dependencies from the late item | thresholds; items reached twice | agrees with what the dependencies mean |
| Recovery planner, policy engine (`services/recovery_planner.py`, `policy_engine.py`) | none | refuse, choose an option, derive actions, decide each | precedence of rules, limits and currencies | plans can be verified; only what is affected is moved |
| Connection advice (`services/guardian.py`, `predictive_shadow_engine.py`, `readiness.py`) | none | risk of a connection, hold, findings | the same connection computed thrice from different data | agrees with the impact |
| Compensation (`services/compensation.py`) | none | law, threshold, band, amount, cause, letter | two laws, thresholds, unknown causes | a claim is made exactly when one is due |
| Trip watch, monitoring (`services/trip_watch*.py`, `monitoring.py`) | watchpoints, signals, monitor records with a fingerprint | tick: flush, list, claim, ask, ingest, record, publish or tell | overlapping ticks, crash after reschedule, deletion under way | facts told before they are marked, reported, checked once per due time |
| Telegram webhook (`api/telegram.py`) | update claims, rate slots | take a slot, claim, handle | repeated updates, slots at the limit | an update that is claimed acts once, and is answered |
| Onboarding and policy (`services/onboarding.py`) | traveler profile, immutable policy versions | answers, activate | read-modify-write without a version | the settings shown are the policy |
| Account connections (`services/*_oauth.py`, `ai_connections.py`) | links, connections, secrets, grants | begin, complete, disconnect | a link opened twice, disconnect in several calls | a link works once; disconnected means revoked |
| Trip intake and drafts (`services/telegram_planning.py`, `telegram_trips.py`) | draft with a version, trips | search, choose, import, save, discard | model calls beside other updates; save in five writes | choice is on offer; closed stays closed; the draft goes last |
| Expenses, closure (`services/expenses.py`, `trip_closure.py`) | expenses, documents, financial items, trip status | settle, close, add, receipt | report computed before the close | nothing open is closed over; an expense has its effect |
| Judge demo (`services/telegram_demo.py`, `judge_quota.py`) | demo trip, two quota slots | trigger, callbacks | claims two slots one after the other | the quota holds |
| Agents, fare services, process assembly, landing page | none of their own | I/O and wiring | errors of what is awaited | modelled where a workflow awaits them |

## 2. Modules

| Module | Models | Used by |
|---|---|---|
| `ActionExecutor` | `ActionExecutor.execute`, the five transactions it calls and the provider behind it | `MCActionExecutor`, `ActionExecutor_proofs` |
| `ActionLife` | what the recovery takes an action to be: an abstract specification | instantiated by `ActionExecutor`, `RecoveryWorkflow` |
| `EventAnalysis` | `ImpactAnalysisWorkflow.process` and its five transactions | `MCEventAnalysis`, `EventAnalysis_proofs` |
| `IncidentLifecycle` | the table of `state_machine.py`: an abstract specification | instantiated by `RecoveryWorkflow` |
| `CommandDelivery` | outbox, Pub/Sub and command claims, one definition per transaction | extended by `RecoveryWorkflow` |
| `RecoveryWorkflow` | the recovery of one incident, from PLANNING to rest | `MCRecoveryWorkflow`, `RecoveryWorkflow_proofs` |
| `FactReporting` | what Trip Watch promises: an abstract specification | instantiated by `TripWatch` |
| `TelegramDelivery` | the compare-and-set writes of `send_once` | extended by `TripWatch` |
| `TripWatch` | the scheduler's tick over watchpoints, monitoring records and pending facts | `MCTripWatch`, `TripWatch_proofs` |
| `TripDrafts` | one traveler's draft, the plan and the trip that come of it | `MCTripDrafts`, `TripDrafts_proofs` |
| `UpdateIntake` | how an update reaches its handler | extended by `Onboarding`, `AccountLinks` |
| `Onboarding`, `AccountLinks` | the settings; the three account connections | extended by `TravelerAccount` |
| `TravelerAccount` | both under one stream of updates and pages, and the deletion of data | `MCTravelerAccount`, `TravelerAccount_proofs` |
| `ImpactEngine` | `calculate`, one visited item a step | extended by `RecoveryPlanner`, `ImpactEngine_proofs` (which `IncidentCosts_proofs` extends) |
| `RecoveryPlanner` | quote, plan, policy verdicts and the verifier's times | extended by `TripCosts` |
| `TripCosts` | expenses, receipts, open items and the end of a trip | extended by `IncidentCosts` |
| `ConnectionAdvice`, `Compensation` | what the guardian and the claim say of stored data | `IncidentCosts` |
| `IncidentCosts` | the composition: a disruption from its impact to its costs | `MCIncidentCosts`, `IncidentCosts_proofs` |

Each `MC` module gives the constants their instances. Operators marked "Mutant" are
plausible bugs in the definition after them, used to confirm that each property
depends on that code; no specification uses them.

### ActionExecutor

A worker is one running call of `execute`. Its control point `pc` names the await it
stands before; `job` holds its locals: the action, the time it was given (`now` is
captured before the first await and never refreshed), and the attempt and lease of its
last copy of the action. Each repository method is one step. `LookupEffect` says which
adapters search and then insert in two requests (Calendar, Gmail); the others look and
write in one. `contested` remembers the effects of which a call was granted an action while
another call was between its own claim and the end of its insert: the one way in which a
lease ends under its holder.
`IdOf` is the `worker_id` each call passes: the code passes the literals
`recovery-auto` and `recovery-approved`, so the runs give all calls one id.
`Crash` stands for the death of a call and for any exception but
`ProviderActionError`.

`ActionLife` is where this module and `RecoveryWorkflow` meet: an attempt at an action
begins with its approval and prerequisites, is counted before it ends, ends only while the
action is taken, and a verified or failed action is over. The executor implements it with
leases, attempts and receipts, the workflow with a claim and an outcome; in both a lease may
run out under a live holder, whose attempt another call then takes over. `LifeState` maps
the statuses: SUCCEEDED is still taken, VERIFICATION_FAILED is failed.

### EventAnalysis

A worker is one running delivery. What matters of the incident's version is whether a
worker's copy is current, which `fresh` says: a write by `w` leaves only `w`'s copy
fresh. `ResumeBumpsVersion` distinguishes the two repositories: Firestore's
`claim_event` raises the version on resume, the in-memory one does not. Two branches
are left out because they change nothing: the payload conflict of `claim_event`, and
the acknowledgement of a completed event.

### RecoveryWorkflow

A worker is one request: the delivery of the event or of a command. It runs
`process_command` and then `_advance_recovery_for_owner`, as
`consume_workflow_command` does; the event only does the second. `job` holds its
locals, `job.pc` the await it stands before. The actions of the module follow the code
from top to bottom: `Claim` to `Finish` are `process_command`, `Advance` to `Card` the
route and `prepare`, `Continue` to `Conclude` are `continue_plan`, `Resume` and `List`
`resume_after_approval`, `Skip` to `Answer` `_execute_actions`, `BarrierStops` to
`EnqueueRetry` `_execution_barrier`, `Judge` `_finish_if_verified`. `Approve`,
`Decline`, `RequestReplan` and `Expire` are the four approval transactions, each with
the conditions that transaction checks.

What is abstracted, and why that is sound for the properties:

- Which actions of a plan need approval is a constant (`Asked`) and may differ from plan to
  plan, as quotes and so the verdicts of the policy engine do.
- Commands are named by what their ids are hashed from. That is what
  `enqueue_outbox_once` compares, so a collision of ids is in the model.
- The execution of one action is a claim and an outcome (`ActionExecutor` has the
  rest; both implement `ActionLife`). `FAILED_TERMINAL` stands for `VERIFICATION_FAILED` too: the barrier treats
  them alike. A `None` of `execute` (leased elsewhere, not yet due, prerequisites or
  approval missing) is `Skip`.
- The passes of `_execute_actions` go over the actions in query order, which the code
  does not control: any order is possible, except that the transfer is stored before
  the flight, which waits for it. An approved action is tried again until its
  prerequisites have had their turn, any other is given up when its turn comes first.
- `plan.valid_until` and `expires_at` are one instant: the planner and the workflow
  both add a fixed time to the same `now`.
- Several steps of the code that read and then compare (a transition reads the version
  it then compares) are one step. If another write comes in between, the code raises
  and the message is delivered again: that is what `Fault` does anywhere.
- An action's lease may run out at any time, also while its holder is at the provider
  (`ActionLeaseEnds`); another request may then take the action, and an answer that comes
  after the attempt was ended by someone else changes nothing (`AnswerTooLate`).
- `overtaken` remembers that a request announced a plan which was no longer the current
  one. It is the proviso of three properties and no guard reads it.
- `send_once` is one step with its three outcomes. The final message changes nothing
  that is modelled.

### TripWatch and what it promises

A worker is one tick. It lists the oldest `Limit` due watchpoints, flushes the oldest `Limit` pending facts
(`FlushNext` to `Mark`), then claims one watchpoint after another, asks its source
(`Search`, or `Fetch` and `Ingest` for a flight), and stores, publishes or tells what it
heard. `pc` again names the await. `due_at` and the snapshot's fingerprint change with
every write, so what a compare-and-set tells apart is whether a tick still holds the
stored value; `due[w]` and `print[w]` are the sets of ticks that do. A disruption of a
flight goes to the recovery topic, other facts to the chat through `send_once`, here in
its single steps: intent, call, receipt, with unknown and refused outcomes. The
deletion of a traveler's data reads its references (`CollectData`) and deletes what it
read later (`DeleteData`), with ticks under way.

`FactReporting` is the contract in four actions: a fact is recorded before anyone hears
of it, and handled only after it was heard, unless nobody is left to hear it.
`ReportingIsRefined` checks that every step of `TripWatch` is one of these or a stutter,
with facts ever recorded as `known`, and what reached the topic or the chat as `heard`.

### TripDrafts

A request is one update of the chat that concerns the draft; `pc` names the await, and
it holds the draft it read. `save_trip_draft` compares versions (`Store`), and a new
draft starts at version 1 again, as in the code. The planner's half (options, choice,
planned trip) and the importer's half (bookings, trip, monitoring, watchpoints, clear)
write one record. Trip ids are hashes of contents, so a planned trip is named by its
option and a booked one by its set of bookings; the assumption of the module is that
these never collide.

### TravelerAccount

`UpdateIntake` is `telegram_webhook`: a delivery takes a slot of the minute, claims the
update for good, and hands over to a handler. Approval buttons (`Button`) take another way:
they are not claimed before they are handled, so that two deliveries may handle one, and a
stale or unknown one is answered 400 at every delivery (`Press`); unreadable updates
(`Malformed`) are answered 400 before they take a slot. Both come again for ever. `Onboarding` adds the settings. Each
answer reads the whole profile and writes it whole without a version; only the
activation compares. The four settings are answered alike and enter the policy
together, so one stands for them. `AccountLinks` adds the connections: the two Google
connections follow one protocol, the Gemini key is validated instead of exchanged. A
link is followed in a browser, outside the chat, and may be followed twice. A revocation may
be refused with 400, which `calendar_oauth.py:87` counts as revoked (`denied`); the deletion of
a secret may fail; a deletion of data removes the connections it found, and one that is saved
meanwhile stays.
`TravelerAccount` runs both with `/delete_my_data`.

### IncidentCosts

`ImpactEngine` walks the trip, one visited item a step, as the loop of `calculate` does.
`RecoveryPlanner` chooses an option (simulated or quoted), derives the actions of the
canonical demo trip, the traveler's copy of it or an imported trip, and decides them one
by one with `cumulative_auto_spend`. `TripCosts` books what the recovery came to: each
callback makes one repository request a step. `ConnectionAdvice` and `Compensation` are
functions of stored data and need no variables but the hub and the cause.

The composition takes the trip as stored, so that the branch of the demo that creates
it is not taken; the demo's policy limit of 2000 is the literal of the source. Of
what `RecoveryWorkflow` does between plan and outcome `TripCosts` keeps the approval (`Approve`,
`Decline`, `Resume`), the charge of the fare (`Charge`, before the approval when policy lets the
flight go by itself) and the outcome (`Recover`, `Stall`). An expense
is known by what it pays for; sums are for display.

Which trips there are is the assumption `CasesAreValid`, not a set of examples.
`WellFormed` says what every trip that reaches the engine satisfies, whether made by the
demo or imported: flights follow one another, a hotel comes after them, each item depends
on the one before it (`trip_intake.py:163`, `models/domain.py`); a connection joins two
flights. Only a later arrival is an event (`signal_validation.py:56`). TLC evaluates it for
the instances of the runs.

## 3. Runs

| Run | Question | Instance | Distinct states |
|---|---|---|---|
| `ActionExecutorPlan` | Are effects recorded truly, sanctioned, and repeated only where two calls were at one action? Does `execute` implement `ActionLife`? | two calls with a shared id, a transfer whose adapter searches and then inserts, a flight that needs approval and waits for it, one crash, lease 1, clock to 2 | @AE |
| `EventAnalysisFirestore` | Do event and incident agree, and is a claimed event analysed in the end? | two overlapping deliveries, one crash, one error, clock to 4, fair | 212 600 |
| `RecoveryCrash` | Do the records say why the recovery rests where it does, and is it finished when nothing is left to be delivered, wherever a request dies? | one request at a time, two plans of a transfer and a flight, one death, lost Telegram answer or command published twice, a retry and a terminal failure | @RCR |
| `RecoveryOverlap` | Do overlapping requests keep to the table, the verifier's verdict, the approvals and the life of an action? Do decisions, effects and outcome concern the current plan? | two requests, two plans of a flight that needs approval and the beginning of a third, RESUME taken over | @RO |
| `RecoveryLive` | Does recovery come to rest, and does a lapsed approval end? | one request at a time, two plans of a transfer and a flight, the second without approval, one retry, fair | @RL |
| `RecoveryLostApproval` | Is an approved recovery always carried out? **No** | one request, one plan of a flight, one death, fair | |
| `RecoveryLostRetry` | Does a scheduled retry always have its command? **No** | one request, one plan of a transfer and a flight, no crash | |
| `TripWatch` | Are recorded facts told before they are marked and told in the end, and reports recorded? Do overtaken ticks leave no mark? Does it implement `FactReporting`? | two ticks over one watchpoint, or one over two with two faults; a delay and a piece of news; one fact and one watchpoint to a tick; a deletion at any point; fair | @TW |
| `TripDrafts` | Do draft and trips agree? | two overlapping updates of five, one death, two options, one booking | 421 603 |
| `TravelerAccount` | Are updates answered; do settings, links and grants stay consistent? | two requests, two or three updates, an approval button and an unreadable update among them, one slot a minute, one Google connection and one key, one link each; fair | @TA |
| `IncidentCosts` | Is the impact exact, the plan verifiable and minimal, the advice consistent, the claim due, the trip settled when it closes? | see Bounds | @IC |
| `MissedFlights` | Does a recovered trip connect? **No** | the same, one callback, one incident | |

Deadlock is not checked where the system may rightly stop: the incident is at rest and
no message is left (recovery), the traveler sends nothing more (drafts, account), every
callback has been handled (costs).

### Bounds

Two workers are enough for every race between a holder and its successor. Two plan
versions make old cards, old approvals and old actions. One retryable failure per
action makes a retry, one crash puts a death at every await. Three constraints keep the
recovery within TLC's reach. What is delivered to a finished incident is not followed
(`Unfinished`). A death between publishing a command and marking it published counts as the one
fault of a behavior, and the command published again is RESUME or REPLAN_ANOTHER, the two a
traveler causes (`OneFault`). Of two overlapping requests (`Overlapping`), the RESUME command is
the one that is taken over; the second plan is not replaced by the traveler; and a third plan,
which asks for nothing, is followed until it is stored. An incident whose plan was overtaken is
not followed beyond that: the properties that may fail there except it, and the others are proved
without the constraint. The theorems of section 4 have none of these bounds. `RecoveryLostApproval` has the
smallest instance that shows the loss. The
time bounds let a lease run out and be granted again. `MaxAttempts` of `ActionExecutor`
does not bind before `MaxTime` does. `Lapse` and `RequestReplan` are disabled for the
last plan version, where the model has no room for a replan.

`TripWatch` starts with two faults to come and one tick, or with two ticks and none
(`SmallInit`): the first puts a crash at every await over both kinds of watchpoint, the second
every interleaving over one. Two facts are the least with which the order of the flush
matters; `Limit = 1` lets one of them into a flush, so that the one behind waits, and two faults
let the publication of the delay fail and the message of the news come to an unknown outcome.
In `TravelerAccount` a traveler near the
end of the settings sends three updates without a fault, which makes two answers and an
activation race; any traveler sends two, one of which may die. With a rate limit of one, two
overlapping deliveries are at the limit. Five updates in `TripDrafts` make search, choice,
booking, save and one to disturb any of them.

`IncidentCosts` looks at families of cases, with the rest of a case fixed: chains of one to
four flights with a delay in each, at the buffer, a minute beyond and far beyond it; every
combination of policy modes with limits of nothing, zero, below, at and above the prices;
every set of five quotes (two prices in two currencies, one without an arrival); connections
from tight to ample at quiet and busy hubs; routes between all regions with distance and delay
on both sides of every threshold. Two overlapping callbacks and two incidents follow for the
demo trip; three callbacks give 464 374 states and the same result.

### Fairness

`WF` of a worker's step: a coroutine that is ready runs (asyncio) unless the process
dies, which is a bounded fault. `WF` of `Begin` in the recovery and the event analysis: Pub/Sub redelivers what is not
acknowledged, and nothing else. The executor has no fairness: a delivery refused inside a
command's lease is acknowledged, so nobody promises that `execute` is called again. `WF` of the clock, of lapsing approvals, leases and delays: time passes.
`WF` of `Dispatch(c, TRUE)`: the scheduler's tick sweeps the outbox. `WF` of `Step(k)`
in `TripWatch`, which includes its start: the scheduler keeps calling; of `ComesDue`:
the interval passes; of `DeleteData`: a deletion that began ends. In `TravelerAccount`,
`SF` of delivering an update that has no answer (Telegram keeps trying, whenever a
request is free), and `SF` of a slot for one of its deliveries: other deliveries may use up
one minute, not every minute; what these updates are promised has the premise that approval
buttons stop being pressed, because one that is answered 400 comes again every minute. The traveler's decisions, providers' refusals, crashes,
errors, deletions and what sources say are not fair.

### What disagrees with the documentation

Three runs violate a statement of a document; `PROJECT.json` quotes each.

- *A retry is never made* (`RecoveryLostRetry`): the command id hashes the phase and the
  attempt, not the plan or the action, and a taken id counts as stored. A transfer fails;
  at its retry it succeeds and the flight fails, at the same attempt. The incident waits
  in RETRY_SCHEDULED for a command that has been consumed, though nothing crashed. With
  two plans the second plan's retry meets the id of the first. A crash does it too, with
  one flight and one plan: the move and the command are two transactions.
- *An approved recovery is lost* (`RecoveryLostApproval`): the request that holds the RESUME
  command dies; its redelivery within the lease is refused the claim and yet acknowledged
  (`recovery.py:339`); the record is PUBLISHED and no tick sends it again, although
  `docs/CLOUD_PROOF.md:181` says that the sweep keeps a worker's outage from turning an
  approval into a lost recovery.
- *A recovered trip does not connect* (`MissedFlights`): on an imported trip of three
  flights whose first is late, the second is missed; the plan replaces the one that
  arrives last, and the verifier compares the plan's actions with each other only.

The same modules show more, by changing a cfg or a property:

- A retry, or a decision, can be lost to one crash too; `QuietIsFinished` names the three
  statuses in which an incident may then wait for ever. A request may die before the first
  message is claimed again; between the move to RETRY_SCHEDULED and its command; or between
  the storing of an approval, with its EXPIRE command, and the move to WAITING_APPROVAL. In
  the last case the EXPIRE command finds an incident that waits for nobody and is used up.
- After a retry has ended in NEEDS_ATTENTION the same request goes on to
  `_advance_recovery_for_owner` and may still store an approval and send its card
  (`routes.py:227`, `recovery.py:196`).
- `NoneIsLeftOut` fails with one plan of a transfer and a flight that is asked for the transfer (`Asked`):
  in the approved phase an automatic flight that waits for an approved transfer is given up
  when the query returns it first (`recovery.py:621`), although the comment at
  `recovery.py:607` promises independence of the order. The verifier then finds a pending
  action and a person is called in, though nothing failed.
- Without their proviso `OnePlanIsActedOn`, `DecisionsConcernCurrentPlan` and
  `OutcomeIsOfCurrentPlan` fail with two overlapping deliveries of the event: one that read
  PLANNING commits its plan over the one another has announced; decline, "find another" and
  expiry do not look at the plan. `prd.md:285` has stale and superseded callbacks execute
  nothing. One instance serves several requests at once (`docs/CLOUD_PROOF.md:17`), so the
  deployment does not exclude it.
- `CompletedIsFinal` of `EventAnalysis` fails with two deliveries: the exception
  handler of a worker that lost its lease rereads the incident, and with its fresh
  version marks its successor's completed event RETRYABLE (`impact_analysis.py:161`),
  which `docs/ARCHITECTURE.md:61` excludes.
- `EventIsCompleted` fails if deliveries overlap for ever: each invalidates the
  other's version.
- `RestHasAReason` fails with two overlapping requests: one may store a plan or begin an
  action while the other decides where the incident goes, and the incident may wait for
  approval before the current plan's approval is stored.
- An incident may go to NEEDS_ATTENTION though nothing failed: a request dies with an
  action's lease, the redelivery within the lease executes nothing, and the barrier
  (`recovery.py:628`) does not look for LEASED. `RestHasAReason` therefore asks only that
  something failed or is undone.
- An effect may be applied twice (`prd.md:67`): the Calendar and Gmail adapters search and
  insert in two requests, a lease granted from a stale `now` may be born expired, and both
  holders find nothing and insert. `RepeatedOnlyIfContested` says that this is the only way.
- `FailureIsOfLatestAttempt` fails with the shared worker id: `fail_action` takes an earlier
  holder's failure for the present one's.
- `RecordedIsReported` excepts a fact with as many given-up facts before it as a flush reads
  (`Crowded`): a fact whose message has an unknown outcome stays first
  (`trip_watch_workflow.py:141`), and a delay behind it, whose publication failed once, is
  never read again.
- A tick that is under way while the traveler's data is deleted stores its facts afterwards,
  and nothing removes them (`docs/PRIVACY_AND_RETENTION.md:15`).
- An approval button whose token is stale or unknown is answered 400 at every redelivery
  (`telegram.py:618`) and so is an unreadable update (`telegram.py:336`). The former takes a
  slot each time and may keep the traveler's other callbacks from having one.
- A revocation refused with HTTP 400 counts as made (`calendar_oauth.py:87`).
- `SettingsKeepActivePolicy` fails with three updates from the BOUNDARY card: an answer
  that read the profile before an activation writes the old policy version back, unlike
  the test at `tests/test_telegram_api.py:735` has it for one request at a time.
- `SavedIsWatched` fails: a save dies after storing the trip and the draft is then
  changed or discarded; the comment at `telegram_trips.py:397` wants a retry from the
  draft.
- `OnlySeenBookingsLeave` fails: a discarded draft starts at version 1 again, and a slow
  request writes over a draft it never read. `OnlyVerifiedTripsRemain` fails after a
  second search: the draft forgets the first planned trip.

What the same code shows on reading, without a property here: a connection saved after a
disconnect in between (`calendar_oauth.py`); a disconnect that died after its secret was
destroyed and cannot be repeated at the provider; queries of the deletion that leave
documents out (compare `docs/PRIVACY_AND_RETENTION.md:15`); the first of the judge's two
quota slots, which stays taken when the second is refused; automatic spending that starts
at zero with each plan version (`recovery_planner.py:91`), though `prd.md:65` calls it cumulative
per incident; the simulator's page, which shows compensation for any broken connection, also
below the 180 minutes of `compensation.py` (`api/simulator.py:129`); the trip's stored times,
which a recovery does not change.

## 4. Theorems

All hold for any number of workers, actions, plans, attempts and failures, under the
named assumptions on the constants. One has a hypothesis of its own, stated in the theorem:
`RepeatsAreContested` assumes that the marker an adapter searches for is that of one effect
(`OwnMarkers`).

**ActionExecutor.** `TypeOK` is inductive. `SafetyInv` strengthens it with what
running calls know: a call runs only for a permitted action and passes its first read
only with verified prerequisites (`RunningIsSanctioned`), a call about to record a
success has seen the effect at the provider (`SuccessWasSeen`), and whatever a provider
carries was brought about (`ProviderIsCounted`). Without these, `ReceiptsAreReal`,
`DoneIsReceipted` and `EffectsAreSanctioned` are not inductive: nothing in the stored
records says why a completion is accepted. `RepeatedOnlyIfContested` is about adapters that
search and insert in two requests, between which anything may happen. While an effect is not
contested only one call is between its claim and its insert (`WorksAlone`), what it found
missing is still missing (`LooksBeforeInsert`), and there is one copy of what a search finds
and none of what it does not (`UncontestedInv`); that a second call is granted the action only where no lease is in
force, or from a time in the past, needs `LeasesAreDated`.
`VerdictsAreFinal` follows from a lemma that each step leaves verdicts, attempts and
receipts standing. `KeepsToLife`, the refinement of `ActionLife`, needs
`RunningIsSanctioned` again: a call claims, fails and marks an action long after it looked
at the approval and the prerequisites.

**EventAnalysis.** `EventAndIncidentAgree` is inductive. `OneWorkerCanCommit` is: every
write gives the fresh version to its writer alone. `InterpretationFitsImpact` needs
`ImpactIsOwn`: a worker that can still complete committed the impact that is stored.

**RecoveryWorkflow.** `TypeOK` is inductive, in eight parts that depend on separate
variables. `JobChanges` says that a step leaves its request either outside the places
that execute or decide (`Quiet`) or is one of a dozen named steps, whose locals
`ResumeJob`, `ContinueJob`, `ActionJob` and `DecidedJob` describe; each invariant about
running requests is then proved from those few cases.

- `FollowsLifecycle`, the refinement of `IncidentLifecycle`: a transition names its
  source itself, save the one that writes a decision held since the barrier or the
  verifier. `DecisionsInTable` says that such a decision is allowed by the table from
  the status its transaction will ask for.
- `EffectsAreAuthorized`: an action may be begun long after the approval was read.
  `PhaseIsEntitled` (a request in the approved phase holds an approved plan) and
  `CallsAreBegun` (a request is at a provider only for an action it has begun) make it
  inductive, with the lemma that an approval once given stays given (`ApprovedStays`).
- `RecoveredIsVerified`: between the verdict and its write another request may commit a
  plan, store actions or execute. `FlightIsLast` (a plan with a flight is complete) and
  `VerdictHolds` (a verdict not yet written still holds) make it inductive, with the
  lemma that a verified plan is never added to or taken back (`VerifiedStays`).

- `KeepsToLife`, the refinement of `ActionLife`: a request may be at a provider while
  others finish, replan, look at the same action or take it over when its lease has run out.
  `CallsAreSound` says that whoever is at a provider is there for an attempt that was begun,
  approved and has its prerequisites, whatever happened since; an answer is recorded only
  while the action is still taken, which makes a late one harmless.

Three more except an incident whose plan was overtaken while it was being planned, where the
code does not keep them (section 3).

- `DecisionsConcernCurrentPlan`: three of the four approval transactions do not look at the
  plan, so what protects the traveler is that no older plan has anything left to decide.
  `OrderedUnlessOvertaken` says why, for any number of overlapping requests: an approval
  that is open, given or declined is the current plan's, and nobody plans while one exists
  (`ActiveIsCurrent`), nothing is stored of a later plan (`NothingAhead`), the current plan is
  stored once planning is over (`PlanIsStored`), and each request is about to write for a plan
  the incident has reached, or for the next one (`KeepsPace`).
- `OnePlanIsActedOn` follows: an effect that asks was begun under an approved plan
  (`EffectsAreAuthorized`), and an approved plan is the current one.
- `OutcomeIsOfCurrentPlan`: the verdict that leads to RECOVERED is reached before it is
  written. `VerdictIsCurrent` says that the current plan is still verified when it is, and
  `DecisionsInPhase` that a decision is about to be written only from the status it was made in.

**TripDrafts.** For any number of requests, options, bookings and updates. The invariant
`IInv` is `TypeOK` with three parts: a request that saves holds a draft with bookings
and what it has done so far is stored (`SavesInOrder`), a choice anyone holds is on offer
with it (`ChoicesOnOffer`), a planned trip anyone holds is stored (`PlansStored`). The
lemma `TripsMove` says that a trip's status is only ever set, and only from open to
closed; `ChoiceIsOnOffer` and `SavedPlanIsStored` follow from the invariant,
`ClosedStaysClosed` from the lemma, and `SaveClearsLast` from `SavesInOrder`.

**TravelerAccount.** For any number of requests, updates, accounts, links, policies and
deaths, any rate limit. `JobMoves` says in which few ways a step moves its request,
`Effects` what it may do to the records; each invariant is proved from these.

- `OneHandlerPerUpdate`, with `HandledIsClaimed`: who handles an update has claimed it,
  approval buttons excepted.
- `LinkIsUsedOnce`, with `RedeemedIsConsumed`: a link anyone redeems is consumed, and a
  consumed link stays so.
- `DisconnectedIsRevoked`: what a connection, or a request that takes one apart, points
  at is `Retired`, so that nobody redeems that link any more (`SecretsRetired`). Only
  its redemption could have stored the secret or granted the access again, so what
  was revoked stays revoked until the result is saved (`PartingIsOver`). A grant whose
  revocation was refused with 400 counts as revoked, as it does in the code.
- `CompleteMeansPolicy`: not only the stored profile but every profile a request is about
  to save agrees with the policy it names (`PolicyKept`), and an activation writes only
  where no policy is.

**TripWatch.** For any number of ticks, watchpoints, facts and failures and any limit of
a sweep. A step of one tick leaves the others where they are (`InHand` describes what a
tick holds at each await), so each part of `Inv` is proved for the tick that steps and
carried over for the rest.

- `ErrorIsTheLatestChecks`: ticks overtake one another, and only the holder of the schedule
  may write the error. `Schedule` says that a tick still to claim a watchpoint it listed
  holds its `due_at` only while that time has come; hence whoever claims takes the schedule
  from all others, and `OneCheck`: the check that holds it is the only one, and no error
  is shown while it runs. The same fact gives the action property `ACheckPerDueTime`.
- `RecoveryIsValidated`: only validated disruptions reach the recovery topic.
- `ReportingIsRefined`, the refinement of `FactReporting`: a fact must have been recorded
  when it is told, and heard when it is marked. What a tick has in hand there was read
  several awaits earlier, and `Reports` says why it is still true.

The stored facts are a list, and `Without`, which takes facts out of it, is a recursive
function. The proofs about it begin with an induction of their own (`Least`): strict
inclusion on the subsets of a finite set is well-founded, hence a nonempty set of naturals
has a least element.

**ImpactEngine.** `ImpactIsExact` for any trip graph, of any size. The walk visits an
item when it is reached, in an order nobody fixes; `WalkIsSound` says that what was
visited has its final verdict and what was seen is reached by the dependencies walked.

**IncidentCosts.** For any cases that satisfy `CasesAreValid`, any number of callbacks and
incidents. The invariant `IncidentInv` takes that of the impact and adds what each later
stage relies on.

- `Planned` and `Decided` (which actions a trip gets, and that each is as it was decided,
  on the budget then left) give `PlanIsVerifiable` and `PlanMovesOnlyAffected`. The last needs the shape of a trip as
  well: the replaced flight is the last of the chain, and everything after a late item
  can be reached from it, shown with a lemma that a finite set of items has a first and a
  last by any measure (`FirstOf`, `LastOf`).
- `AdviceAgreesWithImpact` and `ClaimIsDue` compare two computations of one thing (the
  connection's buffer; the minutes late): the case analysis covers all thresholds.
- `ClosedIsSettled`: the report is computed two awaits before the close. `ReportIsCurrent`
  says that a call about to close saw everything settled and that it still is: a settled
  item stays settled.
- `ExpenseFollowsEffect`: the receipt of a taxi is stored by a call that has read a
  recovered incident (`ReceiptIsDue`); the charge of a fare was approved or within policy
  (`ChargesAreSanctioned`), whatever then became of the incident.

Proved though no run spends time on them: `TypeOK` of every module with proofs,
`VerdictsAreFinal`, `OneOutcomePerAttempt`, `OneWorkerCanCommit`, `SavedPlanIsStored`, `OneHandlerPerUpdate`,
`RecoveryIsValidated`, and the invariants `SafetyInv`, `Inv` of `TripWatch` and
`IncidentInv`.

Only model-checked, and why:

- Liveness (`EventIsCompleted`, `ComesToRest`, `LapsedApprovalsEnd`, `RecordedIsReported`,
  `ReportIsRecorded`, `UpdatesAreAnswered`): the prover handles neither fairness nor ENABLED.
- `RestHasAReason` and `QuietIsFinished`. With overlapping requests the first fails, and a proof
  that assumes there are none would say little about a service that runs several; the second
  counts what is still to be delivered. Both are checked with a death at every await.
- `ApprovalIsCarriedOut`, `RetryIsScheduled`, `NoneIsLeftOut` and `RecoveredTripConnects`,
  which the code violates.
- `FailureIsOfLatestAttempt`, which holds only for worker ids the code does not pass.

No module uses a RECURSIVE operator. The library's induction theorems cannot be used by
the installed provers, so what recursive functions compute in general is proved only as
far as least elements carry it (`Without`).

## 5. Plan

Done: executor, event analysis, recovery, Trip Watch with its abstract specification,
drafts, updates, settings and connections, impact, plan and costs, each with its theorems;
advice and compensation. In order, what is left:

1. *Composition.* `EventAnalysis` joined at PLANNING, as `ActionExecutor` is at
   `ActionLife`.
2. *Small modules.* The outbox over many incidents (a sweep's limit of 20 is applied
   before what is not yet due is left out), the judge's quota, the activation of a live
   source, the prices of a second plan of one incident.

## 6. Not modelled

The inline path of the Telegram demo; `start`, which the demo calls; the commands
START_RECOVERY and CONTINUE_WORKFLOW, which nothing enqueues; the judge's chat and quota;
the activation of a live status source and the simulator's page of fixed numbers; the
guardian's table of visa and baggage texts; request building, OAuth refresh and wording of
adapters; document encoding; menus, intent routing and texts of the Telegram conversation;
extraction of itineraries and other model calls, which appear as an answer or an error;
the text of a claim's letter; wiring, configuration, migration, static pages and
deployment.
