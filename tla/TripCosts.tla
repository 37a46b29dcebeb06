------------------------------- MODULE TripCosts -------------------------------
(***************************************************************************)
(* The money side of a trip: expenses of recoveries, receipts, open        *)
(* deposits and refunds, and closing the trip. TelegramDemoService drives  *)
(* it through callbacks, each of them a call that makes one repository     *)
(* request after another and may run beside another or die between two.    *)
(*                                                                         *)
(* The trip is stored and its first disruption planned (RecoveryPlanner).  *)
(* A later demo trigger sends the same disruption again, so that its plan  *)
(* is the same. What RecoveryWorkflow does between plan and outcome is one *)
(* step here. Sums are left out: an expense is known by what it pays for.  *)
(***************************************************************************)
EXTENDS RecoveryPlanner

CONSTANTS
    Call,           \* callbacks handled
    Incident        \* incidents of this trip, in the order they are opened

ASSUME NoneIsNoStatus ==
    None \notin {"OPEN", "RECOVERED", "CANCELLED", "NEEDS_ATTENTION", "SETTLED"}

ASSUME IncidentsAreNumbered == Incident \subseteq Nat /\ 1 \in Incident

VARIABLES
    header,     \* the stored trip: its status and active_incident_id
    incident,   \* status of each incident
    approved,   \* incidents for which the traveler approved what was asked
    charged,    \* incidents whose flight change is VERIFIED
    finance,    \* status of each financial item
    expense,    \* stored expenses
    docs,       \* stored trip documents
    call        \* the running callbacks

costVars == <<header, incident, approved, charged, finance, expense, docs, call>>

FinancialItem == {"deposit", "refund"}
Goal == {"closeout", "settle", "expense", "voucher", "trigger"}
At == {"new", "seed", "list", "settle", "trip", "items", "incident", "close",
       "add", "receipt", "check", "taxi", "event", "done"}
Header == [status : {"HEALTHY", "CLOSED"}, active : Incident]
Expense == [kind : {"flight", "taxi"}, of : Incident]

\* saw is the trip as the call read it, left the items it has yet to handle, open
\* whether what it read keeps the trip from closing.
Job == [goal : Goal, at : At, saw : Header, left : SUBSET FinancialItem, open : BOOLEAN]

Stored == [status |-> "HEALTHY", active |-> 1]
Idle == [goal |-> "closeout", at |-> "new", saw |-> Stored, left |-> {}, open |-> FALSE]

CostInit ==
    /\ header = Stored
    /\ incident = [i \in Incident |-> IF i = 1 THEN "OPEN" ELSE None]
    /\ approved = {} /\ charged = {} /\ expense = {} /\ docs = {}
    /\ finance = [f \in FinancialItem |-> None]
    /\ call = [c \in Call |-> Idle]

-----------------------------------------------------------------------------
(* The outcome of a recovery                                               *)

End(i, outcome) ==
    /\ incident[i] = "OPEN"
    /\ incident' = [incident EXCEPT ![i] = outcome]
    /\ UNCHANGED <<header, approved, charged, finance, expense, docs, call>>

\* consume_approval, once the actions that need none were carried out: only for
\* the incident the trip is at.
Approve(i) ==
    /\ Asked # {} /\ incident[i] = "OPEN" /\ header.active = i
    /\ "flight" \notin Asked => i \in charged
    /\ approved' = approved \cup {i}
    /\ UNCHANGED <<header, incident, charged, finance, expense, docs, call>>

\* decline_approval; a flight that needed no approval has been changed by then.
Decline(i) ==
    /\ Asked # {} /\ i \notin approved /\ header.active = i
    /\ "flight" \notin Asked => i \in charged
    /\ End(i, "CANCELLED")

\* request_approval_replan of a declined approval.
Resume(i) ==
    /\ header.active = i /\ incident[i] = "CANCELLED"
    /\ incident' = [incident EXCEPT ![i] = "OPEN"]
    /\ UNCHANGED <<header, approved, charged, finance, expense, docs, call>>

\* The flight change: before any approval is asked for when policy allows it.
Charge(i) ==
    /\ incident[i] = "OPEN" /\ ("flight" \in Asked => i \in approved)
    /\ charged' = charged \cup {i}
    /\ UNCHANGED <<header, incident, approved, finance, expense, docs, call>>

Recover(i) ==
    /\ i \in charged /\ (Asked # {} => i \in approved)
    /\ End(i, "RECOVERED")

\* An action could not be verified, or the approval expired.
Stall(i) == End(i, "NEEDS_ATTENTION")

\* Mutant: whatever the recovery came to is shown and recorded.
RecordAnyOutcome(i) ==
    /\ incident[i] \notin {None, "OPEN"} /\ ~trip.canonical
    /\ expense' = expense \cup {[kind |-> "flight", of |-> i]}
    /\ UNCHANGED <<header, incident, approved, charged, finance, docs, call>>

\* record_recovery_expenses, whenever the status view shows a recovery: once for
\* an effect, however often. The canonical trip has no owner to record it for.
Record(i) ==
    /\ incident[i] = "RECOVERED" /\ ~trip.canonical
    /\ i \in charged
    /\ expense' = expense \cup {[kind |-> "flight", of |-> i]}
    /\ UNCHANGED <<header, incident, approved, charged, finance, docs, call>>

Outcome(i) ==
    \/ Approve(i) \/ Decline(i) \/ Resume(i) \/ Charge(i) \/ Recover(i) \/ Stall(i)
    \/ Record(i)

-----------------------------------------------------------------------------
(* Callbacks of the demo                                                   *)

\* One step of a call and where it goes on.
From(c, at) == call[c].at = at
GoTo(c, at) == call' = [call EXCEPT ![c].at = at]
Settled(f) == finance[f] = "SETTLED"

\* handle; every callback but the receipt first makes sure of the documents.
Receive(c, goal) ==
    /\ From(c, "new") /\ trip.demo
    /\ call' = [call EXCEPT
           ![c].goal = goal,
           ![c].left = FinancialItem,
           ![c].at = CASE goal \in {"closeout", "settle"} -> "seed"
                       [] goal = "expense" -> "receipt"
                       [] goal = "voucher" -> "add"
                       [] goal = "trigger" -> "event"]
    /\ docs' = IF goal = "expense" THEN docs ELSE docs \cup {"ticket", "hotel"}
    /\ UNCHANGED <<header, incident, approved, charged, finance, expense>>

AddVoucher(c) ==
    /\ From(c, "add") /\ GoTo(c, "done")
    /\ docs' = docs \cup {"voucher"}
    /\ UNCHANGED <<header, incident, approved, charged, finance, expense>>

\* Mutant: an item that exists is written again as new.
SeedAgain(c, f) ==
    /\ From(c, "seed") /\ f \in call[c].left /\ (f = "refund" => "deposit" \notin call[c].left)
    /\ finance' = [finance EXCEPT ![f] = "OPEN"]
    /\ call' = [call EXCEPT ![c].left = @ \ {f}]
    /\ UNCHANGED <<header, incident, approved, charged, expense, docs>>

\* save_financial_item_once, first the deposit, then the refund.
Seed(c, f) ==
    /\ From(c, "seed") /\ f \in call[c].left /\ (f = "refund" => "deposit" \notin call[c].left)
    /\ finance' = [finance EXCEPT ![f] = IF @ = None THEN "OPEN" ELSE @]
    /\ call' = [call EXCEPT ![c].left = @ \ {f}]
    /\ UNCHANGED <<header, incident, approved, charged, expense, docs>>

Seeded(c) ==
    /\ From(c, "seed") /\ call[c].left = {}
    /\ GoTo(c, IF call[c].goal = "settle" THEN "list" ELSE "done")
    /\ UNCHANGED <<header, incident, approved, charged, finance, expense, docs>>

ListItems(c) ==
    /\ From(c, "list")
    /\ call' = [call EXCEPT ![c].at = "settle", ![c].left = {f \in FinancialItem : ~Settled(f)}]
    /\ UNCHANGED <<header, incident, approved, charged, finance, expense, docs>>

\* settle_financial_item; one settled meanwhile, at the same amount, is accepted.
Settle(c, f) ==
    /\ From(c, "settle") /\ f \in call[c].left
    /\ finance' = [finance EXCEPT ![f] = "SETTLED"]
    /\ call' = [call EXCEPT ![c].left = @ \ {f}]
    /\ UNCHANGED <<header, incident, approved, charged, expense, docs>>

AllSettled(c) ==
    /\ From(c, "settle") /\ call[c].left = {} /\ GoTo(c, "trip")
    /\ UNCHANGED <<header, incident, approved, charged, finance, expense, docs>>

\* report reads the trip, the items and the active incident one after the other.
ReadTrip(c) ==
    /\ \E next \in {<<"trip", "items">>, <<"receipt", "check">>} :
           From(c, next[1]) /\ call' = [call EXCEPT ![c].at = next[2], ![c].saw = header]
    /\ UNCHANGED <<header, incident, approved, charged, finance, expense, docs>>

ReadItems(c) ==
    /\ From(c, "items")
    /\ call' = [call EXCEPT ![c].at = "incident", ![c].open = \E f \in FinancialItem : ~Settled(f)]
    /\ UNCHANGED <<header, incident, approved, charged, finance, expense, docs>>

\* An open trip with a blocker is refused; a closed one is left.
ReadIncident(c) ==
    /\ From(c, "incident")
    /\ GoTo(c, IF \/ call[c].open \/ call[c].saw.status = "CLOSED"
                  \/ incident[call[c].saw.active] \notin {"RECOVERED", "CANCELLED"}
               THEN "done" ELSE "close")
    /\ UNCHANGED <<header, incident, approved, charged, finance, expense, docs>>

Close(c) ==
    /\ From(c, "close") /\ GoTo(c, "done")
    /\ header' = [header EXCEPT !.status = "CLOSED"]
    /\ UNCHANGED <<incident, approved, charged, finance, expense, docs>>

\* record_demo_taxi: a receipt belongs to a recovery that has ended.
CheckIncident(c) ==
    /\ From(c, "check")
    /\ GoTo(c, IF incident[call[c].saw.active] = "RECOVERED" THEN "taxi" ELSE "done")
    /\ UNCHANGED <<header, incident, approved, charged, finance, expense, docs>>

SaveTaxi(c) ==
    /\ From(c, "taxi") /\ GoTo(c, "done")
    /\ expense' = expense \cup {[kind |-> "taxi", of |-> call[c].saw.active]}
    /\ UNCHANGED <<header, incident, approved, charged, finance, docs>>

\* demo:trigger: the analysis claims a new event and makes its incident active,
\* whatever became of the one before and of the trip.
Trigger(c, i) ==
    /\ From(c, "event") /\ GoTo(c, "done")
    /\ incident[i] = None /\ \A j \in Incident : j < i => incident[j] # None
    /\ incident' = [incident EXCEPT ![i] = "OPEN"]
    /\ header' = [header EXCEPT !.active = i]
    /\ UNCHANGED <<approved, charged, finance, expense, docs>>

Crash(c) ==
    /\ call[c].at \notin {"new", "done"} /\ GoTo(c, "done")
    /\ UNCHANGED <<header, incident, approved, charged, finance, expense, docs>>

Handle(c) ==
    \/ \E goal \in Goal : Receive(c, goal)
    \/ \E f \in FinancialItem : Seed(c, f) \/ Settle(c, f)
    \/ AddVoucher(c) \/ Seeded(c) \/ ListItems(c) \/ AllSettled(c)
    \/ ReadTrip(c) \/ ReadItems(c) \/ ReadIncident(c) \/ Close(c)
    \/ CheckIncident(c) \/ SaveTaxi(c) \/ Crash(c)
    \/ \E i \in Incident : Trigger(c, i)

CostStep == (\E i \in Incident : Outcome(i)) \/ (\E c \in Call : Handle(c))

-----------------------------------------------------------------------------
CostTypeOK ==
    /\ header \in Header
    /\ incident \in [Incident -> {None, "OPEN", "RECOVERED", "CANCELLED", "NEEDS_ATTENTION"}]
    /\ approved \subseteq Incident /\ charged \subseteq Incident /\ expense \subseteq Expense
    /\ finance \in [FinancialItem -> {None, "OPEN", "SETTLED"}]
    /\ docs \subseteq {"ticket", "hotel", "voucher"}
    /\ call \in [Call -> Job]

(***************************************************************************)
(* Nothing is closed over: a closed trip has no deposit or refund open,    *)
(* though the report is read in parts, other callbacks may seed the same   *)
(* items before, between and after its reads, and a call may die halfway.  *)
(***************************************************************************)
ClosedIsSettled == header.status = "CLOSED" => \A f \in FinancialItem : Settled(f)

(***************************************************************************)
(* What is booked as an expense happened and was sanctioned: a flight only *)
(* when its change was verified and, if it had to be asked, the traveler   *)
(* approved it, else within what the policy lets be spent; a receipt only  *)
(* for a recovery that succeeded, though the incident is looked up through *)
(* the trip and another may have become active meanwhile.                  *)
(***************************************************************************)
ExpenseFollowsEffect ==
    \A e \in expense :
        /\ e.kind = "flight" =>
               /\ e.of \in charged
               /\ IF "flight" \in Asked THEN e.of \in approved
                  ELSE policy.spending /\ plan["flight"].cost.units <= policy.limit
        /\ e.kind = "taxi" => incident[e.of] = "RECOVERED"
=============================================================================
