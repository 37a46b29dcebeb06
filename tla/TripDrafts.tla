----------------------------- MODULE TripDrafts -----------------------------
(***************************************************************************)
(* One traveler's trip draft: services/telegram_planning.py turns a brief  *)
(* into options and a chosen option into a PLANNED trip,                    *)
(* services/telegram_trips.py collects forwarded bookings in the same      *)
(* record and saves them as the trip that is watched. Several updates of   *)
(* the chat are handled at a time, each reading the draft, awaiting a      *)
(* model or the repository, and storing under the version it read; a       *)
(* request may die between any two steps.                                  *)
(*                                                                         *)
(* A trip's id is a hash of its contents: a planned trip is named by its   *)
(* option, a booked one by its set of bookings.                            *)
(***************************************************************************)
EXTENDS Naturals, FiniteSets

CONSTANTS
    Request,    \* webhook requests that may be under way at the same time
    Option,     \* candidates a planner may offer, each of one search
    Booking,    \* flights and stays that may be forwarded
    Nothing,    \* None
    MaxUpdates, \* bound: updates the traveler sends
    MaxFaults   \* bound: requests that die

\* Trip ids are hashes: a planned trip never has the id of a booked one.
ASSUME DraftsAssumption ==
    /\ Nothing \notin Option
    /\ \A o \in Option, b \in SUBSET Booking : o # b
    /\ MaxUpdates \in Nat /\ MaxFaults \in Nat

VARIABLES
    draft,      \* tripDrafts/{user}; version 0 when there is none
    trips,      \* trips/{id}: its status, "NONE" when there is none
    subscribed, \* booked trips with monitoring subscriptions
    watched,    \* booked trips with watchpoints
    job,        \* what each request is at and the draft it read
    updates,    \* updates sent
    faults      \* requests that died

records == <<trips, subscribed, watched>>
vars == <<draft, records, job, updates, faults>>

Planned == Option
Booked == (SUBSET Booking) \ {{}}
Draft == [version : Nat, options : SUBSET Option, chosen : Option \cup {Nothing},
          saved : BOOLEAN, plan : Planned \cup {Nothing}, bookings : SUBSET Booking]
NoDraft == [version |-> 0, options |-> {}, chosen |-> Nothing, saved |-> FALSE,
            plan |-> Nothing, bookings |-> {}]
PC == {"idle", "start", "search", "forward", "attach", "choose", "plan", "persist", "mark",
       "save", "retire", "subscribe", "watch", "clear", "cancel"}
Idle == [pc |-> "idle", copy |-> NoDraft, pick |-> Nothing]

TypeOK ==
    /\ draft \in Draft
    /\ trips \in [Planned \cup Booked -> {"NONE", "PLANNED", "ACTIVE", "CLOSED"}]
    /\ \A o \in Planned : trips[o] # "ACTIVE"
    /\ \A b \in Booked : trips[b] \in {"NONE", "ACTIVE"}
    /\ subscribed \subseteq Booked /\ watched \subseteq Booked
    /\ job \in [Request -> [pc : PC, copy : Draft, pick : Option \cup {Nothing}]]
    /\ updates \in 0 .. MaxUpdates /\ faults \in 0 .. MaxFaults

Init ==
    /\ draft = NoDraft
    /\ trips = [t \in Planned \cup Booked |-> "NONE"]
    /\ subscribed = {} /\ watched = {}
    /\ job = [r \in Request |-> Idle]
    /\ updates = 0 /\ faults = 0

-----------------------------------------------------------------------------
At(r, pc) == job[r].pc = pc
Copy(r) == job[r].copy
GoTo(r, pc) == job' = [job EXCEPT ![r].pc = pc]
Ends(r) == job' = [job EXCEPT ![r] = Idle]

\* save_trip_draft, clear_trip_draft: the stored draft is the version that was
\* read. A draft that is absent has version 0; a new one starts at 1 again.
Unchanged(r) == Copy(r).version = draft.version
Store(r, new) == draft' = [new EXCEPT !.version = draft.version + 1]

\* What a request may be sent for. A choice is only followed up when the option
\* is on offer, a trip is only saved when there are bookings.
Wanted ==
    {<<pc, Nothing>> : pc \in {"start", "search", "forward", "plan"}}
    \cup {<<"choose", o>> : o \in draft.options}
    \cup {<<pc, Nothing>> : pc \in {p \in {"save"} : draft.bookings # {}}}
    \cup {<<pc, Nothing>> : pc \in {p \in {"cancel"} : draft.version > 0}}

Receive(r) ==
    /\ At(r, "idle") /\ updates < MaxUpdates
    /\ updates' = updates + 1
    /\ \E k \in Wanted : job' = [job EXCEPT ![r] = [pc |-> k[1], copy |-> draft, pick |-> k[2]]]
    /\ UNCHANGED <<draft, records, faults>>

\* _start_draft, _get_or_create_draft: an empty draft where none was read.
Open(r) ==
    /\ job[r].pc \in {"start", "search", "forward"} /\ Copy(r).version = 0
    /\ Unchanged(r)
    /\ Store(r, NoDraft)
    /\ IF At(r, "start") THEN Ends(r) ELSE job' = [job EXCEPT ![r].copy = draft']
    /\ UNCHANGED <<records, updates, faults>>

-----------------------------------------------------------------------------
\* Mutant: new options leave the old choice.
ReplannedKeepsChoice(d) == {[d EXCEPT !.options = found] : found \in SUBSET Option} \cup {d}
\* handle_message of the planner: a full brief brings options and takes back the
\* choice, one without an origin takes back the options too, another leaves the
\* plan as it is and stores what it tells.
Replanned(d) ==
    {[d EXCEPT !.options = found, !.chosen = Nothing, !.saved = FALSE] : found \in SUBSET Option}
    \cup {d}

Search(r) ==
    /\ At(r, "search") /\ Copy(r).version > 0
    /\ Unchanged(r)
    /\ \E new \in Replanned(Copy(r)) : Store(r, new)
    /\ Ends(r)
    /\ UNCHANGED <<records, updates, faults>>

\* _select: the choice is stored, then the plan is saved from a fresh read.
Choose(r) ==
    /\ At(r, "choose")
    /\ Unchanged(r)
    /\ Store(r, [Copy(r) EXCEPT !.chosen = job[r].pick])
    /\ GoTo(r, "plan")
    /\ UNCHANGED <<records, updates, faults>>

\* _save_plan: nothing chosen, or a plan saved before, ends it.
ReadPlan(r) ==
    /\ At(r, "plan")
    /\ IF draft.chosen = Nothing \/ (draft.saved /\ draft.plan # Nothing)
       THEN Ends(r)
       ELSE job' = [job EXCEPT ![r].pc = "persist", ![r].copy = draft]
    /\ UNCHANGED <<draft, records, updates, faults>>

\* Mutant: the trip is written anew.
CreatedAgain(t, status) == [trips EXCEPT ![t] = status]
\* create_trip_once: a trip that is there stays as it is.
Created(t, status) == [trips EXCEPT ![t] = IF @ = "NONE" THEN status ELSE @]

Persist(r) ==
    /\ At(r, "persist")
    /\ trips' = Created(Copy(r).chosen, "PLANNED")
    /\ GoTo(r, "mark")
    /\ UNCHANGED <<draft, subscribed, watched, updates, faults>>

MarkSaved(r) ==
    /\ At(r, "mark")
    /\ Unchanged(r)
    /\ Store(r, [Copy(r) EXCEPT !.saved = TRUE, !.plan = Copy(r).chosen])
    /\ Ends(r)
    /\ UNCHANGED <<records, updates, faults>>

-----------------------------------------------------------------------------
\* handle_message and handle_media_message of the trips: /flight adds, an
\* extraction replaces what it finds and keeps the rest.
Forwarded(d) ==
    {[d EXCEPT !.bookings = @ \cup {b}] : b \in Booking}
    \cup {[d EXCEPT !.bookings = {b}] : b \in Booking}
    \cup {d}

Forward(r) ==
    /\ At(r, "forward") /\ Copy(r).version > 0
    /\ Unchanged(r)
    /\ \E new \in Forwarded(Copy(r)) : Store(r, new)
    /\ \/ Ends(r)
       \/ job' = [job EXCEPT ![r].pc = "attach", ![r].copy = draft']
    /\ UNCHANGED <<records, updates, faults>>

\* The evidence of a document is stored in a second write, whose failure is
\* passed over.
Attach(r) ==
    /\ At(r, "attach")
    /\ IF Unchanged(r) THEN Store(r, Copy(r)) ELSE UNCHANGED draft
    /\ Ends(r)
    /\ UNCHANGED <<records, updates, faults>>

\* _save_draft: the trip, ...
Import(r) ==
    /\ At(r, "save")
    /\ trips' = Created(Copy(r).bookings, "ACTIVE")
    /\ GoTo(r, "retire")
    /\ UNCHANGED <<draft, subscribed, watched, updates, faults>>

\* ... the end of the plan it replaces, written without a version, ...
Retire(r) ==
    /\ At(r, "retire")
    /\ trips' = IF Copy(r).plan = Nothing \/ trips[Copy(r).plan] = "NONE" THEN trips
                ELSE [trips EXCEPT ![Copy(r).plan] = "CLOSED"]
    /\ GoTo(r, "subscribe")
    /\ UNCHANGED <<draft, subscribed, watched, updates, faults>>

\* ... its monitoring, ...
Subscribe(r) ==
    /\ At(r, "subscribe")
    /\ subscribed' = subscribed \cup {Copy(r).bookings}
    /\ GoTo(r, "watch")
    /\ UNCHANGED <<draft, trips, watched, updates, faults>>

\* ... its watchpoints, ...
PutWatchpoints(r) ==
    /\ At(r, "watch")
    /\ watched' = watched \cup {Copy(r).bookings}
    /\ GoTo(r, "clear")
    /\ UNCHANGED <<draft, trips, subscribed, updates, faults>>

\* Mutant: the draft goes as soon as the trip is stored.
ClearEarly(r) ==
    /\ job[r].pc \in {"retire", "subscribe", "watch", "clear"}
    /\ Unchanged(r)
    /\ draft' = NoDraft
    /\ Ends(r)
    /\ UNCHANGED <<records, updates, faults>>
\* ... and last of all the draft goes.
Clear(r) ==
    /\ At(r, "clear")
    /\ Unchanged(r)
    /\ draft' = NoDraft
    /\ Ends(r)
    /\ UNCHANGED <<records, updates, faults>>

\* _cancel_draft: the result of the write is not looked at.
Cancel(r) ==
    /\ At(r, "cancel")
    /\ draft' = IF Unchanged(r) THEN NoDraft ELSE draft
    /\ Ends(r)
    /\ UNCHANGED <<records, updates, faults>>

\* A write under an old version, a planner or extractor that fails, and a
\* subscription that changed end the request with a message.
Refused(r) ==
    /\ \/ job[r].pc \in {"start", "search", "forward", "choose", "mark", "clear"} /\ ~Unchanged(r)
       \/ job[r].pc \in {"search", "forward"} /\ Copy(r).version > 0
       \/ At(r, "subscribe") /\ Copy(r).bookings \in subscribed
    /\ Ends(r)
    /\ UNCHANGED <<draft, records, updates, faults>>

\* start with a draft at hand shows it.
Shown(r) ==
    /\ At(r, "start") /\ Copy(r).version > 0
    /\ Ends(r)
    /\ UNCHANGED <<draft, records, updates, faults>>

Crash(r) ==
    /\ ~At(r, "idle") /\ faults < MaxFaults
    /\ faults' = faults + 1
    /\ Ends(r)
    /\ UNCHANGED <<draft, records, updates>>

Plans(r) == Search(r) \/ Choose(r) \/ ReadPlan(r) \/ Persist(r) \/ MarkSaved(r)
Books(r) ==
    \/ Forward(r) \/ Attach(r) \/ Cancel(r)
    \/ Import(r) \/ Retire(r) \/ Subscribe(r) \/ PutWatchpoints(r) \/ Clear(r)
Next ==
    \E r \in Request :
        Receive(r) \/ Open(r) \/ Plans(r) \/ Books(r) \/ Refused(r) \/ Shown(r) \/ Crash(r)

Spec == Init /\ [][Next]_vars

-----------------------------------------------------------------------------
\* _select, _save_plan: the choice is one of the options stored with it, though
\* the options are generated while other updates change the draft; _save_plan
\* would otherwise find no option to save.
ChoiceIsOnOffer == draft.chosen # Nothing => draft.chosen \in draft.options

\* _persist_planned_trip comes before the draft tells of it: a draft that names
\* its planned trip names one that is stored, whatever request died.
SavedPlanIsStored == draft.plan # Nothing => trips[draft.plan] # "NONE"

\* A planned trip a booking replaced, closed by a write without a version, is
\* never opened again by a request that still holds the plan.
ClosedStaysClosed == [][\A o \in Planned : trips[o] = "CLOSED" => trips'[o] = "CLOSED"]_vars

\* "Clear the draft only after the durable trip and its first watchpoints
\* exist": when Save takes the draft away, the trip it read is stored and
\* watched and the plan it replaces is closed, whatever other updates did.
Saves(r) == job[r].pc \in {"retire", "subscribe", "watch", "clear"}
SaveClearsLast ==
    [][\A r \in Request :
        Saves(r) /\ job'[r] # job[r] /\ draft.version > 0 /\ draft'.version = 0 =>
            /\ trips[Copy(r).bookings] = "ACTIVE"
            /\ Copy(r).bookings \in subscribed \cap watched
            /\ Copy(r).plan # Nothing => trips[Copy(r).plan] = "CLOSED"]_vars

\* A saved trip that is not watched is still being saved, or can be saved again
\* from the draft. Not so when the request died and the draft was then changed
\* or discarded.
SavedIsWatched ==
    \A b \in Booked \ watched : trips[b] = "ACTIVE" =>
        \/ draft.bookings = b
        \/ \E r \in Request : job[r].pc \in {"retire", "subscribe", "watch"} /\ Copy(r).bookings = b

\* A booking leaves the draft only by a request that has seen it. Not so when the
\* draft is discarded and begun anew: the versions start at 1 again, and a slow
\* request writes over a draft it never read.
OnlySeenBookingsLeave ==
    [][\A b \in draft.bookings \ draft'.bookings :
        \E r \in Request : job'[r] # job[r] /\ b \in Copy(r).bookings]_vars

\* When Save closes the plan a booking replaces, no other plan is left over. Not
\* so when a second search was planned: the draft forgets the first planned trip.
OnlyVerifiedTripsRemain ==
    [][\A r \in Request : At(r, "clear") /\ draft'.version < draft.version =>
        \A o \in Planned : trips[o] # "PLANNED"]_vars
=============================================================================
