--------------------------- MODULE TripDrafts_proofs ---------------------------
(***************************************************************************)
(* Proofs about TripDrafts, for any number of requests, options, bookings, *)
(* updates and deaths.  What a step does to the stored trips is one lemma  *)
(* (TripsMove); the invariant says what a request knows at each await.     *)
(***************************************************************************)
EXTENDS TripDrafts, TLAPS

\* What saving has brought about when a request is at a later await of it.
SavesInOrder ==
    \A r \in Request :
        /\ At(r, "save") \/ Saves(r) => Copy(r).bookings \in Booked
        /\ Saves(r) => trips[Copy(r).bookings] = "ACTIVE"
        /\ job[r].pc \in {"subscribe", "watch", "clear"} /\ Copy(r).plan # Nothing =>
               trips[Copy(r).plan] = "CLOSED"
        /\ job[r].pc \in {"watch", "clear"} => Copy(r).bookings \in subscribed
        /\ At(r, "clear") => Copy(r).bookings \in watched

\* A copy is a draft that was once stored, so it keeps what drafts keep.
OnOffer(d) == d.chosen # Nothing => d.chosen \in d.options
PlanIsStored(d) == d.plan # Nothing => trips[d.plan] # "NONE"

ChoicesOnOffer ==
    /\ OnOffer(draft)
    /\ \A r \in Request :
        /\ OnOffer(Copy(r))
        /\ At(r, "choose") => job[r].pick \in Copy(r).options

PlansStored ==
    /\ PlanIsStored(draft)
    /\ \A r \in Request :
        /\ PlanIsStored(Copy(r))
        /\ At(r, "persist") \/ At(r, "mark") => Copy(r).chosen \in Option
        /\ At(r, "mark") => trips[Copy(r).chosen] # "NONE"

IInv == TypeOK /\ SavesInOrder /\ ChoicesOnOffer /\ PlansStored

-----------------------------------------------------------------------------
\* Jobs are records of the type and a new draft has it too.
LEMMA NoDraftTyped == NoDraft \in Draft /\ Idle \in [pc : PC, copy : Draft, pick : Option \cup {Nothing}]
BY DEF NoDraft, Draft, Idle, PC, Planned

LEMMA TypeInit == Init => TypeOK
BY NoDraftTyped, DraftsAssumption DEF Init, TypeOK, Planned, Booked

\* What the requests that write the draft store is a draft.
LEMMA StoredTyped ==
    ASSUME TypeOK, NEW r \in Request
    PROVE  /\ Copy(r) \in Draft
           /\ \A new \in Replanned(Copy(r)) \cup Forwarded(Copy(r)) : new \in Draft
           /\ \A new \in Draft : [new EXCEPT !.version = draft.version + 1] \in Draft
           /\ [Copy(r) EXCEPT !.chosen = job[r].pick] \in Draft
           /\ Copy(r).chosen \in Option =>
                  [Copy(r) EXCEPT !.saved = TRUE, !.plan = Copy(r).chosen] \in Draft
<1>1. Copy(r) \in Draft /\ job[r].pick \in Option \cup {Nothing} /\ draft.version \in Nat
  BY DEF TypeOK, Copy, Draft
<1>2. \A new \in Replanned(Copy(r)) : new \in Draft
  <2>. SUFFICES ASSUME NEW found \in SUBSET Option
               PROVE  [Copy(r) EXCEPT !.options = found, !.chosen = Nothing, !.saved = FALSE] \in Draft
    BY <1>1 DEF Replanned
  <2>. QED BY <1>1 DEF Draft
<1>3. \A new \in Forwarded(Copy(r)) : new \in Draft
  BY <1>1 DEF Forwarded, Draft
<1>4. \A new \in Draft : [new EXCEPT !.version = draft.version + 1] \in Draft
  BY <1>1 DEF Draft
<1>5. [Copy(r) EXCEPT !.chosen = job[r].pick] \in Draft
  BY <1>1 DEF Draft
<1>6. Copy(r).chosen \in Option =>
          [Copy(r) EXCEPT !.saved = TRUE, !.plan = Copy(r).chosen] \in Draft
  BY <1>1 DEF Draft, Planned
<1>. QED BY <1>1, <1>2, <1>3, <1>4, <1>5, <1>6

JobType == [pc : PC, copy : Draft, pick : Option \cup {Nothing}]

\* Every way a request goes on leaves it a job.
LEMMA JobTyped ==
    ASSUME TypeOK, NEW r \in Request
    PROVE  /\ Ends(r) => job' \in [Request -> JobType]
           /\ \A pc \in PC : GoTo(r, pc) => job' \in [Request -> JobType]
           /\ \A pc \in PC, copy \in Draft, pick \in Option \cup {Nothing} :
                  job' = [job EXCEPT ![r] = [pc |-> pc, copy |-> copy, pick |-> pick]]
                      => job' \in [Request -> JobType]
           /\ \A copy \in Draft : job' = [job EXCEPT ![r].copy = copy] => job' \in [Request -> JobType]
           /\ \A pc \in PC, copy \in Draft :
                  job' = [job EXCEPT ![r].pc = pc, ![r].copy = copy] => job' \in [Request -> JobType]
<1>1. job \in [Request -> JobType] BY DEF TypeOK, JobType
<1>. QED BY <1>1, NoDraftTyped DEF Ends, GoTo, JobType

-----------------------------------------------------------------------------
(* Type correctness, by what a step may change. *)

LEMMA DraftTyped ==
    ASSUME TypeOK, PlansStored, NEW r \in Request,
           \/ Receive(r) \/ Open(r) \/ Plans(r) \/ Books(r) \/ Refused(r) \/ Shown(r) \/ Crash(r)
    PROVE  draft' \in Draft
<1>1. draft \in Draft /\ NoDraft \in Draft
  BY NoDraftTyped DEF TypeOK
<1>2. CASE Open(r)
  BY <1>1, <1>2, StoredTyped DEF Open, Store
<1>3. CASE Search(r)
  BY <1>3, StoredTyped DEF Search, Store
<1>4. CASE Choose(r)
  BY <1>4, StoredTyped DEF Choose, Store
<1>5. CASE MarkSaved(r)
  <2>1. Copy(r).chosen \in Option
    BY <1>5 DEF MarkSaved, PlansStored
  <2>. QED BY <1>5, <2>1, StoredTyped DEF MarkSaved, Store
<1>6. CASE Forward(r)
  BY <1>6, StoredTyped DEF Forward, Store
<1>7. CASE Attach(r)
  BY <1>1, <1>7, StoredTyped DEF Attach, Store
<1>8. CASE Cancel(r) \/ Clear(r)
  BY <1>1, <1>8 DEF Cancel, Clear
<1>9. CASE Receive(r) \/ ReadPlan(r) \/ Persist(r) \/ Import(r) \/ Retire(r) \/ Subscribe(r)
           \/ PutWatchpoints(r) \/ Refused(r) \/ Shown(r) \/ Crash(r)
  BY <1>1, <1>9 DEF Receive, ReadPlan, Persist, Import, Retire, Subscribe, PutWatchpoints,
                   Refused, Shown, Crash
<1>. QED BY <1>2, <1>3, <1>4, <1>5, <1>6, <1>7, <1>8, <1>9 DEF Plans, Books

LEMMA JobsTyped ==
    ASSUME TypeOK, PlansStored, NEW r \in Request,
           \/ Receive(r) \/ Open(r) \/ Plans(r) \/ Books(r) \/ Refused(r) \/ Shown(r) \/ Crash(r)
    PROVE  job' \in [Request -> JobType]
<1>1. draft \in Draft /\ draft' \in Draft
  BY DraftTyped DEF TypeOK
<1>2. CASE Receive(r)
  <2>. PICK k \in Wanted : job' = [job EXCEPT ![r] = [pc |-> k[1], copy |-> draft, pick |-> k[2]]]
    BY <1>2 DEF Receive
  <2>. k[1] \in PC /\ k[2] \in Option \cup {Nothing}
    BY <1>1 DEF Wanted, PC, Draft
  <2>. QED BY <1>1, JobTyped
<1>3. CASE Open(r)
  BY <1>1, <1>3, JobTyped DEF Open
<1>4. CASE ReadPlan(r)
  <2>. "persist" \in PC BY DEF PC
  <2>. QED BY <1>1, <1>4, JobTyped DEF ReadPlan
<1>5. CASE Forward(r)
  <2>. "attach" \in PC BY DEF PC
  <2>. QED BY <1>1, <1>5, JobTyped DEF Forward
<1>6. CASE Choose(r) \/ Persist(r) \/ Import(r) \/ Retire(r) \/ Subscribe(r) \/ PutWatchpoints(r)
  <2>. \A pc \in {"plan", "mark", "retire", "subscribe", "watch", "clear"} : pc \in PC
    BY DEF PC
  <2>. QED BY <1>6, JobTyped DEF Choose, Persist, Import, Retire, Subscribe, PutWatchpoints
<1>7. CASE Search(r) \/ MarkSaved(r) \/ Attach(r) \/ Cancel(r) \/ Clear(r) \/ Refused(r)
           \/ Shown(r) \/ Crash(r)
  BY <1>7, JobTyped DEF Search, MarkSaved, Attach, Cancel, Clear, Refused, Shown, Crash
<1>. QED BY <1>2, <1>3, <1>4, <1>5, <1>6, <1>7 DEF Plans, Books

\* The stored trips: what is there stays, what is booked stays active and what is
\* closed stays closed; saving adds what is monitored.
TripsKept ==
    /\ trips' \in [Planned \cup Booked -> {"NONE", "PLANNED", "ACTIVE", "CLOSED"}]
    /\ \A o \in Planned : trips'[o] # "ACTIVE"
    /\ \A b \in Booked : trips'[b] \in {"NONE", "ACTIVE"}
    /\ \A t \in Planned \cup Booked : trips[t] # "NONE" => trips'[t] # "NONE"
    /\ \A t \in Planned \cup Booked : trips[t] \in {"ACTIVE", "CLOSED"} => trips'[t] = trips[t]
    /\ subscribed \subseteq subscribed' /\ subscribed' \subseteq Booked
    /\ watched \subseteq watched' /\ watched' \subseteq Booked

LEMMA TripsMove ==
    ASSUME TypeOK, SavesInOrder, PlansStored, NEW r \in Request,
           \/ Receive(r) \/ Open(r) \/ Plans(r) \/ Books(r) \/ Refused(r) \/ Shown(r) \/ Crash(r)
    PROVE  TripsKept
<1>1. /\ trips \in [Planned \cup Booked -> {"NONE", "PLANNED", "ACTIVE", "CLOSED"}]
      /\ \A o \in Planned : trips[o] # "ACTIVE"
      /\ \A b \in Booked : trips[b] \in {"NONE", "ACTIVE"}
      /\ subscribed \subseteq Booked /\ watched \subseteq Booked
      /\ Copy(r).plan \in Planned \cup {Nothing}
      /\ Planned \cap Booked = {}
  BY DraftsAssumption DEF TypeOK, Copy, Draft, Planned, Booked
<1>2. CASE Persist(r)
  <2>. Copy(r).chosen \in Planned /\ UNCHANGED <<subscribed, watched>>
    BY <1>2 DEF PlansStored, Persist, Planned
  <2>. QED BY <1>1, <1>2 DEF Persist, Created, TripsKept
<1>3. CASE Import(r)
  <2>. Copy(r).bookings \in Booked /\ UNCHANGED <<subscribed, watched>>
    BY <1>3 DEF SavesInOrder, Import
  <2>. QED BY <1>1, <1>3 DEF Import, Created, TripsKept
<1>4. CASE Retire(r)
  BY <1>1, <1>4 DEF Retire, TripsKept
<1>5. CASE Subscribe(r) \/ PutWatchpoints(r)
  <2>. Copy(r).bookings \in Booked
    BY <1>5 DEF SavesInOrder, Subscribe, PutWatchpoints, Saves, At
  <2>. QED BY <1>1, <1>5 DEF Subscribe, PutWatchpoints, TripsKept
<1>6. CASE Receive(r) \/ Open(r) \/ Search(r) \/ Choose(r) \/ ReadPlan(r) \/ MarkSaved(r)
           \/ Forward(r) \/ Attach(r) \/ Cancel(r) \/ Clear(r) \/ Refused(r) \/ Shown(r) \/ Crash(r)
  <2>. UNCHANGED records
    BY <1>6 DEF Receive, Open, Search, Choose, ReadPlan, MarkSaved, Forward, Attach, Cancel, Clear,
                Refused, Shown, Crash
  <2>. QED BY <1>1 DEF records, TripsKept
<1>. QED BY <1>2, <1>3, <1>4, <1>5, <1>6 DEF Plans, Books

LEMMA CountersTyped ==
    ASSUME TypeOK, NEW r \in Request,
           \/ Receive(r) \/ Open(r) \/ Plans(r) \/ Books(r) \/ Refused(r) \/ Shown(r) \/ Crash(r)
    PROVE  updates' \in 0 .. MaxUpdates /\ faults' \in 0 .. MaxFaults
<1>1. updates \in 0 .. MaxUpdates /\ faults \in 0 .. MaxFaults
  BY DEF TypeOK
<1>2. CASE Receive(r) \/ Crash(r)
  BY <1>1, <1>2, DraftsAssumption DEF Receive, Crash
<1>3. CASE UNCHANGED <<updates, faults>>
  BY <1>1, <1>3
<1>. QED
  BY <1>2, <1>3 DEF Plans, Books, Open, Search, Choose, ReadPlan, Persist, MarkSaved, Forward,
       Attach, Cancel, Import, Retire, Subscribe, PutWatchpoints, Clear, Refused, Shown
LEMMA TypeNext ==
    ASSUME TypeOK, SavesInOrder, PlansStored, NEW r \in Request,
           \/ Receive(r) \/ Open(r) \/ Plans(r) \/ Books(r) \/ Refused(r) \/ Shown(r) \/ Crash(r)
    PROVE  TypeOK'
BY DraftTyped, JobsTyped, TripsMove, CountersTyped DEF TypeOK, TripsKept, JobType

-----------------------------------------------------------------------------
(* The parts of the invariant. *)

LEMMA SavesNext ==
    ASSUME TypeOK, SavesInOrder, PlansStored, NEW r \in Request,
           \/ Receive(r) \/ Open(r) \/ Plans(r) \/ Books(r) \/ Refused(r) \/ Shown(r) \/ Crash(r)
    PROVE  SavesInOrder'
<1>1. TripsKept /\ job \in [Request -> JobType] /\ draft \in Draft
  BY TripsMove DEF TypeOK, JobType
<1>2. SUFFICES ASSUME NEW q \in Request
      PROVE  /\ At(q, "save")' \/ Saves(q)' => Copy(q)'.bookings \in Booked
             /\ Saves(q)' => trips'[Copy(q)'.bookings] = "ACTIVE"
             /\ job'[q].pc \in {"subscribe", "watch", "clear"} /\ Copy(q)'.plan # Nothing =>
                    trips'[Copy(q)'.plan] = "CLOSED"
             /\ job'[q].pc \in {"watch", "clear"} => Copy(q)'.bookings \in subscribed'
             /\ At(q, "clear")' => Copy(q)'.bookings \in watched'
  BY DEF SavesInOrder
<1>3. CASE job'[q] = job[q]
  <2>1. At(q, "save")' = At(q, "save") /\ Saves(q)' = Saves(q) /\ Copy(q)' = Copy(q)
        /\ At(q, "clear")' = At(q, "clear")
    BY <1>3 DEF At, Saves, Copy
  <2>2. Copy(q).plan \in Planned \cup {Nothing}
    BY <1>1 DEF JobType, Copy, Draft
  <2>. QED BY <1>1, <1>3, <2>1, <2>2 DEF SavesInOrder, TripsKept
<1>4. CASE q = r /\ job'[r].pc \notin {"save", "retire", "subscribe", "watch", "clear"}
  BY <1>4 DEF At, Saves
<1>5. CASE Receive(r)
  <2>. PICK k \in Wanted : job' = [job EXCEPT ![r] = [pc |-> k[1], copy |-> draft, pick |-> k[2]]]
    BY <1>5 DEF Receive
  <2>1. k[1] = "save" => draft.bookings \in Booked
    <3>1. \/ k[1] \in {"start", "search", "forward", "plan", "choose", "cancel"}
          \/ k \in {<<pc, Nothing>> : pc \in {p \in {"save"} : draft.bookings # {}}}
      BY DEF Wanted
    <3>2. CASE k \in {<<pc, Nothing>> : pc \in {p \in {"save"} : draft.bookings # {}}}
      <4>. draft.bookings # {} /\ draft.bookings \subseteq Booking
        BY <1>1, <3>2 DEF Draft
      <4>. QED BY DEF Booked
    <3>. QED BY <3>1, <3>2
  <2>2. k[1] \notin {"retire", "subscribe", "watch", "clear"}
    BY DEF Wanted
  <2>. QED BY <1>1, <1>3, <2>1, <2>2 DEF At, Saves, Copy, JobType
<1>6. CASE Import(r)
  <2>1. At(r, "save") /\ Copy(r).bookings \in Booked
    BY <1>6 DEF Import, SavesInOrder
  <2>2. trips'[Copy(r).bookings] = "ACTIVE"
    BY <1>6, <2>1 DEF Import, Created, TypeOK
  <2>3. job'[r].pc = "retire" /\ Copy(r)' = Copy(r) /\ (q # r => job'[q] = job[q])
    BY <1>1, <1>6 DEF Import, GoTo, Copy, JobType
  <2>. QED BY <1>3, <2>1, <2>2, <2>3 DEF At, Saves
<1>7. CASE Retire(r)
  <2>1. At(r, "retire") /\ Copy(r).bookings \in Booked /\ trips[Copy(r).bookings] = "ACTIVE"
    BY <1>7 DEF Retire, SavesInOrder, Saves, At
  <2>2. Copy(r).plan # Nothing => trips'[Copy(r).plan] = "CLOSED"
    <3>. SUFFICES ASSUME Copy(r).plan # Nothing PROVE trips'[Copy(r).plan] = "CLOSED"
      OBVIOUS
    <3>. trips[Copy(r).plan] # "NONE" /\ Copy(r).plan \in Planned
      BY <1>1 DEF PlansStored, PlanIsStored, JobType, Copy, Draft
    <3>. QED BY <1>7 DEF Retire, TypeOK
  <2>3. job'[r].pc = "subscribe" /\ Copy(r)' = Copy(r) /\ (q # r => job'[q] = job[q])
    BY <1>1, <1>7 DEF Retire, GoTo, Copy, JobType
  <2>. QED BY <1>1, <1>3, <2>1, <2>2, <2>3 DEF At, Saves, TripsKept
<1>8. CASE Subscribe(r)
  <2>1. /\ At(r, "subscribe") /\ Copy(r).bookings \in Booked /\ trips[Copy(r).bookings] = "ACTIVE"
        /\ Copy(r).plan # Nothing => trips[Copy(r).plan] = "CLOSED"
        /\ UNCHANGED trips /\ Copy(r).bookings \in subscribed'
    BY <1>8 DEF Subscribe, SavesInOrder, Saves, At
  <2>2. job'[r].pc = "watch" /\ Copy(r)' = Copy(r) /\ (q # r => job'[q] = job[q])
    BY <1>1, <1>8 DEF Subscribe, GoTo, Copy, JobType
  <2>. QED BY <1>3, <2>1, <2>2 DEF At, Saves
<1>9. CASE PutWatchpoints(r)
  <2>1. /\ At(r, "watch") /\ Copy(r).bookings \in Booked /\ trips[Copy(r).bookings] = "ACTIVE"
        /\ Copy(r).plan # Nothing => trips[Copy(r).plan] = "CLOSED"
        /\ UNCHANGED <<trips, subscribed>> /\ Copy(r).bookings \in subscribed \cap watched'
    BY <1>9 DEF PutWatchpoints, SavesInOrder, Saves, At
  <2>2. job'[r].pc = "clear" /\ Copy(r)' = Copy(r) /\ (q # r => job'[q] = job[q])
    BY <1>1, <1>9 DEF PutWatchpoints, GoTo, Copy, JobType
  <2>. QED BY <1>3, <2>1, <2>2 DEF At, Saves
<1>10. CASE Open(r) \/ Choose(r) \/ ReadPlan(r) \/ Persist(r) \/ Forward(r)
  <2>1. q # r => job'[q] = job[q]
    BY <1>1, <1>10 DEF Open, Choose, ReadPlan, Persist, Forward, GoTo, Ends
  <2>2. job'[r].pc \in {"idle", "search", "forward", "plan", "persist", "mark", "attach"}
    <3>1. CASE Open(r)
      BY <1>1, <3>1 DEF Open, At, Ends, Idle, JobType
    <3>2. CASE Choose(r) \/ Persist(r)
      BY <1>1, <3>2 DEF Choose, Persist, GoTo, JobType
    <3>3. CASE ReadPlan(r) \/ Forward(r)
      BY <1>1, <3>3 DEF ReadPlan, Forward, Ends, Idle, JobType
    <3>. QED BY <1>10, <3>1, <3>2, <3>3
  <2>. QED BY <1>3, <1>4, <2>1, <2>2
<1>11. CASE Search(r) \/ MarkSaved(r) \/ Attach(r) \/ Cancel(r) \/ Clear(r) \/ Refused(r)
            \/ Shown(r) \/ Crash(r)
  <2>1. job' = [job EXCEPT ![r] = Idle]
    BY <1>11 DEF Search, MarkSaved, Attach, Cancel, Clear, Refused, Shown, Crash, Ends
  <2>. QED BY <1>1, <1>3, <1>4, <2>1 DEF Idle
<1>. QED BY <1>5, <1>6, <1>7, <1>8, <1>9, <1>10, <1>11 DEF Plans, Books
\* The copy a step leaves with a request: its own, a draft it stored, or none.
LEMMA CopiesMove ==
    ASSUME TypeOK, NEW r \in Request, NEW q \in Request,
           \/ Receive(r) \/ Open(r) \/ Plans(r) \/ Books(r) \/ Refused(r) \/ Shown(r) \/ Crash(r)
    PROVE  Copy(q)' \in {Copy(q), draft, draft', NoDraft}
<1>1. job \in [Request -> JobType]
  BY DEF TypeOK, JobType
<1>2. CASE Receive(r)
  BY <1>1, <1>2 DEF Receive, Copy, JobType
<1>3. CASE Open(r)
  BY <1>1, <1>3 DEF Open, Ends, Idle, Copy, JobType
<1>4. CASE Choose(r) \/ Persist(r) \/ Import(r) \/ Retire(r) \/ Subscribe(r) \/ PutWatchpoints(r)
  BY <1>1, <1>4 DEF Choose, Persist, Import, Retire, Subscribe, PutWatchpoints, GoTo, Copy, JobType
<1>5. CASE ReadPlan(r) \/ Forward(r)
  BY <1>1, <1>5 DEF ReadPlan, Forward, Ends, Idle, Copy, JobType
<1>6. CASE Search(r) \/ MarkSaved(r) \/ Attach(r) \/ Cancel(r) \/ Clear(r) \/ Refused(r)
           \/ Shown(r) \/ Crash(r)
  <2>1. job' = [job EXCEPT ![r] = Idle]
    BY <1>6 DEF Search, MarkSaved, Attach, Cancel, Clear, Refused, Shown, Crash, Ends
  <2>. QED BY <1>1, <2>1 DEF Idle, Copy, JobType
<1>. QED BY <1>2, <1>3, <1>4, <1>5, <1>6 DEF Plans, Books

\* The draft a step leaves: an old one under a new version, one with the choice
\* of the request, one with its planned trip, one whose choice is taken back.
LEMMA DraftsMove ==
    ASSUME TypeOK, NEW r \in Request,
           \/ Receive(r) \/ Open(r) \/ Plans(r) \/ Books(r) \/ Refused(r) \/ Shown(r) \/ Crash(r)
    PROVE  \/ draft' = draft
           \/ \E d \in {Copy(r), NoDraft} :
                  draft'.chosen = d.chosen /\ draft'.options = d.options /\ draft'.plan = d.plan
           \/ Search(r) /\ draft'.chosen = Nothing /\ draft'.plan = Copy(r).plan
           \/ Choose(r) /\ draft'.chosen = job[r].pick /\ draft'.options = Copy(r).options
                        /\ draft'.plan = Copy(r).plan
           \/ MarkSaved(r) /\ draft'.chosen = Copy(r).chosen /\ draft'.options = Copy(r).options
                           /\ draft'.plan = Copy(r).chosen
<1>1. Copy(r) \in Draft /\ NoDraft \in Draft
  BY NoDraftTyped DEF TypeOK, Copy
<1>2. CASE Open(r)
  BY <1>1, <1>2 DEF Open, Store, Draft
<1>3. CASE Search(r)
  BY <1>1, <1>3 DEF Search, Store, Replanned, Draft
<1>4. CASE Choose(r)
  BY <1>1, <1>4 DEF Choose, Store, Draft
<1>5. CASE MarkSaved(r)
  BY <1>1, <1>5 DEF MarkSaved, Store, Draft
<1>6. CASE Forward(r)
  <2>1. PICK new \in Forwarded(Copy(r)) : Store(r, new)
    BY <1>6 DEF Forward
  <2>2. new \in Draft /\ new.chosen = Copy(r).chosen /\ new.options = Copy(r).options
        /\ new.plan = Copy(r).plan
    <3>1. new \in Draft
      BY StoredTyped
    <3>2. CASE new = Copy(r)
      BY <3>1, <3>2
    <3>3. ASSUME NEW found \in SUBSET Booking, new = [Copy(r) EXCEPT !.bookings = found]
          PROVE  new.chosen = Copy(r).chosen /\ new.options = Copy(r).options
                 /\ new.plan = Copy(r).plan
      BY <1>1, <3>3 DEF Draft
    <3>4. \/ new = Copy(r)
          \/ \E found \in SUBSET Booking : new = [Copy(r) EXCEPT !.bookings = found]
      <4>1. Copy(r).bookings \subseteq Booking
        BY <1>1 DEF Draft
      <4>. QED BY <4>1 DEF Forwarded
    <3>. QED BY <3>1, <3>2, <3>3, <3>4
  <2>. QED BY <2>1, <2>2 DEF Store, Draft
<1>7. CASE Attach(r) \/ Cancel(r) \/ Clear(r)
  BY <1>1, <1>7 DEF Attach, Cancel, Clear, Store, Draft
<1>8. CASE Receive(r) \/ ReadPlan(r) \/ Persist(r) \/ Import(r) \/ Retire(r) \/ Subscribe(r)
           \/ PutWatchpoints(r) \/ Refused(r) \/ Shown(r) \/ Crash(r)
  BY <1>8 DEF Receive, ReadPlan, Persist, Import, Retire, Subscribe, PutWatchpoints, Refused,
              Shown, Crash
<1>. QED BY <1>2, <1>3, <1>4, <1>5, <1>6, <1>7, <1>8 DEF Plans, Books

LEMMA ChoicesNext ==
    ASSUME TypeOK, ChoicesOnOffer, NEW r \in Request,
           \/ Receive(r) \/ Open(r) \/ Plans(r) \/ Books(r) \/ Refused(r) \/ Shown(r) \/ Crash(r)
    PROVE  ChoicesOnOffer'
<1>1. job \in [Request -> JobType] /\ OnOffer(NoDraft)
  BY DEF TypeOK, JobType, OnOffer, NoDraft
<1>2. OnOffer(draft')
  BY <1>1, DraftsMove DEF ChoicesOnOffer, OnOffer, Choose
<1>3. \A q \in Request : OnOffer(Copy(q)')
  <2>. SUFFICES ASSUME NEW q \in Request PROVE OnOffer(Copy(q)')
    OBVIOUS
  <2>. QED BY <1>1, <1>2, CopiesMove DEF ChoicesOnOffer
<1>4. ASSUME NEW q \in Request, At(q, "choose")' PROVE job'[q].pick \in Copy(q)'.options
  <2>1. CASE job'[q] = job[q]
    BY <1>4, <2>1 DEF ChoicesOnOffer, At, Copy
  <2>2. CASE Receive(r)
    <3>. PICK k \in Wanted : job' = [job EXCEPT ![r] = [pc |-> k[1], copy |-> draft, pick |-> k[2]]]
      BY <2>2 DEF Receive
    <3>1. k[1] = "choose" => k[2] \in draft.options
      BY DEF Wanted
    <3>. QED BY <1>1, <1>4, <2>1, <3>1 DEF At, Copy, JobType
  <2>3. CASE q # r \/ job'[r].pc # "choose"
    <3>. q # r
      BY <1>4, <2>3 DEF At
    <3>1. job'[q] = job[q] \/ Receive(r)
      BY <1>1 DEF Open, Plans, Books, Refused, Shown, Crash, Search, Choose, ReadPlan, Persist,
           MarkSaved, Forward, Attach, Cancel, Import, Retire, Subscribe, PutWatchpoints, Clear,
           GoTo, Ends
    <3>. QED BY <2>1, <2>2, <3>1
  <2>4. CASE ~Receive(r) /\ q = r
    <3>1. CASE Open(r)
      BY <1>1, <1>4, <2>4, <3>1 DEF Open, Ends, Idle, At, JobType
    <3>2. CASE Choose(r) \/ Persist(r) \/ Import(r) \/ Retire(r) \/ Subscribe(r) \/ PutWatchpoints(r)
      BY <1>1, <1>4, <2>4, <3>2
      DEF Choose, Persist, Import, Retire, Subscribe, PutWatchpoints, GoTo, At, JobType
    <3>3. CASE ReadPlan(r) \/ Forward(r)
      BY <1>1, <1>4, <2>4, <3>3 DEF ReadPlan, Forward, Ends, Idle, At, JobType
    <3>4. CASE Search(r) \/ MarkSaved(r) \/ Attach(r) \/ Cancel(r) \/ Clear(r) \/ Refused(r)
              \/ Shown(r) \/ Crash(r)
      <4>1. job' = [job EXCEPT ![r] = Idle]
        BY <3>4 DEF Search, MarkSaved, Attach, Cancel, Clear, Refused, Shown, Crash, Ends
      <4>. QED BY <1>1, <1>4, <2>4, <4>1 DEF Idle, At, JobType
    <3>. QED BY <2>4, <3>1, <3>2, <3>3, <3>4 DEF Plans, Books
  <2>. QED BY <2>2, <2>3, <2>4
<1>. QED BY <1>2, <1>3, <1>4 DEF ChoicesOnOffer, OnOffer
LEMMA PlansNext ==
    ASSUME TypeOK, SavesInOrder, PlansStored, NEW r \in Request,
           \/ Receive(r) \/ Open(r) \/ Plans(r) \/ Books(r) \/ Refused(r) \/ Shown(r) \/ Crash(r)
    PROVE  PlansStored'
<1>1. /\ job \in [Request -> JobType] /\ draft \in Draft /\ draft' \in Draft /\ TripsKept
      /\ \A q \in Request : Copy(q) \in Draft
  BY DraftTyped, TripsMove DEF TypeOK, JobType, Copy
<1>2. \A d \in Draft : PlanIsStored(d) /\ d.plan # Nothing => trips'[d.plan] # "NONE"
  BY <1>1 DEF PlanIsStored, TripsKept, Draft
<1>3. draft'.plan # Nothing => trips'[draft'.plan] # "NONE"
  <2>1. CASE draft' = draft \/ draft'.plan = Copy(r).plan \/ draft'.plan = NoDraft.plan
    BY <1>1, <1>2, <2>1 DEF PlansStored, PlanIsStored, NoDraft
  <2>2. CASE MarkSaved(r) /\ draft'.plan = Copy(r).chosen
    <3>. Copy(r).chosen \in Planned /\ trips[Copy(r).chosen] # "NONE"
      BY <2>2 DEF MarkSaved, PlansStored, Planned
    <3>. QED BY <1>1, <2>2 DEF TripsKept
  <2>. QED BY <2>1, <2>2, DraftsMove
<1>4. \A q \in Request : Copy(q)'.plan # Nothing => trips'[Copy(q)'.plan] # "NONE"
  <2>. SUFFICES ASSUME NEW q \in Request
       PROVE  Copy(q)'.plan # Nothing => trips'[Copy(q)'.plan] # "NONE"
    OBVIOUS
  <2>1. CASE Copy(q)' = Copy(q) \/ Copy(q)' = draft
    BY <1>1, <1>2, <2>1 DEF PlansStored
  <2>2. CASE Copy(q)' = draft'
    BY <1>3, <2>2
  <2>3. CASE Copy(q)' = NoDraft
    BY <2>3 DEF NoDraft
  <2>. QED BY <2>1, <2>2, <2>3, CopiesMove
<1>5. ASSUME NEW q \in Request, job'[q].pc \in {"persist", "mark"}
      PROVE  /\ Copy(q)'.chosen \in Option
             /\ job'[q].pc = "mark" => trips'[Copy(q)'.chosen] # "NONE"
  <2>1. CASE job'[q] = job[q]
    <3>. Copy(q)' = Copy(q) /\ Copy(q).chosen \in Option
         /\ (job[q].pc = "mark" => trips[Copy(q).chosen] # "NONE")
      BY <1>5, <2>1 DEF PlansStored, At, Copy
    <3>. QED BY <1>1, <2>1 DEF TripsKept, Planned
  <2>2. CASE ReadPlan(r)
    <3>1. q # r => job'[q] = job[q]
      BY <1>1, <2>2 DEF ReadPlan, Ends
    <3>2. q = r => Copy(r)' = draft /\ job'[r].pc = "persist" /\ draft.chosen # Nothing
      BY <1>1, <1>5, <2>2 DEF ReadPlan, Ends, Idle, Copy, JobType
    <3>. QED BY <1>1, <2>1, <3>1, <3>2 DEF Draft
  <2>3. CASE Persist(r)
    <3>1. q # r => job'[q] = job[q]
      BY <1>1, <2>3 DEF Persist, GoTo
    <3>2. q = r => Copy(r)' = Copy(r) /\ Copy(r).chosen \in Planned /\ trips'[Copy(r).chosen] # "NONE"
      BY <1>1, <2>3 DEF Persist, GoTo, Created, Copy, JobType, PlansStored, At, Planned, TypeOK
    <3>. QED BY <2>1, <3>1, <3>2 DEF Planned
  <2>4. CASE Receive(r)
    <3>. PICK k \in Wanted : job' = [job EXCEPT ![r] = [pc |-> k[1], copy |-> draft, pick |-> k[2]]]
      BY <2>4 DEF Receive
    <3>. k[1] \notin {"persist", "mark"}
      BY DEF Wanted
    <3>. QED BY <1>1, <1>5, <2>1 DEF JobType
  <2>5. CASE Open(r) \/ Forward(r)
    BY <1>1, <1>5, <2>1, <2>5 DEF Open, Forward, Ends, Idle, At, JobType
  <2>6. CASE Choose(r) \/ Import(r) \/ Retire(r) \/ Subscribe(r) \/ PutWatchpoints(r)
    BY <1>1, <1>5, <2>1, <2>6 DEF Choose, Import, Retire, Subscribe, PutWatchpoints, GoTo, JobType
  <2>7. CASE Search(r) \/ MarkSaved(r) \/ Attach(r) \/ Cancel(r) \/ Clear(r) \/ Refused(r)
            \/ Shown(r) \/ Crash(r)
    <3>1. job' = [job EXCEPT ![r] = Idle]
      BY <2>7 DEF Search, MarkSaved, Attach, Cancel, Clear, Refused, Shown, Crash, Ends
    <3>. QED BY <1>1, <1>5, <2>1, <3>1 DEF Idle, JobType
  <2>. QED BY <2>2, <2>3, <2>4, <2>5, <2>6, <2>7 DEF Plans, Books
<1>. QED BY <1>3, <1>4, <1>5 DEF PlansStored, PlanIsStored, At

-----------------------------------------------------------------------------
LEMMA Inductive == IInv /\ [Next]_vars => IInv'
<1>. SUFFICES ASSUME IInv, [Next]_vars PROVE IInv'
  OBVIOUS
<1>1. ASSUME NEW r \in Request,
             \/ Receive(r) \/ Open(r) \/ Plans(r) \/ Books(r) \/ Refused(r) \/ Shown(r) \/ Crash(r)
      PROVE  IInv'
  BY <1>1, TypeNext, SavesNext, ChoicesNext, PlansNext DEF IInv
<1>2. CASE UNCHANGED vars
  <2>. UNCHANGED <<draft, trips, subscribed, watched, job, updates, faults>>
    BY <1>2 DEF vars, records
  <2>. QED BY DEF IInv, TypeOK, SavesInOrder, ChoicesOnOffer, PlansStored, OnOffer, PlanIsStored,
                  At, Saves, Copy
<1>. QED BY <1>1, <1>2 DEF Next

LEMMA Initial == Init => IInv
<1>. SUFFICES ASSUME Init PROVE IInv
  OBVIOUS
<1>1. TypeOK BY TypeInit
<1>2. \A r \in Request : job[r].pc = "idle" /\ Copy(r) = NoDraft
  BY DEF Init, Idle, Copy
<1>. QED BY <1>1, <1>2 DEF Init, IInv, SavesInOrder, ChoicesOnOffer, PlansStored, OnOffer,
                           PlanIsStored, At, Saves, NoDraft

LEMMA Invariance == Spec => []IInv
BY Initial, Inductive, PTL DEF Spec

-----------------------------------------------------------------------------
\* Every record and every copy of the draft keeps its type, for any number of
\* requests: see TypeOK.
THEOREM TypeCorrect == Spec => []TypeOK
<1>. IInv => TypeOK BY DEF IInv
<1>. QED BY Invariance, PTL

\* The chosen option is always one of those stored with it: _select and
\* _save_plan find what they look for.
THEOREM ChoiceStaysOnOffer == Spec => []ChoiceIsOnOffer
<1>. IInv => ChoiceIsOnOffer BY DEF IInv, ChoicesOnOffer, OnOffer, ChoiceIsOnOffer
<1>. QED BY Invariance, PTL

\* A planned trip the draft names is stored, whatever request died: the order of
\* _persist_planned_trip and the second write of _save_plan.
THEOREM SavedPlanStaysStored == Spec => []SavedPlanIsStored
<1>. IInv => SavedPlanIsStored BY DEF IInv, PlansStored, PlanIsStored, SavedPlanIsStored
<1>. QED BY Invariance, PTL

\* A plan a booking replaced is never opened again by a request that still holds
\* it: create_trip_once leaves what is there.
THEOREM ClosedPlansStayClosed == Spec => ClosedStaysClosed
<1>1. ASSUME IInv, [Next]_vars
      PROVE  [\A o \in Planned : trips[o] = "CLOSED" => trips'[o] = "CLOSED"]_vars
  <2>1. CASE UNCHANGED vars
    BY <2>1
  <2>2. ASSUME NEW r \in Request,
               \/ Receive(r) \/ Open(r) \/ Plans(r) \/ Books(r) \/ Refused(r) \/ Shown(r) \/ Crash(r)
        PROVE  \A o \in Planned : trips[o] = "CLOSED" => trips'[o] = "CLOSED"
    BY <1>1, <2>2, TripsMove DEF IInv, TripsKept
  <2>. QED BY <1>1, <2>1, <2>2 DEF Next
<1>. QED BY <1>1, Invariance, PTL DEF Spec, ClosedStaysClosed

\* When Save takes the draft away the trip it read is stored and watched and the
\* plan it replaces is closed: the order of _save_draft.
THEOREM SavingClearsLast == Spec => SaveClearsLast
<1>. DEFINE Kept ==
        \A r \in Request :
            Saves(r) /\ job'[r] # job[r] /\ draft.version > 0 /\ draft'.version = 0 =>
                /\ trips[Copy(r).bookings] = "ACTIVE"
                /\ Copy(r).bookings \in subscribed \cap watched
                /\ Copy(r).plan # Nothing => trips[Copy(r).plan] = "CLOSED"
<1>1. ASSUME IInv, [Next]_vars PROVE [Kept]_vars
  <2>1. CASE UNCHANGED vars
    BY <2>1
  <2>2. ASSUME NEW q \in Request,
               \/ Receive(q) \/ Open(q) \/ Plans(q) \/ Books(q) \/ Refused(q) \/ Shown(q) \/ Crash(q),
               NEW r \in Request,
               Saves(r), job'[r] # job[r], draft.version > 0, draft'.version = 0
        PROVE  At(r, "clear")
    <3>1. draft.version \in Nat /\ job \in [Request -> JobType]
      BY <1>1 DEF IInv, TypeOK, Draft, JobType
    <3>2. CASE Import(q) \/ Retire(q) \/ Subscribe(q) \/ PutWatchpoints(q)
      BY <2>2, <3>1, <3>2 DEF Import, Retire, Subscribe, PutWatchpoints
    <3>3. CASE Clear(q)
      BY <2>2, <3>1, <3>3 DEF Clear, Ends
    <3>4. CASE Open(q) \/ Search(q) \/ Choose(q) \/ ReadPlan(q) \/ Persist(q) \/ MarkSaved(q)
               \/ Forward(q) \/ Attach(q) \/ Cancel(q) \/ Receive(q) \/ Shown(q)
      <4>1. ~Saves(q)
        BY <3>4 DEF Open, Search, Choose, ReadPlan, Persist, MarkSaved, Forward, Attach, Cancel,
                    Receive, Shown, At, Saves
      <4>2. r # q => job'[r] = job[r]
        BY <3>1, <3>4 DEF Open, Search, Choose, ReadPlan, Persist, MarkSaved, Forward, Attach,
                          Cancel, Receive, Shown, Ends, GoTo
      <4>. QED BY <2>2, <4>1, <4>2
    <3>5. CASE Refused(q) \/ Crash(q)
      BY <2>2, <3>5 DEF Refused, Crash
    <3>. QED BY <2>2, <3>2, <3>3, <3>4, <3>5 DEF Plans, Books
  <2>3. ASSUME NEW r \in Request, At(r, "clear")
        PROVE  /\ trips[Copy(r).bookings] = "ACTIVE"
               /\ Copy(r).bookings \in subscribed \cap watched
               /\ Copy(r).plan # Nothing => trips[Copy(r).plan] = "CLOSED"
    BY <1>1, <2>3 DEF IInv, SavesInOrder, At, Saves
  <2>4. CASE \E q \in Request : Receive(q) \/ Open(q) \/ Plans(q) \/ Books(q) \/ Refused(q)
                             \/ Shown(q) \/ Crash(q)
    BY <2>2, <2>3, <2>4
  <2>. QED BY <1>1, <2>1, <2>4 DEF Next
<1>. QED BY <1>1, Invariance, PTL DEF Spec, SaveClearsLast
=============================================================================
