------------------------------- MODULE TripWatch -------------------------------
(***************************************************************************)
(* Trip Watch: overlapping scheduler ticks flush the facts recorded        *)
(* earlier, claim the due watchpoints, ask the source of each, record what *)
(* it reports once and publish it.  Flight watchpoints ask the live status *)
(* provider through their monitoring subscription; the others ask Search.  *)
(*                                                                         *)
(* due_at and the snapshot fingerprint change with every write, so all a   *)
(* compare-and-set tells apart is who still holds the stored value: "due"  *)
(* and "print" name those ticks, "ready" lists what has come due in the    *)
(* order of due_at.                                                        *)
(***************************************************************************)
EXTENDS Naturals, Sequences, FiniteSets, TelegramDelivery

CONSTANTS
    Watch,          \* stored watchpoints
    Flights,        \* those the live status provider answers for
    Fact,           \* what sources may report (grounded_signal_hash)
    About,          \* Fact -> the watchpoint it is about
    Recovery,       \* the facts the validator turns into a disruption: delays of a
                    \* protected flight, from Search Watch too if it answers for one
    Tick,           \* scheduler ticks that may overlap
    Limit,          \* trip_watch_max_checks_per_tick
    MaxFaults       \* bound: crashes and failed calls

ASSUME WatchAssumption ==
    /\ IsFiniteSet(Watch) /\ Flights \subseteq Watch /\ Recovery \subseteq Fact
    /\ About \in [Fact -> Watch] /\ Message = Fact
    /\ Limit \in Nat \ {0} /\ MaxFaults \in Nat

VARIABLES
    report,     \* what each source says now
    watches,    \* watchpoint documents that exist
    due,        \* the ticks that hold the due_at stored now
    ready,      \* watchpoints with due_at <= now, oldest due_at first
    degraded,   \* last_error_code is set
    coverage,   \* of the monitoring subscription of each flight
    print,      \* the ticks that read the fingerprint stored now
    signals,    \* stored facts that are not published, oldest first
    published,  \* stored facts with published_at
    topic,      \* facts published to the recovery topic
    trip,       \* the trip and its traveler exist
    sweep,      \* delete_traveler_data: "no", "collected", "done"
    condemned,  \* facts whose documents the deletion collected
    faults,
    tick,       \* what each running tick holds
    outcome,    \* history: how the last finished check of a watchpoint ended
    recorded,   \* history: facts ever stored
    handled     \* history: facts ever marked published

envVars == <<report, trip, sweep, condemned>>
watchVars == <<watches, due, ready, degraded, coverage, print>>
factVars == <<signals, published, topic>>
history == <<outcome, recorded, handled>>
vars == <<envVars, watchVars, factVars, deliveryVars, faults, tick, history>>

None == "none"
Coverage == {"STORED", "LIVE", "DEGRADED"}

Idle == [pc |-> "idle", todo |-> {}, pend |-> <<>>, w |-> None, fact |-> None, direct |-> FALSE]

\* A tick the scheduler never calls.
Off == [Idle EXCEPT !.pc = "off"]

Init ==
    /\ report = [w \in Watch |-> None]
    /\ watches \in SUBSET Watch
    /\ due = [w \in Watch |-> {}]
    /\ ready \in {order \in [1..Cardinality(watches) -> watches] :
                    \A i, j \in DOMAIN order : order[i] = order[j] => i = j}
    /\ degraded = [w \in Watch |-> FALSE]
    /\ coverage \in [Flights -> {"STORED", "LIVE"}]
    /\ print = [w \in Flights |-> {}]
    /\ signals = <<>> /\ published = {} /\ topic = {}
    /\ trip = TRUE /\ sweep = "no" /\ condemned = {}
    /\ faults \in 0..MaxFaults
    /\ tick \in [Tick -> {Idle, Off}]
    /\ outcome = [w \in Watch |-> None] /\ recorded = {} /\ handled = {}
    /\ DeliveryInit

PC == {"off", "idle", "pending", "flush", "publish", "notify", "intent", "send", "receipt", "UNKNOWN",
       "BLOCKED", "mark", "watch", "observe", "ingest", "degrade", "error", "record", "put"}

\* What a tick holds: the watchpoints and facts it listed and has yet to handle,
\* the ones in hand, and whether the fact was recorded by this very check.
Held == [pc : PC, todo : SUBSET Watch, pend : Seq(Fact), w : Watch \union {None},
         fact : Fact \union {None}, direct : BOOLEAN]

Unpublished == {signals[i] : i \in DOMAIN signals}

\* What is left of s without the facts in gone, in its order.
Without(s, gone) ==
    LET kept[n \in 0..Len(s)] ==
            IF n = 0 THEN <<>>
            ELSE IF s[n] \in gone THEN kept[n - 1] ELSE Append(kept[n - 1], s[n])
    IN  kept[Len(s)]

IsReady(w) == \E i \in DOMAIN ready : ready[i] = w

Goto(k, pc) == tick' = [tick EXCEPT ![k].pc = pc]
Fault == faults < MaxFaults /\ faults' = faults + 1

\* A tick that ends or dies holds nothing any more.
LetGo(k) ==
    /\ tick' = [tick EXCEPT ![k] = Idle]
    /\ due' = [w \in Watch |-> due[w] \ {k}]
    /\ print' = [w \in Flights |-> print[w] \ {k}]

-----------------------------------------------------------------------------
(* The tick: run_watch_tick. *)

\* The oldest Limit elements of s.
Oldest(s) == SubSeq(s, 1, IF Len(s) < Limit THEN Len(s) ELSE Limit)

\* The watchpoints that list_due_watchpoints answers.
Listed == LET q == Oldest(ready) IN {q[i] : i \in DOMAIN q}

\* Mutant: a watchpoint that shows an error is not listed again.
StartTickHealthy(k) ==
    /\ tick[k].pc = "idle"
    /\ LET listed == {w \in Listed : ~degraded[w]} IN
       /\ tick' = [tick EXCEPT ![k].pc = "pending", ![k].todo = listed]
       /\ due' = [w \in Watch |-> IF w \in listed THEN due[w] \union {k} ELSE due[w]]
    /\ UNCHANGED <<envVars, watches, ready, degraded, coverage, print, factVars, deliveryVars,
                   faults, history>>

\* list_due_watchpoints: the oldest Limit, with the due_at each had when read.
StartTick(k) ==
    /\ tick[k].pc = "idle"
    /\ tick' = [tick EXCEPT ![k].pc = "pending", ![k].todo = Listed]
    /\ due' = [w \in Watch |-> IF w \in Listed THEN due[w] \union {k} ELSE due[w]]
    /\ UNCHANGED <<envVars, watches, ready, degraded, coverage, print, factVars, deliveryVars,
                   faults, history>>

\* Mutant: the sweep starts behind the oldest fact.
ListPendingSkipsOldest(k) ==
    /\ tick[k].pc = "pending"
    /\ tick' = [tick EXCEPT ![k].pc = "flush",
           ![k].pend = SubSeq(signals, 2, IF Len(signals) < Limit THEN Len(signals) ELSE Limit)]
    /\ UNCHANGED <<envVars, watchVars, factVars, deliveryVars, faults, history>>

\* list_unpublished_grounded_signals: the oldest Limit of them.
ListPending(k) ==
    /\ tick[k].pc = "pending"
    /\ tick' = [tick EXCEPT ![k].pc = "flush", ![k].pend = Oldest(signals)]
    /\ UNCHANGED <<envVars, watchVars, factVars, deliveryVars, faults, history>>

\* to_disruption accepts the fact, or it is only for the traveler to know.
Route(f) == IF f \in Recovery THEN "publish" ELSE "notify"

\* The loop of publish_pending_events takes the next fact, or skips one whose
\* watchpoint or trip is gone.  Only validated facts go to the recovery topic.
FlushNext(k) ==
    /\ tick[k].pc = "flush"
    /\ IF tick[k].pend = <<>> THEN Goto(k, "watch")
       ELSE LET f == Head(tick[k].pend) IN
            tick' = [tick EXCEPT ![k].pend = Tail(@), ![k].fact = f, ![k].direct = FALSE,
                ![k].pc = IF About[f] \in watches /\ trip THEN Route(f) ELSE "flush"]
    /\ UNCHANGED <<envVars, watchVars, factVars, deliveryVars, faults, history>>

\* Where a tick goes on: the next pending fact or the next watchpoint.
Onward(k) == tick' = [tick EXCEPT ![k].fact = None,
                         ![k].pc = IF tick[k].direct THEN "watch" ELSE "flush"]
\* An exception ends the whole flush, or only this watchpoint.
Abandon(k) == tick' = [tick EXCEPT ![k].pend = <<>>, ![k].fact = None, ![k].pc = "watch"]

Publish(k) ==
    /\ tick[k].pc = "publish"
    /\ topic' = topic \union {tick[k].fact}
    /\ Goto(k, "mark")
    /\ UNCHANGED <<envVars, watchVars, signals, published, deliveryVars, faults, history>>

\* Pub/Sub refuses: the fact stays recorded and unpublished.
PublishFails(k) ==
    /\ tick[k].pc = "publish"
    /\ Fault
    /\ Abandon(k)
    /\ UNCHANGED <<envVars, watchVars, factVars, deliveryVars, history>>

\* Mutant: a message that was given up counts as delivered.
NotifyOrForget(k) ==
    /\ tick[k].pc = "notify"
    /\ LET f == tick[k].fact IN
       IF ~trip \/ Sent(f) \/ GivenUp(f) THEN Goto(k, "mark")
       ELSE Goto(k, "intent")
    /\ UNCHANGED <<envVars, watchVars, factVars, deliveryVars, faults, history>>

\* TripWatchSignalNotifier.notify up to the first read of send_once: nobody
\* to tell counts as delivered.
Notify(k) ==
    /\ tick[k].pc = "notify"
    /\ LET f == tick[k].fact IN
       IF ~trip \/ Sent(f) THEN Goto(k, "mark")
       ELSE IF GivenUp(f) THEN Onward(k)
       ELSE Goto(k, "intent")
    /\ UNCHANGED <<envVars, watchVars, factVars, deliveryVars, faults, history>>

Intent(k) ==
    /\ tick[k].pc = "intent"
    /\ StoreIntent(tick[k].fact)
    /\ Goto(k, "send")
    /\ UNCHANGED <<envVars, watchVars, factVars, inbox, faults, history>>

Send(k) ==
    /\ tick[k].pc = "send"
    /\ Shown(tick[k].fact)
    /\ Goto(k, "receipt")
    /\ UNCHANGED <<envVars, watchVars, factVars, note, faults, history>>

\* The answer is lost: the message may have been shown.
SendUnknown(k) ==
    /\ tick[k].pc = "send"
    /\ Fault
    /\ Shown(tick[k].fact) \/ UNCHANGED inbox
    /\ Goto(k, "UNKNOWN")
    /\ UNCHANGED <<envVars, watchVars, factVars, note, history>>

\* The gateway refuses for good, or asks to try again later (it raises).
SendRefused(k) ==
    /\ tick[k].pc = "send"
    /\ Fault
    /\ Goto(k, "BLOCKED") \/ Abandon(k)
    /\ UNCHANGED <<envVars, watchVars, factVars, deliveryVars, history>>

Receipt(k) ==
    /\ tick[k].pc = "receipt"
    /\ IF ReceiptAccepted(tick[k].fact)
       THEN StoreReceipt(tick[k].fact) /\ Goto(k, "mark")
       ELSE UNCHANGED note /\ Abandon(k)
    /\ UNCHANGED <<envVars, watchVars, factVars, inbox, faults, history>>

\* Not delivered: send_once answers False and the fact stays unpublished.
NotDelivered(k) ==
    /\ tick[k].pc \in {"UNKNOWN", "BLOCKED"}
    /\ StoreFailure(tick[k].fact, tick[k].pc)
    /\ Onward(k)
    /\ UNCHANGED <<envVars, watchVars, factVars, inbox, faults, history>>

\* mark_grounded_signal_published.
Mark(k) ==
    /\ tick[k].pc = "mark"
    /\ LET f == tick[k].fact
           stored == f \in Unpublished
       IN /\ signals' = Without(signals, {f})
          /\ published' = IF stored THEN published \union {f} ELSE published
          /\ handled' = IF stored THEN handled \union {f} ELSE handled
    /\ Onward(k)
    /\ UNCHANGED <<envVars, watchVars, topic, deliveryVars, faults, outcome, recorded>>

-----------------------------------------------------------------------------
(* One watchpoint of the tick: run_watchpoint, publish_recovery_event. *)

\* Mutant: the watchpoint only has to exist.
AnySchedule(k, w) == w \in watches

\* The compare-and-set of reschedule_watchpoint: the due_at the tick holds is
\* still the stored one.
HoldsSchedule(k, w) == w \in watches /\ k \in due[w]

\* reschedule_watchpoint with the due_at read: only one tick gets the check.
\* It also clears the last error.
ClaimOf(k, w) ==
    IF HoldsSchedule(k, w)
    THEN /\ due' = [due EXCEPT ![w] = {k}]
         /\ ready' = Without(ready, {w})
         /\ degraded' = [degraded EXCEPT ![w] = FALSE]
         /\ outcome' = [outcome EXCEPT ![w] = None]
         /\ tick' = [tick EXCEPT ![k].todo = @ \ {w}, ![k].w = w, ![k].direct = TRUE,
                                 ![k].pc = IF trip THEN "observe" ELSE "error"]
    ELSE /\ tick' = [tick EXCEPT ![k].todo = @ \ {w}]
         /\ UNCHANGED <<due, ready, degraded, outcome>>

\* The next watchpoint of the tick's list, in any order.
Claim(k) ==
    /\ tick[k].pc = "watch"
    /\ \E w \in tick[k].todo : ClaimOf(k, w)
    /\ UNCHANGED <<envVars, watches, coverage, print, factVars, deliveryVars, faults, recorded,
                   handled>>

EndTick(k) ==
    /\ tick[k].pc = "watch" /\ tick[k].todo = {}
    /\ LetGo(k)
    /\ UNCHANGED <<envVars, watches, ready, degraded, coverage, factVars, deliveryVars, faults,
                   history>>

\* What the source says; a claim of nothing new ends the check.
Finish(k, w, how) ==
    outcome' = IF k \in due[w] THEN [outcome EXCEPT ![w] = how] ELSE outcome
Observed(k, w) ==
    /\ tick' = [tick EXCEPT ![k].fact = report[w],
           ![k].pc = IF report[w] = None THEN "watch" ELSE "record"]
    /\ IF report[w] = None THEN Finish(k, w, "quiet") ELSE UNCHANGED outcome

\* Search Watch answers for every watchpoint that is no bound flight.
Search(k) ==
    /\ tick[k].pc = "observe" /\ tick[k].w \notin Flights
    /\ Observed(k, tick[k].w)
    /\ UNCHANGED <<envVars, watchVars, factVars, deliveryVars, faults, recorded, handled>>

SourceFails(k) ==
    /\ tick[k].pc = "observe"
    /\ Fault
    /\ Goto(k, IF tick[k].w \in Flights /\ coverage[tick[k].w] # "STORED"
               THEN "degrade" ELSE "error")
    /\ UNCHANGED <<envVars, watchVars, factVars, deliveryVars, history>>

\* AmadeusFlightWatch.observe: the subscription must be bound to the provider;
\* ingest_snapshot reads it again before it writes.
Fetch(k) ==
    /\ tick[k].pc = "observe" /\ tick[k].w \in Flights
    /\ print' = [print EXCEPT ![tick[k].w] = @ \union {k}]
    /\ Goto(k, IF coverage[tick[k].w] = "STORED" THEN "error"
               ELSE IF trip THEN "ingest" ELSE "degrade")
    /\ UNCHANGED <<envVars, watches, due, ready, degraded, coverage, factVars, deliveryVars,
                   faults, history>>

\* The snapshot is stored by compare-and-set on the fingerprint; the loser of a
\* race reports nothing.
Ingest(k) ==
    /\ tick[k].pc = "ingest"
    /\ LET w == tick[k].w IN
       IF w \in watches /\ k \in print[w]
       THEN /\ coverage' = [coverage EXCEPT ![w] = "LIVE"]
            /\ print' = [print EXCEPT ![w] = {}]
            /\ Observed(k, w)
       ELSE Goto(k, "watch") /\ Finish(k, w, "quiet") /\ UNCHANGED <<coverage, print>>
    /\ UNCHANGED <<envVars, watches, due, ready, degraded, factVars, deliveryVars, faults,
                   recorded, handled>>

\* mark_live_status_degraded keeps the fingerprint, then the error is raised.
Degrade(k) ==
    /\ tick[k].pc = "degrade"
    /\ coverage' = [coverage EXCEPT ![tick[k].w] = IF tick[k].w \in watches THEN "DEGRADED" ELSE @]
    /\ Goto(k, "error")
    /\ UNCHANGED <<envVars, watches, due, ready, degraded, print, factVars, deliveryVars, faults,
                   history>>

\* Mutant: an overtaken check still stores its error.
RecordErrorLate(k) ==
    /\ tick[k].pc = "error"
    /\ LET w == tick[k].w IN
       /\ degraded' = [degraded EXCEPT ![w] = TRUE]
       /\ IF w \in watches THEN Finish(k, w, "failed") ELSE UNCHANGED outcome
    /\ Goto(k, "watch")
    /\ UNCHANGED <<envVars, watches, due, ready, coverage, print, factVars, deliveryVars, faults,
                   recorded, handled>>

\* The error is stored unless another tick rescheduled the watchpoint.
RecordError(k) ==
    /\ tick[k].pc = "error"
    /\ LET w == tick[k].w IN
       /\ degraded' = IF HoldsSchedule(k, w) THEN [degraded EXCEPT ![w] = TRUE] ELSE degraded
       /\ IF w \in watches THEN Finish(k, w, "failed") ELSE UNCHANGED outcome
    /\ Goto(k, "watch")
    /\ UNCHANGED <<envVars, watches, due, ready, coverage, print, factVars, deliveryVars, faults,
                   recorded, handled>>

\* last_signal_at is stored on the same condition, before the fact.
RecordSignal(k) ==
    /\ tick[k].pc = "record"
    /\ LET w == tick[k].w IN
       IF HoldsSchedule(k, w)
       THEN Goto(k, "put") /\ Finish(k, w, "signal")
       ELSE Goto(k, "watch") /\ UNCHANGED outcome
    /\ UNCHANGED <<envVars, watchVars, factVars, deliveryVars, faults, recorded, handled>>

\* put_grounded_signal creates the document once; the next read, of the trip,
\* decides whether the fact is published at once.
PutSignal(k) ==
    /\ tick[k].pc = "put"
    /\ LET f == tick[k].fact
           new == f \notin published \union Unpublished
       IN /\ signals' = IF new THEN Append(signals, f) ELSE signals
          /\ recorded' = recorded \union {f}
          /\ Goto(k, IF new /\ trip THEN Route(f) ELSE "watch")
    /\ UNCHANGED <<envVars, watchVars, published, topic, deliveryVars, faults, outcome, handled>>

-----------------------------------------------------------------------------
(* The environment. *)

\* A source that reported nothing begins to report a fact and keeps to it.
SourceSays(w) ==
    /\ report[w] = None
    /\ \E f \in {g \in Fact : About[g] = w} : report' = [report EXCEPT ![w] = f]
    /\ UNCHANGED <<trip, sweep, condemned, watchVars, factVars, deliveryVars, faults, tick, history>>

ComesDue(w) ==
    /\ w \in watches /\ ~IsReady(w)
    /\ ready' = Append(ready, w)
    /\ UNCHANGED <<envVars, watches, due, degraded, coverage, print, factVars, deliveryVars, faults,
                   tick, history>>

Crash(k) ==
    /\ tick[k].pc \notin {"idle", "off"}
    /\ Fault
    /\ LetGo(k)
    /\ UNCHANGED <<envVars, watches, ready, degraded, coverage, factVars, deliveryVars, history>>

\* delete_traveler_data reads every reference first, then deletes what it read.
CollectData ==
    /\ sweep = "no"
    /\ sweep' = "collected"
    /\ condemned' = published \union Unpublished
    /\ UNCHANGED <<report, trip, watchVars, factVars, deliveryVars, faults, tick, history>>

DeleteData ==
    /\ sweep = "collected"
    /\ sweep' = "done"
    /\ trip' = FALSE /\ watches' = {} /\ ready' = <<>>
    /\ signals' = Without(signals, condemned)
    /\ published' = published \ condemned
    /\ UNCHANGED <<report, condemned, due, degraded, coverage, print, topic, deliveryVars,
                   faults, tick, history>>

-----------------------------------------------------------------------------
Step(k) ==
    \/ StartTick(k) \/ ListPending(k) \/ FlushNext(k) \/ Publish(k) \/ Notify(k)
    \/ Intent(k) \/ Send(k) \/ Receipt(k) \/ NotDelivered(k) \/ Mark(k) \/ Claim(k)
    \/ EndTick(k) \/ Search(k) \/ Fetch(k) \/ Ingest(k) \/ Degrade(k) \/ RecordError(k)
    \/ RecordSignal(k) \/ PutSignal(k)

Fails(k) ==
    PublishFails(k) \/ SendUnknown(k) \/ SendRefused(k) \/ SourceFails(k) \/ Crash(k)

Next ==
    \/ \E k \in Tick : Step(k) \/ Fails(k)
    \/ \E w \in Watch : SourceSays(w) \/ ComesDue(w)
    \/ CollectData \/ DeleteData

Spec == Init /\ [][Next]_vars

\* The scheduler keeps calling the tick, a started tick runs on, time passes,
\* and a deletion that began ends.
Fairness ==
    /\ \A k \in Tick : WF_vars(Step(k))
    /\ \A w \in Watch : WF_vars(ComesDue(w))
    /\ WF_vars(DeleteData)

FairSpec == Spec /\ Fairness

-----------------------------------------------------------------------------
(* Properties. *)

\* Every document and every worker's copy stays in its range.
TypeOK ==
    /\ report \in [Watch -> Fact \union {None}] /\ watches \subseteq Watch
    /\ due \in [Watch -> SUBSET Tick] /\ ready \in Seq(Watch) /\ degraded \in [Watch -> BOOLEAN]
    /\ coverage \in [Flights -> Coverage] /\ print \in [Flights -> SUBSET Tick]
    /\ signals \in Seq(Fact) /\ published \subseteq Fact /\ topic \subseteq Fact
    /\ trip \in BOOLEAN /\ faults \in 0..MaxFaults
    /\ note \in [Message -> Status] /\ inbox \subseteq Message
    /\ sweep \in {"no", "collected", "done"} /\ condemned \subseteq Fact
    /\ tick \in [Tick -> Held]
    /\ outcome \in [Watch -> {None, "quiet", "signal", "failed"}]
    /\ recorded \subseteq Fact /\ handled \subseteq Fact

\* Only facts the validator accepts reach the recovery topic, and the traveler
\* is told by Telegram only of the others, which never start a recovery.
RecoveryIsValidated == topic \subseteq Recovery /\ inbox \intersect Recovery = {}

\* A watchpoint shows an error exactly when the check that holds its schedule
\* failed: an overtaken worker neither hides a failure nor invents one.
ErrorIsTheLatestChecks ==
    \A w \in watches : degraded[w] <=> outcome[w] = "failed"

\* A claim uses up a due time: two ticks that listed the same watchpoint never
\* both call its source without the interval passing in between.
ACheckPerDueTime ==
    [][\A k \in Tick, w \in Watch :
        (tick[k].pc = "watch" /\ tick'[k].pc \in {"observe", "error"} /\ tick'[k].w = w) => IsReady(w)]_vars

\* Trip Watch implements what it promises of the facts (FactReporting).
Reporting == INSTANCE FactReporting
    WITH known <- recorded, heard <- topic \union inbox, served <- trip
ReportingIsRefined == Reporting!Spec

\* A recorded fact is eventually published or told, unless Telegram gave the
\* message up or the traveler's data was deleted. Nor is it while it is behind
\* as many facts as a flush reads whose messages were given up: they stay
\* unpublished, and the flush never comes to it.
StuckBefore(f) == {g \in Unpublished : GivenUp(g) /\ \E i, j \in DOMAIN signals :
                                            i < j /\ signals[i] = g /\ signals[j] = f}
Crowded(f) == Cardinality(StuckBefore(f)) >= Limit
RecordedIsReported ==
    \A f \in Fact : f \in Unpublished
        ~> (f \in published \/ GivenUp(f) \/ sweep = "done" \/ Crowded(f))

\* What a source keeps saying is eventually recorded, once its checks take
\* less than their interval and the subscription is bound.
Overtaken(w) == IsReady(w) /\ \E k \in Tick : tick[k].w = w /\ k \in due[w]
Unbound(w) == w \in Flights /\ coverage[w] = "STORED"
ReportIsRecorded ==
    \A f \in Fact :
        <>[](report[About[f]] = f /\ About[f] \in watches /\ ~Overtaken(About[f]))
            => <>(f \in recorded \/ sweep = "done" \/ Unbound(About[f]))
=============================================================================
