----------------------------- MODULE EventAnalysis -----------------------------
(***************************************************************************)
(* Analysis of one disruption event: ImpactAnalysisWorkflow.process over   *)
(* the event and incident transactions of the repositories.                *)
(*                                                                         *)
(* A worker is a running delivery of the event (Pub/Sub delivers it again  *)
(* until it is acknowledged).  The incident carries a version that every   *)
(* write compares and increments; what matters of it is whether a worker's *)
(* copy is still the current one, which is what "fresh" says.              *)
(***************************************************************************)
EXTENDS Integers

CONSTANTS
    Worker,             \* concurrent deliveries
    NoOne,
    ResumeBumpsVersion, \* TRUE: firestore.py's claim_event; FALSE: memory.py's
    LeaseLen,           \* _lease_seconds, in clock units
    MaxTime,            \* bound: last value of the clock
    MaxCrashes,         \* bound: deaths of a worker
    MaxErrors           \* bound: errors raised by what process awaits

ASSUME AnalysisAssumption ==
    /\ ResumeBumpsVersion \in BOOLEAN
    /\ LeaseLen \in Nat \ {0}
    /\ MaxTime \in Nat /\ MaxCrashes \in Nat /\ MaxErrors \in Nat
    /\ NoOne \notin Worker

VARIABLES
    event,      \* status of the processedEvents record
    lease,      \* its lease_expires_at
    incident,   \* status of the incident
    impactBy,   \* worker that committed deterministic_impact
    textBy,     \* worker that committed the interpretation
    pc, now,    \* control point and captured time of each worker
    fresh,      \* does the worker hold the current version of the incident?
    clock, crashes, errors

eventVars == <<event, lease>>
results == <<impactBy, textBy>>
bounds == <<clock, crashes, errors>>
vars == <<eventVars, incident, results, pc, now, fresh, bounds>>

EventStatus == {"ABSENT", "PROCESSING", "COMPLETED", "RETRYABLE"}
Analysed == {"PLANNING", "RECOVERING", "CLOSED"}
IncidentStatus == {"ABSENT", "RECEIVED", "ANALYZING", "FAILED"} \cup Analysed

Init ==
    /\ event = "ABSENT" /\ lease = 0
    /\ incident = "ABSENT"
    /\ impactBy = NoOne /\ textBy = NoOne
    /\ pc = [w \in Worker |-> "idle"]
    /\ now = [w \in Worker |-> 0]
    /\ fresh = [w \in Worker |-> FALSE]
    /\ clock = 0 /\ crashes = 0 /\ errors = 0

-----------------------------------------------------------------------------
Goto(w, label) == pc' = [pc EXCEPT ![w] = label]

\* A write by w raises the version: w alone holds the new one.
Bump(w) == fresh' = [v \in Worker |-> v = w]

\* process() captures the time before it claims the event.
Start(w) ==
    /\ pc[w] = "idle"
    /\ now' = [now EXCEPT ![w] = clock]
    /\ Goto(w, "claim")
    /\ UNCHANGED <<eventVars, incident, results, fresh, bounds>>

\* claim_event: the first delivery creates the event and the incident.
ClaimNew(w) ==
    /\ pc[w] = "claim" /\ event = "ABSENT"
    /\ event' = "PROCESSING" /\ lease' = now[w] + LeaseLen
    /\ incident' = "RECEIVED"
    /\ Goto(w, "load")
    /\ UNCHANGED <<results, now, fresh, bounds>>

\* Mutant: a lease never runs out.
ReclaimableIfFailed(w) == event = "RETRYABLE"

Reclaimable(w) ==
    \/ event = "RETRYABLE"
    \/ event = "PROCESSING" /\ lease <= now[w]

\* The event is completed (200) or another lease is running (409).
ClaimRefused(w) ==
    /\ pc[w] = "claim"
    /\ event # "ABSENT" /\ ~Reclaimable(w)
    /\ Goto(w, "idle")
    /\ UNCHANGED <<eventVars, incident, results, now, fresh, bounds>>

\* A retryable event, or one whose lease ran out, is taken over.
ClaimResume(w) ==
    /\ pc[w] = "claim"
    /\ Reclaimable(w)
    /\ event' = "PROCESSING" /\ lease' = now[w] + LeaseLen
    /\ incident' = "RECEIVED"
    /\ fresh' = IF ResumeBumpsVersion THEN [v \in Worker |-> FALSE] ELSE fresh
    /\ Goto(w, "load")
    /\ UNCHANGED <<results, now, bounds>>

\* get_incident after the claim; the lease owner is not compared.
Load(w) ==
    /\ pc[w] = "load"
    /\ fresh' = [fresh EXCEPT ![w] = TRUE]
    /\ Goto(w, "analyse")
    /\ UNCHANGED <<eventVars, incident, results, now, bounds>>

\* Mutants: only the status, or only the version is compared.
AcceptedByStatus(w, from) == incident = from
AcceptedByVersion(w, from) == fresh[w]

\* transition_incident, commit_impact and complete_analysis write if the
\* version is the expected one and the status allows it; otherwise process raises.
Accepted(w, from) == fresh[w] /\ incident = from

Raised(w, from) ==
    /\ ~Accepted(w, from)
    /\ Goto(w, "failed")
    /\ UNCHANGED <<eventVars, incident, results, now, fresh, bounds>>

StartAnalysis(w) ==
    /\ pc[w] = "analyse"
    /\ \/ Raised(w, "RECEIVED")
       \/ /\ Accepted(w, "RECEIVED")
          /\ incident' = "ANALYZING"
          /\ Bump(w)
          /\ Goto(w, "impact")
          /\ UNCHANGED <<eventVars, results, now, bounds>>

CommitImpact(w) ==
    /\ pc[w] = "impact"
    /\ \/ Raised(w, "ANALYZING")
       \/ /\ Accepted(w, "ANALYZING")
          /\ impactBy' = w
          /\ Bump(w)
          /\ Goto(w, "interpret")
          /\ UNCHANGED <<eventVars, incident, textBy, now, bounds>>

\* The model answers with a valid interpretation.
Interpret(w) ==
    /\ pc[w] = "interpret"
    /\ Goto(w, "finish")
    /\ UNCHANGED <<eventVars, incident, results, now, fresh, bounds>>

\* complete_analysis: incident and event in one transaction.
Complete(w) ==
    /\ pc[w] = "finish"
    /\ \/ Raised(w, "ANALYZING")
       \/ /\ Accepted(w, "ANALYZING")
          /\ event' = "COMPLETED" /\ lease' = 0
          /\ incident' = "PLANNING"
          /\ textBy' = w
          /\ Bump(w)
          /\ Goto(w, "idle")
          /\ UNCHANGED <<impactBy, now, bounds>>

\* The interpreter, the trip lookup or the repository raises inside the try.
Error(w) ==
    /\ pc[w] \in {"analyse", "impact", "interpret", "finish"}
    /\ errors < MaxErrors
    /\ errors' = errors + 1
    /\ Goto(w, "failed")
    /\ UNCHANGED <<eventVars, incident, results, now, fresh, clock, crashes>>

\* The exception handler reads the incident again ...
ReadLatest(w) ==
    /\ pc[w] = "failed"
    /\ fresh' = [fresh EXCEPT ![w] = TRUE]
    /\ Goto(w, "mark")
    /\ UNCHANGED <<eventVars, incident, results, now, bounds>>

\* ... and mark_event_retryable compares only the version it has just read.
MarkRetryable(w) ==
    /\ pc[w] = "mark"
    /\ IF fresh[w]
       THEN /\ event' = "RETRYABLE" /\ lease' = 0
            /\ incident' = "FAILED"
            /\ Bump(w)
       ELSE UNCHANGED <<eventVars, incident, fresh>>
    /\ Goto(w, "idle")
    /\ UNCHANGED <<results, now, bounds>>

-----------------------------------------------------------------------------
\* Recovery takes an analysed incident on, one versioned transition at a time.
Recovery ==
    /\ \/ incident = "PLANNING" /\ incident' = "RECOVERING"
       \/ incident = "RECOVERING" /\ incident' = "CLOSED"
    /\ fresh' = [v \in Worker |-> FALSE]
    /\ UNCHANGED <<eventVars, results, pc, now, bounds>>

\* The process dies.  Bound: the lease it leaves ends before the clock stops.
Crash(w) ==
    /\ pc[w] # "idle"
    /\ crashes < MaxCrashes
    /\ clock + LeaseLen <= MaxTime
    /\ crashes' = crashes + 1
    /\ Goto(w, "idle")
    /\ UNCHANGED <<eventVars, incident, results, now, fresh, clock, errors>>

Tick ==
    /\ clock < MaxTime
    /\ clock' = clock + 1
    /\ UNCHANGED <<eventVars, incident, results, pc, now, fresh, crashes, errors>>

Step(w) ==
    \/ ClaimNew(w) \/ ClaimRefused(w) \/ ClaimResume(w)
    \/ Load(w) \/ StartAnalysis(w) \/ CommitImpact(w) \/ Interpret(w) \/ Complete(w)
    \/ ReadLatest(w) \/ MarkRetryable(w)

Next ==
    \/ \E w \in Worker : Start(w) \/ Step(w) \/ Error(w) \/ Crash(w)
    \/ Recovery
    \/ Tick

Spec == Init /\ [][Next]_vars

(***************************************************************************)
(* Fairness: a running delivery keeps running, time passes, and Pub/Sub    *)
(* delivers what is not acknowledged, now to one process, now to another.   Errors and crashes are rare:  *)
(* they are bounded, not fair.                                             *)
(***************************************************************************)
FairSpec ==
    /\ Spec
    /\ WF_vars(Tick)
    /\ WF_vars(\E w \in Worker : Start(w))
    /\ \A w \in Worker : WF_vars(Step(w))

-----------------------------------------------------------------------------
TypeOK ==
    /\ event \in EventStatus /\ lease \in Nat
    /\ incident \in IncidentStatus
    /\ impactBy \in Worker \cup {NoOne} /\ textBy \in Worker \cup {NoOne}
    /\ pc \in [Worker -> {"idle", "claim", "load", "analyse", "impact", "interpret",
                          "finish", "failed", "mark"}]
    /\ now \in [Worker -> Nat]
    /\ fresh \in [Worker -> BOOLEAN]
    /\ clock \in Nat /\ crashes \in Nat /\ errors \in Nat

(***************************************************************************)
(* The two records never tell different stories, though the steps of       *)
(* process only check the incident: whoever looks at the event to decide   *)
(* about a redelivery decides for the incident as well.                    *)
(***************************************************************************)
EventAndIncidentAgree ==
    /\ event = "ABSENT" <=> incident = "ABSENT"
    /\ event = "PROCESSING" <=> incident \in {"RECEIVED", "ANALYZING"}
    /\ event = "RETRYABLE" <=> incident = "FAILED"
    /\ event = "COMPLETED" <=> incident \in Analysed

Analysing == {"impact", "interpret", "finish"}

(***************************************************************************)
(* However many workers believe they own the event, at most one of those   *)
(* past transition_incident can still write: the versions fence the rest.  *)
(***************************************************************************)
OneWorkerCanCommit ==
    \A v, w \in Worker :
        pc[v] \in Analysing /\ pc[w] \in Analysing /\ fresh[v] /\ fresh[w] => v = w

(***************************************************************************)
(* Recovery plans from one analysis: the interpretation explains the       *)
(* impact that the same worker committed, never one that was replaced      *)
(* while the model was answering.                                          *)
(***************************************************************************)
InterpretationFitsImpact ==
    incident \in Analysed => impactBy = textBy /\ textBy # NoOne

(***************************************************************************)
(* Once the original work completes, a redelivery is acknowledged without  *)
(* reprocessing (ARCHITECTURE.md): a completed event stays completed.      *)
(***************************************************************************)
CompletedIsFinal == [][event = "COMPLETED" => event' = "COMPLETED"]_vars

(***************************************************************************)
(* A claimed event is analysed in the end: what a crash or an error leaves *)
(* behind is picked up by a redelivery. That needs the deliveries to stop  *)
(* overlapping: two that fail in turn mark the event retryable under each  *)
(* other's claim (mark_event_retryable), and neither ever completes it.    *)
(***************************************************************************)
EventIsCompleted ==
    (\E w \in Worker : <>[](\A v \in Worker \ {w} : pc[v] = "idle"))
        => (event = "PROCESSING" ~> event = "COMPLETED")

-----------------------------------------------------------------------------
(***************************************************************************)
(* The inductive invariant behind InterpretationFitsImpact: a worker that  *)
(* can still complete the analysis committed the impact that is stored.    *)
(***************************************************************************)
ImpactIsOwn ==
    \A w \in Worker :
        pc[w] \in {"interpret", "finish"} /\ fresh[w] /\ incident = "ANALYZING" => impactBy = w
=============================================================================
