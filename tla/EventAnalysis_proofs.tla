-------------------------- MODULE EventAnalysis_proofs --------------------------
(***************************************************************************)
(* Proofs about EventAnalysis, for any number of overlapping deliveries,   *)
(* either repository, and every lease length.                              *)
(***************************************************************************)
EXTENDS EventAnalysis, TLAPS

LEMMA TypeInit == Init => TypeOK
  BY DEF Init, TypeOK, EventStatus, IncidentStatus

LEMMA BumpTyped ==
  ASSUME NEW w \in Worker, Bump(w) PROVE fresh' \in [Worker -> BOOLEAN]
  BY Zenon DEF Bump

LEMMA TypeNext == TypeOK /\ [Next]_vars => TypeOK'
<1> SUFFICES ASSUME TypeOK, [Next]_vars PROVE TypeOK'
  OBVIOUS
<1> USE AnalysisAssumption DEF TypeOK, EventStatus, IncidentStatus, Analysed,
        Goto, eventVars, results, bounds
<1>1. ASSUME NEW w \in Worker, Start(w) \/ Error(w) \/ Crash(w) PROVE TypeOK'
  BY <1>1 DEF Start, Error, Crash
<1>2. ASSUME NEW w \in Worker, ClaimNew(w) \/ ClaimRefused(w) PROVE TypeOK'
  BY <1>2 DEF ClaimNew, ClaimRefused
<1>3. ASSUME NEW w \in Worker, ClaimResume(w) PROVE TypeOK'
  BY <1>3 DEF ClaimResume
<1>4. ASSUME NEW w \in Worker, Load(w) \/ Interpret(w) \/ ReadLatest(w) PROVE TypeOK'
  BY <1>4 DEF Load, Interpret, ReadLatest
<1>5. ASSUME NEW w \in Worker, StartAnalysis(w) PROVE TypeOK'
  BY <1>5 DEF StartAnalysis, Raised, Bump
<1>6. ASSUME NEW w \in Worker, CommitImpact(w) PROVE TypeOK'
  BY <1>6 DEF CommitImpact, Raised, Bump
<1>7. ASSUME NEW w \in Worker, Complete(w) PROVE TypeOK'
  <2>1. CASE Raised(w, "ANALYZING")
    BY <1>7, <2>1 DEF Complete, Raised
  <2>2. CASE ~ Raised(w, "ANALYZING")
    BY <1>7, <2>2, BumpTyped DEF Complete
  <2> QED
    BY <2>1, <2>2
<1>8. ASSUME NEW w \in Worker, MarkRetryable(w) PROVE TypeOK'
  <2>1. fresh' \in [Worker -> BOOLEAN]
    BY <1>8, BumpTyped DEF MarkRetryable
  <2>2. /\ event' \in EventStatus /\ lease' \in Nat
        /\ incident' \in IncidentStatus
    BY <1>8 DEF MarkRetryable
  <2> QED
    BY <1>8, <2>1, <2>2 DEF MarkRetryable
<1>9. CASE Recovery
  <2>1. fresh' \in [Worker -> BOOLEAN]
    BY <1>9 DEF Recovery
  <2> QED
    BY <1>9, <2>1 DEF Recovery
<1>10. CASE Tick \/ UNCHANGED vars
  BY <1>10 DEF Tick, vars
<1> QED
  BY <1>1, <1>2, <1>3, <1>4, <1>5, <1>6, <1>7, <1>8, <1>9, <1>10 DEF Next, Step

(***************************************************************************)
(* Every step of process keeps the event, the incident and the locals of   *)
(* the deliveries in the types the code declares for them.                 *)
(***************************************************************************)
THEOREM TypeCorrect == Spec => []TypeOK
  BY TypeInit, TypeNext, PTL DEF Spec

-----------------------------------------------------------------------------
(***************************************************************************)
(* The event record and the incident never tell different stories.         *)
(***************************************************************************)
THEOREM RecordsAgree == Spec => []EventAndIncidentAgree
<1>1. Init => EventAndIncidentAgree
  BY DEF Init, EventAndIncidentAgree, Analysed
<1>2. TypeOK /\ EventAndIncidentAgree /\ [Next]_vars => EventAndIncidentAgree'
  <2> SUFFICES ASSUME EventAndIncidentAgree, [Next]_vars PROVE EventAndIncidentAgree'
    OBVIOUS
  <2> USE DEF EventAndIncidentAgree, Analysed, eventVars
  <2>1. ASSUME NEW w \in Worker, UNCHANGED <<eventVars, incident>> PROVE EventAndIncidentAgree'
    BY <2>1
  <2>2. ASSUME NEW w \in Worker, ClaimNew(w) \/ ClaimResume(w) PROVE EventAndIncidentAgree'
    BY <2>2 DEF ClaimNew, ClaimResume
  <2>3. ASSUME NEW w \in Worker, StartAnalysis(w) \/ CommitImpact(w) \/ Complete(w)
        PROVE  EventAndIncidentAgree'
    BY <2>3 DEF StartAnalysis, CommitImpact, Complete, Raised, Accepted
  <2>4. ASSUME NEW w \in Worker, MarkRetryable(w) PROVE EventAndIncidentAgree'
    BY <2>4 DEF MarkRetryable
  <2>5. ASSUME NEW w \in Worker, \/ Start(w) \/ Error(w) \/ Crash(w) \/ ClaimRefused(w)
                                 \/ Load(w) \/ Interpret(w) \/ ReadLatest(w)
        PROVE  EventAndIncidentAgree'
    BY <2>5 DEF Start, Error, Crash, ClaimRefused, Load, Interpret, ReadLatest
  <2>6. CASE Recovery \/ Tick \/ UNCHANGED vars
    BY <2>6 DEF Recovery, Tick, vars
  <2> QED
    BY <2>2, <2>3, <2>4, <2>5, <2>6 DEF Next, Step
<1> QED
  BY <1>1, <1>2, TypeCorrect, PTL DEF Spec

(***************************************************************************)
(* The version is the fence: among the workers past transition_incident    *)
(* at most one holds the current version, because every write gives it to  *)
(* its writer alone and only reads outside the analysis renew it.          *)
(***************************************************************************)
THEOREM VersionsFence == Spec => []OneWorkerCanCommit
<1>1. Init => OneWorkerCanCommit
  BY DEF Init, OneWorkerCanCommit
<1>2. TypeOK /\ OneWorkerCanCommit /\ [Next]_vars => OneWorkerCanCommit'
  <2> SUFFICES ASSUME TypeOK, OneWorkerCanCommit, [Next]_vars PROVE OneWorkerCanCommit'
    OBVIOUS
  <2> USE DEF OneWorkerCanCommit, Analysing, TypeOK, Goto
  <2>1. ASSUME NEW w \in Worker, Bump(w) PROVE OneWorkerCanCommit'
    BY <2>1 DEF Bump
  <2>2. ASSUME NEW w \in Worker, NEW label, label \notin Analysing, Goto(w, label),
               \A v \in Worker \ {w} : fresh'[v] => fresh[v]
        PROVE  OneWorkerCanCommit'
    BY <2>2
  <2>3. ASSUME NEW w \in Worker, \/ Start(w) \/ Error(w) \/ Crash(w) \/ ClaimNew(w)
                                 \/ ClaimRefused(w) \/ ClaimResume(w) \/ Load(w) \/ ReadLatest(w)
        PROVE  OneWorkerCanCommit'
    BY <2>2, <2>3 DEF Start, Error, Crash, ClaimNew, ClaimRefused, ClaimResume, Load, ReadLatest
  <2>4. ASSUME NEW w \in Worker, NEW from, Raised(w, from) PROVE OneWorkerCanCommit'
    BY <2>2, <2>4 DEF Raised
  <2>5. ASSUME NEW w \in Worker, StartAnalysis(w) \/ CommitImpact(w) \/ Complete(w)
        PROVE  OneWorkerCanCommit'
    BY <2>1, <2>4, <2>5 DEF StartAnalysis, CommitImpact, Complete
  <2>6. ASSUME NEW w \in Worker, Interpret(w) PROVE OneWorkerCanCommit'
    BY <2>6 DEF Interpret
  <2>7. ASSUME NEW w \in Worker, MarkRetryable(w) PROVE OneWorkerCanCommit'
    BY <2>1, <2>2, <2>7 DEF MarkRetryable
  <2>8. CASE Recovery \/ Tick \/ UNCHANGED vars
    BY <2>8 DEF Recovery, Tick, vars
  <2> QED
    BY <2>3, <2>5, <2>6, <2>7, <2>8 DEF Next, Step
<1> QED
  BY <1>1, <1>2, TypeCorrect, PTL DEF Spec

-----------------------------------------------------------------------------
\* A worker that can still complete committed the impact that is stored.
LEMMA ImpactIsOwnNext ==
  ASSUME TypeOK, OneWorkerCanCommit, ImpactIsOwn, [Next]_vars
  PROVE  ImpactIsOwn'
<1> USE DEF ImpactIsOwn, TypeOK, Goto
<1>1. ASSUME NEW w \in Worker, NEW label, label \notin {"interpret", "finish"},
             Goto(w, label), UNCHANGED <<incident, impactBy>>,
             \A v \in Worker \ {w} : fresh'[v] => fresh[v]
      PROVE  ImpactIsOwn'
  BY <1>1
<1>2. ASSUME NEW w \in Worker, \/ Start(w) \/ Error(w) \/ Crash(w) \/ ClaimRefused(w)
                               \/ Load(w) \/ ReadLatest(w)
      PROVE  ImpactIsOwn'
  BY <1>1, <1>2 DEF Start, Error, Crash, ClaimRefused, Load, ReadLatest, results
<1>3. ASSUME NEW w \in Worker, NEW from, Raised(w, from) PROVE ImpactIsOwn'
  BY <1>1, <1>3 DEF Raised, results
<1>4. CASE incident' # "ANALYZING"
  BY <1>4
<1>5. ASSUME NEW w \in Worker, StartAnalysis(w) PROVE ImpactIsOwn'
  BY <1>3, <1>5 DEF StartAnalysis, Bump
<1>6. ASSUME NEW w \in Worker, CommitImpact(w) PROVE ImpactIsOwn'
  BY <1>3, <1>6 DEF CommitImpact, Bump
<1>7. ASSUME NEW w \in Worker, Complete(w) PROVE ImpactIsOwn'
  BY <1>3, <1>4, <1>7 DEF Complete
<1>8. ASSUME NEW w \in Worker, Interpret(w) PROVE ImpactIsOwn'
  BY <1>8 DEF Interpret, results
<1>9. ASSUME NEW w \in Worker, MarkRetryable(w) PROVE ImpactIsOwn'
  BY <1>1, <1>4, <1>9 DEF MarkRetryable, results
<1>10. ASSUME NEW w \in Worker, ClaimNew(w) \/ ClaimResume(w) PROVE ImpactIsOwn'
  BY <1>4, <1>10 DEF ClaimNew, ClaimResume
<1>11. CASE Recovery
  BY <1>4, <1>11 DEF Recovery
<1>12. CASE Tick \/ UNCHANGED vars
  BY <1>12 DEF Tick, vars, results
<1> QED
  BY <1>2, <1>5, <1>6, <1>7, <1>8, <1>9, <1>10, <1>11, <1>12 DEF Next, Step

\* The write that ends the analysis puts the two results of one worker together.
LEMMA InterpretationFitsNext ==
  ASSUME TypeOK, ImpactIsOwn, InterpretationFitsImpact, [Next]_vars
  PROVE  InterpretationFitsImpact'
<1> USE DEF InterpretationFitsImpact, Analysed
<1>1. CASE incident' \notin Analysed
  BY <1>1
<1>2. CASE UNCHANGED <<incident, results>>
  BY <1>2 DEF results
<1>3. ASSUME NEW w \in Worker, Complete(w) PROVE InterpretationFitsImpact'
  <2>1. CASE Raised(w, "ANALYZING")
    BY <1>2, <2>1 DEF Raised
  <2>2. CASE ~ Raised(w, "ANALYZING")
    BY <1>3, <2>2, AnalysisAssumption DEF Complete, Accepted, ImpactIsOwn
  <2> QED
    BY <2>1, <2>2
<1>4. ASSUME NEW w \in Worker, StartAnalysis(w) \/ CommitImpact(w)
      PROVE  InterpretationFitsImpact'
  BY <1>1, <1>2, <1>4 DEF StartAnalysis, CommitImpact, Raised, Accepted
<1>5. ASSUME NEW w \in Worker, \/ Start(w) \/ Error(w) \/ Crash(w) \/ ClaimRefused(w)
                               \/ Load(w) \/ Interpret(w) \/ ReadLatest(w)
      PROVE  InterpretationFitsImpact'
  BY <1>2, <1>5 DEF Start, Error, Crash, ClaimRefused, Load, Interpret, ReadLatest
<1>6. ASSUME NEW w \in Worker, ClaimNew(w) \/ ClaimResume(w) \/ MarkRetryable(w)
      PROVE  InterpretationFitsImpact'
  BY <1>1, <1>2, <1>6 DEF ClaimNew, ClaimResume, MarkRetryable
<1>7. CASE Recovery
  BY <1>7 DEF Recovery, results
<1>8. CASE Tick \/ UNCHANGED vars
  BY <1>2, <1>8 DEF Tick, vars
<1> QED
  BY <1>3, <1>4, <1>5, <1>6, <1>7, <1>8 DEF Next, Step

(***************************************************************************)
(* Recovery never plans from an interpretation of an impact that another   *)
(* worker replaced while the model was answering.                          *)
(***************************************************************************)
THEOREM InterpretationsFit == Spec => []InterpretationFitsImpact
<1>1. Init => ImpactIsOwn /\ InterpretationFitsImpact
  BY DEF Init, ImpactIsOwn, InterpretationFitsImpact, Analysed
<1>2. TypeOK /\ OneWorkerCanCommit /\ ImpactIsOwn /\ InterpretationFitsImpact /\ [Next]_vars
        => ImpactIsOwn' /\ InterpretationFitsImpact'
  BY ImpactIsOwnNext, InterpretationFitsNext
<1> QED
  BY <1>1, <1>2, TypeCorrect, VersionsFence, PTL DEF Spec
=============================================================================
