------------------------- MODULE ActionExecutor_proofs -------------------------
(***************************************************************************)
(* Proofs about ActionExecutor, for every set of actions, workers and      *)
(* effects, every lease length and every bound.                            *)
(***************************************************************************)
EXTENDS ActionExecutor, TLAPS

(***************************************************************************)
(* What the locals of a running call hold.                                 *)
(***************************************************************************)
LEMMA JobTyped ==
  ASSUME TypeOK, NEW w \in Worker, pc[w] # "idle"
  PROVE  /\ job[w] \in Job
         /\ ActionOf(w) \in Action
         /\ EffectOfJob(w) \in Effect
         /\ ResourceOf[EffectOfJob(w)] \in Resource
         /\ job[w].now \in Nat
         /\ job[w].number \in Nat
<1>1. job[w] \in Job
  BY DEF TypeOK
<1>2. ActionOf(w) \in Action /\ job[w].now \in Nat /\ job[w].number \in Nat
  BY <1>1 DEF Job, ActionOf
<1> QED
  BY <1>1, <1>2, ConstantsAssumption DEF EffectOfJob

\* The part of TypeOK about what the repository stores.
RecordTyped ==
    /\ status \in [Action -> Status]
    /\ owner \in [Action -> WorkerId \cup {NoOne}]
    /\ expiry \in [Action -> Nat]
    /\ retryAt \in [Action -> Nat]
    /\ count \in [Action -> Nat]
    /\ attempts \subseteq AttemptRecord
    /\ receipts \subseteq Effect

\* complete_action_and_create_effect_receipt keeps the records typed.
LEMMA RecordCompletionTyped ==
  ASSUME TypeOK, NEW w \in Worker, NEW outcome, ActionOf(w) \in Action,
         Attempt(w, outcome) \in AttemptRecord, RecordCompletion(w, outcome)
  PROVE  RecordTyped'
<1> USE ConstantsAssumption
<1>1. CASE CompletionAccepted(w, outcome) /\ status[ActionOf(w)] = "LEASED"
  <2>1. attempts' = attempts \cup {Attempt(w, outcome)}
        /\ receipts' = receipts \cup {EffectOf[ActionOf(w)]}
    BY <1>1 DEF RecordCompletion
  <2>2. attempts' \subseteq AttemptRecord /\ receipts' \subseteq Effect
    BY <2>1 DEF TypeOK
  <2> QED
    BY <1>1, <2>2 DEF RecordCompletion, TypeOK, RecordTyped, Status, Receipted
<1>2. CASE ~(CompletionAccepted(w, outcome) /\ status[ActionOf(w)] = "LEASED")
  BY <1>2 DEF RecordCompletion, TypeOK, RecordTyped, stored, ledger
<1> QED
  BY <1>1, <1>2

LEMMA TypeInit == Init => TypeOK
  BY ConstantsAssumption DEF Init, TypeOK, Status, PC, Failures

LEMMA TypeNext == TypeOK /\ [Next]_vars => TypeOK'
<1> SUFFICES ASSUME TypeOK, [Next]_vars PROVE TypeOK'
  OBVIOUS
<1> USE ConstantsAssumption
<1>1. ASSUME NEW w \in Worker, NEW a \in Action, Begin(w, a) PROVE TypeOK'
  BY <1>1 DEF TypeOK, Begin, Goto, Job, PC, stored, ledger, outside, env
<1>2. ASSUME NEW w \in Worker, ReadNothingToDo(w) PROVE TypeOK'
  BY <1>2 DEF TypeOK, ReadNothingToDo, Return, PC, stored, ledger, outside, env
<1>3. ASSUME NEW w \in Worker, Read(w) PROVE TypeOK'
  <2>1. pc[w] # "idle" /\ job[w] \in Job /\ ActionOf(w) \in Action
    BY <1>3, JobTyped DEF Read
  <2>2. job' = [job EXCEPT ![w] = [job[w] EXCEPT !.number = count[ActionOf(w)], !.lease = expiry[ActionOf(w)]]]
    BY <1>3, <2>1 DEF Read, TypeOK
  <2>3. [job[w] EXCEPT !.number = count[ActionOf(w)], !.lease = expiry[ActionOf(w)]] \in Job
    BY <2>1 DEF TypeOK, Job
  <2>4. job' \in [Worker -> Job \cup {NoJob}] /\ job'[w] \in Job
    BY <2>2, <2>3 DEF TypeOK
  <2>5. pc' \in [Worker -> PC]
    BY <1>3 DEF Read, Goto, TypeOK, PC
  <2> QED
    BY <1>3, <2>1, <2>2, <2>4, <2>5 DEF TypeOK, Read, Goto, stored, ledger, outside, env
<1>4. ASSUME NEW w \in Worker, Reread(w) PROVE TypeOK'
  BY <1>4 DEF TypeOK, Reread, Return, Goto, PC, stored, ledger, outside, env
<1>5. ASSUME NEW w \in Worker, Claim(w) PROVE TypeOK'
  <2>1. pc[w] # "idle" /\ job[w] \in Job /\ ActionOf(w) \in Action /\ job[w].now \in Nat
    BY <1>5, JobTyped DEF Claim
  <2>0. count[ActionOf(w)] + 1 \in Nat /\ job[w].now + LeaseLen \in Nat
    BY <2>1 DEF TypeOK
  <2>2. [job[w] EXCEPT !.number = count[ActionOf(w)] + 1] \in Job
    BY <2>0, <2>1 DEF Job
  <2>3. job' \in [Worker -> Job \cup {NoJob}] /\ \A v \in Worker : pc'[v] # "idle" => job'[v] \in Job
    BY <1>5, <2>1, <2>2 DEF Claim, Goto, TypeOK
  <2> QED
    BY <1>5, <2>0, <2>1, <2>3, JobTyped DEF TypeOK, Claim, Goto, Status, PC, ledger, env
<1>6. ASSUME NEW w \in Worker, ClaimRefused(w) PROVE TypeOK'
  BY <1>6 DEF TypeOK, ClaimRefused, Return, PC, stored, ledger, outside, env
<1>7. ASSUME NEW w \in Worker, Confirm(w) PROVE TypeOK'
  BY <1>7 DEF TypeOK, Confirm, Goto, PC, stored, ledger, outside, env
<1>8. ASSUME NEW w \in Worker, Apply(w) PROVE TypeOK'
  <2>1. pc[w] # "idle" /\ EffectOfJob(w) \in Effect /\ ResourceOf[EffectOfJob(w)] \in Resource
    BY <1>8, JobTyped DEF Apply
  <2> QED
    BY <1>8, <2>1 DEF TypeOK, Apply, Bring, Goto, PC, stored, ledger, env
<1>9. ASSUME NEW w \in Worker, Search(w) PROVE TypeOK'
  BY <1>9 DEF TypeOK, Search, Goto, PC, stored, ledger, outside, env
<1>10. ASSUME NEW w \in Worker, Insert(w) PROVE TypeOK'
  <2>1. pc[w] # "idle" /\ EffectOfJob(w) \in Effect /\ ResourceOf[EffectOfJob(w)] \in Resource
    BY <1>10, JobTyped DEF Insert
  <2>2. pc' \in [Worker -> PC] /\ \A v \in Worker : pc'[v] # "idle" => job[v] \in Job
    BY <1>10, <2>1 DEF TypeOK, Insert, Raise, Goto, PC, Failures
  <2> QED
    BY <1>10, <2>1, <2>2 DEF TypeOK, Insert, stored, ledger, env
<1>11. ASSUME NEW w \in Worker, Complete(w) PROVE TypeOK'
  <2>1. pc[w] # "idle" /\ ActionOf(w) \in Action /\ Attempt(w, "SUCCEEDED") \in AttemptRecord
    BY <1>11, JobTyped DEF Complete, Attempt, AttemptRecord
  <2>2. RecordTyped'
    BY <1>11, <2>1, RecordCompletionTyped DEF Complete
  <2> QED
    BY <1>11, <2>2 DEF TypeOK, RecordTyped, Complete, Goto, Return, PC, outside, env
<1>12. ASSUME NEW w \in Worker, Recover(w) PROVE TypeOK'
  <2>1. pc[w] # "idle" /\ ActionOf(w) \in Action /\ Attempt(w, "RECONCILED") \in AttemptRecord
    BY <1>12, JobTyped DEF Recover, Attempt, AttemptRecord
  <2>2. RecordTyped'
    BY <1>12, <2>1, RecordCompletionTyped DEF Recover
  <2> QED
    BY <1>12, <2>2 DEF TypeOK, RecordTyped, Recover, Goto, Return, PC, outside, env
<1>13. ASSUME NEW w \in Worker, Recheck(w) PROVE TypeOK'
  BY <1>13 DEF TypeOK, Recheck, Return, Goto, PC, stored, ledger, outside, env
<1>14. ASSUME NEW w \in Worker, NEW failure \in Failures, Fail(w, failure) PROVE TypeOK'
  <2>1. pc[w] # "idle" /\ ActionOf(w) \in Action /\ Attempt(w, failure) \in AttemptRecord /\ job[w].now \in Nat
    BY <1>14, JobTyped DEF Fail, Attempt, AttemptRecord, Failures
  <2>2. CASE ~ FailureAccepted(w)
    BY <1>14, <2>1, <2>2 DEF TypeOK, Fail, Return, PC, stored, ledger, outside, env
  <2>3. CASE FailureAccepted(w)
    BY <1>14, <2>1, <2>3 DEF TypeOK, Fail, Return, Status, PC, Failures, outside, env
  <2> QED
    BY <2>2, <2>3
<1>15. ASSUME NEW w \in Worker, Verify(w) PROVE TypeOK'
  BY <1>15 DEF TypeOK, Verify, Goto, PC, stored, ledger, outside, env
<1>16. ASSUME NEW w \in Worker, Mark(w) PROVE TypeOK'
  BY <1>16 DEF TypeOK, Mark, ActionOf, Job, Return, Status, Receipted, PC, stored, ledger, outside, env
<1>17. ASSUME NEW w \in Worker, NEW failure \in Failures, Refuse(w, failure) PROVE TypeOK'
  BY <1>17 DEF TypeOK, Refuse, Raise, Goto, Failures, PC, stored, ledger, outside, env
<1>18. ASSUME NEW w \in Worker, Crash(w) PROVE TypeOK'
  BY <1>18 DEF TypeOK, Crash, Return, PC, stored, ledger, outside, env
<1>19. ASSUME NEW a \in Action, Approve(a) PROVE TypeOK'
  BY <1>19 DEF TypeOK, Approve, PC, stored, ledger, outside, env
<1>20. ASSUME Tick PROVE TypeOK'
  BY <1>20 DEF TypeOK, Tick, PC, stored, ledger, outside, env
<1>21. CASE UNCHANGED vars
  BY <1>21 DEF TypeOK, vars, stored, ledger, outside
<1> QED
  BY <1>1, <1>2, <1>3, <1>4, <1>5, <1>6, <1>7, <1>8, <1>9, <1>10, <1>11, <1>12, <1>13, <1>14, <1>15, <1>16, <1>17, <1>18, <1>19, <1>20, <1>21 DEF Next, Step

(***************************************************************************)
(* Every step of every call leaves the stored actions, the ledger and the  *)
(* locals of the calls in the types the code declares for them.            *)
(***************************************************************************)
THEOREM TypeCorrect == Spec => []TypeOK
<1>1. Init => TypeOK
  BY TypeInit
<1>2. TypeOK /\ [Next]_vars => TypeOK'
  BY TypeNext
<1> QED
  BY <1>1, <1>2, PTL DEF Spec

-----------------------------------------------------------------------------
(***************************************************************************)
(* Calls that only look: they change nothing but their own control point   *)
(* and locals.                                                             *)
(***************************************************************************)
Look(w) ==
    \/ ReadNothingToDo(w) \/ Read(w) \/ Reread(w) \/ ClaimRefused(w)
    \/ Confirm(w) \/ Search(w) \/ Recheck(w) \/ Verify(w)
    \/ \E a \in Action : Begin(w, a)
    \/ \E failure \in Failures : Refuse(w, failure)

LEMMA LookChangesNothing ==
  ASSUME NEW w \in Worker, Look(w)
  PROVE  UNCHANGED <<stored, ledger, outside, env>>
  BY DEF Look, Begin, ReadNothingToDo, Read, Reread, ClaimRefused, Confirm,
         Search, Recheck, Verify, Refuse

\* The steps of Next, with those that only look under one name.
LEMMA NextCases ==
  ASSUME [Next]_vars
  PROVE  \/ \E w \in Worker :
               \/ Look(w) \/ Claim(w) \/ Apply(w) \/ Insert(w) \/ Complete(w)
               \/ Recover(w) \/ Mark(w) \/ Crash(w)
               \/ \E failure \in Failures : Fail(w, failure)
         \/ \E a \in Action : Approve(a)
         \/ Tick
         \/ UNCHANGED vars
  BY DEF Next, Step, Look

(***************************************************************************)
(* What a step leaves standing: verdicts, attempts, receipts, approvals    *)
(* and effects are never taken back.                                       *)
(***************************************************************************)
Kept ==
    /\ \A a \in Action : status[a] \in Settled => status'[a] = status[a]
    /\ attempts \subseteq attempts'
    /\ receipts \subseteq receipts'
    /\ approved \subseteq approved'
    /\ \A e \in Effect : copies'[e] >= copies[e]

LEMMA NothingIsTakenBack == TypeOK /\ [Next]_vars => Kept
<1> SUFFICES ASSUME TypeOK, [Next]_vars PROVE Kept
  OBVIOUS
<1>1. ASSUME NEW w \in Worker, Look(w) PROVE Kept
  BY <1>1, LookChangesNothing DEF Kept, TypeOK, stored, ledger, outside, env
<1>2. ASSUME NEW w \in Worker, Claim(w) PROVE Kept
  BY <1>2 DEF Kept, TypeOK, Claim, Claimable, Settled, ledger, env
<1>3. ASSUME NEW w \in Worker, Apply(w) \/ Insert(w) PROVE Kept
  BY <1>3 DEF Kept, TypeOK, Apply, Insert, Bring, stored, ledger, env
<1>4. ASSUME NEW w \in Worker, NEW outcome, RecordCompletion(w, outcome),
             UNCHANGED <<outside, env>>
      PROVE  Kept
  BY <1>4 DEF Kept, TypeOK, RecordCompletion, Settled, stored, ledger, outside, env
<1>5. ASSUME NEW w \in Worker, NEW failure \in Failures, Fail(w, failure) PROVE Kept
  BY <1>5 DEF Kept, TypeOK, Fail, FailureAccepted, Settled, stored, ledger, outside, env
<1>6. ASSUME NEW w \in Worker, Mark(w) PROVE Kept
  BY <1>6 DEF Kept, TypeOK, Mark, Settled, ledger, outside, env
<1>7. ASSUME NEW w \in Worker, Crash(w) PROVE Kept
  BY <1>7 DEF Kept, TypeOK, Crash, stored, ledger, outside
<1>8. ASSUME NEW a \in Action, Approve(a) PROVE Kept
  BY <1>8 DEF Kept, TypeOK, Approve, stored, ledger, outside
<1>9. CASE Tick \/ UNCHANGED vars
  BY <1>9 DEF Kept, TypeOK, Tick, vars, stored, ledger, outside
<1> QED
  BY <1>1, <1>2, <1>3, <1>4, <1>5, <1>6, <1>7, <1>8, <1>9, NextCases
     DEF Complete, Recover

(***************************************************************************)
(* A verdict is final and the audit trail is append-only, for every number *)
(* of workers and actions: no late worker reopens a settled action.        *)
(***************************************************************************)
THEOREM VerdictsStayFinal == Spec => VerdictsAreFinal
<1>1. TypeOK /\ [Next]_vars =>
        [ /\ \A a \in Action : status[a] \in Settled => status'[a] = status[a]
          /\ attempts \subseteq attempts'
          /\ receipts \subseteq receipts' ]_vars
  BY NothingIsTakenBack DEF Kept
<1> QED
  BY <1>1, TypeCorrect, PTL DEF Spec, VerdictsAreFinal

-----------------------------------------------------------------------------
(***************************************************************************)
(* How a call moves: it starts at "read" for an action that is permitted,  *)
(* keeps its action, and passes "read" only if the prerequisites are       *)
(* verified.                                                               *)
(***************************************************************************)
CallMoves(w) ==
    \/ /\ pc'[w] = "read"
       /\ Permitted(job'[w].action)
    \/ /\ pc[w] # "idle"
       /\ job'[w].action = job[w].action
       /\ pc[w] = "read" => PrereqsVerified(job[w].action)
    \/ UNCHANGED <<pc[w], job[w]>>

LEMMA CallsMove ==
  ASSUME TypeOK, [Next]_vars, NEW v \in Worker, pc'[v] # "idle"
  PROVE  CallMoves(v)
<1>1. ASSUME NEW w \in Worker, NEW a \in Action, Begin(w, a) PROVE CallMoves(v)
  BY <1>1 DEF CallMoves, Begin, Goto, Permitted, TypeOK
<1>2. ASSUME NEW w \in Worker, Read(w) PROVE CallMoves(v)
  <2>1. CASE v = w
    <3>1. pc[w] # "idle" /\ job[w] \in Job
      BY <1>2 DEF Read, TypeOK
    <3>2. job'[w].action = job[w].action
      BY <1>2, <3>1 DEF Read, TypeOK, Job
    <3> QED
      BY <1>2, <2>1, <3>1, <3>2 DEF CallMoves, Read, PrereqsVerified, ActionOf
  <2>2. CASE v # w
    BY <1>2, <2>2 DEF CallMoves, Read, Goto, TypeOK
  <2> QED
    BY <2>1, <2>2
<1>3. ASSUME NEW w \in Worker, Claim(w) PROVE CallMoves(v)
  <2>1. CASE v = w
    <3>1. pc[w] # "idle" /\ pc[w] # "read" /\ job[w] \in Job
      BY <1>3 DEF Claim, TypeOK
    <3>2. job'[w].action = job[w].action
      BY <1>3, <3>1 DEF Claim, TypeOK, Job
    <3> QED
      BY <2>1, <3>1, <3>2 DEF CallMoves
  <2>2. CASE v # w
    BY <1>3, <2>2 DEF CallMoves, Claim, Goto, TypeOK
  <2> QED
    BY <2>1, <2>2
<1>4. ASSUME NEW w \in Worker, pc[w] # "idle", pc[w] # "read",
             NEW label, Goto(w, label), UNCHANGED job
      PROVE  CallMoves(v)
  BY <1>4 DEF CallMoves, Goto, TypeOK
<1>5. ASSUME NEW w \in Worker, Return(w) PROVE CallMoves(v)
  BY <1>5 DEF CallMoves, Return, TypeOK
<1>6. CASE UNCHANGED <<pc, job>>
  BY <1>6 DEF CallMoves
<1>7. ASSUME NEW w \in Worker, Refuse(w, "FAILED_RETRYABLE") \/ Refuse(w, "FAILED_TERMINAL")
      PROVE  CallMoves(v)
  BY <1>7, <1>4 DEF Refuse, Raise
<1>8. ASSUME NEW w \in Worker, Step(w) PROVE CallMoves(v)
  <2>1. CASE Reread(w) \/ Confirm(w) \/ Apply(w) \/ Search(w) \/ Verify(w)
    BY <2>1, <1>4, <1>5 DEF Reread, Confirm, Apply, Search, Verify
  <2>2. CASE Insert(w)
    BY <2>2, <1>4 DEF Insert, Raise
  <2>3. CASE Complete(w) \/ Recover(w) \/ Recheck(w)
    BY <2>3, <1>4, <1>5 DEF Complete, Recover, Recheck
  <2>4. CASE ReadNothingToDo(w) \/ ClaimRefused(w) \/ Mark(w) \/ \E failure \in Failures : Fail(w, failure)
    BY <2>4, <1>5 DEF ReadNothingToDo, ClaimRefused, Mark, Fail
  <2> QED
    BY <1>8, <1>2, <1>3, <2>1, <2>2, <2>3, <2>4 DEF Step
<1> QED
  BY <1>1, <1>5, <1>6, <1>7, <1>8 DEF Next, Failures, Crash, Approve, Tick, vars

LEMMA RunningIsSanctionedNext ==
  ASSUME TypeOK, RunningIsSanctioned, [Next]_vars
  PROVE  RunningIsSanctioned'
<1> SUFFICES ASSUME NEW w \in Worker, pc'[w] # "idle"
             PROVE  /\ Permitted(job[w].action)'
                    /\ pc'[w] # "read" => PrereqsVerified(job[w].action)'
  BY DEF RunningIsSanctioned, ActionOf
<1>1. ASSUME NEW a, Permitted(a)
      PROVE  a \in NeedsApproval => a \in approved'
  BY <1>1, NothingIsTakenBack DEF Kept, Permitted
<1>2. ASSUME NEW a \in Action, PrereqsVerified(a)
      PROVE  \A p \in Prereqs[a] : status'[p] = "VERIFIED"
  BY <1>2, NothingIsTakenBack, ConstantsAssumption DEF Kept, PrereqsVerified, Settled
<1>3. CallMoves(w)
  BY CallsMove
<1>4. pc[w] # "idle" => job[w].action \in Action
  BY DEF TypeOK, Job
<1>5. pc[w] # "idle" => Permitted(job[w].action)
  BY DEF RunningIsSanctioned, ActionOf
<1>6. pc[w] \notin {"idle", "read"} => PrereqsVerified(job[w].action)
  BY DEF RunningIsSanctioned, ActionOf
<1>7. Permitted(job[w].action)'
  BY <1>1, <1>3, <1>5 DEF CallMoves, Permitted
<1>8. pc'[w] # "read" => PrereqsVerified(job[w].action)'
  BY <1>2, <1>3, <1>4, <1>6 DEF CallMoves, PrereqsVerified
<1> QED
  BY <1>7, <1>8

-----------------------------------------------------------------------------
\* Only Apply and Insert change anything at a provider.
LEMMA OutsideChanges ==
  ASSUME [Next]_vars
  PROVE  UNCHANGED <<provider, copies>> \/ \E w \in Worker : Apply(w) \/ Insert(w)
<1>1. ASSUME NEW w \in Worker, Look(w) PROVE UNCHANGED <<provider, copies>>
  BY <1>1, LookChangesNothing DEF outside
<1> QED
  BY <1>1, NextCases DEF Claim, Complete, Recover, Mark, Crash, Fail, Approve, Tick,
                         vars, outside

\* What an effect looks like after the call that brings it about.
LEMMA MutationCounts ==
  ASSUME TypeOK, NEW w \in Worker, Apply(w) \/ Insert(w), ProviderIsCounted
  PROVE  /\ pc[w] \notin {"idle", "read"}
         /\ EffectOfJob(w) \in Effect
         /\ copies'[EffectOfJob(w)] > 0
         /\ \A e \in Effect \ {EffectOfJob(w)} :
               /\ copies'[e] = copies[e]
               /\ provider'[ResourceOf[e]] = e => provider[ResourceOf[e]] = e
<1>1. pc[w] \notin {"idle", "read"} /\ EffectOfJob(w) \in Effect
      /\ ResourceOf[EffectOfJob(w)] \in Resource
  BY JobTyped DEF Apply, Insert
<1>2. \A e \in Effect : ResourceOf[e] \in Resource /\ copies[e] \in Nat
  BY ConstantsAssumption DEF TypeOK
<1>3. CASE Apply(w)
  BY <1>1, <1>2, <1>3 DEF Apply, Bring, Holds, ProviderIsCounted, TypeOK
<1>4. CASE Insert(w)
  BY <1>1, <1>2, <1>4 DEF Insert, TypeOK
<1> QED
  BY <1>1, <1>3, <1>4

LEMMA ProviderIsCountedNext ==
  ASSUME TypeOK, ProviderIsCounted, [Next]_vars
  PROVE  ProviderIsCounted'
<1>1. CASE UNCHANGED <<provider, copies>>
  BY <1>1 DEF ProviderIsCounted, Holds
<1>2. ASSUME NEW w \in Worker, Apply(w) \/ Insert(w) PROVE ProviderIsCounted'
  BY <1>2, MutationCounts DEF ProviderIsCounted, Holds
<1> QED
  BY <1>1, <1>2, OutsideChanges

(***************************************************************************)
(* A call gets to the point of recording a success only by changing the    *)
(* provider or by finding the effect there.                                *)
(***************************************************************************)
LEMMA SuccessIsEntered ==
  ASSUME TypeOK, [Next]_vars, NEW v \in Worker, pc'[v] \in {"complete", "recover"}
  PROVE  \/ pc[v] \in {"complete", "recover"}
         \/ pc[v] # "idle" /\ Holds(EffectOfJob(v))
         \/ Apply(v) \/ Insert(v)
<1> DEFINE Goal == \/ pc[v] \in {"complete", "recover"}
                   \/ pc[v] # "idle" /\ Holds(EffectOfJob(v))
                   \/ Apply(v) \/ Insert(v)
<1>2. ASSUME NEW w \in Worker, Return(w) PROVE Goal
  BY <1>2 DEF Return, TypeOK
<1>3. CASE UNCHANGED pc
  BY <1>3
<1>4. ASSUME NEW w \in Worker, Read(w) \/ Claim(w) \/ Verify(w) PROVE Goal
  BY <1>4 DEF Goto, TypeOK, Begin, Read, Claim, Verify
<1>5. ASSUME NEW w \in Worker, Reread(w) \/ Confirm(w) \/ Search(w) PROVE Goal
  BY <1>5 DEF Goto, Return, TypeOK, Reread, Confirm, Search
<1>6. ASSUME NEW w \in Worker, Apply(w) \/ Insert(w) PROVE Goal
  BY <1>6 DEF Goto, Raise, Failures, TypeOK, Apply, Insert
<1>7. ASSUME NEW w \in Worker, Complete(w) \/ Recover(w) \/ Recheck(w) PROVE Goal
  BY <1>7 DEF Goto, Return, TypeOK, Complete, Recover, Recheck
<1>8. ASSUME NEW w \in Worker, NEW a \in Action, Begin(w, a) PROVE Goal
  BY <1>8 DEF Goto, TypeOK, Begin
<1>9. ASSUME NEW w \in Worker, NEW failure \in Failures, Refuse(w, failure) PROVE Goal
  BY <1>9 DEF Goto, Raise, Failures, TypeOK, Refuse
<1>10. ASSUME NEW w \in Worker, ReadNothingToDo(w) \/ ClaimRefused(w) \/ Mark(w) \/ Crash(w)
                                \/ \E failure \in Failures : Fail(w, failure)
       PROVE  Goal
  BY <1>2, <1>10 DEF ReadNothingToDo, ClaimRefused, Fail, Mark, Crash
<1>11. ASSUME NEW a \in Action, Approve(a) PROVE Goal
  BY <1>11 DEF Approve
<1>15. CASE Tick \/ UNCHANGED vars
  BY <1>3, <1>15 DEF Tick, vars
<1>12. ASSUME NEW w \in Worker, Step(w) PROVE Goal
  BY <1>4, <1>5, <1>6, <1>7, <1>10, <1>12 DEF Step
<1>13. ASSUME NEW w \in Worker, Crash(w) PROVE Goal
  BY <1>10, <1>13
<1>14. Goal
  BY <1>8, <1>9, <1>11, <1>12, <1>13, <1>15 DEF Next
<1> QED
  BY <1>14 DEF Goal

LEMMA SuccessWasSeenNext ==
  ASSUME TypeOK, ProviderIsCounted, SuccessWasSeen, [Next]_vars
  PROVE  SuccessWasSeen'
<1> SUFFICES ASSUME NEW w \in Worker, pc'[w] \in {"complete", "recover"}
             PROVE  copies'[EffectOfJob(w)'] > 0
  BY DEF SuccessWasSeen
<1>1. \/ pc[w] \in {"complete", "recover"}
      \/ pc[w] # "idle" /\ Holds(EffectOfJob(w))
      \/ Apply(w) \/ Insert(w)
  BY SuccessIsEntered
<1>2. pc[w] # "idle"
  BY <1>1 DEF Apply, Insert
<1>3. EffectOfJob(w) \in Effect
  BY <1>2, JobTyped
<1>4. EffectOfJob(w)' = EffectOfJob(w)
  BY CallsMove DEF CallMoves, EffectOfJob, ActionOf
<1>5. copies'[EffectOfJob(w)] >= copies[EffectOfJob(w)] /\ copies[EffectOfJob(w)] \in Nat
      /\ copies'[EffectOfJob(w)] \in Nat
  BY <1>3, NothingIsTakenBack, TypeNext DEF Kept, TypeOK
<1>6. CASE pc[w] \in {"complete", "recover"}
  BY <1>4, <1>5, <1>6 DEF SuccessWasSeen
<1>7. CASE Holds(EffectOfJob(w))
  BY <1>3, <1>4, <1>5, <1>7 DEF ProviderIsCounted
<1>8. CASE Apply(w) \/ Insert(w)
  BY <1>4, <1>8, MutationCounts
<1> QED
  BY <1>1, <1>6, <1>7, <1>8

-----------------------------------------------------------------------------
(***************************************************************************)
(* How the books change: only a call that saw the effect adds a receipt,   *)
(* and only it makes an action count as done.                              *)
(***************************************************************************)
Records(w, outcome) ==
    /\ pc[w] \in {"complete", "recover"}
    /\ CompletionAccepted(w, outcome)
    /\ status' = [status EXCEPT ![ActionOf(w)] = "SUCCEEDED"]
    /\ receipts' = receipts \cup {EffectOfJob(w)}

\* The statuses that count as done stay among themselves, and receipts stand.
BooksAreKept ==
    /\ receipts' = receipts
    /\ \A a \in Action : status'[a] \in Receipted => status[a] \in Receipted

LEMMA BooksChange ==
  ASSUME TypeOK, [Next]_vars
  PROVE  BooksAreKept \/ \E w \in Worker : \E outcome : Records(w, outcome)
<1>1. ASSUME NEW w \in Worker, NEW outcome, pc[w] \in {"complete", "recover"},
             RecordCompletion(w, outcome)
      PROVE  BooksAreKept \/ Records(w, outcome)
  BY <1>1 DEF RecordCompletion, Records, BooksAreKept, EffectOfJob, stored, ledger
<1>2. ASSUME NEW w \in Worker, Complete(w) \/ Recover(w)
      PROVE  BooksAreKept \/ \E outcome : Records(w, outcome)
  BY <1>1, <1>2 DEF Complete, Recover
<1>3. ASSUME NEW w \in Worker, Look(w) PROVE BooksAreKept
  BY <1>3, LookChangesNothing DEF BooksAreKept, stored, ledger
<1>4. ASSUME NEW w \in Worker, Claim(w) PROVE BooksAreKept
  BY <1>4 DEF Claim, BooksAreKept, ledger, Receipted, TypeOK
<1>5. ASSUME NEW w \in Worker, NEW failure \in Failures, Fail(w, failure) PROVE BooksAreKept
  BY <1>5 DEF Fail, BooksAreKept, stored, ledger, Receipted, Failures, TypeOK
<1>6. ASSUME NEW w \in Worker, Mark(w) PROVE BooksAreKept
  BY <1>6 DEF Mark, BooksAreKept, ledger, Receipted, TypeOK
<1>7. ASSUME NEW w \in Worker, Apply(w) \/ Insert(w) \/ Crash(w) PROVE BooksAreKept
  BY <1>7 DEF Apply, Insert, Crash, BooksAreKept, stored, ledger
<1>8. ASSUME NEW a \in Action, Approve(a) PROVE BooksAreKept
  BY <1>8 DEF Approve, BooksAreKept, stored, ledger
<1>9. CASE Tick \/ UNCHANGED vars
  BY <1>9 DEF Tick, vars, BooksAreKept, stored, ledger
<1> QED
  BY <1>2, <1>3, <1>4, <1>5, <1>6, <1>7, <1>8, <1>9, NextCases

LEMMA BooksNext ==
  ASSUME TypeOK, SuccessWasSeen, ReceiptsAreReal, DoneIsReceipted, [Next]_vars
  PROVE  ReceiptsAreReal' /\ DoneIsReceipted'
<1>1. \A e \in Effect : copies[e] > 0 => copies'[e] > 0
  <2>1. TypeOK'
    BY TypeNext
  <2> QED
    BY <2>1, NothingIsTakenBack DEF Kept, TypeOK
<1>2. CASE BooksAreKept
  BY <1>1, <1>2 DEF BooksAreKept, ReceiptsAreReal, DoneIsReceipted, TypeOK
<1>3. ASSUME NEW w \in Worker, NEW outcome, Records(w, outcome)
      PROVE  ReceiptsAreReal' /\ DoneIsReceipted'
  <2>1. pc[w] # "idle" /\ EffectOfJob(w) \in Effect /\ copies[EffectOfJob(w)] > 0
    BY <1>3, JobTyped DEF Records, SuccessWasSeen
  <2>2. ReceiptsAreReal'
    BY <1>1, <1>3, <2>1 DEF Records, ReceiptsAreReal, TypeOK
  <2>3. DoneIsReceipted'
    BY <1>3, <2>1 DEF Records, DoneIsReceipted, EffectOfJob, TypeOK
  <2> QED
    BY <2>2, <2>3
<1> QED
  BY <1>2, <1>3, BooksChange

LEMMA EffectsAreSanctionedNext ==
  ASSUME TypeOK, ProviderIsCounted, RunningIsSanctioned, EffectsAreSanctioned, [Next]_vars
  PROVE  EffectsAreSanctioned'
<1> DEFINE Sanctioned(a) == Permitted(a) /\ PrereqsVerified(a)
<1>1. ASSUME NEW a \in Action, Sanctioned(a) PROVE Sanctioned(a)'
  <2>1. Permitted(a)'
    BY <1>1, NothingIsTakenBack DEF Kept, Permitted
  <2>2. PrereqsVerified(a)'
    BY <1>1, NothingIsTakenBack, ConstantsAssumption DEF Kept, PrereqsVerified, Settled
  <2> QED
    BY <2>1, <2>2
<1>2. \A e \in Effect : copies[e] > 0 => \E a \in Action : EffectOf[a] = e /\ Sanctioned(a)
  BY DEF EffectsAreSanctioned, Permitted, PrereqsVerified
<1>3. ASSUME NEW w \in Worker, pc[w] \notin {"idle", "read"}
      PROVE  ActionOf(w) \in Action /\ Sanctioned(ActionOf(w))
  BY <1>3, JobTyped DEF RunningIsSanctioned
<1>4. ASSUME NEW e \in Effect, copies'[e] > 0
      PROVE  \E a \in Action : EffectOf[a] = e /\ Sanctioned(a)
  <2>1. CASE UNCHANGED <<provider, copies>>
    BY <1>2, <1>4, <2>1
  <2>2. ASSUME NEW w \in Worker, Apply(w) \/ Insert(w)
        PROVE  \E a \in Action : EffectOf[a] = e /\ Sanctioned(a)
    <3>1. pc[w] \notin {"idle", "read"}
      BY <2>2 DEF Apply, Insert
    <3>2. CASE e = EffectOfJob(w)
      BY <1>3, <3>1, <3>2 DEF EffectOfJob
    <3>3. CASE e # EffectOfJob(w)
      BY <1>2, <1>4, <2>2, <3>3, MutationCounts
    <3> QED
      BY <3>2, <3>3
  <2> QED
    BY <2>1, <2>2, OutsideChanges
<1>5. \A e \in Effect : copies'[e] > 0 => \E a \in Action : EffectOf[a] = e /\ Sanctioned(a)'
  BY <1>1, <1>4
<1> QED
  BY <1>5 DEF EffectsAreSanctioned, Permitted, PrereqsVerified

LEMMA SafetyInit == Init => SafetyInv
<1> SUFFICES ASSUME Init PROVE SafetyInv
  OBVIOUS
<1>1. TypeOK
  BY TypeInit
<1>2. \A e \in Effect : ~ Holds(e)
  BY ConstantsAssumption DEF Init, Holds
<1> QED
  BY <1>1, <1>2, ConstantsAssumption
     DEF Init, SafetyInv, RunningIsSanctioned, SuccessWasSeen, ProviderIsCounted,
         ReceiptsAreReal, DoneIsReceipted, EffectsAreSanctioned, Receipted

LEMMA SafetyNext == SafetyInv /\ [Next]_vars => SafetyInv'
  BY TypeNext, RunningIsSanctionedNext, SuccessWasSeenNext, ProviderIsCountedNext,
     BooksNext, EffectsAreSanctionedNext
     DEF SafetyInv

(***************************************************************************)
(* The inductive invariant of execute: what running calls know, what the   *)
(* provider carries and what the books say fit together in every state.    *)
(***************************************************************************)
THEOREM SafetyInvariant == Spec => []SafetyInv
  BY SafetyInit, SafetyNext, PTL DEF Spec

(***************************************************************************)
(* A receipt is only ever written for an effect the provider had, however  *)
(* many workers execute, reconcile, lose their lease or crash.             *)
(***************************************************************************)
THEOREM ReceiptsStayReal == Spec => []ReceiptsAreReal
<1>1. SafetyInv => ReceiptsAreReal
  BY DEF SafetyInv
<1> QED
  BY <1>1, SafetyInvariant, PTL

(***************************************************************************)
(* An action that counts as done has a receipt of its effect.              *)
(***************************************************************************)
THEOREM DoneStaysReceipted == Spec => []DoneIsReceipted
<1>1. SafetyInv => DoneIsReceipted
  BY DEF SafetyInv
<1> QED
  BY <1>1, SafetyInvariant, PTL

(***************************************************************************)
(* Whatever reached a provider had its prerequisites verified and, where   *)
(* policy asks for it, the traveler's approval.                            *)
(***************************************************************************)
THEOREM EffectsStaySanctioned == Spec => []EffectsAreSanctioned
<1>1. SafetyInv => EffectsAreSanctioned
  BY DEF SafetyInv
<1> QED
  BY <1>1, SafetyInvariant, PTL

-----------------------------------------------------------------------------
\* A call keeps the time it was given.
LEMMA TimeStays ==
  ASSUME TypeOK, [Next]_vars, NEW v \in Worker, pc'[v] # "idle"
  PROVE  \/ \E a \in Action : Begin(v, a)
         \/ pc[v] # "idle" /\ job'[v].now = job[v].now
<1> DEFINE Goal == \/ \E a \in Action : Begin(v, a)
                   \/ pc[v] # "idle" /\ job'[v].now = job[v].now
<1>1. ASSUME NEW w \in Worker, Return(w) PROVE Goal
  BY <1>1 DEF Return, TypeOK
<1>2. CASE UNCHANGED <<pc, job>>
  BY <1>2
<1>3. ASSUME NEW w \in Worker, Read(w) \/ Claim(w) PROVE Goal
  <2>1. pc[w] # "idle" /\ job[w] \in Job
    BY <1>3, JobTyped DEF Read, Claim
  <2>2. job'[w].now = job[w].now
    BY <1>3, <2>1 DEF Read, Claim, TypeOK, Job
  <2>3. v # w => job'[v] = job[v] /\ pc'[v] = pc[v]
    BY <1>3 DEF Read, Claim, Goto, TypeOK
  <2> QED
    BY <2>1, <2>2, <2>3
<1>4. ASSUME NEW w \in Worker, Reread(w) \/ Complete(w) \/ Recheck(w) PROVE Goal
  BY <1>1, <1>4 DEF Goto, TypeOK, Reread, Complete, Recheck
<1>5. ASSUME NEW w \in Worker, Confirm(w) \/ Search(w) \/ Apply(w) \/ Verify(w) \/ Recover(w)
      PROVE Goal
  BY <1>5 DEF Goto, TypeOK, Confirm, Search, Apply, Verify, Recover
<1>6. ASSUME NEW w \in Worker, Insert(w) \/ \E failure \in Failures : Refuse(w, failure)
      PROVE Goal
  BY <1>6 DEF Goto, TypeOK, Insert, Refuse, Raise
<1>7. ASSUME NEW w \in Worker, NEW a \in Action, Begin(w, a) PROVE Goal
  BY <1>7 DEF Goto, TypeOK, Begin
<1>8. ASSUME NEW w \in Worker, ReadNothingToDo(w) \/ ClaimRefused(w) \/ Mark(w) \/ Crash(w)
                               \/ \E failure \in Failures : Fail(w, failure)
      PROVE  Goal
  BY <1>1, <1>8 DEF ReadNothingToDo, ClaimRefused, Fail, Mark, Crash
<1>9. CASE (\E a \in Action : Approve(a)) \/ Tick \/ UNCHANGED vars
  BY <1>2, <1>9 DEF Approve, Tick, vars
<1> QED
  BY <1>3, <1>4, <1>5, <1>6, <1>7, <1>8, <1>9 DEF Next, Step

LEMMA LeasesAreDatedInit == Init => LeasesAreDated
  BY ConstantsAssumption DEF Init, LeasesAreDated

LEMMA LeasesAreDatedNext ==
  ASSUME TypeOK, LeasesAreDated, [Next]_vars
  PROVE  LeasesAreDated'
<1> DEFINE Dated == \A a \in Action : status'[a] # "LEASED" => expiry'[a] = 0
<1>1. ASSUME UNCHANGED stored PROVE Dated
  BY <1>1 DEF LeasesAreDated, stored
<1>2. ASSUME NEW w \in Worker, Claim(w) PROVE Dated
  BY <1>2 DEF Claim, LeasesAreDated, TypeOK
<1>3. ASSUME NEW w \in Worker, NEW outcome, RecordCompletion(w, outcome) PROVE Dated
  BY <1>1, <1>3 DEF RecordCompletion, LeasesAreDated, TypeOK
<1>4. ASSUME NEW w \in Worker, NEW failure \in Failures, Fail(w, failure) PROVE Dated
  BY <1>1, <1>4 DEF Fail, LeasesAreDated, TypeOK
<1>5. ASSUME NEW w \in Worker, Mark(w) PROVE Dated
  BY <1>5 DEF Mark, LeasesAreDated, TypeOK
<1>6. Dated
  <2>1. ASSUME NEW w \in Worker, Look(w) PROVE Dated
    BY <1>1, <2>1, LookChangesNothing
  <2>2. ASSUME NEW w \in Worker, Apply(w) \/ Insert(w) \/ Crash(w) PROVE Dated
    BY <1>1, <2>2 DEF Apply, Insert, Crash
  <2>3. ASSUME NEW a \in Action, Approve(a) PROVE Dated
    BY <1>1, <2>3 DEF Approve
  <2>4. ASSUME Tick \/ UNCHANGED vars PROVE Dated
    BY <1>1, <2>4 DEF Tick, vars
  <2> QED
    BY <1>2, <1>3, <1>4, <1>5, <2>1, <2>2, <2>3, <2>4, NextCases DEF Complete, Recover
<1>7. clock' \in Nat /\ clock \in Nat /\ clock' >= clock
  <2>1. ASSUME NEW w \in Worker, Look(w) PROVE clock' = clock
    BY <2>1, LookChangesNothing DEF env
  <2> QED
    BY <2>1, NextCases DEF TypeOK, Claim, Apply, Insert, Complete, Recover, Mark, Crash,
       Fail, Approve, Tick, vars, env
<1>8. ASSUME NEW v \in Worker, pc'[v] # "idle" PROVE job'[v].now <= clock'
  <2>1. CASE \E a \in Action : Begin(v, a)
    BY <1>7, <2>1 DEF Begin, TypeOK, env
  <2>2. CASE pc[v] # "idle" /\ job'[v].now = job[v].now
    <3>1. job[v].now \in Nat /\ job[v].now <= clock
      BY <2>2, JobTyped DEF LeasesAreDated
    <3> QED
      BY <1>7, <2>2, <3>1
  <2>3. \/ \E a \in Action : Begin(v, a)
        \/ pc[v] # "idle" /\ job'[v].now = job[v].now
    BY <1>8, TimeStays
  <2> QED
    BY <2>1, <2>2, <2>3
<1> QED
  BY <1>6, <1>8 DEF LeasesAreDated

(***************************************************************************)
(* A call gets to the point of changing a provider only by its claim, and  *)
(* keeps its action until it has its answer.                               *)
(***************************************************************************)
LEMMA WorkIsEntered ==
  ASSUME TypeOK, [Next]_vars, NEW v \in Worker, AtWork(v)'
  PROVE  \/ Claim(v)
         \/ /\ AtWork(v) /\ job'[v] = job[v]
            /\ pc'[v] = pc[v] \/ Confirm(v) \/ Search(v)
<1> DEFINE Goal == \/ Claim(v)
                   \/ /\ AtWork(v) /\ job'[v] = job[v]
                      /\ pc'[v] = pc[v] \/ Confirm(v) \/ Search(v)
<1>1. ASSUME NEW w \in Worker, Return(w) PROVE Goal
  BY <1>1 DEF Return, TypeOK, AtWork
<1>2. CASE UNCHANGED <<pc, job>>
  BY <1>2 DEF AtWork
<1>3. ASSUME NEW w \in Worker, Read(w) \/ Claim(w) \/ Verify(w) PROVE Goal
  BY <1>3 DEF Goto, TypeOK, Read, Claim, Verify, AtWork
<1>4. ASSUME NEW w \in Worker, Reread(w) PROVE Goal
  BY <1>1, <1>4 DEF Goto, TypeOK, Reread, AtWork
<1>5. ASSUME NEW w \in Worker, Confirm(w) \/ Search(w) PROVE Goal
  BY <1>5 DEF Goto, TypeOK, Confirm, Search, AtWork
<1>6. ASSUME NEW w \in Worker, Apply(w) PROVE Goal
  BY <1>6 DEF Goto, TypeOK, Apply, AtWork
<1>7. ASSUME NEW w \in Worker, Insert(w) PROVE Goal
  BY <1>7 DEF Goto, TypeOK, Insert, Raise, Failures, AtWork
<1>8. ASSUME NEW w \in Worker, Complete(w) \/ Recover(w) \/ Recheck(w) PROVE Goal
  BY <1>1, <1>8 DEF Goto, TypeOK, Complete, Recover, Recheck, AtWork
<1>9. ASSUME NEW w \in Worker, NEW a \in Action, Begin(w, a) PROVE Goal
  BY <1>9 DEF Goto, TypeOK, Begin, AtWork
<1>10. ASSUME NEW w \in Worker, NEW failure \in Failures, Refuse(w, failure) PROVE Goal
  BY <1>10 DEF Goto, Raise, Failures, TypeOK, Refuse, AtWork
<1>11. ASSUME NEW w \in Worker, ReadNothingToDo(w) \/ ClaimRefused(w) \/ Mark(w) \/ Crash(w)
                                \/ \E failure \in Failures : Fail(w, failure)
       PROVE  Goal
  BY <1>1, <1>11 DEF ReadNothingToDo, ClaimRefused, Fail, Mark, Crash
<1>12. CASE (\E a \in Action : Approve(a)) \/ Tick \/ UNCHANGED vars
  BY <1>2, <1>12 DEF Approve, Tick, vars
<1>13. ASSUME NEW w \in Worker, Step(w) PROVE Goal
  BY <1>3, <1>4, <1>5, <1>6, <1>7, <1>8, <1>11, <1>13 DEF Step
<1>14. ASSUME NEW w \in Worker, Crash(w) PROVE Goal
  BY <1>11, <1>14
<1> QED
  BY <1>9, <1>10, <1>12, <1>13, <1>14 DEF Next

LEMMA ContestedGrows ==
  ASSUME [Next]_vars
  PROVE  contested \subseteq contested'
<1>1. ASSUME NEW w \in Worker, Look(w) PROVE contested' = contested
  BY <1>1, LookChangesNothing DEF outside
<1> QED
  BY <1>1, NextCases DEF Claim, Apply, Insert, Complete, Recover, Mark, Crash, Fail,
     Approve, Tick, vars, outside

\* Who is granted an action while another call is at work on its effect contests it.
LEMMA GrantedIsContested ==
  ASSUME TypeOK, LeasesAreDated, NEW v \in Worker, NEW w \in Worker, v # w,
         Claim(w), AtWork(v), EffectOfJob(v) = EffectOfJob(w)
  PROVE  EffectOfJob(w) \in contested'
<1>1. ActionOf(w) \in Action /\ job[w].now \in Nat /\ job[w].now <= clock
  BY JobTyped DEF Claim, LeasesAreDated
<1>2. expiry[ActionOf(w)] \in Nat /\ clock \in Nat
  BY <1>1 DEF TypeOK
<1>3. expiry[ActionOf(w)] <= clock
  BY <1>1, <1>2 DEF Claim, Claimable, LeasesAreDated
<1>4. Contests(w)
  BY <1>3 DEF Contests
<1> QED
  BY <1>4 DEF Claim

\* An effect nobody contests is changed by the one call at work on it, or not at all.
LEMMA UncontestedChanges ==
  ASSUME TypeOK, OwnMarkers, NEW u \in Worker, Apply(u) \/ Insert(u),
         NEW e \in LookupEffect, LooksBeforeInsert(e),
         copies[e] = IF Holds(e) THEN 1 ELSE 0
  PROVE  /\ EffectOfJob(u) # e => copies'[e] = copies[e] /\ (Holds(e)' <=> Holds(e))
         /\ EffectOfJob(u) = e => copies'[e] = 1 /\ Holds(e)'
<1>1. e \in Effect /\ ResourceOf[e] \in Resource
  BY ConstantsAssumption
<1>2. EffectOfJob(u) \in Effect /\ ResourceOf[EffectOfJob(u)] \in Resource
  BY JobTyped DEF Apply, Insert
<1>3. CASE EffectOfJob(u) # e
  <2>1. ResourceOf[EffectOfJob(u)] # ResourceOf[e]
    BY <1>2, <1>3 DEF OwnMarkers
  <2> QED
    BY <1>1, <1>2, <1>3, <2>1 DEF Apply, Insert, Bring, Holds, TypeOK
<1>4. CASE EffectOfJob(u) = e
  <2>1. pc[u] # "apply" /\ (pc[u] = "insert" => ~ Holds(e))
    BY <1>4 DEF LooksBeforeInsert, AtWork
  <2>2. Insert(u) /\ copies[e] = 0
    BY <2>1 DEF Apply, Insert
  <2> QED
    BY <1>1, <1>2, <1>4, <2>2 DEF Insert, Holds, TypeOK
<1> QED
  BY <1>3, <1>4

LEMMA UncontestedInit == Init => UncontestedInv
  BY ConstantsAssumption
     DEF Init, UncontestedInv, WorksAlone, LooksBeforeInsert, AtWork, Holds

LEMMA UncontestedNext ==
  ASSUME TypeOK, OwnMarkers, LeasesAreDated, UncontestedInv, [Next]_vars
  PROVE  UncontestedInv'
<1> SUFFICES ASSUME NEW e \in LookupEffect, e \notin contested'
             PROVE  /\ WorksAlone(e)'
                    /\ LooksBeforeInsert(e)'
                    /\ copies'[e] = IF Holds(e)' THEN 1 ELSE 0
  BY DEF UncontestedInv
<1>1. WorksAlone(e) /\ LooksBeforeInsert(e) /\ copies[e] = IF Holds(e) THEN 1 ELSE 0
  BY ContestedGrows DEF UncontestedInv
<1>2. ASSUME NEW v \in Worker, AtWork(v)', EffectOfJob(v)' = e
      PROVE  EffectOfJob(v) = e /\ (Claim(v) \/ AtWork(v))
  <2>1. CASE Claim(v)
    <3>1. job'[v] = [job[v] EXCEPT !.number = count[ActionOf(v)] + 1]
      BY <2>1, JobTyped DEF Claim, TypeOK
    <3>2. job'[v].action = job[v].action
      BY <2>1, <3>1, JobTyped DEF Claim, Job
    <3> QED
      BY <1>2, <2>1, <3>2 DEF EffectOfJob, ActionOf
  <2>2. CASE AtWork(v) /\ job'[v] = job[v]
    BY <1>2, <2>2 DEF EffectOfJob, ActionOf
  <2> QED
    BY <1>2, <2>1, <2>2, WorkIsEntered
<1>3. WorksAlone(e)'
  <2> SUFFICES ASSUME NEW v \in Worker, NEW w \in Worker, v # w,
                      AtWork(v)', AtWork(w)', EffectOfJob(v)' = e, EffectOfJob(w)' = e
               PROVE  FALSE
    BY DEF WorksAlone
  <2>1. EffectOfJob(v) = e /\ (Claim(v) \/ AtWork(v))
    BY <1>2
  <2>2. EffectOfJob(w) = e /\ (Claim(w) \/ AtWork(w))
    BY <1>2
  <2>3. ~ (AtWork(v) /\ AtWork(w))
    BY <1>1, <2>1, <2>2 DEF WorksAlone
  <2>4. ~ (Claim(v) /\ Claim(w))
    BY DEF Claim, Goto, TypeOK
  <2>5. ~ (Claim(v) /\ AtWork(w)) /\ ~ (Claim(w) /\ AtWork(v))
    BY <2>1, <2>2, GrantedIsContested
  <2> QED
    BY <2>1, <2>2, <2>3, <2>4, <2>5
<1>4. ASSUME NEW w \in Worker, AtWork(w)', EffectOfJob(w)' = e
      PROVE  pc'[w] # "apply" /\ (pc'[w] = "insert" => ~ Holds(e)')
  <2>1. EffectOfJob(w) = e
    BY <1>2, <1>4
  <2>2. CASE Claim(w)
    BY <2>2 DEF Claim, Goto, TypeOK
  <2>3. CASE Confirm(w)
    BY <2>1, <2>3 DEF Confirm, Goto, TypeOK
  <2>4. CASE Search(w)
    BY <2>1, <2>4 DEF Search, Goto, TypeOK, outside, Holds
  <2>5. CASE AtWork(w) /\ pc'[w] = pc[w]
    <3>1. pc[w] # "apply" /\ (pc[w] = "insert" => ~ Holds(e))
      BY <1>1, <2>1, <2>5 DEF LooksBeforeInsert
    <3>2. CASE UNCHANGED <<provider, copies>>
      BY <2>5, <3>1, <3>2 DEF Holds
    <3>3. ASSUME NEW u \in Worker, Apply(u) \/ Insert(u) PROVE EffectOfJob(u) # e
      <4>1. AtWork(u) /\ pc'[u] # pc[u]
        BY <3>3 DEF Apply, Insert, Raise, Failures, Goto, TypeOK, AtWork
      <4> QED
        BY <1>1, <2>1, <2>5, <4>1 DEF WorksAlone
    <3> QED
      BY <1>1, <2>5, <3>1, <3>2, <3>3, OutsideChanges, UncontestedChanges
  <2> QED
    BY <1>4, <2>2, <2>3, <2>4, <2>5, WorkIsEntered
<1>5. copies'[e] = IF Holds(e)' THEN 1 ELSE 0
  <2>1. CASE UNCHANGED <<provider, copies>>
    BY <1>1, <2>1 DEF Holds
  <2> QED
    BY <1>1, <2>1, OutsideChanges, UncontestedChanges
<1> QED
  BY <1>3, <1>4, <1>5 DEF LooksBeforeInsert

(***************************************************************************)
(* For every number of calls, actions, leases and crashes: an adapter that *)
(* searches and then inserts repeats an effect only after a call was       *)
(* granted its action while another was at work, with no lease in force    *)
(* between them.  Needs that a marker names its effect.                    *)
(***************************************************************************)
THEOREM RepeatsAreContested ==
  ASSUME OwnMarkers PROVE Spec => []RepeatedOnlyIfContested
<1> DEFINE Inv == TypeOK /\ LeasesAreDated /\ UncontestedInv
<1>1. Init => Inv
  BY TypeInit, LeasesAreDatedInit, UncontestedInit
<1>2. Inv /\ [Next]_vars => Inv'
  BY TypeNext, LeasesAreDatedNext, UncontestedNext
<1>3. Inv => RepeatedOnlyIfContested
  BY DEF UncontestedInv, RepeatedOnlyIfContested
<1> QED
  BY <1>1, <1>2, <1>3, PTL DEF Spec

-----------------------------------------------------------------------------
\* Whoever writes an attempt record has seen that there is none yet.
LEMMA OneOutcomeNext ==
  ASSUME TypeOK, OneOutcomePerAttempt, [Next]_vars
  PROVE  OneOutcomePerAttempt'
<1>1. ASSUME NEW w \in Worker, NEW outcome, SameAttempt(w) \subseteq {Attempt(w, outcome)},
             attempts' = attempts \cup {Attempt(w, outcome)}
      PROVE  OneOutcomePerAttempt'
  <2>1. Attempt(w, outcome).action = ActionOf(w) /\ Attempt(w, outcome).number = job[w].number
    BY DEF Attempt
  <2>2. ASSUME NEW t \in attempts, t.action = Attempt(w, outcome).action,
               t.number = Attempt(w, outcome).number
        PROVE  t = Attempt(w, outcome)
    BY <1>1, <2>1, <2>2 DEF SameAttempt
  <2> QED
    BY <1>1, <2>2 DEF OneOutcomePerAttempt
<1>2. CASE UNCHANGED attempts
  BY <1>2 DEF OneOutcomePerAttempt
<1>3. ASSUME NEW w \in Worker, NEW outcome, RecordCompletion(w, outcome)
      PROVE  OneOutcomePerAttempt'
  <2>1. CASE CompletionAccepted(w, outcome) /\ status[ActionOf(w)] = "LEASED"
    BY <1>1, <1>3, <2>1 DEF RecordCompletion, CompletionAccepted
  <2>2. CASE ~(CompletionAccepted(w, outcome) /\ status[ActionOf(w)] = "LEASED")
    BY <1>2, <1>3, <2>2 DEF RecordCompletion, ledger
  <2> QED
    BY <2>1, <2>2
<1>4. ASSUME NEW w \in Worker, NEW failure \in Failures, Fail(w, failure)
      PROVE  OneOutcomePerAttempt'
  <2>1. CASE FailureAccepted(w)
    BY <1>1, <1>4, <2>1 DEF Fail, FailureAccepted
  <2>2. CASE ~ FailureAccepted(w)
    BY <1>2, <1>4, <2>2 DEF Fail, ledger
  <2> QED
    BY <2>1, <2>2
<1>5. ASSUME NEW w \in Worker, Look(w) PROVE OneOutcomePerAttempt'
  BY <1>2, <1>5, LookChangesNothing DEF ledger
<1>6. ASSUME NEW w \in Worker, Claim(w) \/ Apply(w) \/ Insert(w) \/ Mark(w) \/ Crash(w)
      PROVE  OneOutcomePerAttempt'
  BY <1>2, <1>6 DEF Claim, Apply, Insert, Mark, Crash, ledger
<1>7. ASSUME NEW a \in Action, Approve(a) PROVE OneOutcomePerAttempt'
  BY <1>2, <1>7 DEF Approve, ledger
<1>8. CASE Tick \/ UNCHANGED vars
  BY <1>2, <1>8 DEF Tick, vars, ledger
<1> QED
  BY <1>3, <1>4, <1>5, <1>6, <1>7, <1>8, NextCases DEF Complete, Recover

(***************************************************************************)
(* An attempt of an action has one recorded outcome, even when its worker  *)
(* and a reconciling worker both report on it.                             *)
(***************************************************************************)
THEOREM OneOutcomeIsRecorded == Spec => []OneOutcomePerAttempt
<1>1. Init => OneOutcomePerAttempt
  BY DEF Init, OneOutcomePerAttempt
<1>2. TypeOK /\ OneOutcomePerAttempt /\ [Next]_vars => OneOutcomePerAttempt'
  BY OneOutcomeNext
<1> QED
  BY <1>1, <1>2, TypeCorrect, PTL DEF Spec

-----------------------------------------------------------------------------
(***************************************************************************)
(* The life of an action.  What a call knows (RunningIsSanctioned) lets it *)
(* claim an action and record its outcome long after it looked at the      *)
(* approval and the prerequisites.                                         *)
(***************************************************************************)
LifeStates == [a \in Action |-> LifeState(status[a])]

\* A change of one status shows as a change of one state.
LEMMA StateOfOne ==
  ASSUME TypeOK, NEW a \in Action, NEW s, status' = [status EXCEPT ![a] = s]
  PROVE  LifeStates' = [LifeStates EXCEPT ![a] = LifeState(s)]
  BY DEF TypeOK, LifeStates

\* What the specification of that life calls MayRun.
LEMMA SanctionedMayRun ==
  ASSUME TypeOK, RunningIsSanctioned, NEW w \in Worker, pc[w] \notin {"idle", "read"}
  PROVE  ActionOf(w) \in Action /\ Life!MayRun(ActionOf(w))
<1>1. ActionOf(w) \in Action /\ Permitted(ActionOf(w)) /\ PrereqsVerified(ActionOf(w))
  BY JobTyped DEF RunningIsSanctioned
<1>2. ASSUME NEW p \in Prereqs[ActionOf(w)] PROVE p \in Action /\ LifeState(status[p]) = "VERIFIED"
  BY <1>1, <1>2, ConstantsAssumption DEF PrereqsVerified, LifeState
<1> QED
  BY <1>1, <1>2 DEF Permitted, Life!MayRun

LEMMA ClaimLives ==
  ASSUME TypeOK, RunningIsSanctioned, NEW w \in Worker, Claim(w)
  PROVE  Life!Attempt(ActionOf(w))
<1>1. ActionOf(w) \in Action /\ Life!MayRun(ActionOf(w))
  BY SanctionedMayRun DEF Claim
<1>2. LifeStates[ActionOf(w)] \in {"OPEN", "RETRY", "TAKEN"}
  BY <1>1 DEF Claim, Claimable, LifeStates, LifeState
<1>3. LifeStates' = [LifeStates EXCEPT ![ActionOf(w)] = "TAKEN"]
  BY <1>1, StateOfOne DEF Claim, LifeState
<1> QED
  BY <1>1, <1>2, <1>3 DEF Claim, Life!Attempt, LifeStates, env

\* Recording a failure or a verdict ends an attempt that is still under way.
LEMMA OutcomeLives ==
  ASSUME TypeOK, RunningIsSanctioned, NEW w \in Worker, pc[w] \notin {"idle", "read"},
         status[ActionOf(w)] \in {"LEASED", "SUCCEEDED"},
         NEW s \in Settled \cup Failures, status' = [status EXCEPT ![ActionOf(w)] = s],
         UNCHANGED <<count, approved>>
  PROVE  \E outcome \in {"VERIFIED", "RETRY", "FAILED"} : Life!Conclude(ActionOf(w), outcome)
<1>1. ActionOf(w) \in Action /\ Life!MayRun(ActionOf(w))
  BY SanctionedMayRun
<1>2. LifeStates[ActionOf(w)] = "TAKEN"
  BY <1>1 DEF LifeStates, LifeState
<1>3. LifeStates' = [LifeStates EXCEPT ![ActionOf(w)] = LifeState(s)]
  BY <1>1, StateOfOne
<1>4. LifeState(s) \in {"VERIFIED", "RETRY", "FAILED"}
  BY DEF LifeState, Settled, Failures
<1> QED
  BY <1>1, <1>2, <1>3, <1>4 DEF Life!Conclude, LifeStates

LEMMA LifeNext ==
  ASSUME TypeOK, RunningIsSanctioned, [Next]_vars
  PROVE  Life!Next \/ UNCHANGED Life!vars
<1>1. ASSUME UNCHANGED <<status, count, approved>> PROVE UNCHANGED Life!vars
  BY <1>1 DEF Life!vars
<1>2. ASSUME NEW w \in Worker, Look(w) PROVE UNCHANGED Life!vars
  BY <1>1, <1>2, LookChangesNothing DEF stored, env
<1>3. ASSUME NEW w \in Worker, Claim(w) PROVE Life!Next
  BY <1>3, ClaimLives, SanctionedMayRun DEF Claim, Life!Next
<1>4. ASSUME NEW w \in Worker, NEW outcome, pc[w] \in {"complete", "recover"},
             RecordCompletion(w, outcome), UNCHANGED env
      PROVE  UNCHANGED Life!vars
  <2>1. CASE UNCHANGED stored
    BY <1>1, <1>4, <2>1 DEF stored, env
  <2>2. CASE status[ActionOf(w)] = "LEASED" /\ status' = [status EXCEPT ![ActionOf(w)] = "SUCCEEDED"]
             /\ count' = count
    <3>1. ActionOf(w) \in Action
      BY <1>4, SanctionedMayRun
    <3>2. LifeStates' = [LifeStates EXCEPT ![ActionOf(w)] = "TAKEN"]
      BY <2>2, <3>1, StateOfOne DEF LifeState
    <3>3. LifeStates[ActionOf(w)] = "TAKEN"
      BY <2>2, <3>1 DEF LifeStates, LifeState
    <3>4. LifeStates' = LifeStates
      BY <3>2, <3>3 DEF LifeStates
    <3> QED
      BY <1>4, <2>2, <3>4 DEF LifeStates, Life!vars, env
  <2> QED
    BY <1>4, <2>1, <2>2 DEF RecordCompletion
<1>5. ASSUME NEW w \in Worker, NEW failure \in Failures, Fail(w, failure)
      PROVE  Life!Next \/ UNCHANGED Life!vars
  <2>1. CASE ~ FailureAccepted(w)
    BY <1>1, <1>5, <2>1 DEF Fail, stored, env
  <2>2. CASE FailureAccepted(w)
    <3>1. pc[w] \notin {"idle", "read"}
      BY <1>5 DEF Fail, Failures
    <3>2. \E outcome \in {"VERIFIED", "RETRY", "FAILED"} : Life!Conclude(ActionOf(w), outcome)
      BY <1>5, <2>2, <3>1, OutcomeLives DEF Fail, FailureAccepted, env
    <3> QED
      BY <3>1, <3>2, SanctionedMayRun DEF Life!Next
  <2> QED
    BY <2>1, <2>2
<1>6. ASSUME NEW w \in Worker, Mark(w) PROVE Life!Next \/ UNCHANGED Life!vars
  <2>1. CASE status[ActionOf(w)] # "SUCCEEDED"
    BY <1>1, <1>6, <2>1 DEF Mark, env
  <2>2. CASE status[ActionOf(w)] = "SUCCEEDED"
    <3>1. pc[w] \notin {"idle", "read"}
      BY <1>6 DEF Mark
    <3>2. \E outcome \in {"VERIFIED", "RETRY", "FAILED"} : Life!Conclude(ActionOf(w), outcome)
      BY <1>6, <2>2, <3>1, OutcomeLives DEF Mark, Settled, env
    <3> QED
      BY <3>1, <3>2, SanctionedMayRun DEF Life!Next
  <2> QED
    BY <2>1, <2>2
<1>7. ASSUME NEW w \in Worker, Apply(w) \/ Insert(w) \/ Crash(w) PROVE UNCHANGED Life!vars
  BY <1>1, <1>7 DEF Apply, Insert, Crash, stored, env
<1>8. ASSUME NEW a \in Action, Approve(a) PROVE Life!Next
  BY <1>8 DEF Approve, stored, Life!Next, Life!Grant
<1>9. CASE Tick \/ UNCHANGED vars
  BY <1>1, <1>9 DEF Tick, vars, stored
<1> QED
  BY <1>2, <1>3, <1>4, <1>5, <1>6, <1>7, <1>8, <1>9, NextCases DEF Complete, Recover

(***************************************************************************)
(* However calls overlap, lose their leases, fail and die: execute begins  *)
(* an action only with its prerequisites and its approval, counts every    *)
(* attempt before its outcome, and never reopens what is over.             *)
(***************************************************************************)
THEOREM LifeIsKept == Spec => KeepsToLife
<1>1. Init => Life!Init
  BY DEF Init, Life!Init, LifeState
<1>2. SafetyInv /\ [Next]_vars => [Life!Next]_(Life!vars)
  BY LifeNext DEF SafetyInv
<1> QED
  BY <1>1, <1>2, SafetyInvariant, PTL DEF Spec, KeepsToLife, Life!Spec
=============================================================================
