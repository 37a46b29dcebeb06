---------------------------- MODULE ActionExecutor ----------------------------
(***************************************************************************)
(* Execution of the planned actions of recovery plans:                     *)
(* services/action_executor.py over the action, attempt and effect-receipt *)
(* transactions of services/firestore.py and services/memory.py.           *)
(*                                                                         *)
(* A worker is one running call of ActionExecutor.execute.  Every await of *)
(* that call is a step of its own: between two steps any other worker may  *)
(* run, the clock may advance and the process may die.  Each repository    *)
(* method is one transaction and hence one atomic step.                    *)
(***************************************************************************)
EXTENDS Integers

CONSTANTS
    Action,         \* the persisted actions, of all plan versions
    Worker,         \* concurrent calls of execute
    WorkerId,       \* the values of the worker_id argument
    Effect,         \* semantic effect keys
    Resource,       \* provider-side resources
    IdOf,           \* worker_id each call passes: [Worker -> WorkerId]
    EffectOf,       \* effect_key of each action: [Action -> Effect]
    ResourceOf,     \* the resource an effect key changes: [Effect -> Resource]
    Prereqs,        \* prerequisite actions: [Action -> SUBSET Action]
    NeedsApproval,  \* actions whose verdict is APPROVAL_REQUIRED
    LookupEffect,   \* effects whose adapter searches, then inserts
    LeaseLen,       \* length of an action lease, in clock units
    RetryDelay,     \* retry_after_seconds of a retryable failure, likewise
    MaxTime,        \* bound: last value of the clock
    MaxAttempts,    \* bound: claims of one action
    MaxCrashes,     \* bound: worker deaths
    NoEffect, NoOne, NoJob  \* absent values

ASSUME ConstantsAssumption ==
    /\ IdOf \in [Worker -> WorkerId]
    /\ EffectOf \in [Action -> Effect]
    /\ ResourceOf \in [Effect -> Resource]
    /\ Prereqs \in [Action -> SUBSET Action]
    /\ NeedsApproval \subseteq Action
    /\ LookupEffect \subseteq Effect
    /\ LeaseLen \in Nat \ {0} /\ RetryDelay \in Nat
    /\ MaxTime \in Nat /\ MaxAttempts \in Nat /\ MaxCrashes \in Nat
    /\ NoEffect \notin Effect
    /\ NoOne \notin WorkerId

Failures == {"FAILED_RETRYABLE", "FAILED_TERMINAL"}
Receipted == {"SUCCEEDED", "VERIFIED", "VERIFICATION_FAILED"}
Settled == {"VERIFIED", "VERIFICATION_FAILED", "FAILED_TERMINAL"}
Status == {"PENDING", "LEASED"} \cup Failures \cup Receipted

AttemptRecord == [action : Action, number : Nat,
                  outcome : {"SUCCEEDED", "RECONCILED"} \cup Failures, at : Nat]

(***************************************************************************)
(* A job holds what one call of execute keeps in local variables: the      *)
(* action, the time it was given, and attempt_count and lease_expires_at   *)
(* of its last copy of the stored action.                                  *)
(***************************************************************************)
Job == [action : Action, now : Nat, number : Nat, lease : Nat]

PC == {"idle", "read", "reread", "claim", "confirm", "apply", "search", "insert",
       "complete", "recover", "recheck", "verify", "mark_ok", "mark_bad"} \cup Failures

VARIABLES
    status, owner, expiry, retryAt, count,  \* the stored actions
    attempts,       \* attempt records
    receipts,       \* effect keys that have a receipt
    provider,       \* effect key each provider resource carries
    copies,         \* history: how often each effect was brought about
    contested,      \* history: effects that two calls were let work on at once
    approved,       \* actions whose caller passes approval_granted
    pc, job,        \* control point and locals of each worker
    clock, crashes

stored == <<status, owner, expiry, retryAt, count>>
ledger == <<attempts, receipts>>
outside == <<provider, copies, contested>>
env == <<approved, clock, crashes>>
vars == <<stored, ledger, outside, approved, pc, job, clock, crashes>>

Init ==
    /\ status = [a \in Action |-> "PENDING"]
    /\ owner = [a \in Action |-> NoOne]
    /\ expiry = [a \in Action |-> 0]
    /\ retryAt = [a \in Action |-> 0]
    /\ count = [a \in Action |-> 0]
    /\ attempts = {}
    /\ receipts = {}
    /\ provider = [r \in Resource |-> NoEffect]
    /\ copies = [e \in Effect |-> 0]
    /\ contested = {}
    /\ approved = {}
    /\ pc = [w \in Worker |-> "idle"]
    /\ job = [w \in Worker |-> NoJob]
    /\ clock = 0
    /\ crashes = 0

-----------------------------------------------------------------------------
Goto(w, label) == pc' = [pc EXCEPT ![w] = label]

Return(w) ==
    /\ pc' = [pc EXCEPT ![w] = "idle"]
    /\ job' = [job EXCEPT ![w] = NoJob]

\* Bound: a lease or a delay that starts now ends before the clock stops.
RoomFor(delay) == clock + delay <= MaxTime

\* Mutant: a handler that swallows the error.
RaiseSwallowed(w, failure) == Goto(w, "complete")

\* The provider raises ProviderActionError.
Raise(w, failure) ==
    /\ failure = "FAILED_RETRYABLE" => RoomFor(RetryDelay)
    /\ Goto(w, failure)

ActionOf(w) == job[w].action
EffectOfJob(w) == EffectOf[ActionOf(w)]

\* provider.verify: the resource carries this effect key and desired state.
Holds(e) == provider[ResourceOf[e]] = e

\* The resource now carries e; a call that finds it there already repeats nothing.
Bring(e) ==
    /\ provider' = [provider EXCEPT ![ResourceOf[e]] = e]
    /\ copies' = [copies EXCEPT ![e] = IF Holds(e) THEN @ ELSE @ + 1]

\* Mutant: the approval is only looked at by the caller.
BeginUnapproved(w, a) ==
    /\ pc[w] = "idle"
    /\ Goto(w, "read")
    /\ job' = [job EXCEPT ![w] = [action |-> a, now |-> clock, number |-> 0, lease |-> 0]]
    /\ UNCHANGED <<stored, ledger, outside, env>>

(***************************************************************************)
(* execute() up to its first await.  An action that needs an approval its  *)
(* caller does not hold returns None at once, which changes nothing.       *)
(***************************************************************************)
Begin(w, a) ==
    /\ pc[w] = "idle"
    /\ a \in NeedsApproval => a \in approved
    /\ Goto(w, "read")
    /\ job' = [job EXCEPT ![w] = [action |-> a, now |-> clock, number |-> 0, lease |-> 0]]
    /\ UNCHANGED <<stored, ledger, outside, env>>

\* A prerequisite is not verified, or the action is settled: nothing to do.
ReadNothingToDo(w) ==
    /\ pc[w] = "read"
    /\ \/ \E p \in Prereqs[ActionOf(w)] : status[p] # "VERIFIED"
       \/ status[ActionOf(w)] \in Settled
    /\ Return(w)
    /\ UNCHANGED <<stored, ledger, outside, env>>

\* get_action and the branch on the stored status.
Read(w) ==
    LET a == ActionOf(w) IN
    /\ pc[w] = "read"
    /\ \A p \in Prereqs[a] : status[p] = "VERIFIED"
    /\ status[a] \notin Settled
    /\ Goto(w, CASE status[a] = "SUCCEEDED" -> "verify"
                 [] status[a] = "LEASED" -> "reread"
                 [] OTHER -> "claim")
    /\ job' = [job EXCEPT ![w].number = count[a], ![w].lease = expiry[a]]
    /\ UNCHANGED <<stored, ledger, outside, env>>

\* A leased action: reread the provider before attempting another mutation.
Reread(w) ==
    /\ pc[w] = "reread"
    /\ \/ /\ Holds(EffectOfJob(w))
          /\ Goto(w, "recover") /\ UNCHANGED job
       \/ /\ ~Holds(EffectOfJob(w)) /\ job[w].lease > job[w].now
          /\ Return(w)
       \/ /\ ~Holds(EffectOfJob(w)) /\ job[w].lease <= job[w].now
          /\ Goto(w, "claim") /\ UNCHANGED job
    /\ UNCHANGED <<stored, ledger, outside, env>>

\* Mutants: every failure is retryable; a lease keeps nobody out.
ClaimableAfterAnyFailure(a, now) ==
    \/ status[a] = "PENDING"
    \/ status[a] = "LEASED" /\ expiry[a] <= now
    \/ status[a] \in Failures /\ retryAt[a] <= now
ClaimableUnderLease(a, now) ==
    \/ status[a] \in {"PENDING", "LEASED"}
    \/ status[a] = "FAILED_RETRYABLE" /\ retryAt[a] <= now

\* The condition under which the claim_action transaction grants a lease.
Claimable(a, now) ==
    \/ status[a] = "PENDING"
    \/ status[a] = "LEASED" /\ expiry[a] <= now
    \/ status[a] = "FAILED_RETRYABLE" /\ retryAt[a] <= now

\* Between its claim and its answer a call may change the provider.
AtWork(w) == pc[w] \in {"confirm", "apply", "search", "insert"}

\* Another call is still at work on this call's effect, and no lease that it
\* holds on the same action keeps this call out.
Contests(w) ==
    \E v \in Worker \ {w} :
        /\ AtWork(v)
        /\ EffectOfJob(v) = EffectOfJob(w)
        /\ ActionOf(v) # ActionOf(w) \/ expiry[ActionOf(w)] <= clock

Claim(w) ==
    LET a == ActionOf(w) IN
    /\ pc[w] = "claim"
    /\ Claimable(a, job[w].now)
    /\ count[a] < MaxAttempts
    /\ status' = [status EXCEPT ![a] = "LEASED"]
    /\ owner' = [owner EXCEPT ![a] = IdOf[w]]
    /\ expiry' = [expiry EXCEPT ![a] = job[w].now + LeaseLen]
    /\ retryAt' = [retryAt EXCEPT ![a] = 0]
    /\ count' = [count EXCEPT ![a] = @ + 1]
    /\ job' = [job EXCEPT ![w].number = count[a] + 1]
    /\ contested' = IF Contests(w) THEN contested \cup {EffectOfJob(w)} ELSE contested
    /\ Goto(w, "confirm")
    /\ UNCHANGED <<ledger, provider, copies, env>>

ClaimRefused(w) ==
    /\ pc[w] = "claim"
    /\ ~Claimable(ActionOf(w), job[w].now)
    /\ Return(w)
    /\ UNCHANGED <<stored, ledger, outside, env>>

\* The second provider reread, after the claim and before the mutation.
Confirm(w) ==
    /\ pc[w] = "confirm"
    /\ Goto(w, CASE Holds(EffectOfJob(w)) -> "recover"
                 [] EffectOfJob(w) \in LookupEffect -> "search"
                 [] OTHER -> "apply")
    /\ UNCHANGED <<job, stored, ledger, outside, env>>

\* PersistentDemoProvider.apply: one transaction that looks and writes.
Apply(w) ==
    /\ pc[w] = "apply"
    /\ Bring(EffectOfJob(w))
    /\ Goto(w, "complete")
    /\ UNCHANGED <<job, stored, ledger, contested, env>>

\* Calendar and Gmail adapters: search for the effect marker ...
Search(w) ==
    /\ pc[w] = "search"
    /\ Goto(w, IF Holds(EffectOfJob(w)) THEN "complete" ELSE "insert")
    /\ UNCHANGED <<job, stored, ledger, outside, env>>

\* ... and create the event or draft; its answer may be lost, or unreadable.
Insert(w) ==
    /\ pc[w] = "insert"
    /\ provider' = [provider EXCEPT ![ResourceOf[EffectOfJob(w)]] = EffectOfJob(w)]
    /\ copies' = [copies EXCEPT ![EffectOfJob(w)] = @ + 1]
    /\ Goto(w, "complete") \/ \E failure \in Failures : Raise(w, failure)
    /\ UNCHANGED <<job, stored, ledger, contested, env>>

\* The provider raises ProviderActionError without having changed anything.
Refuse(w, failure) ==
    /\ pc[w] \in {"apply", "search", "insert"}
    /\ Raise(w, failure)
    /\ UNCHANGED <<job, stored, ledger, outside, env>>

-----------------------------------------------------------------------------
Attempt(w, outcome) ==
    [action |-> ActionOf(w), number |-> job[w].number, outcome |-> outcome, at |-> job[w].now]

\* The record stored under the attempt's id, if there is one.
SameAttempt(w) ==
    {t \in attempts : t.action = ActionOf(w) /\ t.number = job[w].number}

\* complete_action_and_create_effect_receipt answers True.
CompletionAccepted(w, outcome) ==
    LET a == ActionOf(w) IN
    /\ SameAttempt(w) \subseteq {Attempt(w, outcome)}
    /\ \/ status[a] = "LEASED"
       \/ EffectOf[a] \in receipts /\ status[a] \in {"SUCCEEDED", "VERIFIED"}

\* Mutant: the receipt is left to a later step.
RecordStatusOnly(w, outcome) ==
    IF CompletionAccepted(w, outcome) /\ status[ActionOf(w)] = "LEASED"
    THEN /\ status' = [status EXCEPT ![ActionOf(w)] = "SUCCEEDED"]
         /\ UNCHANGED <<owner, expiry, retryAt, count, ledger>>
    ELSE UNCHANGED <<stored, ledger>>

\* What that transaction writes; the lease owner is not compared.
RecordCompletion(w, outcome) ==
    LET a == ActionOf(w) IN
    IF CompletionAccepted(w, outcome) /\ status[a] = "LEASED"
    THEN /\ status' = [status EXCEPT ![a] = "SUCCEEDED"]
         /\ owner' = [owner EXCEPT ![a] = NoOne]
         /\ expiry' = [expiry EXCEPT ![a] = 0]
         /\ attempts' = attempts \cup {Attempt(w, outcome)}
         /\ receipts' = receipts \cup {EffectOf[a]}
         /\ UNCHANGED <<retryAt, count>>
    ELSE UNCHANGED <<stored, ledger>>

Complete(w) ==
    /\ pc[w] = "complete"
    /\ RecordCompletion(w, "SUCCEEDED")
    /\ IF CompletionAccepted(w, "SUCCEEDED")
       THEN Goto(w, "verify") /\ UNCHANGED job
       ELSE Return(w)
    /\ UNCHANGED <<outside, env>>

Recover(w) ==
    /\ pc[w] = "recover"
    /\ RecordCompletion(w, "RECONCILED")
    /\ Goto(w, IF CompletionAccepted(w, "RECONCILED") THEN "verify" ELSE "recheck")
    /\ UNCHANGED <<job, outside, env>>

\* Reconciliation was refused: somebody else may have completed the action.
Recheck(w) ==
    /\ pc[w] = "recheck"
    /\ IF status[ActionOf(w)] = "SUCCEEDED"
       THEN Goto(w, "verify") /\ UNCHANGED job
       ELSE Return(w)
    /\ UNCHANGED <<stored, ledger, outside, env>>

\* When the fail_action transaction writes; a recorded attempt stays as it is.
FailureAccepted(w) ==
    LET a == ActionOf(w) IN
    /\ status[a] = "LEASED"
    /\ owner[a] = IdOf[w]
    /\ SameAttempt(w) = {}

Fail(w, failure) ==
    LET a == ActionOf(w) IN
    /\ pc[w] = failure
    /\ IF FailureAccepted(w)
       THEN /\ status' = [status EXCEPT ![a] = failure]
            /\ owner' = [owner EXCEPT ![a] = NoOne]
            /\ expiry' = [expiry EXCEPT ![a] = 0]
            /\ retryAt' = [retryAt EXCEPT
                   ![a] = IF failure = "FAILED_RETRYABLE" THEN job[w].now + RetryDelay ELSE 0]
            /\ attempts' = attempts \cup {Attempt(w, failure)}
            /\ UNCHANGED <<count, receipts>>
       ELSE UNCHANGED <<stored, ledger>>
    /\ Return(w)
    /\ UNCHANGED <<outside, env>>

\* _verify_completed: reread the provider ...
Verify(w) ==
    /\ pc[w] = "verify"
    /\ Goto(w, IF Holds(EffectOfJob(w)) THEN "mark_ok" ELSE "mark_bad")
    /\ UNCHANGED <<job, stored, ledger, outside, env>>

\* ... then mark_action_verified, which acts only on a SUCCEEDED action.
Mark(w) ==
    LET a == ActionOf(w) IN
    /\ pc[w] \in {"mark_ok", "mark_bad"}
    /\ status' = IF status[a] # "SUCCEEDED" THEN status
                 ELSE [status EXCEPT ![a] = IF pc[w] = "mark_ok"
                                            THEN "VERIFIED" ELSE "VERIFICATION_FAILED"]
    /\ Return(w)
    /\ UNCHANGED <<owner, expiry, retryAt, count, ledger, outside, env>>

-----------------------------------------------------------------------------
\* The process dies, or an await raises anything but ProviderActionError.
Crash(w) ==
    /\ pc[w] # "idle"
    /\ crashes < MaxCrashes
    /\ RoomFor(LeaseLen)
    /\ crashes' = crashes + 1
    /\ Return(w)
    /\ UNCHANGED <<stored, ledger, outside, approved, clock>>

\* The traveler's approval is consumed; callers now pass approval_granted.
Approve(a) ==
    /\ a \in NeedsApproval \ approved
    /\ approved' = approved \cup {a}
    /\ UNCHANGED <<stored, ledger, outside, pc, job, clock, crashes>>

Tick ==
    /\ clock < MaxTime
    /\ clock' = clock + 1
    /\ UNCHANGED <<stored, ledger, outside, pc, job, approved, crashes>>

Step(w) ==
    \/ ReadNothingToDo(w) \/ Read(w) \/ Reread(w)
    \/ Claim(w) \/ ClaimRefused(w) \/ Confirm(w)
    \/ Apply(w) \/ Search(w) \/ Insert(w)
    \/ Complete(w) \/ Recover(w) \/ Recheck(w)
    \/ \E failure \in Failures : Fail(w, failure)
    \/ Verify(w) \/ Mark(w)

Next ==
    \/ \E w \in Worker :
          \/ \E a \in Action : Begin(w, a)
          \/ Step(w)
          \/ \E failure \in Failures : Refuse(w, failure)
          \/ Crash(w)
    \/ \E a \in Action : Approve(a)
    \/ Tick

Spec == Init /\ [][Next]_vars

-----------------------------------------------------------------------------
TypeOK ==
    /\ status \in [Action -> Status]
    /\ owner \in [Action -> WorkerId \cup {NoOne}]
    /\ expiry \in [Action -> Nat]
    /\ retryAt \in [Action -> Nat]
    /\ count \in [Action -> Nat]
    /\ attempts \subseteq AttemptRecord
    /\ receipts \subseteq Effect
    /\ provider \in [Resource -> Effect \cup {NoEffect}]
    /\ copies \in [Effect -> Nat]
    /\ contested \subseteq Effect
    /\ approved \subseteq NeedsApproval
    /\ pc \in [Worker -> PC]
    /\ job \in [Worker -> Job \cup {NoJob}]
    /\ \A w \in Worker : pc[w] # "idle" => job[w] \in Job
    /\ clock \in Nat
    /\ crashes \in Nat

(***************************************************************************)
(* The Calendar and Gmail adapters search for the effect's marker in one   *)
(* request and create the event or draft in the next, so an effect CAN be  *)
(* brought about twice.  It is, only after a call was granted its action   *)
(* while another was still at work on the same effect: under a lease that  *)
(* had run out, or for an action of another plan.  Redelivery, retries,    *)
(* lost answers and crashes repeat nothing as long as the leases do hold.  *)
(***************************************************************************)
RepeatedOnlyIfContested == \A e \in LookupEffect : copies[e] > 1 => e \in contested

(***************************************************************************)
(* A receipt is only written for an effect the provider really had:        *)
(* complete_action_and_create_effect_receipt is reached through a provider *)
(* answer or a successful reread, never from the lease alone.              *)
(***************************************************************************)
ReceiptsAreReal == \A e \in receipts : copies[e] > 0

(***************************************************************************)
(* An action that counts as done has a receipt of its effect, also when    *)
(* another worker, or an action of an older plan, brought the effect about.*)
(***************************************************************************)
DoneIsReceipted ==
    \A a \in Action : status[a] \in Receipted => EffectOf[a] \in receipts

(***************************************************************************)
(* Whatever reached a provider was sanctioned: some action asks for this   *)
(* effect, its prerequisites are verified and, if policy wants it, the     *)
(* traveler's approval is there.  A transfer that fails keeps the flight   *)
(* untouched; a declined flight is never rebooked by a stale worker.       *)
(***************************************************************************)
EffectsAreSanctioned ==
    \A e \in Effect : copies[e] > 0 =>
        \E a \in Action :
            /\ EffectOf[a] = e
            /\ a \in NeedsApproval => a \in approved
            /\ \A p \in Prereqs[a] : status[p] = "VERIFIED"

(***************************************************************************)
(* An attempt has one outcome, whoever records it first: its own worker,   *)
(* or another one that reconciled the same attempt from the provider.      *)
(***************************************************************************)
OneOutcomePerAttempt ==
    \A t, u \in attempts : t.action = u.action /\ t.number = u.number => t = u

(***************************************************************************)
(* A failed action failed by its latest attempt: a worker whose lease was  *)
(* taken over cannot fail the action under its new holder.  fail_action    *)
(* compares lease_owner, so this needs worker ids that tell calls apart.   *)
(***************************************************************************)
FailureIsOfLatestAttempt ==
    \A a \in Action : status[a] \in Failures =>
        \E t \in attempts :
            t.action = a /\ t.number = count[a] /\ t.outcome = status[a]

(***************************************************************************)
(* A verdict is final and the audit trail is append-only: no late worker   *)
(* reopens a settled action, withdraws a receipt or rewrites an attempt.   *)
(***************************************************************************)
VerdictsAreFinal ==
    [][ /\ \A a \in Action : status[a] \in Settled => status'[a] = status[a]
        /\ attempts \subseteq attempts'
        /\ receipts \subseteq receipts' ]_vars

(***************************************************************************)
(* execute keeps to the life of an action that the recovery workflow       *)
(* relies on.  A receipt alone decides nothing: an action stays taken      *)
(* until it is verified.                                                   *)
(***************************************************************************)
LifeState(s) ==
    CASE s = "PENDING" -> "OPEN"
      [] s \in {"LEASED", "SUCCEEDED"} -> "TAKEN"
      [] s = "FAILED_RETRYABLE" -> "RETRY"
      [] s \in {"FAILED_TERMINAL", "VERIFICATION_FAILED"} -> "FAILED"
      [] s = "VERIFIED" -> "VERIFIED"

Life == INSTANCE ActionLife WITH
    Asks <- NeedsApproval, Needs <- Prereqs, granted <- approved, tries <- count,
    state <- [a \in Action |-> LifeState(status[a])]
KeepsToLife == Life!Spec

-----------------------------------------------------------------------------
(***************************************************************************)
(* The inductive invariant behind ReceiptsAreReal, DoneIsReceipted and     *)
(* EffectsAreSanctioned: they hold because of what running calls know.     *)
(***************************************************************************)
Permitted(a) == a \in NeedsApproval => a \in approved
PrereqsVerified(a) == \A p \in Prereqs[a] : status[p] = "VERIFIED"

\* A call only runs for a permitted action, and only past its first read
\* once the prerequisites are verified; both stay true.
RunningIsSanctioned ==
    \A w \in Worker :
        /\ pc[w] # "idle" => Permitted(ActionOf(w))
        /\ pc[w] \notin {"idle", "read"} => PrereqsVerified(ActionOf(w))

\* A call that is about to record a success has seen the effect at the provider.
SuccessWasSeen ==
    \A w \in Worker : pc[w] \in {"complete", "recover"} => copies[EffectOfJob(w)] > 0

ProviderIsCounted == \A e \in Effect : Holds(e) => copies[e] > 0

SafetyInv ==
    /\ TypeOK
    /\ RunningIsSanctioned
    /\ SuccessWasSeen
    /\ ProviderIsCounted
    /\ ReceiptsAreReal
    /\ DoneIsReceipted
    /\ EffectsAreSanctioned

(***************************************************************************)
(* The inductive invariant behind RepeatedOnlyIfContested.  A marker names *)
(* its effect, so no other effect overwrites what an adapter searches for. *)
(* While an effect is uncontested one call at most is at work on it, which *)
(* inserts only what it did not find; the provider counts the copies.      *)
(***************************************************************************)
OwnMarkers ==
    \A e \in LookupEffect, f \in Effect : ResourceOf[e] = ResourceOf[f] => e = f

\* Only a leased action has an expiry, and no call lives in the future.
LeasesAreDated ==
    /\ \A a \in Action : status[a] # "LEASED" => expiry[a] = 0
    /\ \A w \in Worker : pc[w] # "idle" => job[w].now <= clock

WorksAlone(e) ==
    \A v, w \in Worker :
        AtWork(v) /\ AtWork(w) /\ EffectOfJob(v) = e /\ EffectOfJob(w) = e => v = w

LooksBeforeInsert(e) ==
    \A w \in Worker : AtWork(w) /\ EffectOfJob(w) = e =>
        /\ pc[w] # "apply"
        /\ pc[w] = "insert" => ~Holds(e)

UncontestedInv ==
    \A e \in LookupEffect \ contested :
        /\ WorksAlone(e)
        /\ LooksBeforeInsert(e)
        /\ copies[e] = IF Holds(e) THEN 1 ELSE 0
=============================================================================
