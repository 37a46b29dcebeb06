---------------------------- MODULE UpdateIntake ----------------------------
(***************************************************************************)
(* How an update of the Telegram chat reaches its handler                   *)
(* (api/telegram.py, telegram_webhook). Telegram delivers an update until   *)
(* it is answered with 200, deliveries of one update may overlap, and every *)
(* delivery takes a slot of the minute before the update is claimed for     *)
(* good. An update that is claimed is never handled again, whatever came    *)
(* of its handler. The buttons of an approval card are not claimed here:    *)
(* the decision claims them in its own transaction, and a press that comes  *)
(* to no decision may be handled again and by two requests at once.         *)
(***************************************************************************)
EXTENDS Naturals, FiniteSets

CONSTANTS
    Request,   \* requests that may be under way at the same time
    Update,    \* updates the traveler sends
    Button,    \* those that press a:, s:, f: or r: on an approval card
    Malformed, \* those whose body is none of the updates the code knows
    RateLimit, \* TELEGRAM_UPDATES_PER_MINUTE
    Nothing,   \* None
    MaxFaults  \* bound: requests that die

ASSUME IntakeAssumption ==
    /\ RateLimit \in Nat \ {0} /\ MaxFaults \in Nat
    /\ Nothing \notin Update /\ Button \subseteq Update

VARIABLES
    waiting, \* updates Telegram still delivers
    claimed, \* telegramUpdates/{id}
    slots,   \* telegramRateLimits of the current minute
    job,     \* what each request is at: step, update and what it read
    faults   \* requests that died

intake == <<waiting, claimed, slots>>

Idle == [pc |-> "idle", upd |-> Nothing, arg |-> Nothing]
IntakeInit ==
    /\ waiting = Update /\ claimed = {} /\ slots = 0
    /\ job = [r \in Request |-> Idle]
    /\ faults = 0
IntakeTypeOK ==
    /\ waiting \subseteq Update /\ claimed \subseteq Update
    /\ slots \in 0 .. RateLimit
    /\ \A r \in Request : job[r].upd \in Update \cup {Nothing}
    /\ faults \in 0 .. MaxFaults

At(r, pc) == job[r].pc = pc
Arg(r) == job[r].arg
GoTo(r, pc) == job' = [job EXCEPT ![r].pc = pc]
GoWith(r, pc, arg) == job' = [job EXCEPT ![r].pc = pc, ![r].arg = arg]
Ends(r) == job' = [job EXCEPT ![r] = Idle]

\* 200: Telegram does not deliver the update again.
Answer(r) ==
    /\ waiting' = waiting \ {job[r].upd}
    /\ Ends(r)
    /\ UNCHANGED <<claimed, slots>>
\* 4xx, 5xx: it does.
Fail(r) == Ends(r) /\ UNCHANGED intake
\* The handler goes on.
Continue(r, pc, arg) == GoWith(r, pc, arg) /\ UNCHANGED intake

\* A malformed update is answered 400 at every delivery and changes nothing.
Deliver(r, u) ==
    /\ At(r, "idle") /\ u \in waiting \ Malformed
    /\ job' = [job EXCEPT ![r] = [Idle EXCEPT !.pc = "rate", !.upd = u]]
    /\ UNCHANGED <<intake, faults>>

\* claim_telegram_rate_slot, in a transaction.
SlotIsFree == slots < RateLimit

TakeSlot(r) ==
    /\ At(r, "rate")
    /\ IF SlotIsFree THEN slots' = slots + 1 /\ GoTo(r, "claim") ELSE Ends(r) /\ UNCHANGED slots
    /\ UNCHANGED <<waiting, claimed, faults>>

\* Mutant: a second delivery is refused.
ClaimRefusing(r) ==
    /\ At(r, "claim") /\ job[r].upd \notin Button
    /\ IF job[r].upd \notin claimed
       THEN /\ claimed' = claimed \cup {job[r].upd}
            /\ GoTo(r, "handle")
            /\ UNCHANGED <<waiting, slots>>
       ELSE Fail(r)
    /\ UNCHANGED faults
\* claim_telegram_update: a second delivery is told that it was handled.
Fresh(u) == u \notin claimed

Claim(r) ==
    /\ At(r, "claim") /\ job[r].upd \notin Button
    /\ IF Fresh(job[r].upd)
       THEN /\ claimed' = claimed \cup {job[r].upd}
            /\ GoTo(r, "handle")
            /\ UNCHANGED <<waiting, slots>>
       ELSE Answer(r)
    /\ UNCHANGED faults

\* handle_callback of telegram_recovery.py: a decision is recorded together
\* with the update, a press that decides nothing any more is shown where the
\* recovery is, and an unknown token or a card of somebody else is a 400, at
\* this delivery and at the next. Which of them it is depends on approvals,
\* which are not kept here.
Press(r) ==
    /\ At(r, "claim") /\ job[r].upd \in Button
    /\ \/ /\ Fresh(job[r].upd) /\ claimed' = claimed \cup {job[r].upd}
          /\ GoTo(r, "pressed") /\ UNCHANGED <<waiting, slots>>
       \/ GoTo(r, "pressed") /\ UNCHANGED intake
       \/ Fail(r)
    /\ UNCHANGED faults

ShowPressed(r) == At(r, "pressed") /\ Answer(r) /\ UNCHANGED faults

NextMinute == slots > 0 /\ slots' = 0 /\ UNCHANGED <<waiting, claimed, job, faults>>

Crash(r) ==
    /\ ~At(r, "idle") /\ faults < MaxFaults
    /\ faults' = faults + 1
    /\ Ends(r)
    /\ UNCHANGED intake

\* A request handles an update from its claim to its answer.
Handles(r) == job[r].upd # Nothing /\ ~(At(r, "rate") \/ At(r, "claim"))
=============================================================================
