--------------------------- MODULE TravelerAccount ---------------------------
(***************************************************************************)
(* What the chat keeps about its traveler: the settings of Onboarding and  *)
(* the connections of AccountLinks, driven by the updates of UpdateIntake  *)
(* and by pages opened in a browser, and "/delete_my_data", which takes     *)
(* all of it away (delete_traveler_data of the repository, then the        *)
(* secrets).                                                               *)
(***************************************************************************)
EXTENDS Onboarding, AccountLinks

VARIABLE erased \* a deletion was carried out

vars == <<intake, job, faults, account, accounts, erased>>

TypeOK ==
    /\ IntakeTypeOK /\ AccountTypeOK /\ AccountsTypeOK
    /\ erased \in BOOLEAN

Init == IntakeInit /\ AccountInit /\ AccountsInit /\ erased = FALSE

-----------------------------------------------------------------------------
\* delete_traveler_data looks for what there is, ...
Collect(r) ==
    /\ At(r, "handle")
    /\ IF profile.step = "NONE" THEN Answer(r)
       ELSE Continue(r, "erase",
                [versions |-> {v \in DOMAIN policies : policies[v] # "NONE"},
                 connections |-> {p \in Provider : connection[p].status # "NONE"},
                 links |-> [p \in Provider |-> {l \in Link : links[p][l] # "unused"}],
                 secrets |-> [p \in Provider |-> {connection[p].secret} \ {Nothing}]])
    /\ UNCHANGED <<account, accounts, faults, erased>>

\* ... deletes what it found, ...
Erase(r) ==
    /\ At(r, "erase")
    /\ profile' = NoProfile
    /\ policies' = [v \in DOMAIN policies |-> IF v \in Arg(r).versions THEN "NONE" ELSE policies[v]]
    /\ links' = [p \in Provider |-> [l \in Link |->
                    IF l \in Arg(r).links[p] THEN "consumed" ELSE links[p][l]]]
    /\ connection' = [p \in Provider |->
                        IF p \in Arg(r).connections THEN NoConnection ELSE connection[p]]
    /\ erased' = TRUE
    /\ GoTo(r, "secrets")
    /\ UNCHANGED <<intake, granted, secrets, denied, faults>>

\* ... and then the secrets; what cannot be deleted is left to the traveler.
EraseSecrets(r) ==
    /\ At(r, "secrets")
    /\ \E gone \in [Provider -> SUBSET Link] :
        /\ \A p \in Provider : gone[p] \subseteq Arg(r).secrets[p] \cap secrets[p]
        /\ secrets' = [p \in Provider |-> secrets[p] \ gone[p]]
    /\ Answer(r)
    /\ UNCHANGED <<account, links, granted, connection, denied, faults, erased>>

Erasure(r) == Collect(r) \/ Erase(r) \/ EraseSecrets(r)

\* The chat offers a connection once the settings are active.
Connecting(r) == profile.step = "COMPLETE" /\ \E p \in Provider : Connect(r, p)
Linking(r) == (At(r, "handle") => profile.step = "COMPLETE") /\ LinkStep(r)

Step_(r) ==
    \/ TakeSlot(r) /\ UNCHANGED <<account, accounts, erased>>
    \/ (Claim(r) \/ Press(r) \/ ShowPressed(r)) /\ UNCHANGED <<account, accounts, erased>>
    \/ OnboardingStep(r) /\ UNCHANGED <<accounts, erased>>
    \/ Connecting(r) /\ UNCHANGED <<account, erased>>
    \/ Linking(r) /\ UNCHANGED <<account, erased>>
    \/ Erasure(r)

Next ==
    \/ \E r \in Request :
        \/ Step_(r)
        \/ \E u \in Update : Deliver(r, u) /\ UNCHANGED <<account, accounts, erased>>
        \/ \E p \in Provider : Follow(r, p) /\ UNCHANGED <<account, erased>>
        \/ Crash(r) /\ UNCHANGED <<account, accounts, erased>>
    \/ NextMinute /\ UNCHANGED <<account, accounts, erased>>

\* Requests go on, minutes pass, Telegram keeps delivering what it has no answer
\* for, and one of the deliveries of an update comes when a slot is free.
Delivered(u) == \E r \in Request : Deliver(r, u)
Admitted(u) == \E r \in Request : job[r].upd = u /\ SlotIsFree /\ TakeSlot(r)
Others == UNCHANGED <<account, accounts, erased>>
Fairness ==
    /\ \A r \in Request : WF_vars(Step_(r))
    /\ \A u \in Update : SF_vars(Delivered(u) /\ Others) /\ SF_vars(Admitted(u) /\ Others)
    /\ WF_vars(NextMinute /\ Others)
Spec == Init /\ [][Next]_vars /\ Fairness

-----------------------------------------------------------------------------
\* claim_telegram_update: deliveries of one update may overlap and may be
\* repeated after an error or a crash, and one request handles it, unless it
\* presses a button of an approval card.
OneHandlerPerUpdate ==
    \A r, q \in Request :
        r # q /\ Handles(r) /\ Handles(q) /\ job[r].upd \notin Button => job[r].upd # job[q].upd

\* telegram_webhook: every update that is claimed before it is handled gets its
\* 200 in the end, at the latest as one that was handled, though requests fail
\* or die and the minute is used up. A press on an approval card whose token is
\* unknown and a malformed body never do, they are 400 at every delivery; and
\* until Telegram gives up on such a press, it may use up every minute.
Pressing == \E r \in Request : job[r].upd \in Button
UpdatesAreAnswered ==
    <>[]~Pressing => \A u \in Update \ (Button \cup Malformed) : <>(u \notin waiting)

\* activate_traveler_policy, save_traveler: a traveler whose settings are active
\* sees the very settings the recovery goes by, though answers of other cards
\* store the whole profile they once read. After a deletion such an answer can
\* bring back a profile without its policy.
CompleteMeansPolicy ==
    profile.step = "COMPLETE" /\ ~erased => policies[profile.active] = profile.mode

\* consume_*: a link opened twice, at the same time or again, is exchanged for a
\* credential once.
LinkIsUsedOnce ==
    \A r, q \in Request :
        /\ r # q
        /\ job[r].pc \in {"exchange", "validate", "store", "connected"}
        /\ job[q].pc \in {"exchange", "validate", "store", "connected"}
        => Arg(r) # Arg(q)

\* disconnect: the connection is shown as disconnected after its secret was
\* destroyed and the grant it read was revoked, or answered 400 for by Google,
\* whichever of the calls failed.
DisconnectedIsRevoked ==
    [][\A r \in Request :
        At(r, "disconnected") /\ job'[r] # job[r] /\ connection' # connection /\ Arg(r).l # Nothing =>
            /\ Arg(r).l \notin secrets[Arg(r).p]
            /\ Arg(r).p \in Google =>
                   Arg(r).l \notin granted[Arg(r).p] \ denied[Arg(r).p]]_vars

\* The settings leave the active policy alone until they are activated. Not so
\* when two cards are answered at the same time: the later write brings back the
\* version it read, and the version after it is taken, so that the traveler
\* cannot activate any settings again.
SettingsKeepActivePolicy == [][~erased' => profile'.active >= profile.active]_vars
=============================================================================
