------------------------ MODULE TravelerAccount_proofs ------------------------
(***************************************************************************)
(* Proofs about TravelerAccount, for any number of requests, updates,      *)
(* accounts and links, any rate limit and any number of deaths.  What a    *)
(* step does to the requests is one lemma (JobMoves); each part of the     *)
(* invariant is then proved from the few ways a request can move.          *)
(***************************************************************************)
EXTENDS TravelerAccount, TLAPS

-----------------------------------------------------------------------------
(* The requests. *)

Shape ==
    /\ job = [r \in Request |-> job[r]]
    /\ \A r \in Request : job[r] = [pc |-> job[r].pc, upd |-> job[r].upd, arg |-> job[r].arg]

OnlyOf(r) == \A q \in Request : q # r => job'[q] = job[q]

\* A request that is idle sets out.
LEMMA SetsOut ==
    ASSUME NEW pc, NEW upd, NEW arg
    PROVE  /\ [Idle EXCEPT !.pc = pc, !.arg = arg] = [pc |-> pc, upd |-> Nothing, arg |-> arg]
           /\ [Idle EXCEPT !.pc = pc, !.upd = upd] = [pc |-> pc, upd |-> upd, arg |-> Nothing]
<1>. DEFINE k == [pc |-> pc, upd |-> Nothing, arg |-> Nothing]
<1>1. [Idle EXCEPT !.pc = pc] = k
  BY DEF Idle
<1>2. /\ [k EXCEPT !.arg = arg] = [pc |-> pc, upd |-> Nothing, arg |-> arg]
      /\ [k EXCEPT !.upd = upd] = [pc |-> pc, upd |-> upd, arg |-> Nothing]
  OBVIOUS
<1>3. /\ [Idle EXCEPT !.pc = pc, !.arg = arg] = [[Idle EXCEPT !.pc = pc] EXCEPT !.arg = arg]
      /\ [Idle EXCEPT !.pc = pc, !.upd = upd] = [[Idle EXCEPT !.pc = pc] EXCEPT !.upd = upd]
  OBVIOUS
<1>. HIDE DEF k
<1>. QED BY <1>1, <1>2, <1>3

LEMMA Replaced ==
    ASSUME Shape, NEW r \in Request, NEW new,
           new = [pc |-> new.pc, upd |-> new.upd, arg |-> new.arg], job' = [job EXCEPT ![r] = new]
    PROVE  Shape' /\ OnlyOf(r) /\ job'[r] = new
BY DEF Shape, OnlyOf

LEMMA Going ==
    ASSUME Shape, NEW r \in Request, NEW pc, GoTo(r, pc)
    PROVE  Shape' /\ OnlyOf(r) /\ job'[r] = [pc |-> pc, upd |-> job[r].upd, arg |-> job[r].arg]
<1>. DEFINE new == [pc |-> pc, upd |-> job[r].upd, arg |-> job[r].arg]
<1>1. job' = [job EXCEPT ![r] = new]
  <2>1. [job[r] EXCEPT !.pc = pc] = new
    BY DEF Shape
  <2>. QED BY <2>1 DEF GoTo, Shape
<1>2. new = [pc |-> new.pc, upd |-> new.upd, arg |-> new.arg]
  OBVIOUS
<1>. QED BY <1>1, <1>2, Replaced

LEMMA GoingWith ==
    ASSUME Shape, NEW r \in Request, NEW pc, NEW arg, GoWith(r, pc, arg)
    PROVE  Shape' /\ OnlyOf(r) /\ job'[r] = [pc |-> pc, upd |-> job[r].upd, arg |-> arg]
<1>. DEFINE new == [pc |-> pc, upd |-> job[r].upd, arg |-> arg]
<1>1. job' = [job EXCEPT ![r] = new]
  <2>. DEFINE k == [pc |-> pc, upd |-> job[r].upd, arg |-> job[r].arg]
  <2>2. [job[r] EXCEPT !.pc = pc] = k
    BY DEF Shape
  <2>3. [k EXCEPT !.arg = arg] = new
    OBVIOUS
  <2>4. [job[r] EXCEPT !.pc = pc, !.arg = arg] = [[job[r] EXCEPT !.pc = pc] EXCEPT !.arg = arg]
    OBVIOUS
  <2>. HIDE DEF k, new
  <2>1. [job[r] EXCEPT !.pc = pc, !.arg = arg] = new
    BY <2>2, <2>3, <2>4
  <2>. QED BY <2>1 DEF GoWith, Shape
<1>2. new = [pc |-> new.pc, upd |-> new.upd, arg |-> new.arg]
  OBVIOUS
<1>. QED BY <1>1, <1>2, Replaced

LEMMA Ending ==
    ASSUME Shape, NEW r \in Request, Ends(r)
    PROVE  Shape' /\ OnlyOf(r) /\ job'[r] = Idle
BY Replaced DEF Ends, Idle

\* A step of r by name.
Acts(r) ==
    \/ TakeSlot(r) \/ Claim(r) \/ Press(r) \/ ShowPressed(r) \/ Crash(r)
    \/ Start(r) \/ Reply(r) \/ SaveTraveler(r) \/ Activate(r)
    \/ Consume(r) \/ Exchange(r) \/ Validate(r) \/ StoreSecret(r) \/ SaveConnected(r)
    \/ Revoke(r) \/ Forget(r) \/ SaveDisconnected(r)
    \/ Collect(r) \/ Erase(r) \/ EraseSecrets(r)
    \/ \E p \in Provider : Connect(r, p) \/ Disconnect(r, p) \/ Follow(r, p)
    \/ \E u \in Update : Deliver(r, u)

Redeeming == {"exchange", "validate", "store", "connected"}
Parting == {"revoke", "forget", "disconnected"}

\* The tokens Google honours, as far as it said.
Honoured(p) == granted[p] \ denied[p]
\* Google's answer to r, 200 or 400.
RevokedOrDenied(r) ==
    \/ granted' = [granted EXCEPT ![Arg(r).p] = @ \ {Arg(r).l}] /\ UNCHANGED denied
    \/ denied' = [denied EXCEPT ![Arg(r).p] = @ \cup {Arg(r).l}] /\ UNCHANGED granted

\* How r goes on with what it holds.
From(r, pc, next) ==
    job[r].pc = pc /\ job'[r] = [pc |-> next, upd |-> job[r].upd, arg |-> job[r].arg]
\* How r begins what it was sent for.
Begins(r, pc, arg) ==
    job[r].pc = "handle" /\ job'[r] = [pc |-> pc, upd |-> job[r].upd, arg |-> arg]

Moves(r) ==
    \/ job'[r] = Idle
    \/ \E u \in Update : job'[r] = [pc |-> "rate", upd |-> u, arg |-> Nothing]
    \/ \E p \in Provider, l \in Link :
           job'[r] = [pc |-> "consume", upd |-> Nothing, arg |-> [p |-> p, l |-> l]]
    \/ From(r, "rate", "claim")
    \/ From(r, "claim", "handle") /\ job[r].upd \notin claimed /\ job[r].upd \in claimed'
    \/ From(r, "claim", "pressed") /\ job[r].upd \in Button
    \/ \E new \in {NewProfile} \cup Answered(profile) : Begins(r, "save", new)
    \/ /\ profile.step = "SUMMARY" /\ profile.active < MaxPolicy
       /\ Begins(r, "activate", Activated(profile))
    \/ \E p \in Provider, pc \in Parting :
           /\ Begins(r, pc, [p |-> p, l |-> connection[p].secret])
           /\ (pc = "disconnected") = (connection[p].secret = Nothing)
           /\ pc = "forget" => p \notin Google
    \/ \E arg : Begins(r, "erase", arg)
    \/ /\ From(r, "consume", "exchange") \/ From(r, "consume", "validate")
       /\ Consumable(Arg(r).p, Arg(r).l)
       /\ links' = [links EXCEPT ![Arg(r).p][Arg(r).l] = "consumed"]
    \/ From(r, "exchange", "store") \/ From(r, "validate", "store") \/ From(r, "store", "connected")
    \/ /\ From(r, "revoke", "forget")
       /\ RevokedOrDenied(r)
    \/ /\ From(r, "forget", "disconnected")
       /\ secrets' = [secrets EXCEPT ![Arg(r).p] = @ \ {Arg(r).l}]
    \/ From(r, "erase", "secrets")

LEMMA JobMoves ==
    ASSUME Shape, NEW r \in Request, Acts(r)
    PROVE  Shape' /\ OnlyOf(r) /\ Moves(r)
<1>. DEFINE Moved == Shape' /\ OnlyOf(r) /\ Moves(r)
<1>1. CASE Ends(r)
  BY <1>1, Ending DEF Moves
<1>2. CASE TakeSlot(r)
  BY <1>1, <1>2, Going DEF TakeSlot, At, From, Moves
<1>3. CASE Claim(r)
  BY <1>1, <1>3, Going DEF Claim, Fresh, Answer, At, From, Moves
<1>3a. CASE Press(r)
  BY <1>1, <1>3a, Going DEF Press, Fail, At, From, Moves
<1>3b. CASE ShowPressed(r)
  BY <1>1, <1>3b DEF ShowPressed, Answer
<1>4. CASE Start(r)
  <2>1. CASE profile.step = "NONE"
    <3>1. At(r, "handle") /\ GoWith(r, "save", NewProfile)
      BY <1>4, <2>1 DEF Start, Continue
    <3>2. Begins(r, "save", NewProfile) /\ Shape' /\ OnlyOf(r)
      BY <3>1, GoingWith DEF At, Begins
    <3>. QED BY <3>2 DEF Moves
  <2>. QED BY <1>1, <1>4, <2>1 DEF Start, Answer
<1>5. CASE Reply(r)
  <2>1. CASE \E p \in Answered(profile) : Continue(r, "save", p)
    <3>1. PICK p \in Answered(profile) : At(r, "handle") /\ GoWith(r, "save", p)
      BY <1>5, <2>1 DEF Reply, Continue
    <3>2. Begins(r, "save", p) /\ Shape' /\ OnlyOf(r)
      BY <3>1, GoingWith DEF At, Begins
    <3>. QED BY <3>2 DEF Moves
  <2>2. CASE /\ profile.step = "SUMMARY" /\ profile.active < MaxPolicy
             /\ Continue(r, "activate", Activated(profile))
    <3>1. At(r, "handle") /\ GoWith(r, "activate", Activated(profile))
      BY <1>5, <2>2 DEF Reply, Continue
    <3>. QED BY <2>2, <3>1, GoingWith DEF At, Begins, Moves
  <2>. QED BY <1>1, <1>5, <2>1, <2>2 DEF Reply, Fail
<1>6. CASE Consume(r)
  BY <1>1, <1>6, Going DEF Consume, At, From, Moves
<1>7. CASE Exchange(r) \/ Validate(r) \/ StoreSecret(r)
  BY <1>1, <1>7, Going DEF Exchange, Validate, StoreSecret, At, From, Moves
<1>8. CASE Revoke(r)
  BY <1>1, <1>8, Going DEF Revoke, Fail, At, From, RevokedOrDenied, Moves
<1>9. CASE Forget(r)
  BY <1>1, <1>9, Going DEF Forget, Answer, At, From, Moves
<1>10. CASE Collect(r)
  <2>1. CASE profile.step = "NONE"
    BY <1>1, <1>10, <2>1 DEF Collect, Answer
  <2>2. CASE profile.step # "NONE"
    <3>1. PICK arg : At(r, "handle") /\ GoWith(r, "erase", arg)
      BY <1>10, <2>2 DEF Collect, Continue
    <3>2. Begins(r, "erase", arg) /\ Shape' /\ OnlyOf(r)
      BY <3>1, GoingWith DEF At, Begins
    <3>. QED BY <3>2 DEF Moves
  <2>. QED BY <2>1, <2>2
<1>11. CASE Erase(r)
  BY <1>11, Going DEF Erase, At, From, Moves
<1>12. CASE SaveTraveler(r) \/ Activate(r) \/ SaveConnected(r) \/ SaveDisconnected(r)
           \/ EraseSecrets(r) \/ Crash(r)
  BY <1>1, <1>12 DEF SaveTraveler, Activate, SaveConnected, SaveDisconnected, EraseSecrets, Crash,
                     Answer, Fail
<1>13. CASE \E p \in Provider : Connect(r, p)
  BY <1>1, <1>13 DEF Connect, Answer
<1>14. ASSUME NEW p \in Provider, Follow(r, p) PROVE Moved
  <2>1. PICK l \in Link : job' = [job EXCEPT ![r] = [pc |-> "consume", upd |-> Nothing,
                                                   arg |-> [p |-> p, l |-> l]]]
    <3>1. \A arg : [Idle EXCEPT !.pc = "consume", !.arg = arg]
                      = [pc |-> "consume", upd |-> Nothing, arg |-> arg]
      BY SetsOut
    <3>. QED BY <1>14, <3>1 DEF Follow
  <2>. DEFINE new == [pc |-> "consume", upd |-> Nothing, arg |-> [p |-> p, l |-> l]]
  <2>2. new = [pc |-> new.pc, upd |-> new.upd, arg |-> new.arg]
    OBVIOUS
  <2>3. Shape' /\ OnlyOf(r) /\ job'[r] = new
    BY <2>1, <2>2, Replaced
  <2>. QED BY <2>3 DEF Moves
<1>15. ASSUME NEW u \in Update, Deliver(r, u) PROVE Moved
  <2>1. job' = [job EXCEPT ![r] = [pc |-> "rate", upd |-> u, arg |-> Nothing]]
    <3>1. [Idle EXCEPT !.pc = "rate", !.upd = u] = [pc |-> "rate", upd |-> u, arg |-> Nothing]
      BY SetsOut
    <3>. QED BY <1>15, <3>1 DEF Deliver
  <2>. QED BY <2>1, Replaced DEF Moves
<1>16. ASSUME NEW p \in Provider, Disconnect(r, p) PROVE Moved
  <2>1. CASE connection[p].status = "NONE"
    BY <1>1, <1>16, <2>1 DEF Disconnect, Fail
  <2>2. CASE connection[p].status # "NONE"
    <3>1. PICK pc \in Parting :
              /\ At(r, "handle") /\ GoWith(r, pc, [p |-> p, l |-> connection[p].secret])
              /\ (pc = "disconnected") = (connection[p].secret = Nothing)
              /\ pc = "forget" => p \notin Google
      BY <1>16, <2>2 DEF Disconnect, Continue, Parting
    <3>2. Begins(r, pc, [p |-> p, l |-> connection[p].secret]) /\ Shape' /\ OnlyOf(r)
      BY <3>1, GoingWith DEF At, Begins
    <3>. QED BY <3>1, <3>2 DEF Moves
  <2>. QED BY <2>1, <2>2
<1>. QED BY <1>2, <1>3, <1>3a, <1>3b, <1>4, <1>5, <1>6, <1>7, <1>8, <1>9, <1>10, <1>11, <1>12, <1>13, <1>14,
            <1>15, <1>16 DEF Acts

-----------------------------------------------------------------------------
(* What the requests hold. *)

Key == [p : Provider, l : Link]

ProfileArgs ==
    \A r \in Request :
        /\ job[r].pc \in {"save", "activate"} => job[r].arg \in Profile
        /\ job[r].pc = "activate" => job[r].arg.step = "COMPLETE" /\ job[r].arg.active \in 1 .. MaxPolicy

LinkArgs ==
    \A r \in Request :
        /\ job[r].pc \in Redeeming \cup {"consume"} => job[r].arg \in Key
        /\ job[r].pc \in Parting => job[r].arg \in [p : Provider, l : Link \cup {Nothing}]
        /\ job[r].pc = "revoke" => job[r].arg.l # Nothing
        /\ job[r].pc = "forget" => job[r].arg.l # Nothing

UpdateHeld == \A r \in Request : job[r].pc \in {"rate", "claim"} => job[r].upd \in Update

Held == TypeOK /\ Shape /\ ProfileArgs /\ LinkArgs /\ UpdateHeld

\* Order is a list of eight steps, so that each has one after it.
LEMMA NextCards ==
    /\ After("PROMISE") = "CALENDAR" /\ After("BOUNDARY") = "SUMMARY"
    /\ \A s \in Asking : After(s) \in {"SERVICE_MESSAGES", "REVERSIBLE_CHANGES", "SPENDING", "BOUNDARY"}
<1>1. \A i \in 1 .. 7 : i = 1 \/ i = 2 \/ i = 3 \/ i = 4 \/ i = 5 \/ i = 6 \/ i = 7
  OBVIOUS
<1>2. /\ (CHOOSE i \in 1 .. 7 : Order[i] = "PROMISE") = 1
      /\ (CHOOSE i \in 1 .. 7 : Order[i] = "CALENDAR") = 2
      /\ (CHOOSE i \in 1 .. 7 : Order[i] = "SERVICE_MESSAGES") = 3
      /\ (CHOOSE i \in 1 .. 7 : Order[i] = "REVERSIBLE_CHANGES") = 4
      /\ (CHOOSE i \in 1 .. 7 : Order[i] = "SPENDING") = 5
      /\ (CHOOSE i \in 1 .. 7 : Order[i] = "BOUNDARY") = 6
  BY <1>1 DEF Order
<1>3. Asking = {"CALENDAR", "SERVICE_MESSAGES", "REVERSIBLE_CHANGES", "SPENDING"}
  BY DEF Asking, Order
<1>. QED BY <1>2, <1>3 DEF After, Order

\* No answer but the activation ends the settings.
LEMMA AnswersTyped ==
    ASSUME profile \in Profile, NEW p \in Answered(profile)
    PROVE  /\ p \in Profile
           /\ p.step = "COMPLETE" => p = profile
<1>. Step = {"PROMISE", "CALENDAR", "SERVICE_MESSAGES", "REVERSIBLE_CHANGES", "SPENDING",
             "BOUNDARY", "SUMMARY", "COMPLETE"}
  BY DEF Step, Order
<1>1. CASE profile.step = "COMPLETE"
  <2>1. "CALENDAR" \in Step
    BY DEF Step, Order
  <2>2. /\ [profile EXCEPT !.step = "CALENDAR"] \in Profile
        /\ [profile EXCEPT !.step = "CALENDAR"].step = "CALENDAR"
    BY <2>1 DEF Profile
  <2>. DEFINE again == [profile EXCEPT !.step = "CALENDAR"]
  <2>3. p \in {profile, again}
    <3>1. "COMPLETE" \notin Asking \cup {"PROMISE", "BOUNDARY"}
      BY DEF Asking, Order
    <3>. HIDE DEF again
    <3>. QED BY <1>1, <3>1 DEF Answered, again
  <2>. QED BY <2>2, <2>3
<1>2. CASE profile.step \in Asking
  BY <1>2, NextCards DEF Answered, Profile, Asking, Order
<1>3. CASE profile.step \in {"PROMISE", "BOUNDARY"}
  BY <1>3, NextCards DEF Answered, Profile, Asking, Order
<1>. QED BY <1>1, <1>2, <1>3 DEF Answered

LEMMA ActivatedTyped ==
    ASSUME profile \in Profile, profile.active < MaxPolicy
    PROVE  /\ Activated(profile) \in Profile
           /\ Activated(profile).step = "COMPLETE"
           /\ Activated(profile).active = profile.active + 1
<1>1. "COMPLETE" \in Step
  BY DEF Step, Order
<1>2. profile.active + 1 \in 0 .. MaxPolicy
  BY MaxPolicyIsPositive DEF Profile
<1>3. profile = [step |-> profile.step, mode |-> profile.mode, active |-> profile.active]
  BY DEF Profile
<1>4. Activated(profile) = [step |-> "COMPLETE", mode |-> profile.mode, active |-> profile.active + 1]
  <2>. DEFINE k == [step |-> "COMPLETE", mode |-> profile.mode, active |-> profile.active]
  <2>1. [profile EXCEPT !.step = "COMPLETE"] = k
    BY <1>3
  <2>2. [k EXCEPT !.active = profile.active + 1]
            = [step |-> "COMPLETE", mode |-> profile.mode, active |-> profile.active + 1]
    OBVIOUS
  <2>3. Activated(profile) = [[profile EXCEPT !.step = "COMPLETE"] EXCEPT !.active = profile.active + 1]
    BY <1>3 DEF Activated
  <2>. HIDE DEF k
  <2>. QED BY <2>1, <2>2, <2>3
<1>. QED BY <1>1, <1>2, <1>4 DEF Profile

LEMMA ArgsMove ==
    ASSUME Held, NEW r \in Request, OnlyOf(r), Moves(r)
    PROVE  ProfileArgs' /\ LinkArgs' /\ UpdateHeld'
<1>. USE DEF OnlyOf, Held
<1>1. CASE job'[r] = Idle
  BY <1>1 DEF Idle, ProfileArgs, LinkArgs, UpdateHeld, Redeeming, Parting
<1>2. CASE \E u \in Update : job'[r] = [pc |-> "rate", upd |-> u, arg |-> Nothing]
  BY <1>2 DEF ProfileArgs, LinkArgs, UpdateHeld, Redeeming, Parting
<1>3. CASE \E p \in Provider, l \in Link :
               job'[r] = [pc |-> "consume", upd |-> Nothing, arg |-> [p |-> p, l |-> l]]
  BY <1>3 DEF ProfileArgs, LinkArgs, UpdateHeld, Redeeming, Parting, Key
<1>4. CASE \E new \in {NewProfile} \cup Answered(profile) : Begins(r, "save", new)
  <2>1. NewProfile \in Profile
    BY MaxPolicyIsPositive DEF NewProfile, NoProfile, Profile, Step, Order, Mode
  <2>2. PICK new \in Profile : Begins(r, "save", new)
    BY <1>4, <2>1, AnswersTyped DEF TypeOK, AccountTypeOK
  <2>. QED BY <2>2 DEF Begins, ProfileArgs, LinkArgs, UpdateHeld, Redeeming, Parting
<1>5. CASE /\ profile.step = "SUMMARY" /\ profile.active < MaxPolicy
           /\ Begins(r, "activate", Activated(profile))
  <2>1. /\ Activated(profile) \in Profile
        /\ Activated(profile).step = "COMPLETE"
        /\ Activated(profile).active = profile.active + 1
    BY <1>5, ActivatedTyped DEF TypeOK, AccountTypeOK
  <2>2. profile.active + 1 \in 1 .. MaxPolicy
    BY <1>5, MaxPolicyIsPositive DEF TypeOK, AccountTypeOK, Profile
  <2>3. job'[r] = [pc |-> "activate", upd |-> job[r].upd, arg |-> Activated(profile)]
    BY <1>5 DEF Begins
  <2>. HIDE DEF Held
  <2>4. ProfileArgs'
    BY <2>1, <2>2, <2>3 DEF Held, ProfileArgs, Redeeming, Parting
  <2>5. LinkArgs'
    BY <2>3 DEF Held, LinkArgs, UpdateHeld, Redeeming, Parting
  <2>6. UpdateHeld'
    BY <2>3 DEF Held, UpdateHeld
  <2>. QED BY <2>4, <2>5, <2>6
<1>6. ASSUME NEW p \in Provider, NEW pc \in Parting,
             Begins(r, pc, [p |-> p, l |-> connection[p].secret]),
             (pc = "disconnected") = (connection[p].secret = Nothing)
      PROVE  ProfileArgs' /\ LinkArgs' /\ UpdateHeld'
  <2>1. connection[p].secret \in Link \cup {Nothing}
    BY DEF TypeOK, AccountsTypeOK, Connection
  <2>. QED BY <1>6, <2>1 DEF Begins, ProfileArgs, LinkArgs, UpdateHeld, Redeeming, Parting
<1>7. CASE \E arg : Begins(r, "erase", arg)
  BY <1>7 DEF Begins, ProfileArgs, LinkArgs, UpdateHeld, Redeeming, Parting
<1>8. CASE \/ From(r, "rate", "claim") \/ From(r, "claim", "handle") \/ From(r, "erase", "secrets")
           \/ From(r, "claim", "pressed")
           \/ From(r, "consume", "exchange") \/ From(r, "consume", "validate")
           \/ From(r, "exchange", "store") \/ From(r, "validate", "store")
           \/ From(r, "store", "connected")
           \/ From(r, "revoke", "forget") \/ From(r, "forget", "disconnected")
  BY <1>8 DEF From, ProfileArgs, LinkArgs, UpdateHeld, Redeeming, Parting
<1>. QED BY <1>1, <1>2, <1>3, <1>4, <1>5, <1>6, <1>7, <1>8 DEF Moves

-----------------------------------------------------------------------------
(* What a step does to the records. *)

AccountEffect(r) ==
    \/ UNCHANGED <<profile, policies, erased>>
    \/ At(r, "save") /\ profile' = Arg(r) /\ UNCHANGED <<policies, erased>>
    \/ /\ At(r, "activate") /\ Follows(Arg(r))
       /\ policies' = [policies EXCEPT ![Arg(r).active] = Arg(r).mode]
       /\ profile' = Arg(r) /\ UNCHANGED erased
    \/ /\ profile' = NoProfile /\ erased' = TRUE
       /\ \E gone : policies' = [v \in DOMAIN policies |-> IF v \in gone THEN "NONE" ELSE policies[v]]

LinksEffect ==
    \A p \in Provider, l \in Link :
        links'[p][l] # links[p][l] =>
            (links[p][l] = "unused" /\ links'[p][l] = "open") \/ links'[p][l] = "consumed"

GrantsGrow(r) ==
    \A p \in Provider, l \in Link :
        l \in Honoured(p)' =>
            l \in Honoured(p) \/ (At(r, "exchange") /\ Arg(r).p = p /\ Arg(r).l = l)
SecretsGrow(r) ==
    \A p \in Provider, l \in Link :
        l \in secrets'[p] =>
            l \in secrets[p] \/ (At(r, "store") /\ Arg(r).p = p /\ Arg(r).l = l)
ConnectionMoves(r) ==
    \A p \in Provider :
        \/ connection'[p].secret = connection[p].secret
        \/ connection'[p].secret = Nothing
        \/ /\ At(r, "connected") /\ job'[r] = Idle
           /\ connection'[p].secret = Arg(r).l /\ Arg(r).p = p
GrantsEffect(r) == GrantsGrow(r) /\ SecretsGrow(r) /\ ConnectionMoves(r)

\* A step that leaves the accounts alone leaves them as they are.
LEMMA AccountsStay ==
    ASSUME UNCHANGED <<links, granted, secrets, connection, denied>>, NEW r
    PROVE  LinksEffect /\ GrantsEffect(r)
<1>1. links' = links /\ granted' = granted /\ secrets' = secrets /\ connection' = connection
      /\ denied' = denied
  OBVIOUS
<1>2. LinksEffect
  BY <1>1 DEF LinksEffect
<1>3. GrantsGrow(r) /\ SecretsGrow(r)
  BY <1>1 DEF GrantsGrow, SecretsGrow, Honoured
<1>4. ConnectionMoves(r)
  BY <1>1, Zenon DEF ConnectionMoves
<1>. QED BY <1>2, <1>3, <1>4 DEF GrantsEffect

LEMMA Effects ==
    ASSUME Held, Next
    PROVE  \/ \E r \in Request :
                  /\ Acts(r) /\ Shape' /\ OnlyOf(r) /\ Moves(r)
                  /\ AccountEffect(r) /\ LinksEffect /\ GrantsEffect(r)
           \/ UNCHANGED <<job, claimed, account, accounts, erased>>
<1>. DEFINE Done(r) == Acts(r) /\ AccountEffect(r) /\ LinksEffect /\ GrantsEffect(r)
<1>1. ASSUME NEW r \in Request,
             \/ TakeSlot(r) \/ Claim(r) \/ Press(r) \/ ShowPressed(r) \/ Crash(r)
             \/ \E u \in Update : Deliver(r, u),
             UNCHANGED <<account, accounts, erased>>
      PROVE  Done(r)
  <2>1. AccountEffect(r)
    BY <1>1 DEF AccountEffect, account
  <2>2. LinksEffect /\ GrantsEffect(r)
    BY <1>1, AccountsStay DEF accounts
  <2>. QED BY <1>1, <2>1, <2>2 DEF Acts
<1>2. ASSUME NEW r \in Request, OnboardingStep(r), UNCHANGED <<accounts, erased>> PROVE Done(r)
  <2>1. AccountEffect(r)
    BY <1>2 DEF OnboardingStep, Start, Reply, SaveTraveler, Activate, AccountEffect, account
  <2>2. LinksEffect /\ GrantsEffect(r)
    BY <1>2, AccountsStay DEF accounts
  <2>. QED BY <1>2, <2>1, <2>2 DEF OnboardingStep, Acts
<1>3. ASSUME NEW r \in Request, Connecting(r) \/ Linking(r) \/ \E p \in Provider : Follow(r, p),
             UNCHANGED <<account, erased>>
      PROVE  Done(r)
  <2>1. AccountEffect(r)
    BY <1>3 DEF AccountEffect, account
  <2>2. Acts(r)
    BY <1>3 DEF Connecting, Linking, LinkStep, Acts
  <2>3. LinksEffect
    <3>1. CASE \E p \in Provider : Connect(r, p)
      BY <3>1 DEF Connect, LinksEffect, Held, TypeOK, AccountsTypeOK
    <3>2. CASE Consume(r)
      BY <3>2 DEF Consume, At, Arg, LinksEffect, Held, TypeOK, AccountsTypeOK, LinkArgs, Key
    <3>3. CASE UNCHANGED links
      BY <3>3 DEF LinksEffect
    <3>. QED BY <1>3, <3>1, <3>2, <3>3 DEF Connecting, Linking, LinkStep, Exchange, Validate, StoreSecret,
                SaveConnected, Revoke, Forget, SaveDisconnected, Disconnect, Follow, accounts
  <2>4. GrantsEffect(r)
    <3>. USE DEF GrantsEffect, GrantsGrow, Honoured, SecretsGrow, ConnectionMoves, Held, TypeOK, AccountsTypeOK, LinkArgs, Key, Connection, At, Arg, Redeeming, Parting
    <3>1. CASE UNCHANGED <<granted, secrets, connection, denied>>
      <4>1. /\ granted' = granted /\ secrets' = secrets /\ connection' = connection
            /\ denied' = denied
        BY <3>1
      <4>. QED BY <4>1, Zenon DEF GrantsEffect, GrantsGrow, Honoured, SecretsGrow, ConnectionMoves
    <3>2. CASE Exchange(r)
      BY <3>2 DEF Exchange
    <3>3. CASE Validate(r)
      BY <3>3 DEF Validate
    <3>4. CASE StoreSecret(r)
      BY <3>4 DEF StoreSecret
    <3>5. CASE SaveConnected(r)
      BY <3>5 DEF SaveConnected, Ends, Shape
    <3>6. CASE Revoke(r)
      <4>1. \/ granted' = granted
            \/ granted' = [granted EXCEPT ![Arg(r).p] = @ \ {Arg(r).l}]
        BY <3>6 DEF Revoke
      <4>2. \/ denied' = denied
            \/ denied' = [denied EXCEPT ![Arg(r).p] = @ \cup {Arg(r).l}]
        BY <3>6 DEF Revoke
      <4>3. secrets' = secrets /\ connection' = connection
        BY <3>6 DEF Revoke
      <4>4. ASSUME NEW p \in Provider
            PROVE  granted'[p] \subseteq granted[p] /\ denied[p] \subseteq denied'[p]
        <5>. DEFINE q == Arg(r).p
                    l == Arg(r).l
        <5>1. granted'[p] = granted[p] \/ granted'[p] = granted[p] \ {l}
          BY <4>1
        <5>2. /\ denied \in [Provider -> SUBSET Link]
              /\ denied' = denied \/ denied' = [denied EXCEPT ![q] = @ \cup {l}]
          BY <4>2
        <5>. HIDE DEF q, l
        <5>3. denied'[p] = denied[p] \/ denied'[p] = denied[p] \cup {l}
          BY <5>2
        <5>. QED BY <5>1, <5>3
      <4>. QED BY <4>3, <4>4
    <3>7. CASE Forget(r)
      <4>1. \/ secrets' = secrets
            \/ secrets' = [secrets EXCEPT ![Arg(r).p] = @ \ {Arg(r).l}]
        BY <3>7 DEF Forget
      <4>2. granted' = granted /\ denied' = denied /\ connection' = connection
        BY <3>7 DEF Forget
      <4>3. ASSUME NEW p \in Provider, NEW l \in Link, l \in secrets'[p] PROVE l \in secrets[p]
        <5>1. secrets'[p] = secrets[p] \/ secrets'[p] = secrets[p] \ {Arg(r).l}
          BY <4>1
        <5>. QED BY <4>3, <5>1
      <4>. QED BY <4>2, <4>3
    <3>8. CASE SaveDisconnected(r)
      BY <3>8 DEF SaveDisconnected
    <3>. QED BY <1>3, <3>1, <3>2, <3>3, <3>4, <3>5, <3>6, <3>7, <3>8 DEF Connecting, Linking, LinkStep,
                Connect, Consume, Disconnect, Follow, accounts
  <2>. QED BY <2>1, <2>2, <2>3, <2>4
<1>4. ASSUME NEW r \in Request, Erasure(r) PROVE Done(r)
  <2>1. AccountEffect(r)
    BY <1>4 DEF Erasure, Collect, Erase, EraseSecrets, AccountEffect, account
  <2>2. Acts(r)
    BY <1>4 DEF Erasure, Acts
  <2>3. LinksEffect
    BY <1>4 DEF Erasure, Collect, Erase, EraseSecrets, LinksEffect, accounts, Held, TypeOK, AccountsTypeOK
  <2>4. GrantsEffect(r)
    <3>1. CASE Collect(r)
      BY <3>1, AccountsStay DEF Collect, accounts
    <3>2. CASE Erase(r)
      BY <3>2 DEF Erase, GrantsEffect, GrantsGrow, Honoured, SecretsGrow, ConnectionMoves, NoConnection,
                       Held, TypeOK, AccountsTypeOK
    <3>3. CASE EraseSecrets(r)
      BY <3>3 DEF EraseSecrets, GrantsEffect, GrantsGrow, Honoured, SecretsGrow, ConnectionMoves
    <3>. QED BY <1>4, <3>1, <3>2, <3>3 DEF Erasure
  <2>. QED BY <2>1, <2>2, <2>3, <2>4
<1>5. ASSUME NextMinute, UNCHANGED <<account, accounts, erased>>
      PROVE  UNCHANGED <<job, claimed, account, accounts, erased>>
  BY <1>5 DEF NextMinute
<1>6. ASSUME NEW r \in Request, Done(r) PROVE Shape' /\ OnlyOf(r) /\ Moves(r)
  BY <1>6, JobMoves DEF Held
<1>7. \/ \E r \in Request : Done(r)
      \/ UNCHANGED <<job, claimed, account, accounts, erased>>
  <2>. HIDE DEF Done
  <2>1. ASSUME NEW r \in Request, Step_(r) PROVE Done(r)
    BY <2>1, <1>1, <1>2, <1>3, <1>4 DEF Step_
  <2>2. ASSUME NEW r \in Request, Crash(r), UNCHANGED <<account, accounts, erased>> PROVE Done(r)
    BY <2>2, <1>1
  <2>3. ASSUME NEW r \in Request, NEW u \in Update, Deliver(r, u), UNCHANGED <<account, accounts, erased>>
        PROVE  Done(r)
    BY <2>3, <1>1
  <2>4. ASSUME NEW r \in Request, NEW p \in Provider, Follow(r, p), UNCHANGED <<account, erased>>
        PROVE  Done(r)
    BY <2>4, <1>3
  <2>. QED BY <2>1, <2>2, <2>3, <2>4, <1>5 DEF Next
<1>. QED BY <1>6, <1>7

-----------------------------------------------------------------------------
(* Type correctness. *)

LEMMA AccountTyped ==
    ASSUME Held, NEW r \in Request, AccountEffect(r)
    PROVE  AccountTypeOK' /\ (erased \in BOOLEAN)'
<1>. USE DEF Held, TypeOK, AccountTypeOK
<1>1. CASE UNCHANGED <<profile, policies, erased>>
  BY <1>1
<1>2. CASE At(r, "save") /\ profile' = Arg(r) /\ UNCHANGED <<policies, erased>>
  BY <1>2 DEF At, Arg, ProfileArgs
<1>3. CASE /\ At(r, "activate") /\ Follows(Arg(r))
           /\ policies' = [policies EXCEPT ![Arg(r).active] = Arg(r).mode]
           /\ profile' = Arg(r) /\ UNCHANGED erased
  BY <1>3 DEF At, Arg, ProfileArgs, Profile
<1>4. CASE /\ profile' = NoProfile /\ erased' = TRUE
           /\ \E gone : policies' = [v \in DOMAIN policies |-> IF v \in gone THEN "NONE" ELSE policies[v]]
  <2>1. NoProfile \in Profile
    BY MaxPolicyIsPositive DEF NoProfile, Profile, Mode
  <2>. QED BY <1>4, <2>1
<1>. QED BY <1>1, <1>2, <1>3, <1>4 DEF AccountEffect

LEMMA IntakeTyped ==
    ASSUME Held, Next
    PROVE  IntakeTypeOK'
<1>1. ASSUME NEW r \in Request, Moves(r)
      PROVE  job'[r].upd \in Update \cup {Nothing, job[r].upd}
  <2>1. CASE job'[r] = Idle
    BY <2>1 DEF Idle
  <2>2. CASE \E u \in Update : job'[r] = [pc |-> "rate", upd |-> u, arg |-> Nothing]
    BY <2>2
  <2>3. ASSUME NEW arg, job'[r] = [pc |-> "consume", upd |-> Nothing, arg |-> arg]
        PROVE  job'[r].upd = Nothing
    BY <2>3
  <2>4. \A pc, next : From(r, pc, next) => job'[r].upd = job[r].upd
    BY DEF From
  <2>5. \A pc, arg : Begins(r, pc, arg) => job'[r].upd = job[r].upd
    BY DEF Begins
  <2>. QED BY <1>1, <2>1, <2>2, <2>3, <2>4, <2>5 DEF Moves
<1>2. (\A r \in Request : job[r].upd \in Update \cup {Nothing})'
  <2>1. CASE UNCHANGED job
    BY <2>1 DEF Held, TypeOK, IntakeTypeOK
  <2>2. ASSUME NEW r \in Request, OnlyOf(r), Moves(r)
        PROVE  \A q \in Request : job'[q].upd \in Update \cup {Nothing}
    BY <2>2, <1>1 DEF OnlyOf, Held, TypeOK, IntakeTypeOK
  <2>. QED BY <2>1, <2>2, Effects
<1>. DEFINE Counted == /\ waiting \subseteq Update /\ claimed \subseteq Update
                       /\ slots \in 0 .. RateLimit /\ faults \in 0 .. MaxFaults
<1>3. Counted'
  <2>. USE IntakeAssumption DEF Held, TypeOK, IntakeTypeOK, intake, Answer, Fail, Continue
  <2>1. ASSUME NEW r \in Request, TakeSlot(r) \/ Claim(r) \/ Press(r) \/ ShowPressed(r) \/ Crash(r)
        PROVE  Counted'
    <3>1. TakeSlot(r) => Counted'
      BY DEF TakeSlot, SlotIsFree
    <3>2. Claim(r) => Counted'
      BY DEF Claim, Fresh, At, UpdateHeld
    <3>3. Crash(r) => Counted'
      BY DEF Crash
    <3>4. Press(r) => Counted'
      BY DEF Press, Fresh
    <3>5. ShowPressed(r) => Counted'
      BY DEF ShowPressed
    <3>. QED BY <2>1, <3>1, <3>2, <3>3, <3>4, <3>5
  <2>2. ASSUME NEW r \in Request, OnboardingStep(r) PROVE Counted'
    BY <2>2 DEF OnboardingStep, Start, Reply, SaveTraveler, Activate
  <2>3. ASSUME NEW r \in Request, Connecting(r) \/ Linking(r) PROVE Counted'
    BY <2>3 DEF Connecting, Linking, LinkStep, Connect, Consume, Exchange, Validate, StoreSecret, SaveConnected,
                Revoke, Forget, SaveDisconnected, Disconnect
  <2>4. ASSUME NEW r \in Request, Erasure(r) PROVE Counted'
    BY <2>4 DEF Erasure, Collect, Erase, EraseSecrets
  <2>5. ASSUME NEW r \in Request, NEW u \in Update, Deliver(r, u) PROVE Counted'
    BY <2>5 DEF Deliver
  <2>6. ASSUME NEW r \in Request, NEW p \in Provider, Follow(r, p) PROVE Counted'
    BY <2>6 DEF Follow
  <2>7. NextMinute => Counted'
    BY DEF NextMinute
  <2>. HIDE DEF Counted
  <2>. QED BY <2>1, <2>2, <2>3, <2>4, <2>5, <2>6, <2>7 DEF Next, Step_
<1>. QED BY <1>2, <1>3 DEF IntakeTypeOK

LEMMA AccountsTyped ==
    ASSUME Held, Next
    PROVE  AccountsTypeOK'
<1>1. CASE UNCHANGED accounts
  BY <1>1 DEF Held, TypeOK, AccountsTypeOK, accounts
<1>2. ASSUME NEW r \in Request, NEW p \in Provider, Connect(r, p) PROVE AccountsTypeOK'
  BY <1>2 DEF Held, TypeOK, AccountsTypeOK, Connect
<1>3. ASSUME NEW r \in Request, Linking(r), ~ UNCHANGED accounts PROVE AccountsTypeOK'
  <2>. USE DEF Held, TypeOK, AccountsTypeOK, LinkArgs, Redeeming, Parting, Key, At, Arg
  <2>1. CASE Consume(r)
    <3>1. Arg(r).p \in Provider /\ Arg(r).l \in Link
      BY <2>1 DEF Consume
    <3>2. \/ links' = links
          \/ links' = [links EXCEPT ![Arg(r).p][Arg(r).l] = "consumed"]
      BY <2>1 DEF Consume
    <3>3. links' \in [Provider -> [Link -> {"unused", "open", "consumed"}]]
      <4>. DEFINE p == Arg(r).p
                  l == Arg(r).l
      <4>1. links \in [Provider -> [Link -> {"unused", "open", "consumed"}]]
        OBVIOUS
      <4>. HIDE DEF p, l
      <4>2. p \in Provider /\ l \in Link
        BY <3>1 DEF p, l
      <4>3. links' = links \/ links' = [links EXCEPT ![p][l] = "consumed"]
        BY <3>2 DEF p, l
      <4>. HIDE DEF Held
      <4>4. CASE links' = [links EXCEPT ![p][l] = "consumed"]
        <5>1. [links[p] EXCEPT ![l] = "consumed"] \in [Link -> {"unused", "open", "consumed"}]
          BY <4>1, <4>2
        <5>. QED BY <4>1, <4>2, <4>4, <5>1
      <4>. QED BY <4>1, <4>3, <4>4
    <3>. QED BY <2>1, <3>3 DEF Consume
  <2>2. CASE Exchange(r)
    BY <2>2 DEF Exchange
  <2>3. CASE Validate(r)
    <3>1. connection' = connection \/ \E p \in Provider :
              connection' = [connection EXCEPT ![p] = [status |-> "INVALID", secret |-> Nothing]]
      BY <2>3 DEF Validate
    <3>2. [status |-> "INVALID", secret |-> Nothing] \in Connection
      BY DEF Connection
    <3>3. connection' \in [Provider -> Connection]
      BY <3>1, <3>2
    <3>. QED BY <2>3, <3>3 DEF Validate
  <2>4. CASE StoreSecret(r)
    BY <2>4 DEF StoreSecret
  <2>5. CASE SaveConnected(r)
    BY <2>5 DEF SaveConnected, Connection
  <2>6. CASE Revoke(r)
    BY <2>6 DEF Revoke
  <2>7. CASE Forget(r)
    BY <2>7 DEF Forget
  <2>8. CASE SaveDisconnected(r)
    BY <2>8 DEF SaveDisconnected, Connection
  <2>9. CASE \E p \in Provider : Disconnect(r, p)
    BY <1>3, <2>9 DEF Disconnect
  <2>. QED BY <1>3, <2>1, <2>2, <2>3, <2>4, <2>5, <2>6, <2>7, <2>8, <2>9 DEF Linking, LinkStep
<1>4. ASSUME NEW r \in Request, Erasure(r) PROVE AccountsTypeOK'
  <2>1. NoConnection \in Connection
    BY DEF NoConnection, Connection
  <2>2. CASE Collect(r)
    BY <1>1, <2>2 DEF Collect
  <2>3. CASE Erase(r)
    BY <2>1, <2>3 DEF Erase, Held, TypeOK, AccountsTypeOK
  <2>4. CASE EraseSecrets(r)
    BY <2>4 DEF EraseSecrets, Held, TypeOK, AccountsTypeOK
  <2>. QED BY <1>4, <2>2, <2>3, <2>4 DEF Erasure
<1>. QED
  <2>1. ASSUME NEW r \in Request, Step_(r), ~ UNCHANGED accounts PROVE AccountsTypeOK'
    BY <2>1, <1>2, <1>3, <1>4 DEF Step_, Connecting, accounts
  <2>2. ASSUME NEW r \in Request, NEW p \in Provider, Follow(r, p) PROVE UNCHANGED accounts
    BY <2>2 DEF Follow
  <2>. QED BY <1>1, <2>1, <2>2 DEF Next

LEMMA HeldInit == Init => Held
<1>. SUFFICES ASSUME Init PROVE Held
  OBVIOUS
<1>. USE DEF Init
<1>1. job = [r \in Request |-> Idle]
  BY DEF IntakeInit
<1>2. Shape /\ ProfileArgs /\ LinkArgs /\ UpdateHeld
  BY <1>1 DEF Idle, Shape, ProfileArgs, LinkArgs, UpdateHeld, Redeeming, Parting
<1>3. IntakeTypeOK
  BY <1>1, IntakeAssumption DEF IntakeInit, IntakeTypeOK, Idle
<1>4. AccountTypeOK
  <2>1. NoProfile \in Profile
    BY MaxPolicyIsPositive DEF NoProfile, Profile, Mode
  <2>2. {"PROMISE", "BOUNDARY", "COMPLETE"} \subseteq Step
    BY DEF Step, Order
  <2>3. [NewProfile EXCEPT !.step = "BOUNDARY"] \in Profile
    BY <2>1, <2>2 DEF NewProfile, Profile
  <2>4. [step |-> "COMPLETE", mode |-> "AUTO", active |-> 1] \in Profile
    BY <2>2, MaxPolicyIsPositive DEF Profile, Mode
  <2>. QED BY <2>1, <2>3, <2>4 DEF AccountInit, AccountTypeOK, Mode
<1>5. AccountsTypeOK
  BY DEF AccountsInit, AccountsTypeOK, NoConnection, Connection
<1>. QED BY <1>2, <1>3, <1>4, <1>5 DEF Held, TypeOK

LEMMA HeldNext == Held /\ [Next]_vars => Held'
<1>. SUFFICES ASSUME Held, [Next]_vars PROVE Held'
  OBVIOUS
<1>1. CASE UNCHANGED vars
  <2>. USE <1>1 DEF vars, intake, account, accounts
  <2>1. IntakeTypeOK' /\ AccountTypeOK' /\ AccountsTypeOK' /\ (erased \in BOOLEAN)'
    BY DEF Held, TypeOK, IntakeTypeOK, AccountTypeOK, AccountsTypeOK
  <2>2. Shape' /\ ProfileArgs' /\ LinkArgs' /\ UpdateHeld'
    BY DEF Held, Shape, ProfileArgs, LinkArgs, UpdateHeld
  <2>. QED BY <2>1, <2>2 DEF Held, TypeOK
<1>2. CASE Next
  <2>1. IntakeTypeOK' /\ AccountsTypeOK'
    BY <1>2, IntakeTyped, AccountsTyped
  <2>2. ASSUME NEW r \in Request, Shape', OnlyOf(r), Moves(r), AccountEffect(r)
        PROVE  Held'
    BY <2>1, <2>2, ArgsMove, AccountTyped DEF Held, TypeOK
  <2>3. CASE UNCHANGED <<job, claimed, account, accounts, erased>>
    <3>1. AccountTypeOK' /\ (erased \in BOOLEAN)'
      BY <2>3 DEF account, Held, TypeOK, AccountTypeOK
    <3>2. Shape' /\ ProfileArgs' /\ LinkArgs' /\ UpdateHeld'
      BY <2>3 DEF Held, Shape, ProfileArgs, LinkArgs, UpdateHeld
    <3>. QED BY <2>1, <3>1, <3>2 DEF Held, TypeOK
  <2>. QED BY <1>2, <2>2, <2>3, Effects
<1>. QED BY <1>1, <1>2

\* Every document and every request stays in its range.
THEOREM TypeCorrect == Spec => []TypeOK
<1>1. Held => TypeOK
  BY DEF Held
<1>. QED BY <1>1, HeldInit, HeldNext, PTL DEF Spec

-----------------------------------------------------------------------------
(* One request handles an update. *)

HandledIsClaimed ==
    \A r \in Request : Handles(r) /\ job[r].upd \notin Button => job[r].upd \in claimed

LEMMA ClaimedGrows ==
    ASSUME Next
    PROVE  claimed \subseteq claimed'
<1>. USE DEF intake, Answer, Fail, Continue
<1>1. ASSUME NEW r \in Request, OnboardingStep(r) PROVE claimed' = claimed
  BY <1>1 DEF OnboardingStep, Start, Reply, SaveTraveler, Activate
<1>2. ASSUME NEW r \in Request, Connecting(r) \/ Linking(r) PROVE claimed' = claimed
  BY <1>2 DEF Connecting, Linking, LinkStep, Connect, Consume, Exchange, Validate, StoreSecret, SaveConnected,
              Revoke, Forget, SaveDisconnected, Disconnect
<1>3. ASSUME NEW r \in Request, Erasure(r) PROVE claimed' = claimed
  BY <1>3 DEF Erasure, Collect, Erase, EraseSecrets
<1>4. ASSUME NEW r \in Request, Step_(r) PROVE claimed \subseteq claimed'
  BY <1>1, <1>2, <1>3, <1>4 DEF Step_, TakeSlot, Claim, Press, ShowPressed
<1>. QED BY <1>4 DEF Next, Deliver, Follow, Crash, NextMinute

LEMMA HandlesOn ==
    ASSUME NEW r \in Request, Moves(r), Handles(r)', job'[r].upd \notin Button
    PROVE  /\ job'[r].upd = job[r].upd
           /\ \/ Handles(r)
              \/ job[r].upd \notin claimed /\ job[r].upd \in claimed'
<1>. USE DEF Handles, At
<1>1. ~ (job'[r] = Idle)
  BY DEF Idle
<1>2. ASSUME NEW u \in Update, job'[r] = [pc |-> "rate", upd |-> u, arg |-> Nothing] PROVE FALSE
  BY <1>2
<1>3. ASSUME NEW p \in Provider, NEW l \in Link,
             job'[r] = [pc |-> "consume", upd |-> Nothing, arg |-> [p |-> p, l |-> l]]
      PROVE  FALSE
  BY <1>3
<1>4. ASSUME NEW pc, NEW arg, Begins(r, pc, arg) PROVE job'[r].upd = job[r].upd /\ Handles(r)
  BY <1>4 DEF Begins
<1>5. ASSUME NEW pc, NEW next, From(r, pc, next), pc \notin {"rate", "claim"}
      PROVE  job'[r].upd = job[r].upd /\ Handles(r)
  BY <1>5 DEF From
<1>6. ~ From(r, "rate", "claim")
  BY DEF From
<1>7. ASSUME From(r, "claim", "handle") PROVE job'[r].upd = job[r].upd
  BY <1>7 DEF From
<1>8. ~ (From(r, "claim", "pressed") /\ job[r].upd \in Button)
  BY DEF From
<1>. HIDE DEF Handles
<1>. QED BY <1>1, <1>2, <1>3, <1>4, <1>5, <1>6, <1>7, <1>8 DEF Moves

LEMMA HandledOnce ==
    ASSUME HandledIsClaimed, OneHandlerPerUpdate, Held, Next
    PROVE  HandledIsClaimed' /\ OneHandlerPerUpdate'
<1>1. CASE UNCHANGED job
  BY <1>1, ClaimedGrows DEF HandledIsClaimed, OneHandlerPerUpdate, Handles, At
<1>2. ASSUME NEW r \in Request, OnlyOf(r), Moves(r)
      PROVE  HandledIsClaimed' /\ OneHandlerPerUpdate'
  <2>1. \A q \in Request : q # r => (Handles(q)' <=> Handles(q)) /\ job'[q].upd = job[q].upd
    BY <1>2 DEF OnlyOf, Handles, At
  <2>2. Handles(r)' /\ job'[r].upd \notin Button =>
            /\ job'[r].upd = job[r].upd
            /\ Handles(r) \/ (job[r].upd \notin claimed /\ job[r].upd \in claimed')
    BY <1>2, HandlesOn
  <2>3. \A q \in Request : Handles(q) /\ job[q].upd \notin Button => job[q].upd \in claimed
    BY DEF HandledIsClaimed
  <2>4. \A q \in Request, t \in Request :
            q # t /\ Handles(q) /\ Handles(t) /\ job[q].upd \notin Button => job[q].upd # job[t].upd
    BY DEF OneHandlerPerUpdate
  <2>5. \A q \in Request : Handles(q)' /\ job'[q].upd \notin Button => job'[q].upd \in claimed'
    BY <2>1, <2>2, <2>3, ClaimedGrows
  <2>6. \A q \in Request, t \in Request :
            q # t /\ Handles(q)' /\ Handles(t)' /\ job'[q].upd \notin Button => job'[q].upd # job'[t].upd
    BY <2>1, <2>2, <2>3, <2>4
  <2>. QED BY <2>5, <2>6 DEF HandledIsClaimed, OneHandlerPerUpdate
<1>. QED BY <1>1, <1>2, Effects

\* claim_telegram_update: however many deliveries of an update overlap, whatever
\* request died, one request handles it. The presses on approval cards, which
\* telegram_webhook does not claim, are not spoken of.
THEOREM UpdatesAreHandledOnce == Spec => []OneHandlerPerUpdate
<1>. DEFINE Inv == Held /\ HandledIsClaimed /\ OneHandlerPerUpdate
<1>1. Init => Inv
  <2>. SUFFICES ASSUME Init PROVE Inv
    OBVIOUS
  <2>1. \A r \in Request : ~ Handles(r)
    BY DEF Init, IntakeInit, Handles, Idle
  <2>. QED BY <2>1, HeldInit DEF HandledIsClaimed, OneHandlerPerUpdate
<1>2. Inv /\ [Next]_vars => Inv'
  <2>. SUFFICES ASSUME Inv, [Next]_vars PROVE Inv'
    OBVIOUS
  <2>1. CASE UNCHANGED vars
    BY <2>1, HeldNext DEF vars, intake, HandledIsClaimed, OneHandlerPerUpdate, Handles, At
  <2>. QED BY <2>1, HeldNext, HandledOnce
<1>3. Inv => OneHandlerPerUpdate
  OBVIOUS
<1>. HIDE DEF Inv
<1>. QED BY <1>1, <1>2, <1>3, PTL DEF Spec

-----------------------------------------------------------------------------
(* A link is redeemed by one request, once. *)

Redeems(r) == job[r].pc \in Redeeming

RedeemedIsConsumed ==
    \A r \in Request : Redeems(r) => links[job[r].arg.p][job[r].arg.l] = "consumed"

Redemption == Held /\ RedeemedIsConsumed /\ LinkIsUsedOnce

LEMMA ConsumedStays ==
    ASSUME LinksEffect, NEW p \in Provider, NEW l \in Link, links[p][l] = "consumed"
    PROVE  links'[p][l] = "consumed"
BY DEF LinksEffect

LEMMA RedeemsOn ==
    ASSUME Held, NEW r \in Request, Moves(r), Redeems(r)'
    PROVE  /\ job'[r].arg = job[r].arg
           /\ \/ Redeems(r)
              \/ /\ job[r].arg \in Key
                 /\ links[job[r].arg.p][job[r].arg.l] = "open"
                 /\ links'[job[r].arg.p][job[r].arg.l] = "consumed"
<1>. USE DEF Redeems, Redeeming
<1>1. ~ (job'[r] = Idle)
  BY DEF Idle
<1>2. ASSUME NEW u \in Update, job'[r] = [pc |-> "rate", upd |-> u, arg |-> Nothing] PROVE FALSE
  BY <1>2
<1>2b. ASSUME NEW p \in Provider, NEW l \in Link,
             job'[r] = [pc |-> "consume", upd |-> Nothing, arg |-> [p |-> p, l |-> l]]
      PROVE  FALSE
  BY <1>2b
<1>3. ASSUME NEW pc, NEW arg, Begins(r, pc, arg), pc \notin Redeeming PROVE FALSE
  BY <1>3 DEF Begins
<1>4. ASSUME NEW pc, NEW next, From(r, pc, next), next \notin Redeeming PROVE FALSE
  BY <1>4 DEF From
<1>5. ASSUME NEW pc, NEW next, From(r, pc, next)
      PROVE  job'[r].arg = job[r].arg /\ (pc \in Redeeming => Redeems(r))
  BY <1>5 DEF From
<1>6. ASSUME From(r, "consume", "exchange") \/ From(r, "consume", "validate"),
             Consumable(Arg(r).p, Arg(r).l),
             links' = [links EXCEPT ![Arg(r).p][Arg(r).l] = "consumed"]
      PROVE  /\ job[r].arg \in Key
             /\ links[job[r].arg.p][job[r].arg.l] = "open"
             /\ links'[job[r].arg.p][job[r].arg.l] = "consumed"
  <2>1. job[r].arg \in Key
    BY <1>6 DEF From, Held, LinkArgs
  <2>. QED BY <1>6, <2>1 DEF Consumable, Arg, Key, Held, TypeOK, AccountsTypeOK
<1>7. \A pc \in {"save", "activate", "erase"} \cup Parting : pc \notin Redeeming
  BY DEF Parting
<1>8. CASE \/ \E pc \in {"save", "activate", "erase"} \cup Parting : \E arg : Begins(r, pc, arg)
           \/ From(r, "rate", "claim") \/ From(r, "claim", "handle") \/ From(r, "erase", "secrets")
           \/ From(r, "claim", "pressed")
           \/ From(r, "revoke", "forget") \/ From(r, "forget", "disconnected")
  BY <1>3, <1>4, <1>7, <1>8
<1>9. CASE From(r, "exchange", "store") \/ From(r, "validate", "store") \/ From(r, "store", "connected")
  BY <1>5, <1>9
<1>10. CASE \/ \E u \in Update : job'[r] = [pc |-> "rate", upd |-> u, arg |-> Nothing]
            \/ \E p \in Provider, l \in Link :
                   job'[r] = [pc |-> "consume", upd |-> Nothing, arg |-> [p |-> p, l |-> l]]
  BY <1>2, <1>2b, <1>10
<1>11. CASE /\ From(r, "consume", "exchange") \/ From(r, "consume", "validate")
            /\ Consumable(Arg(r).p, Arg(r).l)
            /\ links' = [links EXCEPT ![Arg(r).p][Arg(r).l] = "consumed"]
  BY <1>5, <1>6, <1>11
<1>. HIDE DEF Redeems
<1>. QED BY <1>1, <1>8, <1>9, <1>10, <1>11 DEF Moves

LEMMA RedeemingMoves ==
    ASSUME Redemption, NEW r \in Request, OnlyOf(r), Moves(r), LinksEffect
    PROVE  RedeemedIsConsumed' /\ LinkIsUsedOnce'
<1>1. \A q \in Request : Redeems(q) => job[q].arg \in Key
  BY DEF Redemption, Held, LinkArgs, Redeems
<1>2. \A q \in Request : q # r => (Redeems(q)' <=> Redeems(q)) /\ job'[q].arg = job[q].arg
  BY DEF OnlyOf, Redeems
<1>3. Redeems(r)' => /\ job'[r].arg = job[r].arg
                     /\ \/ Redeems(r)
                        \/ /\ job[r].arg \in Key
                           /\ links[job[r].arg.p][job[r].arg.l] = "open"
                           /\ links'[job[r].arg.p][job[r].arg.l] = "consumed"
  BY RedeemsOn DEF Redemption
<1>4. \A q \in Request : Redeems(q) => links'[job[q].arg.p][job[q].arg.l] = "consumed"
  BY <1>1, ConsumedStays DEF Redemption, RedeemedIsConsumed, Key
<1>5. \A q \in Request : Redeems(q)' => links'[job'[q].arg.p][job'[q].arg.l] = "consumed"
  BY <1>2, <1>3, <1>4
<1>6. \A q \in Request, t \in Request : q # t /\ Redeems(q) /\ Redeems(t) => job[q].arg # job[t].arg
  BY DEF Redemption, LinkIsUsedOnce, Redeems, Redeeming, Arg
<1>7. \A q \in Request : Redeems(q) => links[job[q].arg.p][job[q].arg.l] = "consumed"
  BY DEF Redemption, RedeemedIsConsumed
<1>8. \A q \in Request, t \in Request : q # t /\ Redeems(q)' /\ Redeems(t)' => job'[q].arg # job'[t].arg
  BY <1>2, <1>3, <1>6, <1>7
<1>9. RedeemedIsConsumed'
  BY <1>5 DEF RedeemedIsConsumed
<1>10. LinkIsUsedOnce'
  BY <1>8 DEF LinkIsUsedOnce, Redeems, Redeeming, Arg
<1>. QED BY <1>9, <1>10

LEMMA RedemptionInit == Init => Redemption
<1>. SUFFICES ASSUME Init PROVE Redemption
  OBVIOUS
<1>1. \A r \in Request : job[r].pc = "idle"
  BY DEF Init, IntakeInit, Idle
<1>. QED BY <1>1, HeldInit DEF Redemption, RedeemedIsConsumed, LinkIsUsedOnce, Redeems, Redeeming

LEMMA RedemptionNext == Redemption /\ [Next]_vars => Redemption'
<1>. SUFFICES ASSUME Redemption, [Next]_vars PROVE Redemption'
  OBVIOUS
<1>1. Held'
  BY HeldNext DEF Redemption
<1>2. CASE UNCHANGED <<job, accounts>>
  BY <1>1, <1>2 DEF accounts, Redemption, RedeemedIsConsumed, LinkIsUsedOnce, Redeems, Arg
<1>3. ASSUME NEW r \in Request, OnlyOf(r), Moves(r), LinksEffect PROVE Redemption'
  BY <1>1, <1>3, RedeemingMoves DEF Redemption
<1>4. UNCHANGED vars => UNCHANGED <<job, accounts>>
  BY DEF vars, accounts
<1>5. Held /\ Next => \/ UNCHANGED <<job, accounts>>
                      \/ \E r \in Request : OnlyOf(r) /\ Moves(r) /\ LinksEffect
  BY Effects
<1>. QED BY <1>2, <1>3, <1>4, <1>5 DEF Redemption

\* consume_*: a link opened twice, at the same time or again, is exchanged for a
\* credential once.
THEOREM LinksAreUsedOnce == Spec => []LinkIsUsedOnce
<1>1. Redemption => LinkIsUsedOnce
  BY DEF Redemption
<1>. QED BY <1>1, RedemptionInit, RedemptionNext, PTL DEF Spec

-----------------------------------------------------------------------------
(* What is disconnected was revoked. *)

\* Nobody redeems the link any more, nor ever will.
Retired(p, l) ==
    /\ links[p][l] = "consumed"
    /\ \A r \in Request : Redeems(r) => ~ (job[r].arg.p = p /\ job[r].arg.l = l)

Parts(r) == job[r].pc \in Parting

SecretsRetired ==
    /\ \A p \in Provider : connection[p].secret # Nothing => Retired(p, connection[p].secret)
    /\ \A r \in Request : Parts(r) /\ job[r].arg.l # Nothing => Retired(job[r].arg.p, job[r].arg.l)

Ungranted(r) == job[r].arg.p \in Google => job[r].arg.l \notin Honoured(job[r].arg.p)
Unstored(r) == job[r].arg.l \notin secrets[job[r].arg.p]

PartingIsOver ==
    \A r \in Request : job[r].arg.l # Nothing =>
        /\ job[r].pc \in {"forget", "disconnected"} => Ungranted(r)
        /\ job[r].pc = "disconnected" => Unstored(r)

Severance == Redemption /\ SecretsRetired /\ PartingIsOver

LEMMA RetiredStays ==
    ASSUME Redemption, Redemption', NEW r \in Request, OnlyOf(r), Moves(r), LinksEffect, GrantsEffect(r),
           NEW p \in Provider, NEW l \in Link, Retired(p, l)
    PROVE  /\ Retired(p, l)'
           /\ l \notin Honoured(p) => l \notin Honoured(p)'
           /\ l \notin secrets[p] => l \notin secrets'[p]
<1>1. links'[p][l] = "consumed"
  BY ConsumedStays DEF Retired
<1>2. Redeems(r)' => /\ job'[r].arg = job[r].arg
                     /\ \/ Redeems(r)
                        \/ links[job[r].arg.p][job[r].arg.l] = "open"
  BY RedeemsOn DEF Redemption
<1>3. \A q \in Request : Redeems(q)' => ~ (job'[q].arg.p = p /\ job'[q].arg.l = l)
  BY <1>2 DEF Retired, OnlyOf, Redeems
<1>4. ~ (Redeems(r) /\ Arg(r).p = p /\ Arg(r).l = l)
  BY DEF Retired, Arg
<1>5. At(r, "exchange") \/ At(r, "store") => Redeems(r)
  BY DEF At, Redeems, Redeeming
<1>. QED BY <1>1, <1>3, <1>4, <1>5 DEF Retired, GrantsEffect, GrantsGrow, SecretsGrow

\* How a request comes to take a connection apart.
LEMMA PartsOn ==
    ASSUME Held, NEW r \in Request, Moves(r), Parts(r)'
    PROVE  \/ \E p \in Provider :
                  /\ job'[r].arg.p = p /\ job'[r].arg.l = connection[p].secret
                  /\ job'[r].pc = "disconnected" => connection[p].secret = Nothing
                  /\ job'[r].pc = "forget" => p \notin Google
           \/ /\ job[r].pc = "revoke" /\ job'[r].pc = "forget" /\ job'[r].arg = job[r].arg
              /\ RevokedOrDenied(r)
           \/ /\ job[r].pc = "forget" /\ job'[r].pc = "disconnected" /\ job'[r].arg = job[r].arg
              /\ secrets' = [secrets EXCEPT ![Arg(r).p] = @ \ {Arg(r).l}]
<1>. USE DEF Parts, Parting
<1>1. ~ (job'[r] = Idle)
  BY DEF Idle
<1>2. ASSUME NEW u \in Update, job'[r] = [pc |-> "rate", upd |-> u, arg |-> Nothing] PROVE FALSE
  BY <1>2
<1>3. ASSUME NEW p \in Provider, NEW l \in Link,
             job'[r] = [pc |-> "consume", upd |-> Nothing, arg |-> [p |-> p, l |-> l]]
      PROVE  FALSE
  BY <1>3
<1>4. ASSUME NEW pc \in {"save", "activate", "erase"}, NEW arg, Begins(r, pc, arg) PROVE FALSE
  BY <1>4 DEF Begins
<1>5. ASSUME NEW pc, NEW next, From(r, pc, next), next \notin Parting PROVE FALSE
  BY <1>5 DEF From
<1>6. ASSUME NEW pc, NEW next, From(r, pc, next)
      PROVE  job[r].pc = pc /\ job'[r].pc = next /\ job'[r].arg = job[r].arg
  BY <1>6 DEF From
<1>7. ASSUME NEW p \in Provider, NEW pc \in Parting, Begins(r, pc, [p |-> p, l |-> connection[p].secret])
      PROVE  job'[r].pc = pc /\ job'[r].arg.p = p /\ job'[r].arg.l = connection[p].secret
  BY <1>7 DEF Begins
<1>8. ~ \/ From(r, "rate", "claim") \/ From(r, "claim", "handle") \/ From(r, "erase", "secrets")
        \/ From(r, "claim", "pressed")
        \/ From(r, "consume", "exchange") \/ From(r, "consume", "validate")
        \/ From(r, "exchange", "store") \/ From(r, "validate", "store") \/ From(r, "store", "connected")
  BY <1>5
<1>9. CASE \E p \in Provider, pc \in Parting :
               /\ Begins(r, pc, [p |-> p, l |-> connection[p].secret])
               /\ (pc = "disconnected") = (connection[p].secret = Nothing)
               /\ pc = "forget" => p \notin Google
  <2>1. PICK p \in Provider, pc \in Parting :
               /\ Begins(r, pc, [p |-> p, l |-> connection[p].secret])
               /\ (pc = "disconnected") = (connection[p].secret = Nothing)
               /\ pc = "forget" => p \notin Google
    BY <1>9
  <2>2. job'[r].pc = pc /\ job'[r].arg.p = p /\ job'[r].arg.l = connection[p].secret
    BY <1>7, <2>1
  <2>. QED BY <2>1, <2>2
<1>10. CASE From(r, "revoke", "forget") /\ RevokedOrDenied(r)
  BY <1>6, <1>10
<1>11. CASE /\ From(r, "forget", "disconnected")
            /\ secrets' = [secrets EXCEPT ![Arg(r).p] = @ \ {Arg(r).l}]
  BY <1>6, <1>11
<1>12. ~ \/ \E arg : Begins(r, "erase", arg)
         \/ \E new \in {NewProfile} \cup Answered(profile) : Begins(r, "save", new)
         \/ Begins(r, "activate", Activated(profile))
  BY <1>4
<1>. HIDE DEF Parts
<1>. QED BY <1>1, <1>2, <1>3, <1>8, <1>9, <1>10, <1>11, <1>12 DEF Moves

LEMMA PartingMoves ==
    ASSUME Severance, Redemption', NEW r \in Request,
           OnlyOf(r), Moves(r), LinksEffect, GrantsEffect(r)
    PROVE  SecretsRetired' /\ PartingIsOver'
<1>. DEFINE Over(q) == job[q].arg.l # Nothing =>
                           /\ job[q].pc \in {"forget", "disconnected"} => Ungranted(q)
                           /\ job[q].pc = "disconnected" => Unstored(q)
<1>1. \A p \in Provider, l \in Link : Retired(p, l) =>
          /\ Retired(p, l)'
          /\ l \notin Honoured(p) => l \notin Honoured(p)'
          /\ l \notin secrets[p] => l \notin secrets'[p]
  BY RetiredStays DEF Severance
<1>2. \A q \in Request : Parts(q) => job[q].arg.p \in Provider /\ job[q].arg.l \in Link \cup {Nothing}
  BY DEF Severance, Redemption, Held, LinkArgs, Parts
<1>3. \A p \in Provider : connection[p].secret \in Link \cup {Nothing}
  BY DEF Severance, Redemption, Held, TypeOK, AccountsTypeOK, Connection
<1>4. ASSUME NEW p \in Provider, connection'[p].secret # Nothing
      PROVE  Retired(p, connection[p].secret)'
  <2>1. CASE connection'[p].secret = connection[p].secret
    BY <1>1, <1>3, <1>4, <2>1 DEF Severance, SecretsRetired, Retired
  <2>2. CASE /\ At(r, "connected") /\ job'[r] = Idle
             /\ connection'[p].secret = Arg(r).l /\ Arg(r).p = p
    <3>1. Redeems(r) /\ job[r].arg \in Key
      BY <2>2 DEF At, Redeems, Redeeming, Severance, Redemption, Held, LinkArgs
    <3>2. links'[p][Arg(r).l] = "consumed"
      BY <2>2, <3>1, ConsumedStays DEF Severance, Redemption, RedeemedIsConsumed, Key, Arg
    <3>3. ASSUME NEW q \in Request, Redeems(q)' PROVE ~ (job'[q].arg.p = p /\ job'[q].arg.l = Arg(r).l)
      <4>1. q # r
        BY <2>2, <3>3 DEF Redeems, Redeeming, Idle
      <4>2. Redeems(q) /\ job'[q].arg = job[q].arg
        BY <3>3, <4>1 DEF OnlyOf, Redeems
      <4>3. job[q].arg \in Key /\ job[q].arg # job[r].arg
        BY <3>1, <4>1, <4>2 DEF Severance, Redemption, LinkIsUsedOnce, Redeems, Redeeming, Arg, Held, LinkArgs
      <4>. QED BY <2>2, <3>1, <4>2, <4>3 DEF Key, Arg
    <3>. QED BY <2>2, <3>2, <3>3 DEF Retired
  <2>. QED BY <1>4, <2>1, <2>2 DEF GrantsEffect, ConnectionMoves
<1>5. ASSUME NEW q \in Request, q # r PROVE
          /\ (Parts(q) /\ job[q].arg.l # Nothing => Retired(job[q].arg.p, job[q].arg.l))'
          /\ Over(q)'
  <2>1. job'[q] = job[q]
    BY <1>5 DEF OnlyOf
  <2>2. Parts(q) /\ job[q].arg.l # Nothing => /\ job[q].arg.p \in Provider /\ job[q].arg.l \in Link
                                              /\ Retired(job[q].arg.p, job[q].arg.l)
    BY <1>2 DEF Severance, SecretsRetired
  <2>3. Over(q)
    BY DEF Severance, PartingIsOver
  <2>4. job[q].pc \in {"forget", "disconnected"} => Parts(q)
    BY DEF Parts, Parting
  <2>5. (Parts(q) /\ job[q].arg.l # Nothing => Retired(job[q].arg.p, job[q].arg.l))'
    BY <1>1, <2>1, <2>2 DEF Parts, Retired
  <2>6. Over(q)'
    BY <1>1, <2>1, <2>2, <2>3, <2>4 DEF Ungranted, Unstored
  <2>. QED BY <2>5, <2>6
<1>6. /\ (Parts(r) /\ job[r].arg.l # Nothing => Retired(job[r].arg.p, job[r].arg.l))'
      /\ Over(r)'
  <2>1. CASE ~ Parts(r)'
    BY <2>1 DEF Parts, Parting
  <2>2. ASSUME NEW p \in Provider,
               job'[r].arg.p = p, job'[r].arg.l = connection[p].secret,
               job'[r].pc = "disconnected" => connection[p].secret = Nothing,
               job'[r].pc = "forget" => p \notin Google
        PROVE  <1>6!1 /\ <1>6!2
    BY <1>1, <1>3, <2>2 DEF Severance, SecretsRetired, Retired, Ungranted
  <2>3. CASE /\ job[r].pc = "revoke" /\ job'[r].pc = "forget" /\ job'[r].arg = job[r].arg
             /\ RevokedOrDenied(r)
    <3>1. Parts(r)
      BY <2>3 DEF Parts, Parting
    <3>2. job[r].arg.l \notin Honoured(job[r].arg.p)'
      <4>1. job[r].arg.p \in Provider
        BY <1>2, <3>1
      <4>. QED BY <2>3, <4>1 DEF RevokedOrDenied, Honoured, Arg, Severance, Redemption, Held, TypeOK, AccountsTypeOK
    <3>. QED BY <1>1, <1>2, <2>3, <3>1, <3>2 DEF Severance, SecretsRetired, Retired, Ungranted
  <2>4. CASE /\ job[r].pc = "forget" /\ job'[r].pc = "disconnected" /\ job'[r].arg = job[r].arg
             /\ secrets' = [secrets EXCEPT ![Arg(r).p] = @ \ {Arg(r).l}]
    <3>1. Parts(r)
      BY <2>4 DEF Parts, Parting
    <3>2. job[r].arg.l \notin secrets'[job[r].arg.p]
      BY <1>2, <2>4, <3>1 DEF Arg, Severance, Redemption, Held, TypeOK, AccountsTypeOK
    <3>. QED BY <1>1, <1>2, <2>4, <3>1, <3>2
         DEF Severance, SecretsRetired, PartingIsOver, Retired, Ungranted, Unstored
  <2>. QED BY <2>1, <2>2, <2>3, <2>4, PartsOn DEF Severance, Redemption
<1>7. SecretsRetired'
  BY <1>4, <1>5, <1>6 DEF SecretsRetired
<1>8. PartingIsOver'
  BY <1>5, <1>6 DEF PartingIsOver
<1>. QED BY <1>7, <1>8

LEMMA SeveranceInit == Init => Severance
<1>. SUFFICES ASSUME Init PROVE Severance
  OBVIOUS
<1>1. \A r \in Request : job[r].pc = "idle"
  BY DEF Init, IntakeInit, Idle
<1>2. \A p \in Provider : connection[p].secret = Nothing
  BY DEF Init, AccountsInit, NoConnection
<1>. QED BY <1>1, <1>2, RedemptionInit DEF Severance, SecretsRetired, PartingIsOver, Parts, Parting

LEMMA SeveranceNext == Severance /\ [Next]_vars => Severance'
<1>. SUFFICES ASSUME Severance, [Next]_vars PROVE Severance'
  OBVIOUS
<1>1. Redemption'
  BY RedemptionNext DEF Severance
<1>2. CASE UNCHANGED <<job, accounts>>
  <2>1. SecretsRetired' /\ PartingIsOver'
    BY <1>2 DEF accounts, Severance, SecretsRetired, PartingIsOver, Retired, Redeems, Parts, Ungranted,
                Honoured, Unstored
  <2>. QED BY <1>1, <2>1 DEF Severance
<1>3. ASSUME NEW r \in Request, OnlyOf(r), Moves(r), LinksEffect, GrantsEffect(r) PROVE Severance'
  BY <1>1, <1>3, PartingMoves DEF Severance
<1>4. UNCHANGED vars => UNCHANGED <<job, accounts>>
  BY DEF vars, accounts
<1>5. Held /\ Next => \/ UNCHANGED <<job, accounts>>
                      \/ \E r \in Request : OnlyOf(r) /\ Moves(r) /\ LinksEffect /\ GrantsEffect(r)
  BY Effects
<1>. QED BY <1>2, <1>3, <1>4, <1>5 DEF Severance, Redemption

\* disconnect: a connection is shown as disconnected only after the grant that was
\* read is revoked, or answered 400 for by Google, and its secret destroyed, and
\* neither comes back meanwhile.
THEOREM DisconnectedStaysRevoked == Spec => DisconnectedIsRevoked
<1>. DEFINE Cut == \A r \in Request :
                       At(r, "disconnected") /\ job'[r] # job[r] /\ connection' # connection
                       /\ Arg(r).l # Nothing =>
                           /\ Arg(r).l \notin secrets[Arg(r).p]
                           /\ Arg(r).p \in Google =>
                                  Arg(r).l \notin granted[Arg(r).p] \ denied[Arg(r).p]
<1>1. Severance => Cut
  BY DEF Severance, PartingIsOver, Ungranted, Honoured, Unstored, At, Arg
<1>2. Severance /\ [Next]_vars => [Cut]_vars
  BY <1>1
<1>3. Spec => [][Cut]_vars
  <2>. HIDE DEF Cut
  <2>. QED BY <1>2, SeveranceInit, SeveranceNext, PTL DEF Spec
<1>. QED BY <1>3 DEF DisconnectedIsRevoked

-----------------------------------------------------------------------------
(* The settings shown are the policy. *)

\* What a profile that is complete says is what its policy says.
Kept(p) ==
    p.step = "COMPLETE" => p.active \in 1 .. MaxPolicy /\ policies[p.active] = p.mode

PolicyKept ==
    ~ erased => /\ Kept(profile)
                /\ \A r \in Request : job[r].pc = "save" => Kept(job[r].arg)

\* Only a first profile or an answer is about to be saved.
LEMMA SavesOn ==
    ASSUME NEW r \in Request, Moves(r), job'[r].pc = "save"
    PROVE  \E new \in {NewProfile} \cup Answered(profile) : job'[r].arg = new
<1>1. ~ (job'[r] = Idle)
  BY DEF Idle
<1>2. ASSUME NEW u \in Update, job'[r] = [pc |-> "rate", upd |-> u, arg |-> Nothing] PROVE FALSE
  BY <1>2
<1>3. ASSUME NEW p \in Provider, NEW l \in Link,
             job'[r] = [pc |-> "consume", upd |-> Nothing, arg |-> [p |-> p, l |-> l]]
      PROVE  FALSE
  BY <1>3
<1>4. ASSUME NEW pc, NEW arg, Begins(r, pc, arg) PROVE pc = "save" /\ job'[r].arg = arg
  BY <1>4 DEF Begins
<1>5. ASSUME NEW pc, NEW next, From(r, pc, next) PROVE next = "save"
  BY <1>5 DEF From
<1>6. "save" \notin Parting
  BY DEF Parting
<1>7. ~ \/ From(r, "rate", "claim") \/ From(r, "claim", "handle") \/ From(r, "erase", "secrets")
        \/ From(r, "claim", "pressed")
        \/ From(r, "consume", "exchange") \/ From(r, "consume", "validate")
        \/ From(r, "exchange", "store") \/ From(r, "validate", "store") \/ From(r, "store", "connected")
        \/ From(r, "revoke", "forget") \/ From(r, "forget", "disconnected")
  BY <1>5
<1>8. /\ ~ Begins(r, "activate", Activated(profile))
      /\ ~ \E arg : Begins(r, "erase", arg)
  BY <1>4
<1>10. ASSUME NEW p \in Provider, NEW pc \in Parting, Begins(r, pc, [p |-> p, l |-> connection[p].secret])
       PROVE  FALSE
  BY <1>4, <1>6, <1>10
<1>9. \A new : Begins(r, "save", new) => job'[r].arg = new
  BY <1>4
<1>. QED BY <1>1, <1>2, <1>3, <1>7, <1>8, <1>9, <1>10 DEF Moves

LEMMA PolicyMoves ==
    ASSUME Held, PolicyKept, NEW r \in Request, OnlyOf(r), Moves(r), AccountEffect(r)
    PROVE  PolicyKept'
<1>. SUFFICES ASSUME ~ erased' PROVE Kept(profile)' /\ \A q \in Request : job'[q].pc = "save" => Kept(job[q].arg)'
  BY DEF PolicyKept
<1>1. ~ erased
  BY DEF AccountEffect
<1>2. profile \in Profile /\ policies \in [1 .. MaxPolicy -> Mode \cup {"NONE"}] /\ "NONE" \notin Mode
  BY DEF Held, TypeOK, AccountTypeOK, Mode
<1>3. \A p \in Profile : Kept(p) => Kept(p)'
  <2>1. CASE policies' = policies
    BY <2>1 DEF Kept
  <2>2. CASE /\ At(r, "activate") /\ Follows(Arg(r))
             /\ policies' = [policies EXCEPT ![Arg(r).active] = Arg(r).mode]
    <3>1. policies[Arg(r).active] = "NONE"
      BY <2>2 DEF Follows
    <3>2. \A v \in 1 .. MaxPolicy : policies[v] # "NONE" => policies'[v] = policies[v]
      BY <1>2, <2>2, <3>1
    <3>. QED BY <1>2, <3>2 DEF Kept, Profile
  <2>. QED BY <2>1, <2>2 DEF AccountEffect
<1>4. \A q \in Request : job[q].pc = "save" => job[q].arg \in Profile /\ Kept(job[q].arg)
  BY <1>1 DEF PolicyKept, Held, ProfileArgs
<1>5. Kept(profile)'
  <2>1. CASE UNCHANGED <<profile, policies, erased>>
    BY <1>1, <2>1 DEF PolicyKept, Kept
  <2>2. CASE At(r, "save") /\ profile' = Arg(r) /\ UNCHANGED <<policies, erased>>
    BY <1>4, <2>2 DEF At, Arg, Kept
  <2>3. CASE /\ At(r, "activate") /\ Follows(Arg(r))
             /\ policies' = [policies EXCEPT ![Arg(r).active] = Arg(r).mode]
             /\ profile' = Arg(r) /\ UNCHANGED erased
    <3>1. Arg(r).active \in 1 .. MaxPolicy
      BY <2>3 DEF At, Arg, Held, ProfileArgs
    <3>. QED BY <1>2, <2>3, <3>1 DEF Kept
  <2>. QED BY <2>1, <2>2, <2>3 DEF AccountEffect
<1>6. ASSUME job'[r].pc = "save" PROVE Kept(job[r].arg)'
  <2>1. PICK new \in {NewProfile} \cup Answered(profile) : job'[r].arg = new
    BY <1>6, SavesOn
  <2>2. new \in Profile /\ Kept(new)
    <3>1. NewProfile \in Profile /\ NewProfile.step = "PROMISE"
      BY MaxPolicyIsPositive DEF NewProfile, NoProfile, Profile, Step, Order, Mode
    <3>2. Kept(NewProfile)
      BY <3>1 DEF Kept
    <3>3. \A p \in Answered(profile) : p \in Profile /\ (p.step = "COMPLETE" => p = profile)
      BY <1>2, AnswersTyped
    <3>4. \A p \in Answered(profile) : Kept(p)
      BY <1>1, <3>3 DEF Kept, PolicyKept
    <3>. QED BY <3>1, <3>2, <3>3, <3>4
  <2>. QED BY <1>3, <2>1, <2>2 DEF Kept
<1>7. ASSUME NEW q \in Request, q # r, job'[q].pc = "save" PROVE Kept(job[q].arg)'
  <2>1. job'[q] = job[q]
    BY <1>7 DEF OnlyOf
  <2>. QED BY <1>3, <1>4, <1>7, <2>1 DEF Kept
<1>. QED BY <1>5, <1>6, <1>7

\* activate_traveler_policy, save_traveler: as long as nothing was deleted, a
\* traveler whose settings are active sees the policy the recovery goes by.
THEOREM SettingsArePolicy == Spec => []CompleteMeansPolicy
<1>. DEFINE Inv == Held /\ PolicyKept
<1>1. Init => Inv
  <2>. SUFFICES ASSUME Init PROVE PolicyKept
    BY HeldInit
  <2>1. \A r \in Request : job[r].pc = "idle"
    BY DEF Init, IntakeInit, Idle
  <2>2. Kept(profile)
    <3>1. CASE profile.step # "COMPLETE"
      BY <3>1 DEF Kept
    <3>2. CASE /\ profile = [step |-> "COMPLETE", mode |-> "AUTO", active |-> 1]
               /\ policies = [v \in 1 .. MaxPolicy |-> IF v = 1 THEN "AUTO" ELSE "NONE"]
      BY <3>2, MaxPolicyIsPositive DEF Kept
    <3>3. NoProfile.step # "COMPLETE" /\ [NewProfile EXCEPT !.step = "BOUNDARY"].step # "COMPLETE"
      BY DEF NoProfile, NewProfile
    <3>. QED BY <3>1, <3>2, <3>3 DEF Init, AccountInit
  <2>. QED BY <2>1, <2>2 DEF PolicyKept
<1>2. Inv /\ [Next]_vars => Inv'
  <2>. SUFFICES ASSUME Inv, [Next]_vars PROVE Inv'
    OBVIOUS
  <2>1. CASE UNCHANGED <<job, account, erased>>
    BY <2>1, HeldNext DEF account, PolicyKept, Kept
  <2>2. ASSUME NEW r \in Request, OnlyOf(r), Moves(r), AccountEffect(r) PROVE Inv'
    BY <2>2, HeldNext, PolicyMoves
  <2>3. UNCHANGED vars => UNCHANGED <<job, account, erased>>
    BY DEF vars, account
  <2>. QED BY <2>1, <2>2, <2>3, Effects
<1>3. Inv => CompleteMeansPolicy
  BY DEF PolicyKept, Kept, CompleteMeansPolicy
<1>. HIDE DEF Inv
<1>. QED BY <1>1, <1>2, <1>3, PTL DEF Spec
=============================================================================
