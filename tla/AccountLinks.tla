---------------------------- MODULE AccountLinks ----------------------------
(***************************************************************************)
(* Connecting and disconnecting the traveler's accounts:                    *)
(* services/calendar_oauth.py and gmail_oauth.py, which follow one protocol *)
(* with Google, and ai_connections.py, where the traveler's key is          *)
(* validated instead of exchanged. A link is issued in the chat and         *)
(* followed in a browser, perhaps twice; the connection, its secret and the *)
(* grant at Google are three things changed one after the other.            *)
(*                                                                         *)
(* A link, the secret stored for it and the grant it led to share a name.   *)
(***************************************************************************)
EXTENDS UpdateIntake

CONSTANTS
    Provider, \* accounts: calendar, gmail, gemini
    Google,   \* those of them that are connected by OAuth
    Link      \* bound: links issued for an account

ASSUME AccountsAssumption == Google \subseteq Provider /\ Nothing \notin Link

VARIABLES
    links,      \* calendarOAuthStates, gmailOAuthStates, aiConnectionStates
    granted,    \* refresh tokens Google honours
    secrets,    \* versions in the secret manager
    connection, \* telegramUsers/{user}/connections/{provider}
    denied      \* history: tokens Google answered 400 for when they were revoked

accounts == <<links, granted, secrets, connection, denied>>

NoConnection == [status |-> "NONE", secret |-> Nothing]
Connection == [status : {"NONE", "CONNECTED", "INVALID", "DISCONNECTED"}, secret : Link \cup {Nothing}]
AccountsTypeOK ==
    /\ links \in [Provider -> [Link -> {"unused", "open", "consumed"}]]
    /\ granted \in [Provider -> SUBSET Link]
    /\ secrets \in [Provider -> SUBSET Link]
    /\ connection \in [Provider -> Connection]
    /\ denied \in [Provider -> SUBSET Link]
AccountsInit ==
    /\ links = [p \in Provider |-> [l \in Link |-> "unused"]]
    /\ granted = [p \in Provider |-> {}] /\ secrets = [p \in Provider |-> {}]
    /\ connection = [p \in Provider |-> NoConnection]
    /\ denied = [p \in Provider |-> {}]

\* create_authorization, create_handoff: a link under a new state.
Connect(r, p) ==
    /\ At(r, "handle")
    /\ \E l \in Link : links[p][l] = "unused" /\ links' = [links EXCEPT ![p][l] = "open"]
    /\ Answer(r)
    /\ UNCHANGED <<granted, secrets, connection, denied, faults>>

\* calendar_callback, gmail_callback, complete_connection: the page is opened
\* with a link, for the first time or again.
Follow(r, p) ==
    /\ At(r, "idle")
    /\ \E l \in Link :
        /\ links[p][l] # "unused"
        /\ job' = [job EXCEPT ![r] = [Idle EXCEPT !.pc = "consume", !.arg = [p |-> p, l |-> l]]]
    /\ UNCHANGED <<intake, accounts, faults>>

\* Mutant: only the existence of the state is looked at.
Issued(p, l) == links[p][l] # "unused"
\* consume_*: the state is consumed in the transaction that looks at it.
Consumable(p, l) == links[p][l] = "open"

Consume(r) ==
    /\ At(r, "consume")
    /\ IF Consumable(Arg(r).p, Arg(r).l)
       THEN /\ links' = [links EXCEPT ![Arg(r).p][Arg(r).l] = "consumed"]
            /\ GoTo(r, IF Arg(r).p \in Google THEN "exchange" ELSE "validate")
       ELSE Ends(r) /\ UNCHANGED links
    /\ UNCHANGED <<intake, granted, secrets, connection, denied, faults>>

\* exchange_code.
Exchange(r) ==
    /\ At(r, "exchange")
    /\ \/ granted' = [granted EXCEPT ![Arg(r).p] = @ \cup {Arg(r).l}] /\ GoTo(r, "store")
       \/ Ends(r) /\ UNCHANGED granted
    /\ UNCHANGED <<intake, links, secrets, connection, denied, faults>>

\* AiConnectionService.complete: an invalid key is stored as such.
Validate(r) ==
    /\ At(r, "validate")
    /\ \/ GoTo(r, "store") /\ UNCHANGED connection
       \/ /\ connection' = [connection EXCEPT ![Arg(r).p] = [status |-> "INVALID", secret |-> Nothing]]
          /\ Ends(r)
    /\ UNCHANGED <<intake, links, granted, secrets, denied, faults>>

\* put_user_secret.
StoreSecret(r) ==
    /\ At(r, "store")
    /\ \/ secrets' = [secrets EXCEPT ![Arg(r).p] = @ \cup {Arg(r).l}] /\ GoTo(r, "connected")
       \/ Ends(r) /\ UNCHANGED secrets
    /\ UNCHANGED <<intake, links, granted, connection, denied, faults>>

\* save_*_connection, without a version.
SaveConnected(r) ==
    /\ At(r, "connected")
    /\ connection' = [connection EXCEPT ![Arg(r).p] = [status |-> "CONNECTED", secret |-> Arg(r).l]]
    /\ Ends(r)
    /\ UNCHANGED <<intake, links, granted, secrets, denied, faults>>

-----------------------------------------------------------------------------
\* Mutant: the secret is forgotten first, which leaves nothing to revoke with.
DisconnectUnrevoked(r, p) ==
    /\ At(r, "handle")
    /\ LET read == [p |-> p, l |-> connection[p].secret] IN
       IF connection[p].status = "NONE" THEN Fail(r)
       ELSE Continue(r, IF read.l = Nothing THEN "disconnected" ELSE "forget", read)
    /\ UNCHANGED <<accounts, faults>>
\* disconnect: the grant is revoked, then the secret goes, then the connection
\* that was read is stored as disconnected.
Disconnect(r, p) ==
    /\ At(r, "handle")
    /\ LET read == [p |-> p, l |-> connection[p].secret] IN
       IF connection[p].status = "NONE" THEN Fail(r)
       ELSE Continue(r, IF read.l = Nothing THEN "disconnected"
                        ELSE IF p \in Google THEN "revoke" ELSE "forget", read)
    /\ UNCHANGED <<accounts, faults>>

\* access_secret, revoke_refresh_token: 200 revokes the grant and 400 passes
\* for it, whatever Google meant; any other error keeps the connection, though
\* the grant may be gone.
Revoke(r) ==
    /\ At(r, "revoke")
    /\ LET without == [granted EXCEPT ![Arg(r).p] = @ \ {Arg(r).l}] IN
       \/ /\ Arg(r).l \in secrets[Arg(r).p]
          /\ \/ granted' = without /\ UNCHANGED denied
             \/ /\ denied' = [denied EXCEPT ![Arg(r).p] = @ \cup {Arg(r).l}]
                /\ UNCHANGED granted
          /\ GoTo(r, "forget") /\ UNCHANGED intake
       \/ granted' \in {granted, without} /\ Fail(r) /\ UNCHANGED denied
    /\ UNCHANGED <<links, secrets, connection, faults>>

\* delete_secret: an error, and destroying a version twice is one, is answered
\* with the webhook's general message, though the version may be gone.
Forget(r) ==
    /\ At(r, "forget")
    /\ LET without == [secrets EXCEPT ![Arg(r).p] = @ \ {Arg(r).l}] IN
       \/ /\ Arg(r).l \in secrets[Arg(r).p] /\ secrets' = without
          /\ GoTo(r, "disconnected") /\ UNCHANGED intake
       \/ secrets' \in {secrets, without} /\ Answer(r)
    /\ UNCHANGED <<links, granted, connection, denied, faults>>

SaveDisconnected(r) ==
    /\ At(r, "disconnected")
    /\ connection' = [connection EXCEPT ![Arg(r).p] = [status |-> "DISCONNECTED", secret |-> Nothing]]
    /\ Answer(r)
    /\ UNCHANGED <<links, granted, secrets, denied, faults>>

LinkStep(r) ==
    \/ Consume(r) \/ Exchange(r) \/ Validate(r) \/ StoreSecret(r) \/ SaveConnected(r)
    \/ Revoke(r) \/ Forget(r) \/ SaveDisconnected(r)
    \/ \E p \in Provider : Disconnect(r, p)
=============================================================================
