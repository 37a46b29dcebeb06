--------------------------- MODULE TelegramDelivery ---------------------------
(***************************************************************************)
(* The durable Telegram delivery: one stored notification per incident,    *)
(* kind and dedupe key, and the compare-and-set writes send_once makes     *)
(* around the call of the Telegram gateway.  The workers that walk through *)
(* send_once are in the modules that use it.                               *)
(***************************************************************************)
CONSTANT Message        \* a notification id with its one content

VARIABLES
    note,       \* Message -> what the repository stores of its delivery
    inbox       \* the messages the traveler's chat shows

deliveryVars == <<note, inbox>>

DeliveryInit == note = [m \in Message |-> "NONE"] /\ inbox = {}

Status == {"NONE", "PENDING", "SENT", "UNKNOWN", "BLOCKED"}

\* send_once returns without a call: TRUE when sent, FALSE when given up.
Sent(m) == note[m] = "SENT"
GivenUp(m) == note[m] \in {"UNKNOWN", "BLOCKED"}

\* store_notification_intent: kept as it is when it is already there.
StoreIntent(m) ==
    note' = [note EXCEPT ![m] = IF @ = "NONE" THEN "PENDING" ELSE @]

\* The answers of the gateway.  Telegram may have shown the message although
\* the outcome is unknown.
Shown(m) == inbox' = inbox \union {m}

\* mark_notification_sent refuses a receipt with another message id than the
\* stored one: the second of two racing sends raises NotificationConflict.
ReceiptAccepted(m) == note[m] \notin {"NONE", "SENT"}
StoreReceipt(m) == note' = [note EXCEPT ![m] = "SENT"]

\* mark_notification_unknown and _blocked: a stored receipt wins.
StoreFailure(m, status) ==
    note' = [note EXCEPT ![m] = IF @ \in {"NONE", "SENT"} THEN @ ELSE status]
=============================================================================
