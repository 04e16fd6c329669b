------------------------ MODULE NotificationDelivery ------------------------
(***************************************************************************)
(* The email delivery of one notification: the handlers                    *)
(* deliver_registration_notification and deliver_restriction_notification, *)
(* _deliver_email_message and mark_message_read of communications.  The    *)
(* outbox invokes the handler at least once for the domain event; an       *)
(* invocation is a few transactions with the mail provider in between, and *)
(* its process may die anywhere.                                           *)
(***************************************************************************)
EXTENDS Integers, FiniteSets

CONSTANTS
    Handlers          \* handler invocations of the event

ASSUME HandlerAssumption == IsFiniteSet(Handlers)

VARIABLES
    pc,          \* where every invocation is
    message,     \* the canonical NotificationMessage: "absent", "unread", "read"
    delivery,    \* NotificationDelivery.status, "absent" before the row exists
    attempts,    \* NotificationDelivery.attempt_count
    enabled,     \* NotificationPreference.operational_email_enabled
    emails,      \* emails the provider accepted for the recipient
    supervised   \* whether the worker keeps invocations of one event apart:
                 \* no orphans, and hard timeout < lease

notificationVars == <<pc, message, delivery, attempts, enabled, emails, supervised>>

Running == {h \in Handlers : pc[h] \in {"entered", "sending", "accepted", "refused"}}

NotificationInit ==
    /\ pc = [h \in Handlers |-> "waiting"]
    /\ message = "absent"
    /\ delivery = "absent"
    /\ attempts = 0
    /\ enabled \in BOOLEAN
    /\ emails = 0
    /\ supervised \in BOOLEAN

\* Nobody else is running the handler, if the worker sees to it.
MayEnter == supervised => Running = {}

Goto(h, l) == pc' = [pc EXCEPT ![h] = l]

\* Route, deadline and context checks, then the canonical inbox message is
\* created unless an earlier invocation did (get_or_create).
EnterHandler(h) ==
    /\ pc[h] = "waiting"
    /\ MayEnter
    /\ message' = IF message = "absent" THEN "unread" ELSE message
    /\ Goto(h, "entered")
    /\ UNCHANGED <<delivery, attempts, enabled, emails, supervised>>

\* Route forbidden, deadline passed or context missing: nothing is written.
RejectHandler(h) ==
    /\ pc[h] = "waiting"
    /\ MayEnter
    /\ Goto(h, "ended")
    /\ UNCHANGED <<message, delivery, attempts, enabled, emails, supervised>>

\* Variant: only a success ends the delivery.
SettledBySuccess == delivery = "succeeded"

Settled == delivery \in {"succeeded", "suppressed"}

\* First transaction: the delivery is already settled.
SkipSettled(h) ==
    /\ pc[h] = "entered"
    /\ Settled
    /\ Goto(h, "ended")
    /\ UNCHANGED <<message, delivery, attempts, enabled, emails, supervised>>

\* First transaction: the account has switched operational email off.
SuppressDelivery(h) ==
    /\ pc[h] = "entered"
    /\ ~ Settled
    /\ ~ enabled
    /\ delivery' = "suppressed"
    /\ attempts' = attempts + 1
    /\ Goto(h, "ended")
    /\ UNCHANGED <<message, enabled, emails, supervised>>

\* Variant: the attempt is not counted before the send.
BeginUncounted(h) ==
    /\ pc[h] = "entered"
    /\ ~ Settled
    /\ enabled
    /\ delivery' = IF delivery = "absent" THEN "pending" ELSE delivery
    /\ Goto(h, "sending")
    /\ UNCHANGED <<message, attempts, enabled, emails, supervised>>

\* First transaction: the attempt is counted before anything is sent.
BeginDelivery(h) ==
    /\ pc[h] = "entered"
    /\ ~ Settled
    /\ enabled
    /\ delivery' = IF delivery = "absent" THEN "pending" ELSE delivery
    /\ attempts' = attempts + 1
    /\ Goto(h, "sending")
    /\ UNCHANGED <<message, enabled, emails, supervised>>

\* send_mail: the provider takes the email and says so; or refuses the
\* recipient; or fails, with or without having taken it.
ProviderAccepts(h) ==
    /\ pc[h] = "sending"
    /\ emails' = emails + 1
    /\ Goto(h, "accepted")
    /\ UNCHANGED <<message, delivery, attempts, enabled, supervised>>

ProviderRefuses(h) ==
    /\ pc[h] = "sending"
    /\ Goto(h, "refused")
    /\ UNCHANGED <<message, delivery, attempts, enabled, emails, supervised>>

ProviderFails(h) ==
    /\ pc[h] = "sending"
    /\ \E taken \in {0, 1} : emails' = emails + taken
    /\ Goto(h, "ended")
    /\ UNCHANGED <<message, delivery, attempts, enabled, supervised>>

\* Last transaction: written whatever the status has become meanwhile.
RecordSuccess(h) ==
    /\ pc[h] = "accepted"
    /\ delivery' = "succeeded"
    /\ Goto(h, "ended")
    /\ UNCHANGED <<message, attempts, enabled, emails, supervised>>

\* Variant: a refused recipient is recorded as delivered.
RecordRefusalAsSuccess(h) ==
    /\ pc[h] = "refused"
    /\ delivery' = "succeeded"
    /\ Goto(h, "ended")
    /\ UNCHANGED <<message, attempts, enabled, emails, supervised>>

RecordRefusal(h) ==
    /\ pc[h] = "refused"
    /\ delivery' = "permanent_failed"
    /\ Goto(h, "ended")
    /\ UNCHANGED <<message, attempts, enabled, emails, supervised>>

\* The child process dies; the outbox will invoke the handler again.
HandlerCrashes(h) ==
    /\ h \in Running
    /\ Goto(h, "ended")
    /\ UNCHANGED <<message, delivery, attempts, enabled, emails, supervised>>

MarkMessageRead ==
    /\ message = "unread"
    /\ message' = "read"
    /\ UNCHANGED <<pc, delivery, attempts, enabled, emails, supervised>>

ChangePreference ==
    /\ enabled' = ~ enabled
    /\ UNCHANGED <<pc, message, delivery, attempts, emails, supervised>>

NotificationNext ==
    \/ MarkMessageRead
    \/ ChangePreference
    \/ \E h \in Handlers :
        \/ EnterHandler(h)
        \/ RejectHandler(h)
        \/ SkipSettled(h)
        \/ SuppressDelivery(h)
        \/ BeginDelivery(h)
        \/ ProviderAccepts(h)
        \/ ProviderRefuses(h)
        \/ ProviderFails(h)
        \/ RecordSuccess(h)
        \/ RecordRefusal(h)
        \/ HandlerCrashes(h)

NotificationSpec == NotificationInit /\ [][NotificationNext]_notificationVars

-----------------------------------------------------------------------------
(* Properties *)

\* Whatever crashes or overlaps, no email leaves without having been counted
\* first: attempt_count bounds the emails a recipient can have received.
SendsAreCounted == emails + Cardinality({h \in Handlers : pc[h] = "sending"}) <= attempts

\* A delivery recorded as succeeded did reach the provider, and the inbox
\* message that it announces exists.
SucceededWasEmailed == delivery = "succeeded" => emails > 0 /\ message # "absent"

\* When invocations of one event do not overlap (a supervised worker with
\* hard timeout < lease), retries and replays leave a settled delivery alone:
\* its status does not change and no further email is sent.
SettledDeliveryIsQuiet ==
    [][supervised /\ delivery \in {"succeeded", "suppressed"} =>
            UNCHANGED <<delivery, emails>>]_notificationVars

\* "The transactional outbox invokes idempotent delivery services": however
\* often the handler is invoked, one invocation after the other, the recipient
\* gets one email.
NoDuplicateEmail == supervised => emails <= 1
=============================================================================
