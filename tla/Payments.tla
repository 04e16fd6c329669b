------------------------------ MODULE Payments ------------------------------
(***************************************************************************)
(* Hosted payments of maru.registration: payment intents and the call to   *)
(* the provider, and the reconciliation of webhook events with receipts,   *)
(* exceptions and the ledger.                                              *)
(*                                                                         *)
(* A webhook delivery is one transaction in two actions: it looks for a    *)
(* receipt of the event before it holds any lock, and then locks intent,   *)
(* registration and upgrade and does the rest.  Two deliveries of one      *)
(* event can both pass the first step.  All other transactions lock their  *)
(* registration first and are one action each.                             *)
(*                                                                         *)
(* The provider sends events in any order, any number of times, and        *)
(* whether or not Maru has stored its reference.  Refunds and disputes are *)
(* the subject of Finance, places and waitlists of RegistrationCapacity;   *)
(* here a registration is waiting for its payment or has been confirmed by *)
(* an earlier one, and is upgraded at most once.                           *)
(*                                                                         *)
(* Once the edition is archived or cancelled, the database refuses every   *)
(* write of a registration, and the transaction around it leaves no trace. *)
(***************************************************************************)
EXTENDS Integers, Sequences, FiniteSets, Functions

CONSTANTS
    Registrations,
    Price,          \* price_minor_snapshot of the first admission
    Difference,     \* amount_due_minor of the upgrade
    Due,            \* payment_due_at of the registrations
    Hold,           \* how long an upgrade holds its target
    Messages,       \* bound: the kinds of event the provider may send
    MaxIntents,     \* bound on the payment intents
    MaxLost,        \* bound on the calls to the provider that get no answer
    MaxEvents,      \* bound on the events the provider sends
    MaxDeliveries,  \* bound on the deliveries under way at once
    MaxTime         \* bound on the clock and the deadlines

Types == {"succeeded", "failed", "abandoned", "other"}
Kinds == {"unknown_intent", "amount_mismatch", "currency_mismatch", "late_success", "out_of_order"}

ASSUME PaymentAssumption ==
    /\ Price \in Nat \ {0} /\ Difference \in Nat \ {0}
    /\ Due \in Nat /\ Hold \in Nat /\ MaxTime \in Nat
    /\ MaxIntents \in Nat /\ MaxLost \in Nat /\ MaxEvents \in Nat /\ MaxDeliveries \in Nat
    /\ Messages \subseteq [type : Types, amount : Nat, local : BOOLEAN]

VARIABLES
    now,            \* the clock
    state,          \* Registration.state
    basis,          \* Registration.confirmation_basis, "none" while it is empty
    editionClosed,  \* whether the edition is archived or cancelled
    upgrade,        \* AdmissionTierReplacement.status, "none" before it exists
    upgradeDue,     \* AdmissionTierReplacement.payment_due_at
    intents,        \* PaymentIntent rows in the order of their creation
    calling,        \* intents whose creator is waiting for the provider
    checkouts,      \* intents for which the provider has made a checkout
    sent,           \* the events of the provider in the order they occurred
    deliveries,     \* event -> deliveries that found no receipt, by whether the
                    \*   hold of the upgrade was over when they began
    receipt,        \* PaymentWebhookReceipt.outcome by event
    opened,         \* kind of the PaymentException an event has opened
    ledger          \* kind of the FinancialLedgerEntry an event has added

registrationVars == <<state, basis, editionClosed, upgrade, upgradeDue>>
checkoutVars == <<calling, checkouts>>
evidenceVars == <<receipt, opened, ledger>>
vars == <<now, registrationVars, intents, checkoutVars, sent, deliveries,
          evidenceVars>>

Events == 1 .. MaxEvents

Init ==
    /\ now = 0
    /\ state \in [Registrations -> {"payment_pending", "confirmed"}]
    /\ basis = [r \in Registrations |-> IF state[r] = "confirmed" THEN "provider" ELSE "none"]
    /\ editionClosed = FALSE
    /\ upgrade = [r \in Registrations |-> "none"]
    /\ upgradeDue = [r \in Registrations |-> 0]
    /\ intents = <<>>
    /\ calling = {} /\ checkouts = {}
    /\ sent = <<>>
    /\ deliveries = [e \in Events |-> [overdue \in BOOLEAN |-> 0]]
    /\ receipt = [e \in Events |-> "none"]
    /\ opened = [e \in Events |-> "none"]
    /\ ledger = [e \in Events |-> "none"]

-----------------------------------------------------------------------------
(* create_payment_intent *)

UpgradePending(r) == upgrade[r] = "payment_pending"

\* The first transaction.  A key that is in use returns its intent.
CreateIntent(r) ==
    /\ Len(intents) < MaxIntents
    /\ \/ state[r] = "payment_pending" /\ Due > now
       \/ state[r] = "confirmed" /\ UpgradePending(r) /\ upgradeDue[r] > now
    /\ intents' = Append(intents,
            [status |-> "creating", stored |-> FALSE, registration |-> r,
             forUpgrade |-> state[r] # "payment_pending"])
    /\ calling' = calling \union {Len(intents) + 1}
    /\ UNCHANGED <<now, registrationVars, checkouts, sent, deliveries,
                   evidenceVars>>

\* create_checkout reaches the provider.
ProviderMakesCheckout(i) ==
    /\ i \in calling \ checkouts
    /\ checkouts' = checkouts \union {i}
    /\ UNCHANGED <<now, registrationVars, intents, calling, sent, deliveries,
                   evidenceVars>>

\* Variant: the reference is stored as soon as the request is out.
StoreReferenceEarly(i) ==
    /\ i \in calling
    /\ intents' = [intents EXCEPT ![i].status = "checkout_ready", ![i].stored = TRUE]
    /\ calling' = calling \ {i}
    /\ UNCHANGED <<now, registrationVars, checkouts, sent, deliveries, evidenceVars>>

\* The answer arrives.
StoreReference(i) ==
    /\ i \in calling /\ i \in checkouts
    /\ intents' = [intents EXCEPT ![i].status = "checkout_ready", ![i].stored = TRUE]
    /\ calling' = calling \ {i}
    /\ UNCHANGED <<now, registrationVars, checkouts, sent, deliveries,
                   evidenceVars>>

MayBeLost ==
    Cardinality({i \in DOMAIN intents : i \notin calling /\ ~ intents[i].stored}) < MaxLost

\* The call fails or times out, whatever the provider has done.  The status
\* stands for the provider_unavailable exception that is opened with it.
MarkUncertain(i) ==
    /\ i \in calling /\ MayBeLost
    /\ intents' = [intents EXCEPT ![i].status = "uncertain"]
    /\ calling' = calling \ {i}
    /\ UNCHANGED <<now, registrationVars, checkouts, sent, deliveries,
                   evidenceVars>>

\* The process dies between the two transactions.
CreatorCrashes(i) ==
    /\ i \in calling /\ MayBeLost
    /\ calling' = calling \ {i}
    /\ UNCHANGED <<now, registrationVars, intents, checkouts, sent, deliveries,
                   evidenceVars>>

-----------------------------------------------------------------------------
(* reconcile_verified_payment_event *)

\* The provider reports something about one of its checkouts.
ProviderSends(i, m) ==
    /\ i \in checkouts
    /\ Len(sent) < MaxEvents
    /\ sent' = Append(sent, [intent |-> i, type |-> m.type, amount |-> m.amount,
                             local |-> m.local, at |-> now])
    /\ UNCHANGED <<now, registrationVars, intents, checkoutVars, deliveries,
                   evidenceVars>>

Intent(e) == intents[sent[e].intent]
RegistrationOf(e) == Intent(e).registration
Overdue(e) == UpgradePending(RegistrationOf(e)) /\ upgradeDue[RegistrationOf(e)] <= now

\* The first step finds no receipt.  The trigger on the registration will
\* judge an upgrade by the clock of this moment.
BeginDelivery(e) ==
    /\ e <= Len(sent) /\ receipt[e] = "none"
    /\ SumFunction([f \in Events |-> deliveries[f][TRUE] + deliveries[f][FALSE]]) < MaxDeliveries
    /\ deliveries' = [deliveries EXCEPT ![e][Overdue(e)] = @ + 1]
    /\ UNCHANGED <<now, registrationVars, intents, checkoutVars, sent,
                   evidenceVars>>

\* The end of a delivery, committed, rolled back or killed.
EndDelivery(e, overdue) ==
    /\ deliveries[e][overdue] > 0
    /\ deliveries' = [deliveries EXCEPT ![e][overdue] = @ - 1]

RollsBack(e, overdue) ==
    /\ EndDelivery(e, overdue)
    /\ UNCHANGED <<now, registrationVars, intents, checkoutVars, sent,
                   evidenceVars>>

\* Variant: an event may have several receipts.
NeverReceived(e) == FALSE

\* payment_webhook_remote_event_unique: another delivery was faster.
AlreadyReceived(e) == receipt[e] # "none"

\* The receipt, and the exception or ledger entry that goes with it.
Record(e, overdue, outcome, exception, entry) ==
    /\ EndDelivery(e, overdue)
    /\ ~ AlreadyReceived(e)
    /\ receipt' = [receipt EXCEPT ![e] = outcome]
    /\ opened' = IF exception = "none" THEN opened ELSE [opened EXCEPT ![e] = exception]
    /\ ledger' = IF entry = "none" THEN ledger ELSE [ledger EXCEPT ![e] = entry]
    /\ UNCHANGED <<now, checkoutVars, sent>>

SetStatus(e, status) == intents' = [intents EXCEPT ![sent[e].intent].status = status]

\* The slower of two deliveries of one event leaves no trace.
DuplicateRollsBack(e, overdue) ==
    AlreadyReceived(e) /\ RollsBack(e, overdue)

UnknownIntent(e, overdue) ==
    /\ Record(e, overdue, "exception", "unknown_intent", "none")
    /\ ~ Intent(e).stored
    /\ UNCHANGED <<registrationVars, intents>>

AmountOf(i) == IF i.forUpgrade THEN Difference ELSE Price
Exact(e) == Intent(e).stored /\ sent[e].amount = AmountOf(Intent(e)) /\ sent[e].local

ReconcileMismatch(e, overdue) ==
    /\ Record(e, overdue, "exception",
              IF sent[e].amount # AmountOf(Intent(e)) THEN "amount_mismatch"
              ELSE "currency_mismatch", "none")
    /\ Intent(e).stored /\ ~ Exact(e)
    /\ SetStatus(e, "mismatch")
    /\ UNCHANGED registrationVars

\* ordinary_payment_is_current and replacement_payment_is_current
OrdinaryIsCurrent(e) ==
    /\ ~ Intent(e).forUpgrade
    /\ state[RegistrationOf(e)] = "payment_pending"
    /\ sent[e].at < Due
UpgradeIsCurrent(e) ==
    /\ Intent(e).forUpgrade
    /\ UpgradePending(RegistrationOf(e))
    /\ sent[e].at < upgradeDue[RegistrationOf(e)]

Success(e) == Exact(e) /\ sent[e].type = "succeeded"

ReconcileLateSuccess(e, overdue) ==
    /\ Record(e, overdue, "exception", "late_success", "none")
    /\ Success(e) /\ ~ OrdinaryIsCurrent(e) /\ ~ UpgradeIsCurrent(e)
    /\ SetStatus(e, "late")
    /\ UNCHANGED registrationVars

ConfirmRegistration(e, overdue) ==
    /\ Record(e, overdue, "applied", "none", "payment")
    /\ Success(e) /\ OrdinaryIsCurrent(e) /\ ~ editionClosed
    /\ state' = [state EXCEPT ![RegistrationOf(e)] = "confirmed"]
    /\ basis' = [basis EXCEPT ![RegistrationOf(e)] = "provider"]
    /\ SetStatus(e, "succeeded")
    /\ UNCHANGED <<editionClosed, upgrade, upgradeDue>>

\* The database refuses the registration, and everything is rolled back, the
\* receipt included.
ConfirmationRefused(e) == Success(e) /\ OrdinaryIsCurrent(e) /\ editionClosed

ConfirmationRollsBack(e, overdue) ==
    /\ RollsBack(e, overdue)
    /\ ~ AlreadyReceived(e)
    /\ ConfirmationRefused(e)

\* complete_admission_tier_replacement goes through, and the trigger on the
\* registration accepts the new product.
Completes(e, overdue) ==
    state[RegistrationOf(e)] = "confirmed" /\ ~ overdue /\ ~ editionClosed

CompleteUpgrade(e, overdue) ==
    /\ Record(e, overdue, "applied", "none", "payment")
    /\ Success(e) /\ UpgradeIsCurrent(e) /\ Completes(e, overdue)
    /\ upgrade' = [upgrade EXCEPT ![RegistrationOf(e)] = "completed"]
    /\ SetStatus(e, "succeeded")
    /\ UNCHANGED <<state, basis, editionClosed, upgradeDue>>

\* It does not, and everything is rolled back likewise.
UpgradeRollsBack(e, overdue) ==
    /\ RollsBack(e, overdue)
    /\ ~ AlreadyReceived(e)
    /\ Success(e) /\ UpgradeIsCurrent(e) /\ ~ Completes(e, overdue)

ReconcileFailure(e, overdue) ==
    /\ Record(e, overdue, "applied", "none", "none")
    /\ Exact(e) /\ sent[e].type \in {"failed", "abandoned"}
    /\ SetStatus(e, sent[e].type)
    /\ UNCHANGED registrationVars

UnsupportedEvent(e, overdue) ==
    /\ Record(e, overdue, "exception", "out_of_order", "none")
    /\ Exact(e) /\ sent[e].type = "other"
    /\ UNCHANGED <<registrationVars, intents>>

FinishDelivery(e, overdue) ==
    \/ DuplicateRollsBack(e, overdue)
    \/ UnknownIntent(e, overdue)
    \/ ReconcileMismatch(e, overdue)
    \/ ReconcileLateSuccess(e, overdue)
    \/ ConfirmRegistration(e, overdue)
    \/ ConfirmationRollsBack(e, overdue)
    \/ CompleteUpgrade(e, overdue)
    \/ UpgradeRollsBack(e, overdue)
    \/ ReconcileFailure(e, overdue)
    \/ UnsupportedEvent(e, overdue)

-----------------------------------------------------------------------------
(* What else happens to a registration *)

\* waive_registration_payment, the expiry of the reservation, and a cancellation
\* or restriction: a payment for the registration is no longer current.  The
\* upgrade stays as it is.
Close(r) ==
    /\ ~ editionClosed
    /\ state' = [state EXCEPT ![r] = "closed"]
    /\ UNCHANGED <<now, basis, editionClosed, upgrade, upgradeDue, intents, checkoutVars, sent, deliveries,
                   evidenceVars>>

WaivePayment(r) == state[r] = "payment_pending" /\ Close(r)

ExpireReservation(r) == state[r] = "payment_pending" /\ Due <= now /\ Close(r)

CancelRegistration(r) == state[r] \in {"payment_pending", "confirmed"} /\ Close(r)

ReserveUpgrade(r) ==
    /\ state[r] = "confirmed" /\ basis[r] = "provider" /\ upgrade[r] = "none"
    /\ now + Hold <= MaxTime
    /\ upgrade' = [upgrade EXCEPT ![r] = "payment_pending"]
    /\ upgradeDue' = [upgradeDue EXCEPT ![r] = now + Hold]
    /\ UNCHANGED <<now, state, basis, editionClosed, intents, checkoutVars, sent, deliveries,
                   evidenceVars>>

\* Variant: only the holds of admitted registrations are expired.
ExpireUpgradeOfAdmitted(r) ==
    /\ UpgradePending(r) /\ upgradeDue[r] <= now /\ state[r] = "confirmed"
    /\ upgrade' = [upgrade EXCEPT ![r] = "expired"]
    /\ UNCHANGED <<now, state, basis, editionClosed, upgradeDue, intents, checkoutVars, sent,
                   deliveries, evidenceVars>>

ExpireUpgrade(r) ==
    /\ UpgradePending(r) /\ upgradeDue[r] <= now
    /\ upgrade' = [upgrade EXCEPT ![r] = "expired"]
    /\ UNCHANGED <<now, state, basis, editionClosed, upgradeDue, intents, checkoutVars, sent,
                   deliveries, evidenceVars>>

\* transition_edition: cancelling an edition looks at no payment at all;
\* archiving, where closure gates are enforced, asks for no registration that
\* waits for payment, and says nothing of pending upgrades.
CloseEdition ==
    /\ ~ editionClosed
    /\ editionClosed' = TRUE
    /\ UNCHANGED <<now, state, basis, upgrade, upgradeDue, intents, checkoutVars, sent, deliveries,
                   evidenceVars>>

Tick ==
    /\ now < MaxTime
    /\ now' = now + 1
    /\ UNCHANGED <<registrationVars, intents, checkoutVars, sent, deliveries,
                   evidenceVars>>

-----------------------------------------------------------------------------
Next ==
    \/ Tick
    \/ CloseEdition
    \/ \E r \in Registrations :
        \/ CreateIntent(r)
        \/ WaivePayment(r) \/ ExpireReservation(r) \/ CancelRegistration(r)
        \/ ReserveUpgrade(r) \/ ExpireUpgrade(r)
    \/ \E i \in DOMAIN intents :
        \/ ProviderMakesCheckout(i) \/ StoreReference(i)
        \/ MarkUncertain(i) \/ CreatorCrashes(i)
        \/ \E m \in Messages : ProviderSends(i, m)
    \/ \E e \in Events :
        \/ BeginDelivery(e)
        \/ \E overdue \in BOOLEAN : FinishDelivery(e, overdue) \/ RollsBack(e, overdue)

\* Time passes, the lifecycle run expires overdue holds, and the provider
\* repeats an event until it is acknowledged; deliveries of one event are not
\* killed for ever.
Fairness ==
    /\ WF_vars(Tick)
    /\ \A r \in Registrations : WF_vars(ExpireUpgrade(r))
    /\ \A e \in Events :
        /\ SF_vars(BeginDelivery(e))
        /\ SF_vars(\E overdue \in BOOLEAN : FinishDelivery(e, overdue))

SafetySpec == Init /\ [][Next]_vars
Spec == SafetySpec /\ Fairness

-----------------------------------------------------------------------------
(* Properties *)

Intents ==
    [status : {"creating", "uncertain", "checkout_ready", "succeeded", "late", "mismatch",
               "failed", "abandoned"},
     stored : BOOLEAN, registration : Registrations, forUpgrade : BOOLEAN]

RegistrationsOK ==
    /\ now \in Nat
    /\ state \in [Registrations -> {"payment_pending", "confirmed", "closed"}]
    /\ basis \in [Registrations -> {"none", "provider"}]
    /\ editionClosed \in BOOLEAN
    /\ upgrade \in [Registrations -> {"none", "payment_pending", "completed", "expired"}]
    /\ upgradeDue \in [Registrations -> Nat]

IntentsOK ==
    /\ intents \in Seq(Intents)
    /\ calling \subseteq DOMAIN intents /\ checkouts \subseteq DOMAIN intents
    /\ \A i \in DOMAIN intents :
        IF intents[i].stored THEN i \in checkouts \ calling
        ELSE intents[i].status \in {"creating", "uncertain"}

SentOK ==
    /\ sent \in Seq([intent : checkouts, type : Types, amount : Nat, local : BOOLEAN, at : Nat])
    /\ Len(sent) <= MaxEvents

EvidenceOK ==
    /\ deliveries \in [Events -> [BOOLEAN -> Nat]]
    /\ receipt \in [Events -> {"none", "applied", "exception"}]
    /\ opened \in [Events -> Kinds \union {"none"}]
    /\ ledger \in [Events -> {"none", "payment"}]
    /\ \A e \in Events \ DOMAIN sent :
        receipt[e] = "none" /\ \A overdue \in BOOLEAN : deliveries[e][overdue] = 0

\* The rows have their types and belong together: an intent gets its reference
\* from a checkout, and until then no event can touch it; an event is about a
\* checkout, and only an event that was sent has a receipt.
TypeOK == RegistrationsOK /\ IntentsOK /\ SentOK /\ EvidenceOK

\* What has become of an event, and whether a charge is served.
Verdict(e) ==
    CASE receipt[e] = "none" /\ opened[e] = "none" /\ ledger[e] = "none" -> "none"
      [] receipt[e] = "applied" /\ opened[e] = "none" /\ ledger[e] = "payment" -> "credited"
      [] receipt[e] = "exception" /\ opened[e] # "none" /\ ledger[e] = "none" -> "flagged"
      [] receipt[e] = "applied" /\ opened[e] = "none" /\ ledger[e] = "none" -> "noted"
      [] OTHER -> "corrupt"

Served(r, forUpgrade) ==
    IF forUpgrade THEN upgrade[r] = "completed" ELSE basis[r] = "provider"

Promise == INSTANCE PaymentPromise WITH
    Charges <- Registrations \X BOOLEAN,
    claims <- {e \in DOMAIN sent : sent[e].type = "succeeded"},
    verdict <- [e \in Events |-> Verdict(e)],
    served <- [c \in Registrations \X BOOLEAN |-> Served(c[1], c[2])]

\* Whatever is delivered twice, at once or out of order, each event is judged
\* once, by receipt, exception and ledger together, and an admission or an
\* upgrade becomes paid exactly when one event is credited for it.
KeepsPromise == Promise!PromiseSpec

\* Every success that the provider reports is in the end credited or in front
\* of the staff, also one that arrives before its intent is known, whose
\* creator has crashed, or whose upgrade can no longer be completed.  Only a
\* timely payment that has not been reconciled when the edition is closed is
\* refused for ever, and leaves no exception.
EverySuccessAccounted ==
    \A e \in Events :
        (e <= Len(sent) /\ sent[e].type = "succeeded")
            ~> (\/ ledger[e] = "payment" \/ opened[e] # "none"
                \/ e <= Len(sent) /\ ConfirmationRefused(e))
=============================================================================
