------------------------------ MODULE Finance ------------------------------
(***************************************************************************)
(* Operational finance of maru.registration once money has come in:        *)
(* refunds and cancellations under dual control, refund, dispute and       *)
(* chargeback events of the provider, restrictions, the exceptions staff   *)
(* resolve, and the settlements of the provider.                           *)
(*                                                                         *)
(* Every transaction locks the registration, or the ledger entries, that   *)
(* it reads and is one action.  The provider may send any event at any     *)
(* time and any number of times; an event that is under way is one that    *)
(* comes later, and a delivery that rolls back or loses the race for the   *)
(* receipt, which is the subject of Payments, leaves no trace.  Which      *)
(* payments are credited is also left to Payments; here a payment confirms *)
(* the registration that waits for it.  The editions stay open: once one   *)
(* is closed, the database refuses what would change its registrations,    *)
(* and a transaction that is refused changes nothing.                      *)
(***************************************************************************)
EXTENDS Integers, Sequences, FiniteSets, Functions

CONSTANTS
    Registrations,
    Staff,          \* accounts with the finance capability
    Price,          \* amount_minor of the payment intents
    Messages,       \* bound: the events the provider may send
    RefundAmounts,  \* bound: the refunds that staff propose
    Fees,           \* bound: the fees a settlement may have
    MaxOperations,  \* bound on the financial operations
    MaxEvents,      \* bound on the events of the provider
    MaxBatches      \* bound on the settlements

Types == {"succeeded", "refunded", "disputed"}

ASSUME FinanceAssumption ==
    /\ Price \in Nat \ {0} /\ "nobody" \notin Staff
    /\ Messages \subseteq [registration : Registrations, type : Types, amount : Nat, local : BOOLEAN]
    /\ Fees \subseteq Nat /\ RefundAmounts \subseteq Nat
    /\ MaxOperations \in Nat /\ MaxEvents \in Nat /\ MaxBatches \in Nat

VARIABLES
    state,          \* Registration.state
    sent,           \* the events of the provider in the order they came in;
                    \*   "disputed" stands for chargebacks too
    receipt,        \* PaymentWebhookReceipt.outcome by event
    exceptions,     \* PaymentException.status by event
    ledger,         \* kind of the FinancialLedgerEntry an event has added
    evidence,       \* refund entry -> operation it is linked to, 0 if none
    operations,     \* FinancialOperation rows in the order of their creation
    batches,        \* SettlementBatch rows with their allocations
    overlapped      \* history: registrations with two refunds pending at once

webhookVars == <<receipt, exceptions>>
vars == <<state, sent, webhookVars, ledger, evidence, operations, batches, overlapped>>

Events == 1 .. MaxEvents
Operations == 1 .. MaxOperations

Init ==
    /\ state = [r \in Registrations |-> "payment_pending"]
    /\ sent = <<>>
    /\ receipt = [e \in Events |-> "none"]
    /\ exceptions = [e \in Events |-> "none"]
    /\ ledger = [e \in Events |-> "none"]
    /\ evidence = [e \in Events |-> 0]
    /\ operations = <<>>
    /\ batches = <<>>
    /\ overlapped = {}

-----------------------------------------------------------------------------
(* The ledger *)

Amounts(S) == SumFunction([e \in S |-> sent[e].amount])
Entries(r, kinds) == {e \in DOMAIN sent : ledger[e] \in kinds /\ sent[e].registration = r}

\* available_refund_minor: what came in less what went out, at least 0
Available(r) ==
    LET balance == Amounts(Entries(r, {"payment"})) - Amounts(Entries(r, {"refund", "dispute"}))
    IN  IF balance < 0 THEN 0 ELSE balance

-----------------------------------------------------------------------------
(* Financial operations *)

PendingRefunds(r) ==
    {o \in DOMAIN operations :
        /\ operations[o].registration = r
        /\ operations[o].kind = "refund" /\ operations[o].status = "provider_pending"}

Proposal(r, kind, amount, actor) ==
    [registration |-> r, kind |-> kind, amount |-> amount, status |-> "proposed",
     requestedBy |-> actor, approvedBy |-> "nobody"]

\* propose_financial_operation
Propose(r, kind, amount, actor) ==
    /\ Len(operations) < MaxOperations
    /\ operations' = Append(operations, Proposal(r, kind, amount, actor))
    /\ UNCHANGED <<state, sent, webhookVars, ledger, evidence, batches, overlapped>>

ProposeRefund(r, amount, actor) ==
    Propose(r, "refund", amount, actor) /\ amount \in 1 .. Available(r)

ProposeCancellation(r, actor) == Propose(r, "cancel", 0, actor)

\* Variant: nobody looks who has asked for it.
MayApproveOwn(o, actor) == operations[o].status = "proposed"

\* approve_financial_operation: the checks both kinds share
MayApprove(o, actor) ==
    operations[o].status = "proposed" /\ operations[o].requestedBy # actor

\* approved_at, a reading of the clock from before the transaction, is not kept:
\* approvals may commit in any order of their readings.
Approved(o, status, actor) ==
    [operations EXCEPT ![o].status = status, ![o].approvedBy = actor]

ApproveCancellation(o, actor) ==
    LET r == operations[o].registration IN
    /\ MayApprove(o, actor) /\ operations[o].kind = "cancel"
    /\ state[r] \notin {"cancelled", "checked_in"}
    /\ state' = [state EXCEPT ![r] = "cancelled"]
    /\ operations' = Approved(o, "completed", actor)
    /\ UNCHANGED <<sent, webhookVars, ledger, evidence, batches, overlapped>>

\* Variant: the balance is the one of the proposal.
BalanceTrusted(o) == TRUE

\* Other refunds that wait for the provider are not subtracted.
BalanceSuffices(o) == operations[o].amount <= Available(operations[o].registration)

ApproveRefund(o, actor) ==
    LET r == operations[o].registration IN
    /\ MayApprove(o, actor) /\ operations[o].kind = "refund"
    /\ BalanceSuffices(o)
    /\ operations' = Approved(o, "provider_pending", actor)
    /\ overlapped' = IF PendingRefunds(r) = {} THEN overlapped ELSE overlapped \union {r}
    /\ UNCHANGED <<state, sent, webhookVars, ledger, evidence, batches>>

\* apply_restriction_consequences for a restriction of attendance
RestrictRegistration(r, actor) ==
    /\ state[r] \in {"payment_pending", "confirmed"}
    /\ state' = [state EXCEPT ![r] = "cancelled"]
    /\ IF Available(r) = 0 THEN UNCHANGED operations
       ELSE /\ Len(operations) < MaxOperations
            /\ operations' = Append(operations, Proposal(r, "refund", Available(r), actor))
    /\ UNCHANGED <<sent, webhookVars, ledger, evidence, batches, overlapped>>

CheckIn(r) ==
    /\ state[r] = "confirmed"
    /\ state' = [state EXCEPT ![r] = "checked_in"]
    /\ UNCHANGED <<sent, webhookVars, ledger, evidence, operations, batches, overlapped>>

-----------------------------------------------------------------------------
(* reconcile_verified_payment_event *)

\* Variant: an event may have several receipts.
NeverReceived(e) == FALSE

\* payment_webhook_remote_event_unique
AlreadyReceived(e) == receipt[e] # "none"

\* A delivery of the event e with the content m, the first one or not.
Record(e, m, outcome, exception) ==
    /\ ~ AlreadyReceived(e)
    /\ e <= Len(sent) + 1 /\ (e <= Len(sent) => sent[e] = m)
    /\ sent' = IF e <= Len(sent) THEN sent ELSE Append(sent, m)
    /\ receipt' = [receipt EXCEPT ![e] = outcome]
    /\ exceptions' = IF exception THEN [exceptions EXCEPT ![e] = "open"] ELSE exceptions
    /\ UNCHANGED <<batches, overlapped>>

AddEntry(e, kind) == ledger' = [ledger EXCEPT ![e] = kind]

\* A mismatch, a late success, an unmatched refund or an excessive dispute.
FlagEvent(e, m) ==
    /\ Record(e, m, "exception", TRUE)
    /\ UNCHANGED <<state, ledger, evidence, operations>>

Payable(m) == m.local /\ m.amount = Price /\ state[m.registration] = "payment_pending"

CreditPayment(e, m) ==
    /\ m.type = "succeeded" /\ Payable(m) /\ Record(e, m, "applied", FALSE)
    /\ AddEntry(e, "payment")
    /\ state' = [state EXCEPT ![m.registration] = "confirmed"]
    /\ UNCHANGED <<evidence, operations>>

FlagPayment(e, m) == m.type = "succeeded" /\ ~ Payable(m) /\ FlagEvent(e, m)

\* Variant: the amount is not compared.
MatchingAnyAmount(m) == {o \in PendingRefunds(m.registration) : m.local}

\* The refunds an event can be the completion of.
Matching(m) ==
    {o \in PendingRefunds(m.registration) : m.local /\ operations[o].amount = m.amount}

\* The one with the least approved_at is completed.  That may be any of them,
\* whichever approval has committed first.
ReconcileRefund(e, m) ==
    /\ m.type = "refunded" /\ Record(e, m, "applied", FALSE)
    /\ \E o \in Matching(m) :
        /\ AddEntry(e, "refund")
        /\ evidence' = [evidence EXCEPT ![e] = o]
        /\ operations' = [operations EXCEPT ![o].status = "completed"]
    /\ UNCHANGED state

RefundUnmatched(e, m) == m.type = "refunded" /\ Matching(m) = {} /\ FlagEvent(e, m)

\* A dispute is booked and reviewed; the admission stays as it is.
ReconcileDispute(e, m) ==
    /\ m.type = "disputed" /\ m.local /\ m.amount <= Price
    /\ Record(e, m, "exception", TRUE)
    /\ AddEntry(e, "dispute")
    /\ UNCHANGED <<state, evidence, operations>>

DisputeMismatch(e, m) ==
    m.type = "disputed" /\ ~ (m.local /\ m.amount <= Price) /\ FlagEvent(e, m)

ReconcileEvent(e, m) ==
    \/ CreditPayment(e, m) \/ FlagPayment(e, m)
    \/ ReconcileRefund(e, m) \/ RefundUnmatched(e, m)
    \/ ReconcileDispute(e, m) \/ DisputeMismatch(e, m)

\* resolve_payment_exception
ResolveException(e) ==
    /\ exceptions[e] = "open"
    /\ exceptions' = [exceptions EXCEPT ![e] = "resolved"]
    /\ UNCHANGED <<state, sent, receipt, ledger, evidence, operations, batches, overlapped>>

-----------------------------------------------------------------------------
(* reconcile_provider_settlement *)

Booked == {e \in DOMAIN sent : ledger[e] # "none"}
Settled == UNION {batches[b].entries : b \in DOMAIN batches}
Total(S, kind) == Amounts({e \in S : ledger[e] = kind})

\* Variant: entries of an earlier settlement are accepted again.
NothingAllocated(S) == TRUE

Unallocated(S) == S \intersect Settled = {}

\* The statement names entries, and totals that agree with them.  A net below
\* 0 is refused with everything else, because the ledger entry that is to
\* record it cannot hold it.
Settle(S, fee) ==
    LET net == Total(S, "payment") - fee - Total(S, "refund") - Total(S, "dispute") IN
    /\ Len(batches) < MaxBatches /\ S # {}
    /\ Unallocated(S)
    /\ net >= 0
    /\ batches' = Append(batches, [entries |-> S, fee |-> fee, net |-> net])
    /\ UNCHANGED <<state, sent, webhookVars, ledger, evidence, operations, overlapped>>

-----------------------------------------------------------------------------
Next ==
    \/ \E r \in Registrations :
        \/ CheckIn(r)
        \/ \E actor \in Staff :
            \/ \E amount \in RefundAmounts : ProposeRefund(r, amount, actor)
            \/ ProposeCancellation(r, actor) \/ RestrictRegistration(r, actor)
    \/ \E o \in DOMAIN operations, actor \in Staff :
           ApproveCancellation(o, actor) \/ ApproveRefund(o, actor)
    \/ \E e \in Events, m \in Messages : ReconcileEvent(e, m)
    \/ \E e \in Events : ResolveException(e)
    \/ \E S \in SUBSET Booked, fee \in Fees : Settle(S, fee)

Spec == Init /\ [][Next]_vars

-----------------------------------------------------------------------------
(* Properties *)

OperationRows ==
    [registration : Registrations, kind : {"refund", "cancel"}, amount : 0 .. Price,
     status : {"proposed", "provider_pending", "completed"}, requestedBy : Staff,
     approvedBy : Staff \union {"nobody"}]

\* The rows have their types, and what goes together is written together: an
\* approval has its approver, an entry its receipt.
TypeOK ==
    /\ state \in [Registrations -> {"payment_pending", "confirmed", "cancelled", "checked_in"}]
    /\ sent \in Seq(Messages)
    /\ receipt \in [Events -> {"none", "applied", "exception"}]
    /\ exceptions \in [Events -> {"none", "open", "resolved"}]
    /\ ledger \in [Events -> {"none", "payment", "refund", "dispute"}]
    /\ evidence \in [Events -> 0 .. MaxOperations]
    /\ operations \in Seq(OperationRows) /\ Len(operations) <= MaxOperations
    /\ batches \in Seq([entries : SUBSET Events, fee : Fees, net : Nat])
    /\ overlapped \subseteq Registrations
    /\ \A o \in DOMAIN operations :
        (operations[o].approvedBy = "nobody") <=> (operations[o].status = "proposed")
    /\ \A e \in Events :
        /\ (receipt[e] = "none") <=> (ledger[e] = "none" /\ exceptions[e] = "none")
        /\ (receipt[e] = "exception") <=> (exceptions[e] # "none")

\* maru_guard_financial_operation accepts the change of a row.
GuardAccepts(old, new) ==
    /\ \A field \in {"registration", "kind", "amount", "requestedBy"} : new[field] = old[field]
    /\ \/ /\ old.status = "proposed" /\ new.status \in {"provider_pending", "completed"}
          /\ new.approvedBy \notin {"nobody", new.requestedBy}
       \/ old.status = "provider_pending" /\ new.status = "completed"

\* Approvals, webhooks and restrictions write financial operations only in
\* ways the trigger of migration 0023 lets through, so that none of them is
\* rolled back half-way; in particular nobody approves their own proposal.
OperationsGuarded ==
    [][ /\ Len(operations) <= Len(operations')
        /\ \A o \in DOMAIN operations :
            operations'[o] # operations[o] => GuardAccepts(operations[o], operations'[o]) ]_vars

Refunds == {o \in DOMAIN operations : operations[o].kind = "refund"}
EntriesOf(o) == {e \in Events : evidence[e] = o}

EntryMatchesRefund ==
    \A e \in Events :
        /\ (evidence[e] # 0) <=> (ledger[e] = "refund")
        /\ evidence[e] # 0 =>
            /\ evidence[e] \in Refunds
            /\ operations[evidence[e]].registration = sent[e].registration
            /\ operations[evidence[e]].amount = sent[e].amount

\* Whatever the order of deliveries, duplicates and approvals, each completed
\* refund has exactly one ledger entry, of its registration and its amount, and
\* no other operation has one.
RefundEvidence ==
    /\ \A o \in Refunds :
        Cardinality(EntriesOf(o)) = IF operations[o].status = "completed" THEN 1 ELSE 0
    /\ EntryMatchesRefund

\* Money that has gone or has been promised back never exceeds what was paid,
\* unless a refund was approved while an earlier one still waited for the
\* provider, which the balance does not count.
RefundsCovered ==
    \A r \in Registrations \ overlapped :
        Amounts(Entries(r, {"refund"}))
            + SumFunctionOnSet([o \in DOMAIN operations |-> operations[o].amount], PendingRefunds(r))
        <= Amounts(Entries(r, {"payment"}))

\* The settlements account for each ledger entry at most once: their net
\* amounts and fees add up to the balance of the entries they cover.
SettlementsBalance ==
    SumFunction([b \in DOMAIN batches |-> batches[b].net + batches[b].fee])
        = Total(Settled, "payment") - Total(Settled, "refund") - Total(Settled, "dispute")
=============================================================================
