------------------------ MODULE RegistrationCapacity ------------------------
(***************************************************************************)
(* Places of one edition: registrations, the waitlist, payment deadlines,  *)
(* admission upgrades, capacity adjustments and the lifecycle processor of *)
(* maru.registration, and what they do to the capacity of the products.    *)
(*                                                                         *)
(* submit_registration, the upgrade reservation, capacity adjustments,     *)
(* waitlist batches, guardian consent and the lifecycle transitions hold   *)
(* the configuration row (select_for_update also locks what select_related *)
(* joins), so each is one atomic action.  Three transactions read before   *)
(* they hold it, and are two actions each:                                 *)
(*   - a cancellation or a restriction locks its registration and product, *)
(*     counts the places, and only then looks for somebody to promote;     *)
(*   - the completion of an upgrade is judged by the clock of the start of *)
(*     its transaction (CURRENT_TIMESTAMP), before it holds any lock.      *)
(* Between the two, other transactions see the old rows (READ COMMITTED)   *)
(* and run unless they need a row that is locked.                          *)
(*                                                                         *)
(* The lifecycle processor walks the candidates of all editions in one     *)
(* loop, each in a transaction of its own.  A row that the database        *)
(* refuses ends the loop, see CloseOtherEdition.                           *)
(*                                                                         *)
(* The edition of this module stays open: its trigger refuses every write  *)
(* of a registration of a closed one, and a transaction that is refused    *)
(* changes nothing.  Deadlines are count-downs that are 0 once the instant *)
(* has passed.  The waitlist is a set, and any entry may be the oldest.    *)
(***************************************************************************)
EXTENDS Integers, FiniteSets

CONSTANTS
    Accounts,             \* each has at most one registration in the edition
    Minors,               \* accounts whose registration needs guardian consent
    Products,             \* admission products of the active configuration
    Codes,                \* entitlement codes
    Price,                \* product -> price_minor
    Code,                 \* product -> entitlement_code
    Capacity,             \* product -> capacity, as configured
    Ceiling,              \* product -> capacity_ceiling or capacity
    OverallCapacity,      \* configuration capacity
    OverallCeiling,       \* configuration capacity_ceiling or capacity
    WaitlistEnabled,      \* product -> waitlist_enabled of product and edition
    AutomaticPromotion,   \* automatic_waitlist_promotion
    PaymentWindow,        \* the payment window, in time units
    BatchSizes,           \* batch sizes operators ask for
    Closing,              \* products whose sale period may end
    OthersClose,          \* whether other editions may be archived or cancelled
    MaxInactive,          \* bound on the accounts that are deactivated
    MaxInflight,          \* bound on the transactions between their two steps
    Nobody, NoProduct

ASSUME CatalogAssumption ==
    /\ IsFiniteSet(Accounts) /\ Minors \subseteq Accounts /\ Nobody \notin Accounts
    /\ IsFiniteSet(Products) /\ NoProduct \notin Products
    /\ Price \in [Products -> Nat]
    /\ Code \in [Products -> Codes]
    /\ WaitlistEnabled \in [Products -> BOOLEAN]
ASSUME CapacityAssumption ==
    /\ Capacity \in [Products -> Nat] /\ Ceiling \in [Products -> Nat]
    /\ \A p \in Products : Capacity[p] <= Ceiling[p]
    /\ OverallCapacity \in Nat /\ OverallCeiling \in Nat
    /\ OverallCapacity <= OverallCeiling
ASSUME BoundAssumption ==
    /\ PaymentWindow \in Nat \ {0}
    /\ BatchSizes \subseteq Nat \ {0}
    /\ Closing \subseteq Products
    /\ MaxInactive \in Nat /\ MaxInflight \in Nat
    /\ AutomaticPromotion \in BOOLEAN /\ OthersClose \in BOOLEAN

VARIABLES
    state,          \* Registration.state, "none" before submission
    product,        \* Registration.product
    basis,          \* Registration.confirmation_basis
    dueIn,          \* payment_due_at of a payment_pending registration
    upgrade,        \* target product of the pending AdmissionTierReplacement
    upgradeIn,      \* its payment_due_at
    entitlements,   \* Entitlement.status by code, "none" if never granted
    productLimit,   \* effective_product_capacity
    overallLimit,   \* effective_configuration_capacity
    open,           \* whether the sale period of the product is not over
    active,         \* Account.is_active
    behind,         \* registrations that no lifecycle pass over all editions reaches
    inflight,       \* cancellations and restrictions between their two steps
    paying,         \* accounts for whose upgrade a payment transaction has started
    pass,           \* candidates that the lifecycle pass under way has yet to visit
    raced           \* history: something happened between two steps of a transaction

vars == <<state, product, basis, dueIn, upgrade, upgradeIn, entitlements,
          productLimit, overallLimit, open, active, behind, inflight, paying, pass, raced>>
limitVars == <<productLimit, overallLimit>>
rowVars == <<state, product, basis, dueIn, entitlements>>
upgradeVars == <<upgrade, upgradeIn>>
outsideVars == <<open, active, behind>>
transactionVars == <<inflight, paying, pass>>

OccupiedStates == {"payment_pending", "confirmed", "checked_in"}
States == OccupiedStates \union {"none", "guardian_pending", "waitlisted", "expired", "cancelled"}

\* The transaction that holds a registration between its two steps, and
\* whether it has found a place to offer to the waitlist.
Idle == [kind |-> "none", promote |-> FALSE]

Init ==
    /\ state = [a \in Accounts |-> "none"]
    /\ product = [a \in Accounts |-> NoProduct]
    /\ basis = [a \in Accounts |-> "none"]
    /\ dueIn = [a \in Accounts |-> 0]
    /\ upgrade = [a \in Accounts |-> NoProduct]
    /\ upgradeIn = [a \in Accounts |-> 0]
    /\ entitlements = [a \in Accounts |-> [c \in Codes |-> "none"]]
    /\ productLimit = Capacity
    /\ overallLimit = OverallCapacity
    /\ open = [p \in Products |-> TRUE]
    /\ active = [a \in Accounts |-> TRUE]
    /\ behind = {}
    /\ inflight = [a \in Accounts |-> Idle]
    /\ paying = {}
    /\ pass = {}
    /\ raced = FALSE

-----------------------------------------------------------------------------
(* Counting *)

Occupied == {a \in Accounts : state[a] \in OccupiedStates}
OccupiedIn(p) == {a \in Occupied : product[a] = p}

\* pending_target_capacity_holds
Holds(p) == {a \in Accounts : upgrade[a] = p /\ upgradeIn[a] > 0}

\* Variant: the upgrades that are held are forgotten.
RoomIgnoringHolds(p, without) ==
    /\ Cardinality(Occupied \ without) < overallLimit
    /\ Cardinality(OccupiedIn(p) \ without) < productLimit[p]

\* There is a place in p for a transaction that has already given back the
\* places of the accounts in without.
Room(p, without) ==
    /\ Cardinality(Occupied \ without) < overallLimit
    /\ Cardinality(OccupiedIn(p) \ without) + Cardinality(Holds(p)) < productLimit[p]

\* The same by the configured capacities, as assess_product_availability and
\* accept_guardian_consent see them.
ConfiguredRoom(p) ==
    /\ Cardinality(Occupied) < OverallCapacity
    /\ Cardinality(OccupiedIn(p)) < Capacity[p]

\* The outcome of an admission to p, price snapshots being those of p.
Admission(p) == IF Price[p] = 0 THEN "confirmed" ELSE "payment_pending"

-----------------------------------------------------------------------------
(* Row locks of the transactions between their two steps *)

\* Variant: registrations are read without select_for_update.
NeverLocked(a) == FALSE

Locked(a) == inflight[a] # Idle
ProductLocked(p) == \E a \in Accounts : inflight[a] # Idle /\ product[a] = p
\* Restrictions select their registrations through a join with the edition,
\* whose row a new registration references.
EditionLocked == \E a \in Accounts : inflight[a].kind = "restrict"

MayBegin ==
    Cardinality({a \in Accounts : inflight[a] # Idle}) + Cardinality(paying) < MaxInflight

\* A step before and after which some transaction is between its two steps is
\* a step of somebody else.
InGap == paying # {} \/ \E a \in Accounts : inflight[a] # Idle
Watch == raced' = (raced \/ (InGap /\ InGap'))

Granted(a, c) == [entitlements[a] EXCEPT ![c] = "active"]
Revoked(a) ==
    [c \in Codes |->
        IF entitlements[a][c] = "active" THEN "revoked" ELSE entitlements[a][c]]

\* The columns of registration a once its state is next.
Written(a, next) ==
    [state |-> next,
     basis |-> IF next = "confirmed" THEN "free" ELSE basis[a],
     dueIn |-> IF next = "payment_pending" THEN PaymentWindow ELSE 0,
     entitlements |-> CASE next = "confirmed" -> Granted(a, Code[product[a]])
                        [] next \in {"cancelled", "expired"} -> Revoked(a)
                        [] OTHER -> entitlements[a]]

\* Write the rows of the accounts in changed, given their next states.
WriteRows(changed, next) ==
    /\ state' = [a \in Accounts |->
            IF a \in changed THEN Written(a, next[a]).state ELSE state[a]]
    /\ basis' = [a \in Accounts |->
            IF a \in changed THEN Written(a, next[a]).basis ELSE basis[a]]
    /\ dueIn' = [a \in Accounts |->
            IF a \in changed THEN Written(a, next[a]).dueIn ELSE dueIn[a]]
    /\ entitlements' = [a \in Accounts |->
            IF a \in changed THEN Written(a, next[a]).entitlements ELSE entitlements[a]]

-----------------------------------------------------------------------------
(* Transactions that lock the configuration *)

\* assess_product_availability: a full product can be selected only when the
\* waitlist is enabled.
Selectable(p) == ConfiguredRoom(p) \/ WaitlistEnabled[p]

\* submit_registration; staff may bypass the sale period.
SubmitRegistration(a, p, bypass) ==
    LET next == IF a \in Minors THEN "guardian_pending"
                ELSE IF ~ Room(p, {}) THEN "waitlisted"
                ELSE Admission(p)
    IN  /\ ~ ProductLocked(p) /\ ~ EditionLocked
        /\ active[a]
        /\ state[a] = "none"
        /\ open[p] \/ bypass
        /\ Selectable(p)
        /\ state' = [state EXCEPT ![a] = next]
        /\ product' = [product EXCEPT ![a] = p]
        /\ basis' = [basis EXCEPT ![a] = IF next = "confirmed" THEN "free" ELSE "none"]
        /\ dueIn' = [dueIn EXCEPT ![a] = IF next = "payment_pending" THEN PaymentWindow ELSE 0]
        /\ entitlements' = IF next = "confirmed"
                           THEN [entitlements EXCEPT ![a] = Granted(a, Code[p])]
                           ELSE entitlements
        /\ UNCHANGED <<upgradeVars, limitVars, outsideVars, transactionVars>>
        /\ Watch

\* reserve_admission_tier_replacement
ReserveTierReplacement(a, p) ==
    /\ ~ Locked(a) /\ ~ ProductLocked(product[a]) /\ ~ ProductLocked(p)
    /\ state[a] \in {"confirmed", "checked_in"}
    /\ basis[a] = "provider"
    /\ upgrade[a] = NoProduct
    /\ open[p]
    /\ p # product[a] /\ Price[p] > Price[product[a]]
    /\ Cardinality(OccupiedIn(p)) + Cardinality(Holds(p)) < productLimit[p]
    /\ upgrade' = [upgrade EXCEPT ![a] = p]
    /\ upgradeIn' = [upgradeIn EXCEPT ![a] = PaymentWindow]
    /\ UNCHANGED <<rowVars, limitVars, outsideVars, transactionVars>>
    /\ Watch

\* adjust_registration_capacity for a product and for the edition
AdjustProductCapacity(p, n) ==
    /\ ~ ProductLocked(p)
    /\ n \in 1 .. Ceiling[p]
    /\ n >= Cardinality(OccupiedIn(p)) + Cardinality(Holds(p))
    /\ n # productLimit[p]
    /\ productLimit' = [productLimit EXCEPT ![p] = n]
    /\ UNCHANGED <<rowVars, upgradeVars, overallLimit, outsideVars, transactionVars>>
    /\ Watch

\* Variant: the ceiling of the edition is not enforced.
AdjustOverallUnbounded(n) ==
    /\ n >= Cardinality(Occupied)
    /\ n # overallLimit
    /\ overallLimit' = n
    /\ UNCHANGED <<rowVars, upgradeVars, productLimit, outsideVars, transactionVars>>
    /\ Watch

AdjustOverallCapacity(n) ==
    /\ n \in 1 .. OverallCeiling
    /\ n >= Cardinality(Occupied)
    /\ n # overallLimit
    /\ overallLimit' = n
    /\ UNCHANGED <<rowVars, upgradeVars, productLimit, outsideVars, transactionVars>>
    /\ Watch

Waiting(p) == {a \in Accounts : state[a] = "waitlisted" /\ product[a] = p /\ active[a]}

\* The places a batch of size n can offer.
OfferCount(p, n) ==
    LET overallSlots == overallLimit - Cardinality(Occupied)
        productSlots == productLimit[p] - Cardinality(OccupiedIn(p)) - Cardinality(Holds(p))
        Least(x, y) == IF x < y THEN x ELSE y
        count == Least(n, Least(overallSlots, productSlots))
    IN  IF count < 0 THEN 0 ELSE Least(count, Cardinality(Waiting(p)))

\* offer_next_waitlist_batch
OfferWaitlistBatch(p, n, chosen) ==
    /\ ~ ProductLocked(p)
    /\ WaitlistEnabled[p] /\ open[p]
    /\ chosen \subseteq Waiting(p)
    /\ Cardinality(chosen) = OfferCount(p, n)
    /\ WriteRows(chosen, [a \in Accounts |-> Admission(p)])
    /\ UNCHANGED <<product, upgradeVars, limitVars, outsideVars, transactionVars>>
    /\ Watch

-----------------------------------------------------------------------------
(* Transactions on one registration that do not depend on capacity *)

\* confirm_demo_payment or a verified payment.succeeded event: the payment
\* was made before the deadline, and the place has not been expired yet.
\* The former locks the product, the latter the edition.
ConfirmPayment(a) ==
    /\ ~ Locked(a)
    /\ ~ ProductLocked(product[a]) \/ ~ EditionLocked
    /\ state[a] = "payment_pending"
    /\ state' = [state EXCEPT ![a] = "confirmed"]
    /\ basis' = [basis EXCEPT ![a] = "provider"]
    /\ dueIn' = [dueIn EXCEPT ![a] = 0]
    /\ entitlements' = [entitlements EXCEPT ![a] = Granted(a, Code[product[a]])]
    /\ UNCHANGED <<product, upgradeVars, limitVars, outsideVars, transactionVars>>
    /\ Watch

WaiveRegistrationPayment(a) ==
    /\ ~ Locked(a) /\ ~ ProductLocked(product[a])
    /\ state[a] = "payment_pending"
    /\ state' = [state EXCEPT ![a] = "confirmed"]
    /\ basis' = [basis EXCEPT ![a] = "waiver"]
    /\ dueIn' = [dueIn EXCEPT ![a] = 0]
    /\ entitlements' = [entitlements EXCEPT ![a] = Granted(a, Code[product[a]])]
    /\ UNCHANGED <<product, upgradeVars, limitVars, outsideVars, transactionVars>>
    /\ Watch

ExtendPaymentDeadline(a, d) ==
    /\ ~ Locked(a)
    /\ state[a] = "payment_pending"
    /\ dueIn' = [dueIn EXCEPT ![a] = d]
    /\ UNCHANGED <<state, product, basis, entitlements, upgradeVars, limitVars,
                   outsideVars, transactionVars>>
    /\ Watch

CheckInRegistration(a) ==
    /\ ~ Locked(a)
    /\ state[a] = "confirmed"
    /\ state' = [state EXCEPT ![a] = "checked_in"]
    /\ UNCHANGED <<product, basis, dueIn, entitlements, upgradeVars, limitVars,
                   outsideVars, transactionVars>>
    /\ Watch

\* expire_admission_tier_replacements: only the hold is released.
ExpireTierReplacement(a) ==
    /\ ~ Locked(a) /\ ~ EditionLocked
    /\ upgrade[a] # NoProduct
    /\ upgradeIn[a] = 0
    /\ upgrade' = [upgrade EXCEPT ![a] = NoProduct]
    /\ UNCHANGED <<rowVars, upgradeIn, limitVars, outsideVars, transactionVars>>
    /\ Watch

\* apply_restriction_consequences for a person who is already on site.
RestrictCheckedIn(a) ==
    /\ ~ Locked(a) /\ ~ ProductLocked(product[a]) /\ ~ EditionLocked
    /\ state[a] = "checked_in"
    /\ entitlements' = [entitlements EXCEPT ![a] = Revoked(a)]
    /\ UNCHANGED <<state, product, basis, dueIn, upgradeVars, limitVars,
                   outsideVars, transactionVars>>
    /\ Watch

-----------------------------------------------------------------------------
(* Guardian consent and the lifecycle processor *)

\* accept_guardian_consent: the configured capacities decide.
AcceptGuardianConsent(a) ==
    LET next == IF ConfiguredRoom(product[a]) THEN Admission(product[a]) ELSE "waitlisted"
    IN  /\ ~ Locked(a) /\ ~ ProductLocked(product[a]) /\ ~ EditionLocked
        /\ state[a] = "guardian_pending"
        /\ WriteRows({a}, [b \in Accounts |-> next])
        /\ UNCHANGED <<product, upgradeVars, limitVars, outsideVars, transactionVars>>
        /\ Watch

\* _promote_waitlist_for_product for a transaction that closes a: whether
\* there is a place to offer, and to whom.
MayPromote(a) == AutomaticPromotion /\ open[product[a]] /\ Room(product[a], {a})
Others(a) == Waiting(product[a]) \ {a}

\* a is closed with state next and, unless w is Nobody, w is offered a place.
CloseRegistration(a, next, w) ==
    /\ WriteRows({a, w} \ {Nobody},
                 [b \in Accounts |-> IF b = a THEN next ELSE Admission(product[a])])
    /\ UNCHANGED <<product, upgradeVars, limitVars, outsideVars>>

\* Variant: closed waitlists and overdue payments are left to the operators.
InactiveTargets(a) ==
    IF state[a] \in {"waitlisted", "payment_pending"} /\ ~ active[a] THEN {"cancelled"} ELSE {}

\* _lifecycle_transition_for: the state it closes a with, if any.
LifecycleTargets(a) ==
    IF state[a] \notin {"waitlisted", "payment_pending"} THEN {}
    ELSE IF ~ active[a] THEN {"cancelled"}
    ELSE IF state[a] = "waitlisted" /\ ~ open[product[a]] THEN {"cancelled"}
    ELSE IF state[a] = "payment_pending" /\ dueIn[a] = 0 THEN {"expired"}
    ELSE {}

LifecycleCandidates == {a \in Accounts : LifecycleTargets(a) # {}}

\* process_registration_lifecycle, for one edition or for all, reads its
\* candidates and then visits them one by one.
BeginLifecyclePass(oneEdition) ==
    /\ pass = {}
    /\ pass' = IF oneEdition THEN LifecycleCandidates ELSE LifecycleCandidates \ behind
    /\ UNCHANGED <<rowVars, upgradeVars, limitVars, outsideVars, inflight, paying, raced>>

VisitCandidate(a) ==
    /\ a \in pass
    /\ ~ Locked(a) /\ ~ ProductLocked(product[a]) /\ ~ EditionLocked
    /\ pass' = pass \ {a}
    /\ UNCHANGED <<inflight, paying>>
    /\ Watch

CloseCandidate(a) ==
    /\ VisitCandidate(a)
    /\ \E next \in LifecycleTargets(a) :
        \E w \in IF MayPromote(a) /\ Others(a) # {} THEN Others(a) ELSE {Nobody} :
            CloseRegistration(a, next, w)

\* The candidate has been paid, extended or closed since the pass began.
SkipCandidate(a) ==
    /\ VisitCandidate(a)
    /\ LifecycleTargets(a) = {}
    /\ UNCHANGED <<rowVars, upgradeVars, limitVars, outsideVars>>

\* One candidate, judged again under its lock.
ProcessLifecycle(a) == CloseCandidate(a) \/ SkipCandidate(a)

\* Another edition is cancelled, or archived without the closure gates being
\* enforced, with a registration that is or becomes due:
\* the trigger refuses to let it expire, and the error ends every pass over
\* all editions before those that were submitted later are visited.
CloseOtherEdition(later) ==
    /\ OthersClose
    /\ behind \union {a \in Accounts : state[a] = "none"} \subseteq later
    /\ later # behind
    /\ behind' = later
    /\ pass' \in {pass, pass \ later}
    /\ UNCHANGED <<rowVars, upgradeVars, limitVars, open, active, inflight, paying, raced>>

-----------------------------------------------------------------------------
(* Transactions of two steps *)

BeginClosure(a, kind) ==
    /\ MayBegin
    /\ ~ Locked(a) /\ ~ ProductLocked(product[a])
    /\ inflight' = [inflight EXCEPT ![a] = [kind |-> kind, promote |-> MayPromote(a)]]
    /\ UNCHANGED <<rowVars, upgradeVars, limitVars, outsideVars, paying, pass>>
    /\ Watch

\* approve_financial_operation for a cancellation
ApproveCancellation(a) ==
    /\ state[a] \in {"guardian_pending", "waitlisted", "payment_pending", "confirmed"}
    /\ BeginClosure(a, "cancel")

\* apply_restriction_consequences for an attendance restriction
ApplyRestriction(a) ==
    /\ ~ EditionLocked
    /\ state[a] \in {"waitlisted", "payment_pending", "confirmed"}
    /\ BeginClosure(a, "restrict")

\* The cancellation of a commits.  Its query for the oldest entry of the
\* waitlist skips them all while another transaction holds the configuration.
CommitClosure(a) ==
    /\ inflight[a] # Idle
    /\ \E w \in IF inflight[a].promote /\ Others(a) # {}
                 THEN Others(a) \union {Nobody} ELSE {Nobody} :
            CloseRegistration(a, "cancelled", w)
    /\ inflight' = [inflight EXCEPT ![a] = Idle]
    /\ UNCHANGED <<paying, pass>>
    /\ Watch

\* A transaction with a payment for the pending upgrade of a starts: now is
\* the time that the trigger on the registration compares with the deadline.
BeginTierReplacement(a) ==
    /\ MayBegin
    /\ a \notin paying
    /\ upgrade[a] # NoProduct /\ upgradeIn[a] > 0
    /\ paying' = paying \union {a}
    /\ UNCHANGED <<rowVars, upgradeVars, limitVars, outsideVars, inflight, pass>>
    /\ Watch

\* What complete_admission_tier_replacement requires once it holds the rows.
Completable(a) ==
    /\ upgrade[a] # NoProduct
    /\ state[a] \in {"confirmed", "checked_in"}
    /\ entitlements[a][Code[product[a]]] = "active"
    /\ \/ Code[upgrade[a]] = Code[product[a]]
       \/ entitlements[a][Code[upgrade[a]]] = "none"

\* Variant: the entitlement of the lower tier is not revoked.
UpgradedKeepingSource(a) == Granted(a, Code[upgrade[a]])

\* The entitlements of a once its upgrade is complete.
Upgraded(a) ==
    IF Code[upgrade[a]] = Code[product[a]] THEN entitlements[a]
    ELSE [entitlements[a] EXCEPT ![Code[product[a]]] = "revoked", ![Code[upgrade[a]]] = "active"]

CommitTierReplacement(a) ==
    /\ a \in paying
    /\ Completable(a)
    /\ ~ Locked(a) /\ ~ ProductLocked(product[a]) /\ ~ ProductLocked(upgrade[a])
    /\ product' = [product EXCEPT ![a] = upgrade[a]]
    /\ entitlements' = [entitlements EXCEPT ![a] = Upgraded(a)]
    /\ upgrade' = [upgrade EXCEPT ![a] = NoProduct]
    /\ upgradeIn' = [upgradeIn EXCEPT ![a] = 0]
    /\ paying' = paying \ {a}
    /\ UNCHANGED <<state, basis, dueIn, limitVars, outsideVars, inflight, pass>>
    /\ Watch

\* A late success, or an error that rolls the transaction back.
AbandonTierReplacement(a) ==
    /\ a \in paying
    /\ ~ Completable(a)
    /\ paying' = paying \ {a}
    /\ UNCHANGED <<rowVars, upgradeVars, limitVars, outsideVars, inflight, pass>>
    /\ Watch

-----------------------------------------------------------------------------
(* The clock, the calendar and the identity module *)

Decrement(n) == IF n = 0 THEN 0 ELSE n - 1
Tick ==
    /\ dueIn' = [a \in Accounts |-> Decrement(dueIn[a])]
    /\ upgradeIn' = [a \in Accounts |-> Decrement(upgradeIn[a])]
    /\ UNCHANGED <<state, product, basis, upgrade, entitlements, limitVars,
                   outsideVars, transactionVars>>
    /\ Watch

CloseSales(p) ==
    /\ open[p]
    /\ open' = [open EXCEPT ![p] = FALSE]
    /\ UNCHANGED <<rowVars, upgradeVars, limitVars, active, behind, transactionVars>>
    /\ Watch

DeactivateAccount(a) ==
    /\ active[a]
    /\ Cardinality({b \in Accounts : ~ active[b]}) < MaxInactive
    /\ active' = [active EXCEPT ![a] = FALSE]
    /\ UNCHANGED <<rowVars, upgradeVars, limitVars, open, behind, transactionVars>>
    /\ Watch

Attendee(a) ==
    \/ \E p \in Products, bypass \in BOOLEAN : SubmitRegistration(a, p, bypass)
    \/ ConfirmPayment(a)
    \/ \E p \in Products : ReserveTierReplacement(a, p)
    \/ BeginTierReplacement(a)
    \/ AcceptGuardianConsent(a)

Staff ==
    \/ \E p \in Products : \E n \in 1 .. Ceiling[p] + 1 : AdjustProductCapacity(p, n)
    \/ \E n \in 1 .. OverallCeiling + 1 : AdjustOverallCapacity(n)
    \/ \E p \in Products, n \in BatchSizes, chosen \in SUBSET Accounts :
            OfferWaitlistBatch(p, n, chosen)
    \/ \E a \in Accounts :
        \/ WaiveRegistrationPayment(a)
        \/ \E d \in 1 .. PaymentWindow : ExtendPaymentDeadline(a, d)
        \/ CheckInRegistration(a)
        \/ ApproveCancellation(a)
        \/ ApplyRestriction(a)
        \/ RestrictCheckedIn(a)

Lifecycle(a) == ProcessLifecycle(a) \/ ExpireTierReplacement(a)
Commit(a) == CommitClosure(a) \/ CommitTierReplacement(a) \/ AbandonTierReplacement(a)

Next ==
    \/ \E a \in Accounts : Attendee(a) \/ Lifecycle(a) \/ Commit(a) \/ DeactivateAccount(a)
    \/ \E oneEdition \in BOOLEAN : BeginLifecyclePass(oneEdition)
    \/ \E later \in SUBSET Accounts : CloseOtherEdition(later)
    \/ Staff
    \/ Tick
    \/ \E p \in Closing : CloseSales(p)

Spec == Init /\ [][Next]_vars
-----------------------------------------------------------------------------
(* Properties *)

RowsOK ==
    /\ state \in [Accounts -> States]
    /\ product \in [Accounts -> Products \union {NoProduct}]
    /\ basis \in [Accounts -> {"none", "free", "provider", "waiver"}]
    /\ dueIn \in [Accounts -> 0 .. PaymentWindow]
    /\ entitlements \in [Accounts -> [Codes -> {"none", "active", "revoked"}]]
UpgradesOK ==
    /\ upgrade \in [Accounts -> Products \union {NoProduct}]
    /\ upgradeIn \in [Accounts -> 0 .. PaymentWindow]
LimitsOK ==
    /\ productLimit \in [Products -> Nat] /\ \A p \in Products : productLimit[p] <= Ceiling[p]
    /\ overallLimit \in 0 .. OverallCeiling
OutsideOK ==
    /\ open \in [Products -> BOOLEAN] /\ active \in [Accounts -> BOOLEAN]
    /\ behind \subseteq Accounts
TransactionsOK ==
    /\ inflight \in [Accounts -> [kind : {"none", "cancel", "restrict"}, promote : BOOLEAN]]
    /\ paying \subseteq Accounts /\ pass \subseteq Accounts
    /\ raced \in BOOLEAN

\* Every column has its type and, whatever the operators ask
\* adjust_registration_capacity for, no limit ever exceeds its ceiling.
TypeOK == RowsOK /\ UpgradesOK /\ LimitsOK /\ OutsideOK /\ TransactionsOK

\* Reservations, admissions and unexpired upgrade holds exceed the effective
\* capacity of no product, and admissions that of the edition, by more than n.
ExceedsByAtMost(n) ==
    /\ \A p \in Products :
        Cardinality(OccupiedIn(p)) + Cardinality(Holds(p)) <= productLimit[p] + n
    /\ Cardinality(Occupied) <= overallLimit + n

\* "No oversubscription; loser waits or receives full result."
NoOversubscription == ExceedsByAtMost(0)

\* What holds of it without minors: submissions, promotions, batches, upgrades,
\* expiries and adjustments never oversubscribe a product or the edition as
\* long as nothing comes between the steps of a cancellation, restriction or
\* upgrade payment; if something does, each of them costs one place at most.
OversubscriptionBounded == ExceedsByAtMost(IF raced THEN MaxInflight ELSE 0)

\* Exactly one active admission: a confirmed registration has one active
\* entitlement, that of its present product; someone checked in has it unless
\* a restriction took it away; nobody else has any.
ActiveCodes(a) == {c \in Codes : entitlements[a][c] = "active"}
EntitlementFollowsAdmission ==
    \A a \in Accounts :
        /\ state[a] = "confirmed" => ActiveCodes(a) = {Code[product[a]]}
        /\ state[a] = "checked_in" => ActiveCodes(a) \subseteq {Code[product[a]]}
        /\ state[a] \notin {"confirmed", "checked_in"} => ActiveCodes(a) = {}

\* The transitions that the trigger maru_guard_registration_record accepts: a
\* decision taken before a commit is never applied to a registration that
\* has moved on since.
AllowedTransitions ==
    {"none"} \X {"guardian_pending", "waitlisted", "payment_pending", "confirmed"}
    \union {"guardian_pending"} \X {"waitlisted", "payment_pending", "confirmed", "cancelled"}
    \union {"waitlisted"} \X {"payment_pending", "confirmed", "cancelled"}
    \union {"payment_pending"} \X {"confirmed", "expired", "cancelled"}
    \union {"confirmed"} \X {"checked_in", "cancelled"}
TriggerAcceptsTransitions ==
    [][\A a \in Accounts :
        state'[a] # state[a] => <<state[a], state'[a]>> \in AllowedTransitions]_vars

\* "A full eligible offer enters `waitlisted` only when both edition and
\* product policy allow it."
WaitlistedByPolicy ==
    \A a \in Accounts : state[a] = "waitlisted" => WaitlistEnabled[product[a]]

\* The command that runs the passes is repeated, and one pass visits all its
\* candidates: it waits for their locks.  Transactions that have begun end.
FairSpec ==
    /\ Spec
    /\ WF_vars(BeginLifecyclePass(FALSE)) /\ SF_vars(\E a \in Accounts : ProcessLifecycle(a))
    /\ \A a \in Accounts : WF_vars(Commit(a))

\* An overdue reservation does not hold its place for ever: the passes, one
\* candidate at a time and in any order, expire it unless it is paid, waived,
\* extended or cancelled first.  The one exception is a reservation that comes
\* after a registration which a closed edition does not let expire.
Overdue(a) == state[a] = "payment_pending" /\ dueIn[a] = 0
OverdueReleased == \A a \in Accounts : Overdue(a) ~> (~ Overdue(a) \/ a \in behind)
=============================================================================
