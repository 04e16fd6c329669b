--------------------- MODULE RegistrationCapacity_proofs ---------------------
(***************************************************************************)
(* Proofs about RegistrationCapacity for every set of accounts, products   *)
(* and entitlement codes, every capacity, ceiling and price, and any       *)
(* number of transactions between their two steps.                         *)
(***************************************************************************)
EXTENDS RegistrationCapacity, FiniteSetTheorems, TLAPS

-----------------------------------------------------------------------------
(* The registrations.  EntitlementFollowsAdmission is not inductive alone: *)
(* a closure commits long after it has read its registration, so it needs  *)
(* that nothing changes a registration that is locked, and in particular   *)
(* that no promotion chooses one.                                          *)

Closable == {"guardian_pending", "waitlisted", "payment_pending", "confirmed"}

\* A registration has a product.
HasProduct == \A a \in Accounts : state[a] # "none" => product[a] \in Products

\* A closure holds an open registration, and its product for itself.
LocksOK ==
    /\ \A a \in Accounts : Locked(a) => state[a] \in Closable
    /\ \A a, b \in Accounts : Locked(a) /\ Locked(b) /\ product[a] = product[b] => a = b

RInv == TypeOK /\ HasProduct /\ LocksOK /\ EntitlementFollowsAdmission

-----------------------------------------------------------------------------
(* What a step may do to the registration of b *)

Same(b) ==
    /\ state'[b] = state[b] /\ product'[b] = product[b] /\ entitlements'[b] = entitlements[b]

\* The entitlement that goes with the next state of an admission to p.
Grants(b, p) ==
    entitlements'[b] = IF state'[b] = "confirmed" THEN Granted(b, Code[p]) ELSE entitlements[b]

Submitted(b) ==
    /\ state[b] = "none" /\ product'[b] \in Products
    /\ state'[b] \in Closable
    /\ Grants(b, product'[b])

Offered(b) ==
    /\ ~ Locked(b) /\ product'[b] = product[b]
    /\ \/ state[b] = "guardian_pending" /\ state'[b] \in Closable \ {"guardian_pending"}
       \/ state[b] = "waitlisted" /\ state'[b] \in {"payment_pending", "confirmed"}
       \/ state[b] = "payment_pending" /\ state'[b] = "confirmed"
    /\ Grants(b, product[b])

Arrived(b) ==
    /\ ~ Locked(b) /\ product'[b] = product[b] /\ entitlements'[b] = entitlements[b]
    /\ state[b] = "confirmed" /\ state'[b] = "checked_in"

Closed(b) ==
    /\ ~ Locked(b) \/ ~ Locked(b)'
    /\ product'[b] = product[b] /\ entitlements'[b] = Revoked(b)
    /\ \/ state[b] \in Closable /\ state'[b] = "cancelled"
       \/ state[b] = "payment_pending" /\ state'[b] = "expired"

Restricted(b) ==
    /\ ~ Locked(b) /\ product'[b] = product[b] /\ entitlements'[b] = Revoked(b)
    /\ state[b] = "checked_in" /\ state'[b] = "checked_in"

Replaced(b) ==
    /\ ~ Locked(b) /\ Completable(b)
    /\ state'[b] = state[b] /\ product'[b] = upgrade[b] /\ entitlements'[b] = Upgraded(b)

RowStep(b) ==
    \/ Same(b) \/ Submitted(b) \/ Offered(b) \/ Arrived(b) \/ Closed(b) \/ Restricted(b)
    \/ Replaced(b)

\* What WriteRows does to the row of an account.
LEMMA WrittenRow ==
    ASSUME NEW changed, NEW next, WriteRows(changed, next), NEW b \in Accounts
    PROVE  /\ b \notin changed => /\ state'[b] = state[b] /\ entitlements'[b] = entitlements[b]
                                  /\ basis'[b] = basis[b] /\ dueIn'[b] = dueIn[b]
           /\ b \in changed =>
                /\ state'[b] = next[b]
                /\ basis'[b] \in {"free", basis[b]} /\ dueIn'[b] \in {0, PaymentWindow}
                /\ next[b] = "confirmed" => entitlements'[b] = Granted(b, Code[product[b]])
                /\ next[b] \in {"cancelled", "expired"} => entitlements'[b] = Revoked(b)
                /\ next[b] \notin {"confirmed", "cancelled", "expired"} =>
                        entitlements'[b] = entitlements[b]
<1>1. CASE b \notin changed
  BY <1>1 DEF WriteRows
<1>2. CASE b \in changed
  <2>1. /\ state'[b] = Written(b, next[b]).state /\ basis'[b] = Written(b, next[b]).basis
        /\ dueIn'[b] = Written(b, next[b]).dueIn
        /\ entitlements'[b] = Written(b, next[b]).entitlements
    BY <1>2 DEF WriteRows
  <2>2. /\ Written(b, next[b]).state = next[b]
        /\ Written(b, next[b]).basis \in {"free", basis[b]}
        /\ Written(b, next[b]).dueIn \in {0, PaymentWindow}
    BY DEF Written
  <2>3. /\ next[b] = "confirmed" => Written(b, next[b]).entitlements = Granted(b, Code[product[b]])
        /\ next[b] \in {"cancelled", "expired"} => Written(b, next[b]).entitlements = Revoked(b)
        /\ next[b] \notin {"confirmed", "cancelled", "expired"} =>
                Written(b, next[b]).entitlements = entitlements[b]
    BY DEF Written
  <2> QED
    BY <1>2, <2>1, <2>2, <2>3
<1> QED
  BY <1>1, <1>2

\* The outcome of an admission.
LEMMA AdmissionState == \A p : Admission(p) \in {"payment_pending", "confirmed"}
BY DEF Admission

\* A new registration.
LEMMA SubmitRows ==
    ASSUME RInv, NEW a \in Accounts, NEW p \in Products, NEW bypass \in BOOLEAN,
           SubmitRegistration(a, p, bypass), NEW b \in Accounts
    PROVE  RowStep(b)
<1>1. PICK next : /\ next = IF a \in Minors THEN "guardian_pending"
                            ELSE IF ~ Room(p, {}) THEN "waitlisted" ELSE Admission(p)
  OBVIOUS
<1>2. /\ state[a] = "none" /\ state' = [state EXCEPT ![a] = next]
      /\ product' = [product EXCEPT ![a] = p]
      /\ entitlements' = IF next = "confirmed"
                         THEN [entitlements EXCEPT ![a] = Granted(a, Code[p])] ELSE entitlements
  BY <1>1 DEF SubmitRegistration
<1>3. next \in Closable
  BY <1>1, AdmissionState DEF Closable
<1>4. CASE b # a
  BY <1>2, <1>4 DEF RInv, TypeOK, RowsOK, RowStep, Same
<1>5. CASE b = a
  BY <1>2, <1>3, <1>5 DEF RInv, TypeOK, RowsOK, RowStep, Submitted, Grants
<1> QED
  BY <1>4, <1>5

\* The steps that change one registration.
LEMMA SingleRows ==
    ASSUME RInv, NEW a \in Accounts, NEW b \in Accounts,
           \/ ConfirmPayment(a) \/ WaiveRegistrationPayment(a) \/ CheckInRegistration(a)
           \/ RestrictCheckedIn(a) \/ CommitTierReplacement(a)
    PROVE  RowStep(b)
<1> USE DEF RInv, TypeOK, RowsOK, RowStep
<1>1. CASE ConfirmPayment(a) \/ WaiveRegistrationPayment(a)
  <2>1. /\ ~ Locked(a) /\ state[a] = "payment_pending" /\ product' = product
        /\ state' = [state EXCEPT ![a] = "confirmed"]
        /\ entitlements' = [entitlements EXCEPT ![a] = Granted(a, Code[product[a]])]
    BY <1>1 DEF ConfirmPayment, WaiveRegistrationPayment
  <2>2. CASE b = a
    BY <2>1, <2>2 DEF Offered, Grants
  <2>3. CASE b # a
    BY <2>1, <2>3 DEF Same
  <2> QED
    BY <2>2, <2>3
<1>2. CASE CheckInRegistration(a)
  <2>1. CASE b = a
    BY <1>2, <2>1 DEF CheckInRegistration, Arrived
  <2>2. CASE b # a
    BY <1>2, <2>2 DEF CheckInRegistration, Same
  <2> QED
    BY <2>1, <2>2
<1>3. CASE RestrictCheckedIn(a)
  <2>1. CASE b = a
    BY <1>3, <2>1 DEF RestrictCheckedIn, Restricted
  <2>2. CASE b # a
    BY <1>3, <2>2 DEF RestrictCheckedIn, Same
  <2> QED
    BY <2>1, <2>2
<1>4. CASE CommitTierReplacement(a)
  <2>1. CASE b = a
    BY <1>4, <2>1 DEF CommitTierReplacement, Replaced
  <2>2. CASE b # a
    BY <1>4, <2>2 DEF CommitTierReplacement, Same
  <2> QED
    BY <2>1, <2>2
<1> QED
  BY <1>1, <1>2, <1>3, <1>4

\* The accounts that wait for p hold no lock when p is not locked.
LEMMA WaitingUnlocked ==
    ASSUME NEW p, NEW b \in Waiting(p), ~ ProductLocked(p)
    PROVE  b \in Accounts /\ ~ Locked(b) /\ state[b] = "waitlisted" /\ product[b] = p
BY DEF Waiting, ProductLocked, Locked

\* Offers and consents.
LEMMA OfferRows ==
    ASSUME RInv, NEW b \in Accounts,
           \/ \E p \in Products, n \in BatchSizes, chosen \in SUBSET Accounts :
                OfferWaitlistBatch(p, n, chosen)
           \/ \E a \in Accounts : AcceptGuardianConsent(a)
    PROVE  RowStep(b)
<1>1. ASSUME NEW p \in Products, NEW n \in BatchSizes, NEW chosen \in SUBSET Accounts,
             OfferWaitlistBatch(p, n, chosen)
      PROVE  RowStep(b)
  <2>1. WriteRows(chosen, [a \in Accounts |-> Admission(p)]) /\ product' = product
    BY <1>1 DEF OfferWaitlistBatch
  <2>2. CASE b \notin chosen
    BY <2>1, <2>2, WrittenRow DEF RowStep, Same
  <2>3. CASE b \in chosen
    <3>1. ~ Locked(b) /\ state[b] = "waitlisted"
      BY <1>1, <2>3, WaitingUnlocked DEF OfferWaitlistBatch
    <3>2. /\ state'[b] = Admission(p)
          /\ Admission(p) = "confirmed" => entitlements'[b] = Granted(b, Code[product[b]])
          /\ Admission(p) \notin {"confirmed", "cancelled", "expired"} =>
                entitlements'[b] = entitlements[b]
      BY <2>1, <2>3, WrittenRow
    <3> QED
      BY <2>1, <3>1, <3>2, AdmissionState DEF RowStep, Offered, Grants
  <2> QED
    BY <2>2, <2>3
<1>2. ASSUME NEW a \in Accounts, AcceptGuardianConsent(a)
      PROVE  RowStep(b)
  <2>1. PICK next : next = IF ConfiguredRoom(product[a]) THEN Admission(product[a]) ELSE "waitlisted"
    OBVIOUS
  <2>2. /\ WriteRows({a}, [c \in Accounts |-> next]) /\ product' = product
        /\ ~ Locked(a) /\ state[a] = "guardian_pending"
    BY <1>2, <2>1 DEF AcceptGuardianConsent
  <2>3. next \in {"waitlisted", "payment_pending", "confirmed"}
    BY <2>1, AdmissionState
  <2>4. CASE b # a
    BY <2>2, <2>4, WrittenRow DEF RowStep, Same
  <2>5. CASE b = a
    <3>1. /\ state'[b] = next
          /\ next = "confirmed" => entitlements'[b] = Granted(b, Code[product[b]])
          /\ next \notin {"confirmed", "cancelled", "expired"} =>
                entitlements'[b] = entitlements[b]
      BY <2>2, <2>5, WrittenRow
    <3> QED
      BY <2>2, <2>3, <2>5, <3>1 DEF RowStep, Offered, Grants, Closable
  <2> QED
    BY <2>4, <2>5
<1> QED
  BY <1>1, <1>2

\* A closure, with a promotion or without.
LEMMA CloseRows ==
    ASSUME RInv, NEW a \in Accounts, NEW next, NEW w, CloseRegistration(a, next, w),
           ~ Locked(a) \/ ~ Locked(a)',
           \/ state[a] \in Closable /\ next = "cancelled"
           \/ state[a] = "payment_pending" /\ next = "expired",
           w = Nobody \/ (w \in Others(a) /\ ~ Locked(w)),
           NEW b \in Accounts
    PROVE  RowStep(b)
<1>1. PICK f : f = [c \in Accounts |-> IF c = a THEN next ELSE Admission(product[a])]
  OBVIOUS
<1>2. WriteRows({a, w} \ {Nobody}, f) /\ product' = product
  BY <1>1 DEF CloseRegistration
<1>3. b # Nobody /\ a # Nobody
  BY CatalogAssumption
<1>4. CASE b \notin {a, w}
  BY <1>2, <1>4, WrittenRow DEF RowStep, Same
<1>5. CASE b = a
  <2>1. state'[b] = next /\ (next \in {"cancelled", "expired"} => entitlements'[b] = Revoked(b))
    BY <1>1, <1>2, <1>3, <1>5, WrittenRow
  <2> QED
    BY <1>2, <1>5, <2>1 DEF RowStep, Closed
<1>6. CASE b = w /\ b # a
  <2>1. w \in Others(a) /\ ~ Locked(b) /\ state[b] = "waitlisted"
    BY <1>3, <1>6 DEF Others, Waiting
  <2>2. f[b] = Admission(product[a])
    BY <1>1, <1>6
  <2>3. /\ state'[b] = f[b]
        /\ f[b] = "confirmed" => entitlements'[b] = Granted(b, Code[product[b]])
        /\ f[b] \notin {"confirmed", "cancelled", "expired"} =>
                entitlements'[b] = entitlements[b]
    BY <1>2, <1>3, <1>6, WrittenRow
  <2> QED
    BY <1>2, <2>1, <2>2, <2>3, AdmissionState DEF RowStep, Offered, Grants
<1> QED
  BY <1>4, <1>5, <1>6

\* The lifecycle processor and the commit of a closure close a registration.
LEMMA ClosureCases ==
    ASSUME RInv, NEW a \in Accounts, CloseCandidate(a) \/ CommitClosure(a)
    PROVE  \E next \in {"cancelled", "expired"} : \E w :
                /\ CloseRegistration(a, next, w)
                /\ ~ Locked(a) \/ ~ Locked(a)'
                /\ \/ state[a] \in Closable /\ next = "cancelled"
                   \/ state[a] = "payment_pending" /\ next = "expired"
                /\ w = Nobody \/ (w \in Others(a) /\ ~ Locked(w))
<1>1. CASE CloseCandidate(a)
  <2>1. PICK next \in LifecycleTargets(a), w \in Others(a) \union {Nobody} :
            CloseRegistration(a, next, w)
    BY <1>1 DEF CloseCandidate, VisitCandidate
  <2>2. ~ Locked(a) /\ ~ ProductLocked(product[a])
    BY <1>1 DEF CloseCandidate, VisitCandidate
  <2>3. \/ state[a] \in {"waitlisted", "payment_pending"} /\ next = "cancelled"
        \/ state[a] = "payment_pending" /\ next = "expired"
    BY DEF LifecycleTargets
  <2>4. w \in Others(a) => ~ Locked(w)
    BY <2>2, WaitingUnlocked DEF Others
  <2> QED
    BY <2>1, <2>2, <2>3, <2>4 DEF Closable
<1>2. CASE CommitClosure(a)
  <2>1. PICK w \in Others(a) \union {Nobody} : CloseRegistration(a, "cancelled", w)
    BY <1>2 DEF CommitClosure
  <2>2. Locked(a) /\ inflight' = [inflight EXCEPT ![a] = Idle]
    BY <1>2 DEF CommitClosure, Locked
  <2>3. ~ Locked(a)'
    BY <2>2 DEF Locked, RInv, TypeOK, TransactionsOK
  <2>4. state[a] \in Closable
    BY <2>2 DEF RInv, LocksOK
  <2>5. w \in Others(a) => ~ Locked(w)
    BY <2>2 DEF Others, Waiting, RInv, LocksOK
  <2> QED
    BY <2>1, <2>3, <2>4, <2>5
<1> QED
  BY <1>1, <1>2

\* The steps of a lifecycle pass that close nothing, and those that shorten it.
PassStep ==
    \/ \E oneEdition \in BOOLEAN : BeginLifecyclePass(oneEdition)
    \/ \E later \in SUBSET Accounts : CloseOtherEdition(later)
    \/ \E a \in Accounts : SkipCandidate(a)

LEMMA PassSteps ==
    ASSUME RInv, PassStep
    PROVE  /\ UNCHANGED <<rowVars, upgradeVars, limitVars, open, active, inflight, paying>>
           /\ Watch \/ UNCHANGED raced
           /\ behind' \subseteq Accounts /\ pass' \subseteq Accounts
<1>0. behind \subseteq Accounts /\ pass \subseteq Accounts
  BY DEF RInv, TypeOK, OutsideOK, TransactionsOK
<1>1. ASSUME NEW oneEdition, BeginLifecyclePass(oneEdition)
      PROVE  /\ UNCHANGED <<rowVars, upgradeVars, limitVars, outsideVars, inflight, paying, raced>>
             /\ pass' \subseteq Accounts
  BY <1>1 DEF BeginLifecyclePass, LifecycleCandidates
<1>2. ASSUME NEW later \in SUBSET Accounts, CloseOtherEdition(later)
      PROVE  /\ UNCHANGED <<rowVars, upgradeVars, limitVars, open, active, inflight, paying, raced>>
             /\ behind' \subseteq Accounts /\ pass' \subseteq Accounts
  BY <1>0, <1>2 DEF CloseOtherEdition
<1>3. ASSUME NEW a \in Accounts, SkipCandidate(a)
      PROVE  /\ UNCHANGED <<rowVars, upgradeVars, limitVars, outsideVars, inflight, paying>>
             /\ Watch /\ pass' \subseteq Accounts
  BY <1>0, <1>3 DEF SkipCandidate, VisitCandidate
<1>4. CASE UNCHANGED outsideVars
  BY <1>0, <1>1, <1>2, <1>3, <1>4 DEF PassStep, outsideVars
<1> QED
  BY <1>0, <1>1, <1>2, <1>3, <1>4 DEF PassStep, outsideVars

\* The steps that leave states, products and entitlements alone.
QuietStep ==
    \/ \E a \in Accounts, p \in Products : ReserveTierReplacement(a, p)
    \/ \E a \in Accounts : \/ BeginTierReplacement(a) \/ ExpireTierReplacement(a)
                           \/ AbandonTierReplacement(a) \/ DeactivateAccount(a)
                           \/ ApproveCancellation(a) \/ ApplyRestriction(a)
                           \/ \E d \in 1 .. PaymentWindow : ExtendPaymentDeadline(a, d)
    \/ \E p \in Products, n \in Nat : AdjustProductCapacity(p, n)
    \/ \E n \in Nat : AdjustOverallCapacity(n)
    \/ Tick \/ \E p \in Closing : CloseSales(p)
    \/ PassStep
    \/ UNCHANGED vars

\* The steps that change registrations.
RowsStep ==
    \/ \E a \in Accounts, p \in Products, bypass \in BOOLEAN : SubmitRegistration(a, p, bypass)
    \/ \E a \in Accounts : \/ ConfirmPayment(a) \/ WaiveRegistrationPayment(a)
                           \/ CheckInRegistration(a) \/ RestrictCheckedIn(a)
                           \/ CommitTierReplacement(a) \/ AcceptGuardianConsent(a)
                           \/ CloseCandidate(a) \/ CommitClosure(a)
    \/ \E p \in Products, n \in BatchSizes, chosen \in SUBSET Accounts :
            OfferWaitlistBatch(p, n, chosen)

\* There are no others.
LEMMA StepKinds == [Next]_vars => QuietStep \/ RowsStep
<1> SUFFICES ASSUME [Next]_vars PROVE QuietStep \/ RowsStep
  OBVIOUS
<1>1. ASSUME NEW a \in Accounts, Attendee(a) PROVE QuietStep \/ RowsStep
  BY <1>1 DEF Attendee, QuietStep, RowsStep
<1>2. ASSUME NEW a \in Accounts, Lifecycle(a) \/ Commit(a) \/ DeactivateAccount(a)
      PROVE  QuietStep \/ RowsStep
  BY <1>2 DEF Lifecycle, ProcessLifecycle, Commit, QuietStep, RowsStep, PassStep
<1>3. CASE Staff
  <2>1. ASSUME NEW p \in Products, NEW n \in 1 .. Ceiling[p] + 1, AdjustProductCapacity(p, n)
        PROVE  QuietStep
    BY <2>1 DEF QuietStep
  <2>2. ASSUME NEW n \in 1 .. OverallCeiling + 1, AdjustOverallCapacity(n) PROVE QuietStep
    BY <2>2 DEF QuietStep
  <2>3. ASSUME NEW a \in Accounts,
               \/ WaiveRegistrationPayment(a) \/ CheckInRegistration(a) \/ ApproveCancellation(a)
               \/ \E d \in 1 .. PaymentWindow : ExtendPaymentDeadline(a, d)
               \/ ApplyRestriction(a) \/ RestrictCheckedIn(a)
        PROVE  QuietStep \/ RowsStep
    BY <2>3 DEF QuietStep, RowsStep
  <2>4. ASSUME NEW p \in Products, NEW n \in BatchSizes, NEW chosen \in SUBSET Accounts,
               OfferWaitlistBatch(p, n, chosen)
        PROVE  RowsStep
    BY <2>4 DEF RowsStep
  <2> QED
    BY <1>3, <2>1, <2>2, <2>3, <2>4 DEF Staff
<1>4. CASE Tick \/ (\E p \in Closing : CloseSales(p)) \/ UNCHANGED vars
  BY <1>4 DEF QuietStep
<1>5. CASE \/ \E oneEdition \in BOOLEAN : BeginLifecyclePass(oneEdition)
           \/ \E later \in SUBSET Accounts : CloseOtherEdition(later)
  BY <1>5 DEF QuietStep, PassStep
<1> QED
  BY <1>1, <1>2, <1>3, <1>4, <1>5 DEF Next

\* Quiet steps are quiet.
LEMMA QuietRows ==
    ASSUME RInv, QuietStep
    PROVE  UNCHANGED <<state, product, entitlements>>
BY PassSteps DEF QuietStep, ReserveTierReplacement, BeginTierReplacement, ExpireTierReplacement,
       AbandonTierReplacement, DeactivateAccount, ApproveCancellation, ApplyRestriction,
       BeginClosure, ExtendPaymentDeadline, AdjustProductCapacity, AdjustOverallCapacity, Tick,
       CloseSales, vars, rowVars

\* Each step changes each registration in one of the seven ways.
LEMMA RowSteps ==
    ASSUME RInv, [Next]_vars, NEW b \in Accounts
    PROVE  RowStep(b)
<1>1. CASE QuietStep
  BY <1>1, QuietRows DEF RowStep, Same
<1>2. CASE RowsStep
  <2>1. ASSUME NEW a \in Accounts, CloseCandidate(a) \/ CommitClosure(a) PROVE RowStep(b)
    BY <2>1, ClosureCases, CloseRows
  <2> QED
    BY <1>2, <2>1, SubmitRows, SingleRows, OfferRows DEF RowsStep
<1> QED
  BY <1>1, <1>2, StepKinds

\* maru_guard_registration_record accepts each of them.
LEMMA TransitionAllowed ==
    ASSUME NEW b \in Accounts, RowStep(b), state'[b] # state[b]
    PROVE  <<state[b], state'[b]>> \in AllowedTransitions
<1>1. CASE Submitted(b)
  BY <1>1 DEF Submitted, Closable, AllowedTransitions
<1>2. CASE Offered(b)
  BY <1>2 DEF Offered, Closable, AllowedTransitions
<1>3. CASE Arrived(b)
  BY <1>3 DEF Arrived, AllowedTransitions
<1>4. CASE Closed(b)
  BY <1>4 DEF Closed, Closable, AllowedTransitions
<1> QED
  BY <1>1, <1>2, <1>3, <1>4 DEF RowStep, Same, Restricted, Replaced

\* Entitlements follow the registration in each of them.
LEMMA EntitlementRow ==
    ASSUME RInv, NEW b \in Accounts, RowStep(b)
    PROVE  /\ state'[b] # "none" => product'[b] \in Products
           /\ state'[b] = "confirmed" => ActiveCodes(b)' = {Code[product'[b]]}
           /\ state'[b] = "checked_in" => ActiveCodes(b)' \subseteq {Code[product'[b]]}
           /\ state'[b] \notin {"confirmed", "checked_in"} => ActiveCodes(b)' = {}
<1>0. /\ state[b] # "none" => product[b] \in Products
      /\ state[b] = "confirmed" => ActiveCodes(b) = {Code[product[b]]}
      /\ state[b] = "checked_in" => ActiveCodes(b) \subseteq {Code[product[b]]}
      /\ state[b] \notin {"confirmed", "checked_in"} => ActiveCodes(b) = {}
  BY DEF RInv, HasProduct, EntitlementFollowsAdmission
<1>1. entitlements[b] \in [Codes -> {"none", "active", "revoked"}]
  BY DEF RInv, TypeOK, RowsOK
<1>2. ASSUME entitlements'[b] = entitlements[b] PROVE ActiveCodes(b)' = ActiveCodes(b)
  BY <1>2 DEF ActiveCodes
<1>3. ASSUME entitlements'[b] = Revoked(b) PROVE ActiveCodes(b)' = {}
  BY <1>3 DEF ActiveCodes, Revoked
<1>4. ASSUME NEW c \in Codes, entitlements'[b] = Granted(b, c)
      PROVE  ActiveCodes(b)' = ActiveCodes(b) \union {c}
  BY <1>1, <1>4 DEF ActiveCodes, Granted
<1>5. \A p \in Products : Code[p] \in Codes
  BY CatalogAssumption
<1>6. CASE Same(b)
  BY <1>0, <1>2, <1>6 DEF Same
<1>7. CASE Submitted(b)
  BY <1>0, <1>2, <1>4, <1>5, <1>7 DEF Submitted, Grants, Closable
<1>8. CASE Offered(b)
  BY <1>0, <1>2, <1>4, <1>5, <1>8 DEF Offered, Grants, Closable
<1>9. CASE Arrived(b)
  BY <1>0, <1>2, <1>9 DEF Arrived
<1>10. CASE Closed(b)
  BY <1>0, <1>3, <1>10 DEF Closed, Closable
<1>11. CASE Restricted(b)
  BY <1>0, <1>3, <1>11 DEF Restricted
<1>12. CASE Replaced(b)
  <2>1. /\ state[b] \in {"confirmed", "checked_in"} /\ upgrade[b] \in Products
        /\ entitlements[b][Code[product[b]]] = "active"
    BY <1>12 DEF Replaced, Completable, RInv, TypeOK, UpgradesOK
  <2>2. product[b] \in Products /\ Code[product[b]] \in Codes /\ Code[upgrade[b]] \in Codes
    BY <1>0, <1>5, <2>1
  <2>3. ActiveCodes(b) = {Code[product[b]]}
    BY <1>0, <2>1, <2>2 DEF ActiveCodes
  <2>4. CASE Code[upgrade[b]] = Code[product[b]]
    BY <1>2, <1>12, <2>1, <2>3, <2>4 DEF Replaced, Upgraded
  <2>5. CASE Code[upgrade[b]] # Code[product[b]]
    <3>1. entitlements'[b] = [entitlements[b] EXCEPT ![Code[product[b]]] = "revoked",
                                                     ![Code[upgrade[b]]] = "active"]
      BY <1>12, <2>5 DEF Replaced, Upgraded
    <3>2. ActiveCodes(b)' = {Code[upgrade[b]]}
      BY <1>1, <2>2, <2>3, <2>5, <3>1 DEF ActiveCodes
    <3> QED
      BY <1>12, <2>1, <3>2 DEF Replaced
  <2> QED
    BY <2>4, <2>5
<1> QED
  BY <1>6, <1>7, <1>8, <1>9, <1>10, <1>11, <1>12 DEF RowStep

\* The locks after a step.
LEMMA LocksStep ==
    ASSUME RInv, [Next]_vars
    PROVE  LocksOK'
<1>0. \A b \in Accounts : RowStep(b)
  BY RowSteps
<1>1. \A b \in Accounts : Locked(b) /\ Locked(b)' => Same(b)
  <2> SUFFICES ASSUME NEW b \in Accounts, Locked(b), Locked(b)' PROVE Same(b)
    OBVIOUS
  <2>1. state[b] \in Closable
    BY DEF RInv, LocksOK
  <2> QED
    BY <1>0, <2>1 DEF RowStep, Submitted, Offered, Arrived, Closed, Restricted, Replaced, Closable
<1>2. ASSUME \A b \in Accounts : Locked(b)' => Locked(b)
      PROVE  LocksOK'
  BY <1>1, <1>2 DEF RInv, LocksOK, Same
<1>3. ASSUME NEW a \in Accounts, NEW kind, BeginClosure(a, kind), state[a] \in Closable
      PROVE  LocksOK'
  <2>1. /\ ~ Locked(a) /\ ~ ProductLocked(product[a]) /\ UNCHANGED <<state, product>>
        /\ \A b \in Accounts \ {a} : inflight'[b] = inflight[b]
    BY <1>3 DEF BeginClosure, RInv, TypeOK, TransactionsOK, rowVars
  <2>2. \A b \in Accounts \ {a} : Locked(b)' <=> Locked(b)
    BY <2>1 DEF Locked
  <2>3. \A b \in Accounts : Locked(b) => product[b] # product[a]
    BY <2>1 DEF ProductLocked, Locked
  <2> QED
    BY <1>3, <2>1, <2>2, <2>3 DEF RInv, LocksOK
<1>4. CASE UNCHANGED inflight
  BY <1>2, <1>4 DEF Locked
<1>5. ASSUME NEW a \in Accounts, CommitClosure(a) PROVE LocksOK'
  <2>1. \A b \in Accounts : Locked(b)' => Locked(b)
    BY <1>5 DEF CommitClosure, Locked, RInv, TypeOK, TransactionsOK
  <2> QED
    BY <1>2, <2>1
<1>6. CASE QuietStep
  <2>1. ASSUME NEW a \in Accounts, ApproveCancellation(a) \/ ApplyRestriction(a) PROVE LocksOK'
    BY <1>3, <2>1 DEF ApproveCancellation, ApplyRestriction, Closable
  <2>2. PassStep => UNCHANGED inflight
    BY PassSteps
  <2> QED
    BY <1>4, <1>6, <2>1, <2>2
    DEF QuietStep, ReserveTierReplacement, BeginTierReplacement, ExpireTierReplacement,
        AbandonTierReplacement, DeactivateAccount, ExtendPaymentDeadline, AdjustProductCapacity,
        AdjustOverallCapacity, Tick, CloseSales, vars, transactionVars
<1>7. CASE RowsStep
  BY <1>4, <1>5, <1>7
  DEF RowsStep, SubmitRegistration, ConfirmPayment, WaiveRegistrationPayment,
      CheckInRegistration, RestrictCheckedIn, CommitTierReplacement, AcceptGuardianConsent,
      CloseCandidate, VisitCandidate, OfferWaitlistBatch, transactionVars
<1> QED
  BY <1>6, <1>7, StepKinds

-----------------------------------------------------------------------------
(* The types *)

\* A row that is well typed stays so in each of the seven ways.
LEMMA RowTyped ==
    ASSUME RInv, NEW b \in Accounts, RowStep(b)
    PROVE  /\ state'[b] \in States /\ product'[b] \in Products \union {NoProduct}
           /\ entitlements'[b] \in [Codes -> {"none", "active", "revoked"}]
<1>1. /\ state[b] \in States /\ product[b] \in Products \union {NoProduct}
      /\ upgrade[b] \in Products \union {NoProduct}
      /\ entitlements[b] \in [Codes -> {"none", "active", "revoked"}]
  BY DEF RInv, TypeOK, RowsOK, UpgradesOK
<1>2. state'[b] \in States /\ product'[b] \in Products \union {NoProduct}
  BY <1>1 DEF RowStep, Same, Submitted, Offered, Arrived, Closed, Restricted, Replaced, Closable,
              States, OccupiedStates
<1>3. /\ Revoked(b) \in [Codes -> {"none", "active", "revoked"}]
      /\ \A c : Granted(b, c) \in [Codes -> {"none", "active", "revoked"}]
      /\ Upgraded(b) \in [Codes -> {"none", "active", "revoked"}]
  BY <1>1 DEF Revoked, Granted, Upgraded
<1>4. entitlements'[b] \in [Codes -> {"none", "active", "revoked"}]
  BY <1>1, <1>3 DEF RowStep, Same, Submitted, Offered, Arrived, Closed, Restricted, Replaced, Grants
<1> QED
  BY <1>2, <1>4

IsRow(f) == f = [a \in Accounts |-> f[a]]

\* The rows keep their types.
LEMMA RowsStepOK ==
    ASSUME RInv, [Next]_vars
    PROVE  RowsOK'
<1>0. PaymentWindow \in Nat /\ 0 \in 0 .. PaymentWindow /\ PaymentWindow \in 0 .. PaymentWindow
  BY BoundAssumption
<1>1. RowsOK
  BY DEF RInv, TypeOK
<1>2. IsRow(state') /\ IsRow(product') /\ IsRow(entitlements')
  <2>0. IsRow(state) /\ IsRow(product) /\ IsRow(entitlements)
    BY <1>1 DEF IsRow, RowsOK
  <2>1. ASSUME NEW f, IsRow(f), NEW a, NEW x PROVE IsRow([f EXCEPT ![a] = x])
    BY <2>1 DEF IsRow
  <2>2. CASE QuietStep
    BY <2>0, <2>2, QuietRows
  <2>3. ASSUME NEW changed, NEW next, WriteRows(changed, next), product' = product
        PROVE  IsRow(state') /\ IsRow(product') /\ IsRow(entitlements')
    BY <2>0, <2>3 DEF IsRow, WriteRows
  <2>4. ASSUME NEW a \in Accounts,
               \/ \E p \in Products, bypass \in BOOLEAN : SubmitRegistration(a, p, bypass)
               \/ ConfirmPayment(a) \/ WaiveRegistrationPayment(a) \/ CheckInRegistration(a)
               \/ RestrictCheckedIn(a) \/ CommitTierReplacement(a)
        PROVE  IsRow(state') /\ IsRow(product') /\ IsRow(entitlements')
    <3>1. \/ state' = state \/ \E x : state' = [state EXCEPT ![a] = x]
      BY <2>4 DEF SubmitRegistration, ConfirmPayment, WaiveRegistrationPayment,
                  CheckInRegistration, RestrictCheckedIn, CommitTierReplacement
    <3>2. \/ product' = product \/ \E x : product' = [product EXCEPT ![a] = x]
      BY <2>4 DEF SubmitRegistration, ConfirmPayment, WaiveRegistrationPayment,
                  CheckInRegistration, RestrictCheckedIn, CommitTierReplacement
    <3>3. \/ entitlements' = entitlements \/ \E x : entitlements' = [entitlements EXCEPT ![a] = x]
      <4>1. CASE \E p \in Products, bypass \in BOOLEAN : SubmitRegistration(a, p, bypass)
        BY <4>1 DEF SubmitRegistration
      <4>2. CASE ConfirmPayment(a) \/ WaiveRegistrationPayment(a) \/ CheckInRegistration(a)
        BY <4>2 DEF ConfirmPayment, WaiveRegistrationPayment, CheckInRegistration
      <4>3. CASE RestrictCheckedIn(a) \/ CommitTierReplacement(a)
        BY <4>3 DEF RestrictCheckedIn, CommitTierReplacement
      <4> QED
        BY <2>4, <4>1, <4>2, <4>3
    <3> QED
      BY <2>0, <2>1, <3>1, <3>2, <3>3
  <2>5. ASSUME NEW a \in Accounts,
               AcceptGuardianConsent(a) \/ CloseCandidate(a) \/ CommitClosure(a)
        PROVE  IsRow(state') /\ IsRow(product') /\ IsRow(entitlements')
    BY <2>3, <2>5 DEF AcceptGuardianConsent, CloseCandidate, VisitCandidate, CommitClosure, CloseRegistration
  <2>6. ASSUME NEW p, NEW n, NEW chosen, OfferWaitlistBatch(p, n, chosen)
        PROVE  IsRow(state') /\ IsRow(product') /\ IsRow(entitlements')
    BY <2>3, <2>6 DEF OfferWaitlistBatch
  <2> QED
    BY <2>2, <2>4, <2>5, <2>6, StepKinds DEF RowsStep
<1>3. /\ state' \in [Accounts -> States]
      /\ product' \in [Accounts -> Products \union {NoProduct}]
      /\ entitlements' \in [Accounts -> [Codes -> {"none", "active", "revoked"}]]
  BY <1>2, RowSteps, RowTyped DEF IsRow
<1>4. /\ basis' \in [Accounts -> {"none", "free", "provider", "waiver"}]
      /\ dueIn' \in [Accounts -> 0 .. PaymentWindow]
  <2>0. /\ basis \in [Accounts -> {"none", "free", "provider", "waiver"}]
        /\ dueIn \in [Accounts -> 0 .. PaymentWindow]
    BY <1>1 DEF RowsOK
  <2> DEFINE Goal == /\ basis' \in [Accounts -> {"none", "free", "provider", "waiver"}]
                     /\ dueIn' \in [Accounts -> 0 .. PaymentWindow]
  <2> SUFFICES Goal
    OBVIOUS
  <2>1. ASSUME NEW changed, NEW next, WriteRows(changed, next) PROVE Goal
    <3>1. IsRow(basis') /\ IsRow(dueIn')
      BY <2>1 DEF IsRow, WriteRows
    <3>2. \A b \in Accounts : /\ basis'[b] \in {"none", "free", "provider", "waiver"}
                              /\ dueIn'[b] \in 0 .. PaymentWindow
      BY <1>0, <2>0, <2>1, WrittenRow
    <3> QED
      BY <3>1, <3>2 DEF IsRow
  <2>2. CASE UNCHANGED <<basis, dueIn>>
    BY <2>0, <2>2
  <2>3. ASSUME NEW a \in Accounts, NEW p \in Products, NEW bypass \in BOOLEAN,
               SubmitRegistration(a, p, bypass)
        PROVE  Goal
    BY <1>0, <2>0, <2>3 DEF SubmitRegistration
  <2>4. ASSUME NEW a \in Accounts, ConfirmPayment(a) \/ WaiveRegistrationPayment(a) PROVE Goal
    BY <1>0, <2>0, <2>4 DEF ConfirmPayment, WaiveRegistrationPayment
  <2>5. ASSUME NEW a \in Accounts, NEW d \in 1 .. PaymentWindow, ExtendPaymentDeadline(a, d)
        PROVE  Goal
    BY <1>0, <2>0, <2>5 DEF ExtendPaymentDeadline
  <2>6. CASE Tick
    BY <1>0, <2>0, <2>6 DEF Tick, Decrement
  <2>7. CASE RowsStep
    <3>1. ASSUME NEW a \in Accounts,
                 \/ CheckInRegistration(a) \/ RestrictCheckedIn(a) \/ CommitTierReplacement(a)
          PROVE  UNCHANGED <<basis, dueIn>>
      BY <3>1 DEF CheckInRegistration, RestrictCheckedIn, CommitTierReplacement
    <3>2. ASSUME NEW a \in Accounts,
                 AcceptGuardianConsent(a) \/ CloseCandidate(a) \/ CommitClosure(a)
          PROVE  Goal
      BY <2>1, <3>2 DEF AcceptGuardianConsent, CloseCandidate, VisitCandidate, CommitClosure, CloseRegistration
    <3>3. ASSUME NEW p, NEW n, NEW chosen, OfferWaitlistBatch(p, n, chosen) PROVE Goal
      BY <2>1, <3>3 DEF OfferWaitlistBatch
    <3> HIDE DEF Goal
    <3> QED
      BY <2>2, <2>3, <2>4, <2>7, <3>1, <3>2, <3>3 DEF RowsStep
  <2>8. CASE QuietStep
    <3>1. PassStep => UNCHANGED <<basis, dueIn>>
      BY PassSteps DEF rowVars
    <3> HIDE DEF Goal
    <3> QED
      BY <2>2, <2>5, <2>6, <2>8, <3>1
      DEF QuietStep, ReserveTierReplacement, BeginTierReplacement, ExpireTierReplacement,
          AbandonTierReplacement, DeactivateAccount, ApproveCancellation, ApplyRestriction,
          BeginClosure, AdjustProductCapacity, AdjustOverallCapacity, CloseSales, vars, rowVars
  <2> QED
    BY <2>7, <2>8, StepKinds
<1> QED
  BY <1>3, <1>4 DEF RowsOK

\* The rows, the holds, the limits and the calendar that RowsStep leaves alone.
LEMMA RowsStepKeeps ==
    ASSUME RowsStep
    PROVE  /\ UNCHANGED <<limitVars, outsideVars>> /\ Watch /\ pass' \subseteq pass
           /\ UNCHANGED upgradeVars \/ \E a \in Accounts : CommitTierReplacement(a)
           /\ UNCHANGED inflight \/ \E a \in Accounts : CommitClosure(a)
           /\ UNCHANGED paying \/ \E a \in Accounts : CommitTierReplacement(a)
<1>1. ASSUME NEW a \in Accounts, CommitClosure(a)
      PROVE  UNCHANGED <<limitVars, outsideVars, upgradeVars, paying, pass>> /\ Watch
  BY <1>1 DEF CommitClosure, CloseRegistration
<1>2. ASSUME NEW a \in Accounts, CommitTierReplacement(a)
      PROVE  UNCHANGED <<limitVars, outsideVars, inflight, pass>> /\ Watch
  BY <1>2 DEF CommitTierReplacement
<1>3. ASSUME NEW a \in Accounts, CloseCandidate(a)
      PROVE  /\ UNCHANGED <<limitVars, outsideVars, upgradeVars, inflight, paying>> /\ Watch
             /\ pass' \subseteq pass
  BY <1>3 DEF CloseCandidate, VisitCandidate, CloseRegistration, transactionVars
<1>4. ASSUME NEW a \in Accounts,
             \/ \E p \in Products, bypass \in BOOLEAN : SubmitRegistration(a, p, bypass)
             \/ ConfirmPayment(a) \/ WaiveRegistrationPayment(a) \/ CheckInRegistration(a)
             \/ RestrictCheckedIn(a) \/ AcceptGuardianConsent(a)
      PROVE  UNCHANGED <<limitVars, outsideVars, upgradeVars, inflight, paying, pass>> /\ Watch
  BY <1>4 DEF SubmitRegistration, ConfirmPayment, WaiveRegistrationPayment, CheckInRegistration,
              RestrictCheckedIn, AcceptGuardianConsent, transactionVars
<1>5. ASSUME NEW p, NEW n, NEW chosen, OfferWaitlistBatch(p, n, chosen)
      PROVE  UNCHANGED <<limitVars, outsideVars, upgradeVars, inflight, paying, pass>> /\ Watch
  BY <1>5 DEF OfferWaitlistBatch, transactionVars
<1> QED
  BY <1>1, <1>2, <1>3, <1>4, <1>5 DEF RowsStep

\* Holds, limits, calendar and transactions keep their types.
LEMMA OthersOK ==
    ASSUME RInv, [Next]_vars
    PROVE  UpgradesOK' /\ LimitsOK' /\ OutsideOK' /\ TransactionsOK'
<1>0. /\ UpgradesOK /\ LimitsOK /\ OutsideOK /\ TransactionsOK
      /\ PaymentWindow \in Nat /\ 0 \in 0 .. PaymentWindow /\ PaymentWindow \in 0 .. PaymentWindow
  BY BoundAssumption DEF RInv, TypeOK
<1>1. ASSUME UNCHANGED upgradeVars PROVE UpgradesOK'
  BY <1>0, <1>1 DEF UpgradesOK, upgradeVars
<1>2. ASSUME UNCHANGED limitVars PROVE LimitsOK'
  BY <1>0, <1>2 DEF LimitsOK, limitVars
<1>3. ASSUME UNCHANGED outsideVars PROVE OutsideOK'
  BY <1>0, <1>3 DEF OutsideOK, outsideVars
<1>4. ASSUME Watch \/ UNCHANGED raced PROVE raced' \in BOOLEAN
  BY <1>0, <1>4 DEF TransactionsOK, Watch
<1>5. ASSUME UNCHANGED transactionVars, raced' \in BOOLEAN PROVE TransactionsOK'
  BY <1>0, <1>5 DEF TransactionsOK, transactionVars
<1>6. CASE RowsStep
  <2>1. LimitsOK' /\ OutsideOK' /\ raced' \in BOOLEAN
    BY <1>2, <1>3, <1>4, <1>6, RowsStepKeeps
  <2>2. UpgradesOK'
    BY <1>0, <1>1, <1>6, RowsStepKeeps DEF CommitTierReplacement, UpgradesOK
  <2>3. Idle \in [kind : {"none", "cancel", "restrict"}, promote : BOOLEAN]
    BY DEF Idle
  <2>4. inflight' \in [Accounts -> [kind : {"none", "cancel", "restrict"}, promote : BOOLEAN]]
    <3>1. CASE UNCHANGED inflight
      BY <1>0, <3>1 DEF TransactionsOK
    <3>2. ASSUME NEW a \in Accounts, inflight' = [inflight EXCEPT ![a] = Idle]
          PROVE  inflight' \in [Accounts -> [kind : {"none", "cancel", "restrict"},
                                             promote : BOOLEAN]]
      BY <1>0, <2>3, <3>2 DEF TransactionsOK
    <3> QED
      BY <1>6, <3>1, <3>2, RowsStepKeeps DEF CommitClosure
  <2>5. paying' \subseteq Accounts
    BY <1>0, <1>6, RowsStepKeeps DEF CommitTierReplacement, TransactionsOK
  <2>6. pass' \subseteq Accounts
    BY <1>0, <1>6, RowsStepKeeps DEF TransactionsOK
  <2> QED
    BY <2>1, <2>2, <2>4, <2>5, <2>6 DEF TransactionsOK
<1>7. CASE QuietStep
  <2>1. ASSUME NEW a \in Accounts, NEW p \in Products, ReserveTierReplacement(a, p)
        PROVE  UpgradesOK' /\ LimitsOK' /\ OutsideOK' /\ TransactionsOK'
    <3>1. UpgradesOK'
      BY <1>0, <2>1 DEF ReserveTierReplacement, UpgradesOK
    <3> QED
      BY <1>2, <1>3, <1>4, <1>5, <2>1, <3>1 DEF ReserveTierReplacement
  <2>2. ASSUME NEW a \in Accounts, ExpireTierReplacement(a)
        PROVE  UpgradesOK' /\ LimitsOK' /\ OutsideOK' /\ TransactionsOK'
    <3>1. UpgradesOK'
      BY <1>0, <2>2 DEF ExpireTierReplacement, UpgradesOK
    <3> QED
      BY <1>2, <1>3, <1>4, <1>5, <2>2, <3>1 DEF ExpireTierReplacement
  <2>3. ASSUME NEW a \in Accounts, BeginTierReplacement(a) \/ AbandonTierReplacement(a)
        PROVE  UpgradesOK' /\ LimitsOK' /\ OutsideOK' /\ TransactionsOK'
    <3>1. raced' \in BOOLEAN
      BY <1>4, <2>3 DEF BeginTierReplacement, AbandonTierReplacement
    <3>2. inflight' = inflight /\ paying' \subseteq Accounts
      BY <1>0, <2>3 DEF BeginTierReplacement, AbandonTierReplacement, TransactionsOK
    <3> QED
      BY <1>0, <1>1, <1>2, <1>3, <2>3, <3>1, <3>2
      DEF BeginTierReplacement, AbandonTierReplacement, TransactionsOK
  <2>4. ASSUME NEW a \in Accounts, DeactivateAccount(a)
        PROVE  UpgradesOK' /\ LimitsOK' /\ OutsideOK' /\ TransactionsOK'
    <3>1. OutsideOK'
      BY <1>0, <2>4 DEF DeactivateAccount, OutsideOK
    <3> QED
      BY <1>1, <1>2, <1>4, <1>5, <2>4, <3>1 DEF DeactivateAccount
  <2>5. ASSUME NEW p \in Closing, CloseSales(p)
        PROVE  UpgradesOK' /\ LimitsOK' /\ OutsideOK' /\ TransactionsOK'
    <3>1. OutsideOK'
      BY <1>0, <2>5, BoundAssumption DEF CloseSales, OutsideOK
    <3> QED
      BY <1>1, <1>2, <1>4, <1>5, <2>5, <3>1 DEF CloseSales
  <2>6. ASSUME NEW a \in Accounts, NEW kind \in {"cancel", "restrict"}, BeginClosure(a, kind)
        PROVE  UpgradesOK' /\ LimitsOK' /\ OutsideOK' /\ TransactionsOK'
    <3>1. MayPromote(a) \in BOOLEAN
      BY DEF MayPromote
    <3>2. PICK x \in BOOLEAN : x = MayPromote(a)
      BY <3>1
    <3>3. inflight' = [inflight EXCEPT ![a] = [kind |-> kind, promote |-> x]] /\ paying' = paying
      BY <2>6, <3>2 DEF BeginClosure
    <3>4. TransactionsOK'
      BY <1>0, <1>4, <2>6, <3>3 DEF TransactionsOK, BeginClosure
    <3> QED
      BY <1>1, <1>2, <1>3, <2>6, <3>4 DEF BeginClosure
  <2>7. ASSUME NEW p \in Products, NEW n \in Nat, AdjustProductCapacity(p, n)
        PROVE  UpgradesOK' /\ LimitsOK' /\ OutsideOK' /\ TransactionsOK'
    <3>1. LimitsOK'
      BY <1>0, <2>7, CapacityAssumption DEF AdjustProductCapacity, LimitsOK
    <3> QED
      BY <1>1, <1>3, <1>4, <1>5, <2>7, <3>1 DEF AdjustProductCapacity
  <2>8. ASSUME NEW n \in Nat, AdjustOverallCapacity(n)
        PROVE  UpgradesOK' /\ LimitsOK' /\ OutsideOK' /\ TransactionsOK'
    <3>1. LimitsOK'
      BY <1>0, <2>8, CapacityAssumption DEF AdjustOverallCapacity, LimitsOK
    <3> QED
      BY <1>1, <1>3, <1>4, <1>5, <2>8, <3>1 DEF AdjustOverallCapacity
  <2>9. CASE Tick
    <3>1. UpgradesOK'
      BY <1>0, <2>9 DEF Tick, UpgradesOK, Decrement
    <3> QED
      BY <1>2, <1>3, <1>4, <1>5, <2>9, <3>1 DEF Tick
  <2>10. ASSUME NEW a \in Accounts, NEW d, ExtendPaymentDeadline(a, d)
         PROVE  UpgradesOK' /\ LimitsOK' /\ OutsideOK' /\ TransactionsOK'
    BY <1>1, <1>2, <1>3, <1>4, <1>5, <2>10 DEF ExtendPaymentDeadline
  <2>11. CASE UNCHANGED vars
    BY <1>1, <1>2, <1>3, <1>4, <1>5, <2>11
    DEF vars, upgradeVars, limitVars, outsideVars, transactionVars
  <2>12. CASE PassStep
    <3>1. UpgradesOK' /\ LimitsOK'
      BY <1>1, <1>2, <2>12, PassSteps
    <3>2. OutsideOK'
      BY <1>0, <2>12, PassSteps DEF OutsideOK
    <3>3. TransactionsOK'
      BY <1>0, <1>4, <2>12, PassSteps DEF TransactionsOK
    <3> QED
      BY <3>1, <3>2, <3>3
  <2> QED
    BY <1>7, <2>1, <2>2, <2>3, <2>4, <2>5, <2>6, <2>7, <2>8, <2>9, <2>10, <2>11, <2>12
    DEF QuietStep, ApproveCancellation, ApplyRestriction
<1> QED
  BY <1>6, <1>7, StepKinds

-----------------------------------------------------------------------------
(* The invariant of the registrations *)

\* Nobody has registered yet.
LEMMA InitRInv == Init => RInv
<1> SUFFICES ASSUME Init PROVE RInv
  OBVIOUS
<1>0. PaymentWindow \in Nat /\ 0 \in 0 .. PaymentWindow
  BY BoundAssumption
<1>1. RowsOK /\ UpgradesOK
  BY <1>0 DEF Init, RowsOK, UpgradesOK, States
<1>2. LimitsOK /\ OutsideOK
  BY CapacityAssumption DEF Init, LimitsOK, OutsideOK
<1>3. TransactionsOK
  BY DEF Init, TransactionsOK, Idle
<1>4. HasProduct /\ LocksOK /\ EntitlementFollowsAdmission
  BY DEF Init, HasProduct, LocksOK, Locked, EntitlementFollowsAdmission, ActiveCodes
<1> QED
  BY <1>1, <1>2, <1>3, <1>4 DEF RInv, TypeOK

\* Every step preserves the invariant.
LEMMA NextRInv == RInv /\ [Next]_vars => RInv'
<1> SUFFICES ASSUME RInv, [Next]_vars PROVE RInv'
  OBVIOUS
<1>1. TypeOK'
  BY RowsStepOK, OthersOK DEF TypeOK
<1>2. LocksOK'
  BY LocksStep
<1>3. HasProduct' /\ EntitlementFollowsAdmission'
  BY RowSteps, EntitlementRow DEF HasProduct, EntitlementFollowsAdmission
<1> QED
  BY <1>1, <1>2, <1>3 DEF RInv

\* It holds at all times.
LEMMA RegistrationInvariance == Spec => []RInv
<1> QED
  BY InitRInv, NextRInv, PTL DEF Spec

\* The columns keep their types and no adjustment takes a limit above its
\* ceiling.
THEOREM TypeCorrect == Spec => []TypeOK
<1>1. RInv => TypeOK
  BY DEF RInv
<1> QED
  BY <1>1, RegistrationInvariance, PTL

\* A confirmed registration has exactly the entitlement of its present product
\* and a closed one has none, however payments, waivers, consents, promotions,
\* upgrades, cancellations and restrictions follow each other.
THEOREM EntitlementsFollow == Spec => []EntitlementFollowsAdmission
<1>1. RInv => EntitlementFollowsAdmission
  BY DEF RInv
<1> QED
  BY <1>1, RegistrationInvariance, PTL

\* No transaction applies a decision to a registration that has moved on: the
\* trigger maru_guard_registration_record refuses none of their updates.
THEOREM TransitionsAreAccepted == Spec => TriggerAcceptsTransitions
<1>1. RInv /\ [Next]_vars =>
        [\A a \in Accounts :
            state'[a] # state[a] => <<state[a], state'[a]>> \in AllowedTransitions]_vars
  BY RowSteps, TransitionAllowed
<1> QED
  BY <1>1, RegistrationInvariance, PTL DEF Spec, TriggerAcceptsTransitions

-----------------------------------------------------------------------------
(* Oversubscription.  OversubscriptionBounded is not inductive: it does    *)
(* not know of the places that transactions between their two steps have   *)
(* been promised.  The invariant counts these too.  A closure that is to   *)
(* promote somebody claims a place, its own one if it has one; a payment   *)
(* under way keeps the place of its upgrade though the hold is over.       *)

Claims(a) == state[a] \in OccupiedStates \/ inflight[a].promote
Claimants == {a \in Accounts : Claims(a)}
ClaimantsOf(p) == {a \in Accounts : Claims(a) /\ product[a] = p}
Upgrading(p) == {a \in Accounts : upgrade[a] = p /\ (upgradeIn[a] > 0 \/ a \in paying)}

Busy == {a \in Accounts : inflight[a] # Idle}
Slack == IF raced THEN MaxInflight ELSE 0

TransactionsBounded == Cardinality(Busy) + Cardinality(paying) <= MaxInflight

ProductClaims(p) ==
    Cardinality(ClaimantsOf(p)) + Cardinality(Upgrading(p)) <= productLimit[p] + Slack
ClaimsBounded ==
    /\ \A p \in Products : ProductClaims(p)
    /\ Cardinality(Claimants) <= overallLimit + Slack

\* Without minors nobody waits for the consent of a guardian.
NoConsent == \A a \in Accounts : state[a] # "guardian_pending"

CInv == RInv /\ NoConsent /\ TransactionsBounded /\ ClaimsBounded

-----------------------------------------------------------------------------
(* Counting accounts *)

\* Sets of accounts are finite.
LEMMA CountType ==
    ASSUME NEW S, S \subseteq Accounts
    PROVE  IsFiniteSet(S) /\ Cardinality(S) \in Nat
BY CatalogAssumption, FS_Subset, FS_CardinalityType

\* A part is not larger than the whole.
LEMMA CountPart ==
    ASSUME NEW S, NEW T, T \subseteq Accounts, S \subseteq T
    PROVE  Cardinality(S) <= Cardinality(T)
BY CountType, FS_Subset

\* A union is not larger than its parts together.
LEMMA CountUnion ==
    ASSUME NEW S, NEW T, NEW U, T \subseteq Accounts, U \subseteq Accounts,
           S \subseteq T \union U
    PROVE  Cardinality(S) <= Cardinality(T) + Cardinality(U)
<1>1. IsFiniteSet(T) /\ IsFiniteSet(U) /\ Cardinality(T) \in Nat /\ Cardinality(U) \in Nat
  BY CountType
<1>2. Cardinality(T \union U) = Cardinality(T) + Cardinality(U) - Cardinality(T \intersect U)
  BY <1>1, FS_Union
<1>3. Cardinality(S) \in Nat /\ Cardinality(T \intersect U) \in Nat
  BY CountType
<1>4. Cardinality(S) <= Cardinality(T \union U)
  BY CountPart
<1> QED
  BY <1>1, <1>2, <1>3, <1>4

\* One more account.
LEMMA CountMore ==
    ASSUME NEW S, NEW T, NEW a \in Accounts, T \subseteq Accounts, S \subseteq T \union {a}
    PROVE  Cardinality(S) <= Cardinality(T) + 1
<1>1. {a} \subseteq Accounts /\ Cardinality({a}) = 1
  BY FS_Singleton
<1>2. Cardinality(S) <= Cardinality(T) + Cardinality({a})
  BY <1>1, CountUnion
<1> QED
  BY <1>1, <1>2

\* One account less.
LEMMA CountLess ==
    ASSUME NEW S, NEW T, NEW a \in T, T \subseteq Accounts, S \subseteq T \ {a}
    PROVE  Cardinality(S) + 1 <= Cardinality(T)
<1>1. Cardinality(T \ {a}) = Cardinality(T) - 1
  BY CountType, FS_RemoveElement
<1>2. Cardinality(S) <= Cardinality(T \ {a})
  BY CountPart
<1>3. Cardinality(S) \in Nat /\ Cardinality(T) \in Nat
  BY CountType
<1> QED
  BY <1>1, <1>2, <1>3

\* One account in the place of another.
LEMMA CountSwap ==
    ASSUME NEW S, NEW T, NEW a \in T, NEW w \in Accounts, T \subseteq Accounts,
           S \subseteq (T \ {a}) \union {w}
    PROVE  Cardinality(S) <= Cardinality(T)
<1>1. Cardinality(S) <= Cardinality(T \ {a}) + 1
  BY CountMore
<1>2. Cardinality(T \ {a}) + 1 <= Cardinality(T)
  BY CountLess
<1>3. Cardinality(S) \in Nat /\ Cardinality(T) \in Nat /\ Cardinality(T \ {a}) \in Nat
  BY CountType
<1> QED
  BY <1>1, <1>2, <1>3

\* The sets of the invariant are sets of accounts, before a step and after it.
LEMMA ClaimSets ==
    ASSUME NEW p
    PROVE  /\ Occupied \subseteq Accounts /\ OccupiedIn(p) \subseteq Accounts
           /\ Holds(p) \subseteq Accounts /\ Claimants \subseteq Accounts
           /\ ClaimantsOf(p) \subseteq Accounts /\ Upgrading(p) \subseteq Accounts
           /\ Busy \subseteq Accounts
           /\ Occupied' \subseteq Accounts /\ OccupiedIn(p)' \subseteq Accounts
           /\ Holds(p)' \subseteq Accounts /\ Claimants' \subseteq Accounts
           /\ ClaimantsOf(p)' \subseteq Accounts /\ Upgrading(p)' \subseteq Accounts
           /\ Busy' \subseteq Accounts
BY DEF Occupied, OccupiedIn, Holds, Claimants, ClaimantsOf, Upgrading, Busy

\* The same as numbers.
LEMMA ClaimCounts ==
    ASSUME RInv, RInv', NEW p
    PROVE  /\ Cardinality(Occupied) \in Nat /\ Cardinality(OccupiedIn(p)) \in Nat
           /\ Cardinality(Holds(p)) \in Nat /\ Cardinality(Claimants) \in Nat
           /\ Cardinality(ClaimantsOf(p)) \in Nat /\ Cardinality(Upgrading(p)) \in Nat
           /\ Cardinality(Busy) \in Nat /\ Cardinality(paying) \in Nat
           /\ Cardinality(Occupied') \in Nat /\ Cardinality(OccupiedIn(p)') \in Nat
           /\ Cardinality(Holds(p)') \in Nat /\ Cardinality(Claimants') \in Nat
           /\ Cardinality(ClaimantsOf(p)') \in Nat /\ Cardinality(Upgrading(p)') \in Nat
           /\ Cardinality(Busy') \in Nat /\ Cardinality(paying') \in Nat
<1>1. paying \subseteq Accounts /\ paying' \subseteq Accounts
  BY DEF RInv, TypeOK, TransactionsOK
<1>2. /\ Cardinality(Occupied) \in Nat /\ Cardinality(OccupiedIn(p)) \in Nat
      /\ Cardinality(Holds(p)) \in Nat /\ Cardinality(Claimants) \in Nat
      /\ Cardinality(ClaimantsOf(p)) \in Nat /\ Cardinality(Upgrading(p)) \in Nat
      /\ Cardinality(Busy) \in Nat /\ Cardinality(paying) \in Nat
  BY <1>1, ClaimSets, CountType
<1>3. /\ Cardinality(Occupied') \in Nat /\ Cardinality(OccupiedIn(p)') \in Nat
      /\ Cardinality(Holds(p)') \in Nat /\ Cardinality(Claimants') \in Nat
      /\ Cardinality(ClaimantsOf(p)') \in Nat /\ Cardinality(Upgrading(p)') \in Nat
      /\ Cardinality(Busy') \in Nat /\ Cardinality(paying') \in Nat
  BY <1>1, ClaimSets, CountType
<1> QED
  BY <1>2, <1>3

\* Limits and slack are numbers, and the slack never shrinks.
LEMMA SlackGrows ==
    ASSUME RInv, RInv', raced => raced'
    PROVE  /\ Slack \in Nat /\ Slack' \in Nat /\ Slack <= Slack' /\ MaxInflight \in Nat
           /\ overallLimit \in Nat /\ overallLimit' \in Nat
           /\ \A p \in Products : productLimit[p] \in Nat /\ productLimit'[p] \in Nat
<1>1. MaxInflight \in Nat /\ OverallCeiling \in Nat
  BY BoundAssumption, CapacityAssumption
<1>2. /\ overallLimit \in Nat /\ overallLimit' \in Nat
      /\ \A p \in Products : productLimit[p] \in Nat /\ productLimit'[p] \in Nat
  BY <1>1 DEF RInv, TypeOK, LimitsOK
<1> QED
  BY <1>1, <1>2 DEF Slack

-----------------------------------------------------------------------------
(* How a step treats the claims *)

\* b has no claim after the step that it had not before.
KeepsClaims(b) ==
    /\ Claims(b)' => Claims(b) /\ product'[b] = product[b]
    /\ \A p \in Products : b \in Upgrading(p)' => b \in Upgrading(p)

\* Claims to p, and claims to the edition, do not grow when nobody gets one.
LEMMA KeptProduct ==
    ASSUME RInv, RInv', raced => raced', NEW p \in Products, ProductClaims(p),
           \A b \in Accounts : KeepsClaims(b), productLimit'[p] = productLimit[p]
    PROVE  ProductClaims(p)'
<1>1. ClaimantsOf(p)' \subseteq ClaimantsOf(p)
  BY DEF KeepsClaims, ClaimantsOf
<1>2. Upgrading(p)' \subseteq Upgrading(p)
  BY ClaimSets DEF KeepsClaims
<1>3. /\ Cardinality(ClaimantsOf(p)') <= Cardinality(ClaimantsOf(p))
      /\ Cardinality(Upgrading(p)') <= Cardinality(Upgrading(p))
  BY <1>1, <1>2, ClaimSets, CountPart
<1> QED
  BY <1>3, ClaimCounts, SlackGrows DEF ProductClaims

LEMMA KeptOverall ==
    ASSUME RInv, RInv', raced => raced', Cardinality(Claimants) <= overallLimit + Slack,
           \A b \in Accounts : Claims(b)' => Claims(b), overallLimit' = overallLimit
    PROVE  Cardinality(Claimants') <= overallLimit' + Slack'
<1>1. Claimants' \subseteq Claimants
  BY DEF Claimants
<1>2. Cardinality(Claimants') <= Cardinality(Claimants)
  BY <1>1, ClaimSets, CountPart
<1> QED
  BY <1>2, ClaimCounts, SlackGrows

\* When the rows fit into the limits, the claims exceed them by what is under
\* way at most.
LEMMA FreshProduct ==
    ASSUME RInv, RInv', raced => raced', TransactionsBounded', NEW p \in Products,
           Cardinality(OccupiedIn(p)') + Cardinality(Holds(p)') <= productLimit'[p],
           raced' \/ (Busy' = {} /\ paying' = {})
    PROVE  ProductClaims(p)'
<1>1. ClaimantsOf(p)' \subseteq OccupiedIn(p)' \union Busy'
  BY DEF ClaimantsOf, Claims, OccupiedIn, Occupied, Busy, Idle
<1>2. Upgrading(p)' \subseteq Holds(p)' \union paying'
  BY DEF Upgrading, Holds
<1>3. paying' \subseteq Accounts
  BY DEF RInv, TypeOK, TransactionsOK
<1>4. /\ Cardinality(ClaimantsOf(p)') <= Cardinality(OccupiedIn(p)') + Cardinality(Busy')
      /\ Cardinality(Upgrading(p)') <= Cardinality(Holds(p)') + Cardinality(paying')
  BY <1>1, <1>2, <1>3, ClaimSets, CountUnion
<1>5. CASE raced'
  BY <1>4, <1>5, ClaimCounts, SlackGrows DEF ProductClaims, TransactionsBounded, Slack
<1>6. CASE Busy' = {} /\ paying' = {}
  BY <1>4, <1>6, ClaimCounts, SlackGrows, FS_EmptySet DEF ProductClaims
<1> QED
  BY <1>5, <1>6

LEMMA FreshOverall ==
    ASSUME RInv, RInv', raced => raced', TransactionsBounded',
           Cardinality(Occupied') <= overallLimit',
           raced' \/ (Busy' = {} /\ paying' = {})
    PROVE  Cardinality(Claimants') <= overallLimit' + Slack'
<1>1. Claimants' \subseteq Occupied' \union Busy'
  BY DEF Claimants, Claims, Occupied, Busy, Idle
<1>2. Cardinality(Claimants') <= Cardinality(Occupied') + Cardinality(Busy')
  BY <1>1, ClaimSets, CountUnion
<1>3. CASE raced'
  BY <1>2, <1>3, ClaimCounts, SlackGrows DEF TransactionsBounded, Slack
<1>4. CASE Busy' = {} /\ paying' = {}
  BY <1>2, <1>4, ClaimCounts, SlackGrows, FS_EmptySet
<1> QED
  BY <1>3, <1>4

-----------------------------------------------------------------------------
(* The steps that may add claims *)

\* What Watch says of a step.
LEMMA Watched ==
    ASSUME RInv, Watch
    PROVE  /\ raced => raced'
           /\ raced' \/ ~ InGap \/ ~ InGap'
           /\ ~ InGap => Busy = {} /\ paying = {}
           /\ ~ InGap' => Busy' = {} /\ paying' = {}
           /\ UNCHANGED <<inflight, paying>> => raced' \/ (Busy' = {} /\ paying' = {})
BY DEF Watch, InGap, Busy, transactionVars, RInv, TypeOK, TransactionsOK

\* A transaction that admits the accounts of G to p, having found a place for
\* each: a submission, a batch, a promotion by the lifecycle processor.
LEMMA AdmissionStep ==
    ASSUME CInv, RInv', TransactionsBounded', Watch,
           UNCHANGED <<upgradeVars, limitVars, inflight, paying>>,
           NEW p \in Products, NEW G, G \subseteq Accounts,
           Cardinality(Occupied) + Cardinality(G) <= overallLimit,
           Cardinality(OccupiedIn(p)) + Cardinality(Holds(p)) + Cardinality(G) <= productLimit[p],
           \A b \in G : product'[b] = p,
           \A b \in Accounts \ G : /\ product'[b] = product[b]
                                   /\ state'[b] \in OccupiedStates => state[b] \in OccupiedStates
    PROVE  ClaimsBounded'
<1> USE DEF CInv
<1>0. /\ raced => raced'
      /\ raced' \/ (Busy' = {} /\ paying' = {})
  BY Watched
<1>1. /\ upgrade' = upgrade /\ upgradeIn' = upgradeIn /\ inflight' = inflight /\ paying' = paying
      /\ productLimit' = productLimit /\ overallLimit' = overallLimit
  BY DEF upgradeVars, limitVars, transactionVars
<1>2. Cardinality(G) \in Nat
  BY CountType
<1>3. Cardinality(Claimants') <= overallLimit' + Slack'
  <2>1. Occupied' \subseteq Occupied \union G
    BY DEF Occupied
  <2>2. Cardinality(Occupied') <= Cardinality(Occupied) + Cardinality(G)
    BY <2>1, ClaimSets, CountUnion
  <2>3. Cardinality(Occupied') <= overallLimit'
    BY <1>1, <1>2, <2>2, ClaimCounts, SlackGrows, <1>0
  <2> QED
    BY <1>0, <2>3, FreshOverall
<1>4. ASSUME NEW q \in Products PROVE ProductClaims(q)'
  <2>1. CASE q = p
    <3>1. OccupiedIn(p)' \subseteq OccupiedIn(p) \union G
      BY DEF OccupiedIn, Occupied
    <3>2. Cardinality(OccupiedIn(p)') <= Cardinality(OccupiedIn(p)) + Cardinality(G)
      BY <3>1, ClaimSets, CountUnion
    <3>3. Holds(p)' = Holds(p)
      BY <1>1 DEF Holds
    <3>4. Cardinality(OccupiedIn(p)') + Cardinality(Holds(p)') <= productLimit'[p]
      BY <1>0, <1>1, <1>2, <3>2, <3>3, ClaimCounts, SlackGrows
    <3> QED
      BY <1>0, <2>1, <3>4, FreshProduct
  <2>2. CASE q # p
    <3>1. ClaimantsOf(q)' \subseteq ClaimantsOf(q)
      BY <1>1, <2>2 DEF ClaimantsOf, Claims
    <3>2. Upgrading(q)' = Upgrading(q)
      BY <1>1 DEF Upgrading
    <3>3. Cardinality(ClaimantsOf(q)') <= Cardinality(ClaimantsOf(q))
      BY <3>1, ClaimSets, CountPart
    <3> QED
      BY <1>0, <1>1, <3>2, <3>3, ClaimCounts, SlackGrows DEF ProductClaims, ClaimsBounded
  <2> QED
    BY <2>1, <2>2
<1> QED
  BY <1>3, <1>4 DEF ClaimsBounded

\* A closure whose place goes to w, who has waited for it.
LEMMA PromotionStep ==
    ASSUME CInv, RInv', raced => raced', UNCHANGED <<product, upgradeVars, limitVars, paying>>,
           NEW a \in Accounts, NEW w \in Accounts, product[w] = product[a],
           Claims(a), ~ Claims(a)',
           \A b \in Accounts \ {a, w} : Claims(b)' => Claims(b)
    PROVE  ClaimsBounded'
<1> USE DEF CInv
<1>1. /\ upgrade' = upgrade /\ upgradeIn' = upgradeIn /\ product' = product
      /\ productLimit' = productLimit /\ overallLimit' = overallLimit
  BY DEF upgradeVars, limitVars
<1>2. Cardinality(Claimants') <= overallLimit' + Slack'
  <2>1. a \in Claimants /\ Claimants' \subseteq (Claimants \ {a}) \union {w}
    BY DEF Claimants
  <2>2. Cardinality(Claimants') <= Cardinality(Claimants)
    BY <2>1, ClaimSets, CountSwap
  <2>3. Cardinality(Claimants) <= overallLimit + Slack
    BY DEF ClaimsBounded
  <2>4. Cardinality(Claimants) \in Nat /\ Cardinality(Claimants') \in Nat
    BY ClaimSets, CountType
  <2> QED
    BY <1>1, <2>2, <2>3, <2>4, SlackGrows
<1>3. ASSUME NEW q \in Products PROVE ProductClaims(q)'
  <2>1. Upgrading(q)' = Upgrading(q)
    BY <1>1 DEF Upgrading
  <2>2. Cardinality(ClaimantsOf(q)') <= Cardinality(ClaimantsOf(q))
    <3>1. CASE product[a] = q
      <4>1. a \in ClaimantsOf(q) /\ ClaimantsOf(q)' \subseteq (ClaimantsOf(q) \ {a}) \union {w}
        BY <1>1, <3>1 DEF ClaimantsOf
      <4> QED
        BY <4>1, ClaimSets, CountSwap
    <3>2. CASE product[a] # q
      <4>1. ClaimantsOf(q)' \subseteq ClaimantsOf(q)
        BY <1>1, <3>2 DEF ClaimantsOf
      <4> QED
        BY <4>1, ClaimSets, CountPart
    <3> QED
      BY <3>1, <3>2
  <2> QED
    BY <1>1, <2>1, <2>2, ClaimCounts, SlackGrows DEF ProductClaims, ClaimsBounded
<1> QED
  BY <1>2, <1>3 DEF ClaimsBounded

\* A closure begins: if it is to promote somebody without having a place of its
\* own, it has found a free one.
LEMMA BeginClosureClaims ==
    ASSUME CInv, RInv', TransactionsBounded', NEW a \in Accounts, NEW kind,
           BeginClosure(a, kind), product[a] \in Products
    PROVE  ClaimsBounded'
<1> USE DEF CInv
<1>0. Watch
  BY DEF BeginClosure
<1>1. /\ upgrade' = upgrade /\ upgradeIn' = upgradeIn /\ paying' = paying
      /\ productLimit' = productLimit /\ overallLimit' = overallLimit
      /\ state' = state /\ product' = product
      /\ inflight'[a].promote = MayPromote(a)
      /\ \A b \in Accounts \ {a} : inflight'[b] = inflight[b]
  BY DEF BeginClosure, upgradeVars, limitVars, rowVars, RInv, TypeOK, TransactionsOK
<1>2. raced => raced'
  BY <1>0, Watched
<1>3. \A q : Upgrading(q)' = Upgrading(q) /\ OccupiedIn(q)' = OccupiedIn(q) /\ Holds(q)' = Holds(q)
  BY <1>1 DEF Upgrading, OccupiedIn, Occupied, Holds
<1>4. Occupied' = Occupied
  BY <1>1 DEF Occupied
<1>5. CASE MayPromote(a) => state[a] \in OccupiedStates
  <2>1. \A b \in Accounts : KeepsClaims(b)
    BY <1>1, <1>3, <1>5 DEF KeepsClaims, Claims
  <2> QED
    BY <1>1, <1>2, <2>1, KeptProduct, KeptOverall DEF ClaimsBounded, KeepsClaims
<1>6. CASE MayPromote(a) /\ state[a] \notin OccupiedStates
  <2>1. PICK p \in Products : p = product[a]
    OBVIOUS
  <2>2. Occupied \ {a} = Occupied /\ OccupiedIn(p) \ {a} = OccupiedIn(p)
    BY <1>6 DEF Occupied, OccupiedIn
  <2>3. /\ Cardinality(Occupied) < overallLimit
        /\ Cardinality(OccupiedIn(p)) + Cardinality(Holds(p)) < productLimit[p]
    BY <1>6, <2>1, <2>2 DEF MayPromote, Room
  <2>4. CASE raced'
    <3>1. /\ Cardinality(Occupied') <= overallLimit'
          /\ Cardinality(OccupiedIn(p)') + Cardinality(Holds(p)') <= productLimit'[p]
      BY <1>1, <1>2, <1>3, <1>4, <2>3, ClaimCounts, SlackGrows
    <3>2. Cardinality(Claimants') <= overallLimit' + Slack'
      BY <1>2, <2>4, <3>1, FreshOverall
    <3>3. ProductClaims(p)'
      BY <1>2, <2>4, <3>1, FreshProduct
    <3>4. ASSUME NEW q \in Products, q # p PROVE ProductClaims(q)'
      <4>1. ClaimantsOf(q)' = ClaimantsOf(q)
        BY <1>1, <2>1, <3>4 DEF ClaimantsOf, Claims
      <4> QED
        BY <1>1, <1>2, <1>3, <4>1, ClaimCounts, SlackGrows DEF ProductClaims, ClaimsBounded
    <3> QED
      BY <3>2, <3>3, <3>4 DEF ClaimsBounded
  <2>5. CASE ~ raced'
    <3>1. Busy = {} /\ paying = {}
      <4>1. InGap'
        <5>1. inflight'[a].promote
          BY <1>1, <1>6
        <5>2. ~ Idle.promote
          BY DEF Idle
        <5> QED
          BY <5>1, <5>2 DEF InGap
      <4> QED
        BY <1>0, <2>5, <4>1, Watched
    <3>2. \A b \in Accounts : ~ inflight[b].promote
      BY <3>1 DEF Busy, Idle
    <3>3. /\ Claimants' \subseteq Occupied \union {a}
          /\ ClaimantsOf(p)' \subseteq OccupiedIn(p) \union {a}
          /\ \A q \in Products \ {p} : ClaimantsOf(q)' = ClaimantsOf(q)
      BY <1>1, <2>1, <3>2 DEF Claimants, ClaimantsOf, Claims, Occupied, OccupiedIn
    <3>4. Upgrading(p)' = Holds(p)
      BY <1>1, <3>1 DEF Upgrading, Holds
    <3>5. /\ Cardinality(Claimants') <= Cardinality(Occupied) + 1
          /\ Cardinality(ClaimantsOf(p)') <= Cardinality(OccupiedIn(p)) + 1
      BY <3>3, ClaimSets, CountMore
    <3>6. Cardinality(Claimants') <= overallLimit' + Slack'
      BY <1>1, <1>2, <2>3, <3>5, ClaimCounts, SlackGrows
    <3>7. ProductClaims(p)'
      BY <1>1, <1>2, <2>3, <3>4, <3>5, ClaimCounts, SlackGrows DEF ProductClaims
    <3>8. ASSUME NEW q \in Products, q # p PROVE ProductClaims(q)'
      BY <1>1, <1>2, <1>3, <3>3, <3>8, ClaimCounts, SlackGrows DEF ProductClaims, ClaimsBounded
    <3> QED
      BY <3>6, <3>7, <3>8 DEF ClaimsBounded
  <2> QED
    BY <2>4, <2>5
<1> QED
  BY <1>5, <1>6

-----------------------------------------------------------------------------
(* One lemma per kind of step *)

\* Payments, waivers, extensions, arrivals, expired holds, abandoned payments,
\* the clock and the calendar add no claim.
KeepingStep ==
    \/ \E a \in Accounts :
        \/ ConfirmPayment(a) \/ WaiveRegistrationPayment(a) \/ CheckInRegistration(a)
        \/ RestrictCheckedIn(a) \/ BeginTierReplacement(a) \/ AbandonTierReplacement(a)
        \/ ExpireTierReplacement(a) \/ DeactivateAccount(a)
        \/ \E d \in 1 .. PaymentWindow : ExtendPaymentDeadline(a, d)
    \/ Tick \/ \E p \in Closing : CloseSales(p)
    \/ UNCHANGED vars

\* Nobody gets a claim.
LEMMA KeptClaims ==
    ASSUME CInv, RInv', raced => raced', UNCHANGED limitVars,
           \A b \in Accounts : KeepsClaims(b)
    PROVE  ClaimsBounded'
<1>1. productLimit' = productLimit /\ overallLimit' = overallLimit
  BY DEF limitVars
<1>2. \A b \in Accounts : Claims(b)' => Claims(b)
  BY DEF KeepsClaims
<1>3. Cardinality(Claimants') <= overallLimit' + Slack'
  BY <1>1, <1>2, KeptOverall DEF CInv, ClaimsBounded
<1>4. \A p \in Products : ProductClaims(p)'
  BY <1>1, KeptProduct DEF CInv, ClaimsBounded
<1> QED
  BY <1>3, <1>4 DEF ClaimsBounded

LEMMA KeepingClaims ==
    ASSUME CInv, RInv', KeepingStep
    PROVE  ClaimsBounded'
<1> USE DEF CInv, RInv, TypeOK, RowsOK, UpgradesOK
<1>1. (raced => raced') /\ UNCHANGED limitVars
  <2>1. Watch \/ UNCHANGED raced
    BY DEF KeepingStep, ConfirmPayment, WaiveRegistrationPayment, CheckInRegistration,
           RestrictCheckedIn, BeginTierReplacement, AbandonTierReplacement,
           ExpireTierReplacement, DeactivateAccount, ExtendPaymentDeadline, Tick, CloseSales, vars
  <2>2. raced => raced'
    BY <2>1, Watched
  <2>3. UNCHANGED limitVars
    BY DEF KeepingStep, ConfirmPayment, WaiveRegistrationPayment, CheckInRegistration,
           RestrictCheckedIn, BeginTierReplacement, AbandonTierReplacement,
           ExpireTierReplacement, DeactivateAccount, ExtendPaymentDeadline, Tick, CloseSales, vars,
           limitVars
  <2> QED
    BY <2>2, <2>3
<1>2. ASSUME NEW a \in Accounts,
             \/ ConfirmPayment(a) \/ WaiveRegistrationPayment(a) \/ CheckInRegistration(a)
             \/ RestrictCheckedIn(a) \/ \E d \in 1 .. PaymentWindow : ExtendPaymentDeadline(a, d)
      PROVE  \A b \in Accounts : KeepsClaims(b)
  <2>1. /\ \A b \in Accounts : state'[b] \in OccupiedStates => state[b] \in OccupiedStates
        /\ UNCHANGED <<product, upgrade, upgradeIn, inflight, paying>>
    BY <1>2 DEF ConfirmPayment, WaiveRegistrationPayment, CheckInRegistration, RestrictCheckedIn,
                ExtendPaymentDeadline, OccupiedStates, upgradeVars, transactionVars
  <2> QED
    BY <2>1 DEF KeepsClaims, Claims, Upgrading
<1>3. ASSUME NEW a \in Accounts,
             \/ BeginTierReplacement(a) \/ AbandonTierReplacement(a) \/ ExpireTierReplacement(a)
             \/ DeactivateAccount(a)
      PROVE  \A b \in Accounts : KeepsClaims(b)
  <2>1. UNCHANGED <<state, product, inflight, upgradeIn>>
    BY <1>3 DEF BeginTierReplacement, AbandonTierReplacement, ExpireTierReplacement,
                DeactivateAccount, rowVars, upgradeVars, transactionVars
  <2>2. \/ UNCHANGED upgrade /\ \A b \in Accounts : b \in paying' => b \in paying \/ upgradeIn[b] > 0
        \/ UNCHANGED paying /\ upgrade' = [upgrade EXCEPT ![a] = NoProduct]
    BY <1>3 DEF BeginTierReplacement, AbandonTierReplacement, ExpireTierReplacement,
                DeactivateAccount, upgradeVars, transactionVars
  <2>3. NoProduct \notin Products
    BY CatalogAssumption
  <2> QED
    BY <2>1, <2>2, <2>3 DEF KeepsClaims, Claims, Upgrading
<1>4. CASE Tick
  <2>1. /\ UNCHANGED <<state, product, upgrade, inflight, paying>>
        /\ \A b \in Accounts : upgradeIn'[b] = Decrement(upgradeIn[b])
    BY <1>4 DEF Tick, transactionVars
  <2>2. \A b \in Accounts : upgradeIn[b] \in Nat
    BY BoundAssumption
  <2>3. \A b \in Accounts : upgradeIn'[b] > 0 => upgradeIn[b] > 0
    BY <2>1, <2>2 DEF Decrement
  <2> QED
    BY <2>1, <2>3, <1>1, KeptClaims DEF KeepsClaims, Claims, Upgrading
<1>5. CASE (\E p \in Closing : CloseSales(p)) \/ UNCHANGED vars
  <2>1. UNCHANGED <<state, product, upgrade, upgradeIn, inflight, paying>>
    BY <1>5 DEF CloseSales, vars, rowVars, upgradeVars, transactionVars
  <2> QED
    BY <2>1, <1>1, KeptClaims DEF KeepsClaims, Claims, Upgrading
<1> QED
  BY <1>1, <1>2, <1>3, <1>4, <1>5, KeptClaims DEF KeepingStep

\* A submission is admitted when there is room.
LEMMA SubmitClaims ==
    ASSUME CInv, RInv', TransactionsBounded', Minors = {}, NEW a \in Accounts,
           NEW p \in Products, NEW bypass \in BOOLEAN, SubmitRegistration(a, p, bypass)
    PROVE  ClaimsBounded' /\ NoConsent'
<1> USE DEF CInv, RInv, TypeOK, RowsOK
<1>1. PICK next : /\ next = IF a \in Minors THEN "guardian_pending"
                            ELSE IF ~ Room(p, {}) THEN "waitlisted" ELSE Admission(p)
  OBVIOUS
<1>2. /\ state' = [state EXCEPT ![a] = next] /\ product' = [product EXCEPT ![a] = p]
      /\ state[a] = "none"
      /\ UNCHANGED <<upgradeVars, limitVars, transactionVars>> /\ Watch
  BY <1>1 DEF SubmitRegistration
<1>3. next \in {"waitlisted", "payment_pending", "confirmed"}
  BY <1>1, AdmissionState
<1>4. NoConsent'
  BY <1>2, <1>3 DEF NoConsent
<1>5. raced => raced'
  BY <1>2, Watched
<1>6. CASE Room(p, {})
  <2>1. /\ Cardinality(Occupied) < overallLimit
        /\ Cardinality(OccupiedIn(p)) + Cardinality(Holds(p)) < productLimit[p]
    <3>1. Occupied \ {} = Occupied /\ OccupiedIn(p) \ {} = OccupiedIn(p)
      OBVIOUS
    <3> QED
      BY <1>6, <3>1 DEF Room
  <2>2. Cardinality({a}) = 1
    BY FS_Singleton
  <2>3. /\ Cardinality(Occupied) + Cardinality({a}) <= overallLimit
        /\ Cardinality(OccupiedIn(p)) + Cardinality(Holds(p)) + Cardinality({a}) <= productLimit[p]
    BY <1>5, <2>1, <2>2, ClaimCounts, SlackGrows
  <2>4. /\ \A b \in {a} : product'[b] = p
        /\ \A b \in Accounts \ {a} : /\ product'[b] = product[b]
                                     /\ state'[b] \in OccupiedStates => state[b] \in OccupiedStates
    BY <1>2
  <2>5. ClaimsBounded'
    BY <1>2, <2>3, <2>4, AdmissionStep DEF transactionVars
  <2> QED
    BY <1>4, <2>5
<1>7. CASE ~ Room(p, {})
  <2>1. next = "waitlisted"
    BY <1>1, <1>7
  <2>2. /\ upgrade' = upgrade /\ upgradeIn' = upgradeIn /\ inflight' = inflight /\ paying' = paying
    BY <1>2 DEF upgradeVars, transactionVars
  <2>3. ~ Claims(a)'
    <3>1. ~ Locked(a)
      BY <1>2 DEF LocksOK, Closable
    <3> QED
      BY <1>2, <2>1, <2>2, <3>1 DEF Claims, Locked, Idle, OccupiedStates
  <2>4. \A b \in Accounts : KeepsClaims(b)
    BY <1>2, <2>2, <2>3 DEF KeepsClaims, Claims, Upgrading
  <2> QED
    BY <1>2, <1>4, <1>5, <2>4, KeptClaims
<1> QED
  BY <1>6, <1>7

\* An upgrade is reserved within the limit of its product.
LEMMA ReserveClaims ==
    ASSUME CInv, RInv', TransactionsBounded', NEW a \in Accounts, NEW p \in Products,
           ReserveTierReplacement(a, p)
    PROVE  ClaimsBounded'
<1> USE DEF CInv
<1>1. /\ upgrade' = [upgrade EXCEPT ![a] = p] /\ upgradeIn' = [upgradeIn EXCEPT ![a] = PaymentWindow]
      /\ upgrade[a] = NoProduct
      /\ Cardinality(OccupiedIn(p)) + Cardinality(Holds(p)) < productLimit[p]
      /\ UNCHANGED <<state, product, inflight, paying, productLimit, overallLimit, transactionVars>>
      /\ Watch
  BY DEF ReserveTierReplacement, rowVars, limitVars, transactionVars
<1>2. (raced => raced') /\ (raced' \/ (Busy' = {} /\ paying' = {}))
  BY <1>1, Watched
<1>3. Cardinality(Claimants') <= overallLimit' + Slack'
  BY <1>1, <1>2, KeptOverall DEF ClaimsBounded, Claims
<1>4. ProductClaims(p)'
  <2>1. OccupiedIn(p)' = OccupiedIn(p) /\ Holds(p)' \subseteq Holds(p) \union {a}
    BY <1>1 DEF OccupiedIn, Occupied, Holds, RInv, TypeOK, UpgradesOK
  <2>2. Cardinality(Holds(p)') <= Cardinality(Holds(p)) + 1
    BY <2>1, ClaimSets, CountMore
  <2>3. Cardinality(OccupiedIn(p)') + Cardinality(Holds(p)') <= productLimit'[p]
    BY <1>1, <1>2, <2>1, <2>2, ClaimCounts, SlackGrows
  <2> QED
    BY <1>2, <2>3, FreshProduct
<1>5. ASSUME NEW q \in Products, q # p PROVE ProductClaims(q)'
  <2>1. ClaimantsOf(q)' = ClaimantsOf(q)
    BY <1>1 DEF ClaimantsOf, Claims
  <2>2. Upgrading(q)' = Upgrading(q)
    BY <1>1, <1>5, CatalogAssumption DEF Upgrading, RInv, TypeOK, UpgradesOK
  <2> QED
    BY <1>1, <1>2, <2>1, <2>2, ClaimCounts, SlackGrows DEF ProductClaims, ClaimsBounded
<1> QED
  BY <1>3, <1>4, <1>5 DEF ClaimsBounded

\* An adjustment covers the rows there are.
LEMMA AdjustmentClaims ==
    ASSUME CInv, RInv', TransactionsBounded',
           \/ \E p \in Products, n \in Nat : AdjustProductCapacity(p, n)
           \/ \E n \in Nat : AdjustOverallCapacity(n)
    PROVE  ClaimsBounded'
<1> USE DEF CInv
<1>1. /\ UNCHANGED <<state, product, upgrade, upgradeIn, inflight, paying, transactionVars>>
      /\ Watch
  BY DEF AdjustProductCapacity, AdjustOverallCapacity, rowVars, upgradeVars, transactionVars
<1>2. (raced => raced') /\ (raced' \/ (Busy' = {} /\ paying' = {}))
  BY <1>1, Watched
<1>3. \A b \in Accounts : KeepsClaims(b)
  BY <1>1 DEF KeepsClaims, Claims, Upgrading
<1>4. \A q : /\ OccupiedIn(q)' = OccupiedIn(q) /\ Holds(q)' = Holds(q)
             /\ Occupied' = Occupied
  BY <1>1 DEF OccupiedIn, Occupied, Holds
<1>5. ASSUME NEW p \in Products, NEW n \in Nat, AdjustProductCapacity(p, n)
      PROVE  ClaimsBounded'
  <2>1. /\ n >= Cardinality(OccupiedIn(p)) + Cardinality(Holds(p))
        /\ productLimit' = [productLimit EXCEPT ![p] = n] /\ overallLimit' = overallLimit
    BY <1>5 DEF AdjustProductCapacity
  <2>2. Cardinality(Claimants') <= overallLimit' + Slack'
    BY <1>2, <1>3, <2>1, KeptOverall DEF ClaimsBounded, KeepsClaims
  <2>3. productLimit'[p] = n /\ \A q \in Products \ {p} : productLimit'[q] = productLimit[q]
    BY <2>1 DEF RInv, TypeOK, LimitsOK
  <2>4. Cardinality(OccupiedIn(p)') + Cardinality(Holds(p)') <= productLimit'[p]
    BY <1>2, <1>4, <2>1, <2>3, ClaimCounts
  <2>5. ProductClaims(p)'
    BY <1>2, <2>4, FreshProduct
  <2>6. \A q \in Products \ {p} : ProductClaims(q)'
    BY <1>2, <1>3, <2>3, KeptProduct DEF ClaimsBounded
  <2> QED
    BY <2>2, <2>5, <2>6 DEF ClaimsBounded
<1>6. ASSUME NEW n \in Nat, AdjustOverallCapacity(n)
      PROVE  ClaimsBounded'
  <2>1. n >= Cardinality(Occupied) /\ productLimit' = productLimit /\ overallLimit' = n
    BY <1>6 DEF AdjustOverallCapacity
  <2>2. Cardinality(Occupied') <= overallLimit'
    <3>1. Cardinality(Occupied) \in Nat
      BY ClaimSets, CountType
    <3> QED
      BY <1>4, <2>1, <3>1
  <2>3. Cardinality(Claimants') <= overallLimit' + Slack'
    BY <1>2, <2>2, FreshOverall
  <2>4. \A q \in Products : ProductClaims(q)'
    BY <1>2, <1>3, <2>1, KeptProduct DEF ClaimsBounded
  <2> QED
    BY <2>3, <2>4 DEF ClaimsBounded
<1> QED
  BY <1>5, <1>6

\* A batch offers no more places than there are.
LEMMA OfferClaims ==
    ASSUME CInv, RInv', TransactionsBounded', NEW p \in Products, NEW n \in BatchSizes,
           NEW chosen \in SUBSET Accounts, OfferWaitlistBatch(p, n, chosen)
    PROVE  ClaimsBounded'
<1> USE DEF CInv
<1>1. /\ chosen \subseteq Waiting(p) /\ Cardinality(chosen) = OfferCount(p, n)
      /\ WriteRows(chosen, [a \in Accounts |-> Admission(p)])
      /\ UNCHANGED <<product, upgradeVars, limitVars, transactionVars>> /\ Watch
  BY DEF OfferWaitlistBatch
<1>2. raced => raced'
  BY <1>1, Watched
<1>3. n \in Nat /\ Cardinality(chosen) \in Nat /\ Cardinality(Waiting(p)) \in Nat
  BY BoundAssumption, CountType DEF Waiting
<1>4. \A b \in Accounts \ chosen : state'[b] = state[b]
  BY <1>1, WrittenRow
<1>5. CASE chosen = {}
  <2>1. /\ product' = product /\ upgrade' = upgrade /\ upgradeIn' = upgradeIn
        /\ inflight' = inflight /\ paying' = paying
    BY <1>1 DEF upgradeVars, transactionVars
  <2>2. \A b \in Accounts : KeepsClaims(b)
    BY <1>4, <1>5, <2>1 DEF KeepsClaims, Claims, Upgrading
  <2> QED
    BY <1>1, <1>2, <2>2, KeptClaims
<1>6. CASE chosen # {}
  <2>1. Cardinality(chosen) # 0
    BY <1>6, CountType, FS_EmptySet
  <2>2. /\ Cardinality(Occupied) \in Nat /\ Cardinality(OccupiedIn(p)) \in Nat
        /\ Cardinality(Holds(p)) \in Nat /\ overallLimit \in Nat /\ productLimit[p] \in Nat
    BY <1>2, ClaimCounts, SlackGrows
  <2>3. /\ OfferCount(p, n) <= overallLimit - Cardinality(Occupied)
        /\ OfferCount(p, n) <= productLimit[p] - Cardinality(OccupiedIn(p)) - Cardinality(Holds(p))
    BY <1>1, <1>3, <2>1, <2>2 DEF OfferCount
  <2>4. /\ Cardinality(Occupied) + Cardinality(chosen) <= overallLimit
        /\ Cardinality(OccupiedIn(p)) + Cardinality(Holds(p)) + Cardinality(chosen) <= productLimit[p]
    BY <1>1, <1>3, <2>2, <2>3
  <2>5. \A b \in chosen : product'[b] = p
    BY <1>1 DEF Waiting
  <2>6. UNCHANGED <<upgradeVars, limitVars, inflight, paying>>
    BY <1>1 DEF transactionVars
  <2>7. \A b \in Accounts \ chosen : /\ product'[b] = product[b]
                                     /\ state'[b] \in OccupiedStates => state[b] \in OccupiedStates
    BY <1>1, <1>4
  <2> QED
    BY <1>1, <2>4, <2>5, <2>6, <2>7, AdmissionStep
<1> QED
  BY <1>5, <1>6

\* The rows after a closure.
LEMMA ClosedRows ==
    ASSUME NEW a \in Accounts, NEW next, NEW w \in Accounts \union {Nobody}, w # a,
           CloseRegistration(a, next, w)
    PROVE  /\ state'[a] = next
           /\ \A b \in Accounts \ {a, w} : state'[b] = state[b]
           /\ w \in Accounts => state'[w] = Admission(product[a])
           /\ UNCHANGED <<product, upgradeVars, limitVars>>
<1>1. PICK f : f = [c \in Accounts |-> IF c = a THEN next ELSE Admission(product[a])]
  OBVIOUS
<1>2. WriteRows({a, w} \ {Nobody}, f) /\ UNCHANGED <<product, upgradeVars, limitVars>>
  BY <1>1 DEF CloseRegistration
<1>3. a # Nobody /\ (w \in Accounts => w # Nobody)
  BY CatalogAssumption
<1> QED
  BY <1>1, <1>2, <1>3, WrittenRow

\* A closure without a promotion only frees places.
LEMMA PlainClosure ==
    ASSUME CInv, RInv', raced => raced', NEW a \in Accounts, NEW next \in {"cancelled", "expired"},
           CloseRegistration(a, next, Nobody), UNCHANGED paying,
           \A b \in Accounts : inflight'[b].promote => inflight[b].promote
    PROVE  ClaimsBounded'
<1>1. /\ state'[a] = next /\ \A b \in Accounts \ {a} : state'[b] = state[b]
      /\ UNCHANGED <<product, upgradeVars, limitVars>>
  BY ClosedRows, CatalogAssumption
<1>2. \A b \in Accounts : KeepsClaims(b)
  BY <1>1 DEF KeepsClaims, Claims, Upgrading, OccupiedStates, upgradeVars
<1> QED
  BY <1>1, <1>2, KeptClaims

\* The lifecycle processor closes a registration that has a place, and gives it
\* away, or one that has none, and gives away a free one.
LEMMA LifecycleClaims ==
    ASSUME CInv, RInv', TransactionsBounded', NEW a \in Accounts, CloseCandidate(a)
    PROVE  ClaimsBounded'
<1> USE DEF CInv
<1>1. PICK next \in LifecycleTargets(a),
           w \in IF MayPromote(a) /\ Others(a) # {} THEN Others(a) ELSE {Nobody} :
            CloseRegistration(a, next, w)
  BY DEF CloseCandidate, VisitCandidate
<1>2. /\ next \in {"cancelled", "expired"} /\ state[a] \in {"waitlisted", "payment_pending"}
      /\ ~ Locked(a) /\ UNCHANGED <<inflight, paying>> /\ Watch
  BY <1>1 DEF CloseCandidate, VisitCandidate, LifecycleTargets
<1>3. inflight' = inflight /\ paying' = paying /\ ~ inflight[a].promote
  BY <1>2 DEF Locked, Idle
<1>4. raced => raced'
  BY <1>2, Watched
<1>5. CASE w = Nobody
  BY <1>1, <1>2, <1>3, <1>4, <1>5, PlainClosure
<1>6. CASE w # Nobody
  <2>1. /\ w \in Accounts \ {a} /\ product[w] = product[a] /\ MayPromote(a)
        /\ state[w] = "waitlisted"
    BY <1>1, <1>6 DEF Others, Waiting
  <2>2. /\ state'[a] = next /\ \A b \in Accounts \ {a, w} : state'[b] = state[b]
        /\ UNCHANGED <<product, upgradeVars, limitVars>>
    BY <1>1, <2>1, ClosedRows
  <2>3. CASE state[a] = "payment_pending"
    <3>1. Claims(a) /\ ~ Claims(a)'
      BY <1>2, <1>3, <2>2, <2>3 DEF Claims, OccupiedStates
    <3>2. \A b \in Accounts \ {a, w} : Claims(b)' => Claims(b)
      BY <1>3, <2>2 DEF Claims
    <3>3. UNCHANGED <<product, upgradeVars, limitVars, paying>>
      BY <1>3, <2>2
    <3> QED
      BY <1>4, <2>1, <3>1, <3>2, <3>3, PromotionStep
  <2>4. CASE state[a] = "waitlisted"
    <3>1. PICK p \in Products : p = product[a]
      BY <2>4 DEF RInv, HasProduct
    <3>2. Occupied \ {a} = Occupied /\ OccupiedIn(p) \ {a} = OccupiedIn(p)
      BY <2>4 DEF Occupied, OccupiedIn, OccupiedStates
    <3>3. /\ Cardinality(Occupied) < overallLimit
          /\ Cardinality(OccupiedIn(p)) + Cardinality(Holds(p)) < productLimit[p]
      BY <2>1, <3>1, <3>2 DEF MayPromote, Room
    <3>4. Cardinality({w}) = 1 /\ {w} \subseteq Accounts
      BY <2>1, FS_Singleton
    <3>5. /\ Cardinality(Occupied) + Cardinality({w}) <= overallLimit
          /\ Cardinality(OccupiedIn(p)) + Cardinality(Holds(p)) + Cardinality({w}) <= productLimit[p]
      BY <1>4, <3>3, <3>4, ClaimCounts, SlackGrows
    <3>6. /\ \A b \in {w} : product'[b] = p
          /\ \A b \in Accounts \ {w} : /\ product'[b] = product[b]
                                       /\ state'[b] \in OccupiedStates => state[b] \in OccupiedStates
      BY <1>2, <2>1, <2>2, <3>1 DEF OccupiedStates
    <3>7. UNCHANGED <<upgradeVars, limitVars, inflight, paying>>
      BY <1>2, <2>2
    <3> QED
      BY <1>2, <3>4, <3>5, <3>6, <3>7, AdmissionStep
  <2> QED
    BY <1>2, <2>3, <2>4
<1> QED
  BY <1>5, <1>6

\* A closure that commits gives away the place it has claimed.
LEMMA ClosureClaims ==
    ASSUME CInv, RInv', NEW a \in Accounts, CommitClosure(a)
    PROVE  ClaimsBounded'
<1> USE DEF CInv
<1>1. PICK w \in IF inflight[a].promote /\ Others(a) # {}
                 THEN Others(a) \union {Nobody} ELSE {Nobody} :
            CloseRegistration(a, "cancelled", w)
  BY DEF CommitClosure
<1>2. inflight' = [inflight EXCEPT ![a] = Idle] /\ UNCHANGED paying /\ Watch
  BY DEF CommitClosure
<1>3. /\ ~ inflight'[a].promote
      /\ \A b \in Accounts : inflight'[b].promote => inflight[b].promote
  BY <1>2 DEF RInv, TypeOK, TransactionsOK, Idle
<1>4. raced => raced'
  BY <1>2, Watched
<1>5. CASE w = Nobody
  BY <1>1, <1>2, <1>3, <1>4, <1>5, PlainClosure
<1>6. CASE w # Nobody
  <2>1. w \in Accounts \ {a} /\ product[w] = product[a] /\ inflight[a].promote
    BY <1>1, <1>6 DEF Others, Waiting
  <2>2. /\ state'[a] = "cancelled" /\ \A b \in Accounts \ {a, w} : state'[b] = state[b]
        /\ UNCHANGED <<product, upgradeVars, limitVars>>
    BY <1>1, <2>1, ClosedRows
  <2>3. Claims(a) /\ ~ Claims(a)'
    BY <1>3, <2>1, <2>2 DEF Claims, OccupiedStates
  <2>4. \A b \in Accounts \ {a, w} : Claims(b)' => Claims(b)
    BY <1>3, <2>2 DEF Claims
  <2>5. UNCHANGED <<product, upgradeVars, limitVars, paying>>
    BY <1>2, <2>2
  <2> QED
    BY <1>4, <2>1, <2>3, <2>4, <2>5, PromotionStep
<1> QED
  BY <1>5, <1>6

\* A completed upgrade turns the place that was kept for it into an admission.
LEMMA ReplacementClaims ==
    ASSUME CInv, RInv', NEW a \in Accounts, CommitTierReplacement(a)
    PROVE  ClaimsBounded'
<1> USE DEF CInv
<1>1. /\ a \in paying /\ state[a] \in {"confirmed", "checked_in"}
      /\ product' = [product EXCEPT ![a] = upgrade[a]]
      /\ upgrade' = [upgrade EXCEPT ![a] = NoProduct]
      /\ upgradeIn' = [upgradeIn EXCEPT ![a] = 0]
      /\ paying' = paying \ {a}
      /\ UNCHANGED <<state, inflight, productLimit, overallLimit>> /\ Watch
  BY DEF CommitTierReplacement, Completable, limitVars
<1>2. raced => raced'
  BY <1>1, Watched
<1>3. Cardinality(Claimants') <= overallLimit' + Slack'
  BY <1>1, <1>2, KeptOverall DEF ClaimsBounded, Claims
<1>4. ASSUME NEW q \in Products PROVE ProductClaims(q)'
  <2>1. CASE q = upgrade[a]
    <3>1. ClaimantsOf(q)' \subseteq ClaimantsOf(q) \union {a}
      BY <1>1 DEF ClaimantsOf, Claims, RInv, TypeOK, RowsOK
    <3>2. a \in Upgrading(q) /\ Upgrading(q)' \subseteq Upgrading(q) \ {a}
      BY <1>1, <2>1, CatalogAssumption DEF Upgrading, RInv, TypeOK, UpgradesOK
    <3>3. /\ Cardinality(ClaimantsOf(q)') <= Cardinality(ClaimantsOf(q)) + 1
          /\ Cardinality(Upgrading(q)') + 1 <= Cardinality(Upgrading(q))
      BY <3>1, <3>2, ClaimSets, CountMore, CountLess
    <3> QED
      BY <1>1, <1>2, <3>3, ClaimCounts, SlackGrows DEF ProductClaims, ClaimsBounded
  <2>2. CASE q # upgrade[a]
    <3>1. ClaimantsOf(q)' \subseteq ClaimantsOf(q)
      BY <1>1, <2>2 DEF ClaimantsOf, Claims, RInv, TypeOK, RowsOK
    <3>2. Upgrading(q)' \subseteq Upgrading(q)
      BY <1>1, CatalogAssumption DEF Upgrading, RInv, TypeOK, UpgradesOK
    <3>3. /\ Cardinality(ClaimantsOf(q)') <= Cardinality(ClaimantsOf(q))
          /\ Cardinality(Upgrading(q)') <= Cardinality(Upgrading(q))
      BY <3>1, <3>2, ClaimSets, CountPart
    <3> QED
      BY <1>1, <1>2, <3>3, ClaimCounts, SlackGrows DEF ProductClaims, ClaimsBounded
  <2> QED
    BY <2>1, <2>2
<1> QED
  BY <1>3, <1>4 DEF ClaimsBounded

-----------------------------------------------------------------------------
(* The invariant of the claims *)

\* Transactions begin only up to their bound.
LEMMA TransactionsStep ==
    ASSUME CInv, RInv', [Next]_vars
    PROVE  TransactionsBounded'
<1> USE DEF CInv
<1>1. paying \subseteq Accounts /\ paying' \subseteq Accounts
  BY DEF RInv, TypeOK, TransactionsOK
<1>2. /\ Cardinality(Busy) \in Nat /\ Cardinality(paying) \in Nat
      /\ Cardinality(Busy') \in Nat /\ Cardinality(paying') \in Nat /\ MaxInflight \in Nat
  BY <1>1, ClaimSets, CountType, BoundAssumption
<1>3. ASSUME Busy' \subseteq Busy, paying' \subseteq paying PROVE TransactionsBounded'
  <2>1. Cardinality(Busy') <= Cardinality(Busy) /\ Cardinality(paying') <= Cardinality(paying)
    BY <1>1, <1>3, ClaimSets, CountPart
  <2> QED
    BY <1>2, <2>1 DEF TransactionsBounded
<1>4. ASSUME NEW a \in Accounts, NEW kind, BeginClosure(a, kind) PROVE TransactionsBounded'
  <2>1. Busy' \subseteq Busy \union {a} /\ paying' = paying
    BY <1>4 DEF BeginClosure, Busy, RInv, TypeOK, TransactionsOK
  <2>2. Cardinality(Busy) + Cardinality(paying) < MaxInflight
    BY <1>4 DEF BeginClosure, MayBegin, Busy
  <2>3. Cardinality(Busy') <= Cardinality(Busy) + 1
    BY <2>1, ClaimSets, CountMore
  <2> QED
    BY <1>2, <2>1, <2>2, <2>3 DEF TransactionsBounded
<1>5. ASSUME NEW a \in Accounts, BeginTierReplacement(a) PROVE TransactionsBounded'
  <2>1. Busy' = Busy /\ paying' = paying \union {a}
    BY <1>5 DEF BeginTierReplacement, Busy
  <2>2. Cardinality(Busy) + Cardinality(paying) < MaxInflight
    BY <1>5 DEF BeginTierReplacement, MayBegin, Busy
  <2>3. Cardinality(paying') <= Cardinality(paying) + 1
    BY <1>1, <2>1, CountMore
  <2> QED
    BY <1>2, <2>1, <2>2, <2>3 DEF TransactionsBounded
<1>6. ASSUME NEW a \in Accounts,
             CommitClosure(a) \/ CommitTierReplacement(a) \/ AbandonTierReplacement(a)
      PROVE  TransactionsBounded'
  <2>1. Busy' \subseteq Busy /\ paying' \subseteq paying
    BY <1>6 DEF CommitClosure, CommitTierReplacement, AbandonTierReplacement, Busy, RInv, TypeOK,
                TransactionsOK
  <2> QED
    BY <1>3, <2>1
<1>7. CASE UNCHANGED <<inflight, paying>>
  BY <1>3, <1>7 DEF Busy
<1>8. CASE QuietStep
  <2>1. ASSUME NEW a \in Accounts, ApproveCancellation(a) \/ ApplyRestriction(a)
        PROVE  TransactionsBounded'
    BY <1>4, <2>1 DEF ApproveCancellation, ApplyRestriction
  <2>2. PassStep => UNCHANGED <<inflight, paying>>
    BY PassSteps
  <2> QED
    BY <1>5, <1>6, <1>7, <1>8, <2>1, <2>2
    DEF QuietStep, ReserveTierReplacement, ExpireTierReplacement, DeactivateAccount,
        ExtendPaymentDeadline, AdjustProductCapacity, AdjustOverallCapacity, Tick, CloseSales,
        vars, transactionVars
<1>9. CASE RowsStep
  BY <1>6, <1>7, <1>9
  DEF RowsStep, SubmitRegistration, ConfirmPayment, WaiveRegistrationPayment,
      CheckInRegistration, RestrictCheckedIn, AcceptGuardianConsent, CloseCandidate, VisitCandidate,
      OfferWaitlistBatch, transactionVars
<1> QED
  BY <1>8, <1>9, StepKinds

\* Nobody comes to wait for a guardian.
LEMMA ConsentStep ==
    ASSUME CInv, RInv', TransactionsBounded', [Next]_vars, Minors = {}
    PROVE  NoConsent'
<1> USE DEF CInv, RInv, TypeOK, RowsOK
<1>1. CASE QuietStep
  BY <1>1, QuietRows DEF NoConsent
<1>2. ASSUME NEW a \in Accounts, NEW p \in Products, NEW bypass \in BOOLEAN,
             SubmitRegistration(a, p, bypass)
      PROVE  NoConsent'
  BY <1>2, SubmitClaims
<1>3. ASSUME NEW a \in Accounts,
             \/ ConfirmPayment(a) \/ WaiveRegistrationPayment(a) \/ CheckInRegistration(a)
             \/ RestrictCheckedIn(a) \/ CommitTierReplacement(a)
      PROVE  NoConsent'
  BY <1>3 DEF ConfirmPayment, WaiveRegistrationPayment, CheckInRegistration, RestrictCheckedIn,
              CommitTierReplacement, NoConsent
<1>4. ASSUME NEW a \in Accounts, AcceptGuardianConsent(a) PROVE NoConsent'
  BY <1>4 DEF AcceptGuardianConsent, NoConsent
<1>5. ASSUME NEW a \in Accounts, CloseCandidate(a) \/ CommitClosure(a) PROVE NoConsent'
  <2>0. PICK next \in {"cancelled", "expired"} : \E w : CloseRegistration(a, next, w)
    BY <1>5, ClosureCases
  <2>1. PICK w : CloseRegistration(a, next, w)
    BY <2>0
  <2>2. PICK f : f = [c \in Accounts |-> IF c = a THEN next ELSE Admission(product[a])]
    OBVIOUS
  <2>3. WriteRows({a, w} \ {Nobody}, f)
    BY <2>1, <2>2 DEF CloseRegistration
  <2>4. \A b \in Accounts : state'[b] \in {state[b], f[b]}
    BY <2>3, WrittenRow
  <2>5. \A b \in Accounts : f[b] # "guardian_pending"
    BY <2>2, AdmissionState
  <2> QED
    BY <2>4, <2>5 DEF NoConsent
<1>6. ASSUME NEW p \in Products, NEW n \in BatchSizes, NEW chosen \in SUBSET Accounts,
             OfferWaitlistBatch(p, n, chosen)
      PROVE  NoConsent'
  <2>1. WriteRows(chosen, [a \in Accounts |-> Admission(p)])
    BY <1>6 DEF OfferWaitlistBatch
  <2>2. \A b \in Accounts : state'[b] \in {state[b], Admission(p)}
    BY <2>1, WrittenRow
  <2> QED
    BY <2>2, AdmissionState DEF NoConsent
<1> QED
  BY <1>1, <1>2, <1>3, <1>4, <1>5, <1>6, StepKinds DEF RowsStep

\* Every step keeps the claims within their bounds.
LEMMA ClaimsStep ==
    ASSUME CInv, RInv', TransactionsBounded', [Next]_vars, Minors = {}
    PROVE  ClaimsBounded'
<1>1. ASSUME NEW a \in Accounts, ApproveCancellation(a) \/ ApplyRestriction(a)
      PROVE  ClaimsBounded'
  <2>1. PICK kind : BeginClosure(a, kind)
    BY <1>1 DEF ApproveCancellation, ApplyRestriction
  <2>2. product[a] \in Products
    BY <1>1 DEF ApproveCancellation, ApplyRestriction, CInv, RInv, HasProduct
  <2> QED
    BY <2>1, <2>2, BeginClosureClaims
<1>2. CASE QuietStep
  <2>1. CASE PassStep
    <3>1. /\ UNCHANGED <<state, product, upgrade, upgradeIn, inflight, paying, limitVars>>
          /\ Watch \/ UNCHANGED raced
      BY <2>1, PassSteps DEF CInv, rowVars, upgradeVars
    <3>2. raced => raced'
      BY <3>1, Watched DEF CInv
    <3>3. \A b \in Accounts : KeepsClaims(b)
      BY <3>1 DEF KeepsClaims, Claims, Upgrading
    <3> QED
      BY <3>1, <3>2, <3>3, KeptClaims
  <2> QED
    BY <1>1, <1>2, <2>1, ReserveClaims, AdjustmentClaims, KeepingClaims DEF QuietStep, KeepingStep
<1>3. ASSUME NEW a \in Accounts PROVE ~ AcceptGuardianConsent(a)
  BY DEF AcceptGuardianConsent, CInv, NoConsent
<1>4. CASE RowsStep
  BY <1>3, <1>4, SubmitClaims, KeepingClaims, ReplacementClaims, LifecycleClaims, ClosureClaims,
     OfferClaims
  DEF RowsStep, KeepingStep
<1> QED
  BY <1>2, <1>4, StepKinds

\* At the start nobody claims a place.
LEMMA InitCInv == Init => CInv
<1> SUFFICES ASSUME Init PROVE CInv
  OBVIOUS
<1>1. RInv
  BY InitRInv
<1>2. NoConsent
  BY DEF Init, NoConsent
<1>3. Busy = {} /\ paying = {} /\ Claimants = {}
  BY DEF Init, Busy, Claimants, Claims, Idle, OccupiedStates
<1>4. \A p \in Products : ClaimantsOf(p) = {} /\ Upgrading(p) = {}
  BY CatalogAssumption DEF Init, ClaimantsOf, Claims, Upgrading, Idle, OccupiedStates
<1>5. Slack = 0 /\ overallLimit \in Nat /\ \A p \in Products : productLimit[p] \in Nat
  BY CapacityAssumption DEF Init, Slack
<1>6. TransactionsBounded
  BY <1>3, FS_EmptySet, BoundAssumption DEF TransactionsBounded
<1>7. ClaimsBounded
  <2>1. Cardinality(Claimants) = 0
    BY <1>3, FS_EmptySet
  <2>2. ASSUME NEW p \in Products PROVE ProductClaims(p)
    <3>1. Cardinality(ClaimantsOf(p)) = 0 /\ Cardinality(Upgrading(p)) = 0
      BY <1>4, FS_EmptySet
    <3> QED
      BY <1>5, <3>1 DEF ProductClaims
  <2> QED
    BY <1>5, <2>1, <2>2 DEF ClaimsBounded
<1> QED
  BY <1>1, <1>2, <1>6, <1>7 DEF CInv

\* Rows that have a place claim it.
LEMMA ClaimsCoverRows == CInv => OversubscriptionBounded
<1> SUFFICES ASSUME CInv PROVE OversubscriptionBounded
  OBVIOUS
<1>1. MaxInflight \in Nat
  BY BoundAssumption
<1>2. Cardinality(Occupied) <= overallLimit + Slack
  <2>1. Occupied \subseteq Claimants
    BY DEF Occupied, Claimants, Claims
  <2>2. Cardinality(Occupied) <= Cardinality(Claimants)
    BY <2>1, ClaimSets, CountPart
  <2>3. Cardinality(Occupied) \in Nat /\ Cardinality(Claimants) \in Nat
    BY ClaimSets, CountType
  <2>4. overallLimit \in Nat /\ Slack \in Nat
    BY <1>1, CapacityAssumption DEF CInv, RInv, TypeOK, LimitsOK, Slack
  <2> QED
    BY <2>2, <2>3, <2>4 DEF CInv, ClaimsBounded
<1>3. ASSUME NEW p \in Products
      PROVE  Cardinality(OccupiedIn(p)) + Cardinality(Holds(p)) <= productLimit[p] + Slack
  <2>1. OccupiedIn(p) \subseteq ClaimantsOf(p) /\ Holds(p) \subseteq Upgrading(p)
    BY DEF OccupiedIn, Occupied, ClaimantsOf, Claims, Holds, Upgrading
  <2>2. /\ Cardinality(OccupiedIn(p)) <= Cardinality(ClaimantsOf(p))
        /\ Cardinality(Holds(p)) <= Cardinality(Upgrading(p))
    BY <2>1, ClaimSets, CountPart
  <2>3. /\ Cardinality(OccupiedIn(p)) \in Nat /\ Cardinality(ClaimantsOf(p)) \in Nat
        /\ Cardinality(Holds(p)) \in Nat /\ Cardinality(Upgrading(p)) \in Nat
    BY ClaimSets, CountType
  <2>4. productLimit[p] \in Nat /\ Slack \in Nat
    BY <1>1 DEF CInv, RInv, TypeOK, LimitsOK, Slack
  <2> QED
    BY <2>2, <2>3, <2>4 DEF CInv, ClaimsBounded, ProductClaims
<1> QED
  BY <1>2, <1>3 DEF OversubscriptionBounded, ExceedsByAtMost, Slack

\* Without minors nothing oversubscribes a product or the edition unless
\* something comes between the steps of a cancellation, a restriction or the
\* payment of an upgrade, and then each of these costs one place at most, for
\* any number of them at a time and however often it happens: an edition that
\* is full promises nothing further.  (With minors the statement is false:
\* accept_guardian_consent decides by the configured capacities.)
THEOREM PlacesAreBounded ==
    ASSUME Minors = {}
    PROVE  Spec => []OversubscriptionBounded
<1>1. CInv /\ RInv' /\ [Next]_vars => CInv'
  BY TransactionsStep, ConsentStep, ClaimsStep DEF CInv
<1> QED
  BY <1>1, InitCInv, ClaimsCoverRows, RegistrationInvariance, PTL DEF Spec
=============================================================================
