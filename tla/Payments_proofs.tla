--------------------------- MODULE Payments_proofs ---------------------------
(***************************************************************************)
(* Proofs about Payments for every set of registrations, every amount,     *)
(* deadline and hold, every kind of event, and every bound on intents,     *)
(* events, deliveries and time.                                            *)
(***************************************************************************)
EXTENDS Payments, SequenceTheorems, TLAPS

-----------------------------------------------------------------------------
(* Type correctness *)

\* The initial rows are well typed.
LEMMA InitTypeOK == Init => TypeOK
<1> SUFFICES ASSUME Init PROVE TypeOK
  OBVIOUS
<1>1. RegistrationsOK
  BY DEF Init, RegistrationsOK
<1>2. IntentsOK
  <2>1. intents \in Seq(Intents) /\ Len(intents) = 0
    BY EmptySeq DEF Init
  <2>2. DOMAIN intents = {}
    BY <2>1, LenProperties
  <2> QED
    BY <2>1, <2>2 DEF Init, IntentsOK
<1>3. SentOK
  <2>1. \A S : sent \in Seq(S) /\ Len(sent) = 0
    BY EmptySeq DEF Init
  <2> QED
    BY <2>1, PaymentAssumption DEF SentOK
<1>4. EvidenceOK
  BY DEF Init, EvidenceOK, Kinds
<1> QED
  BY <1>1, <1>2, <1>3, <1>4 DEF TypeOK

\* What a step on the registrations alone keeps.
LEMMA OtherRowsKept ==
    ASSUME TypeOK, UNCHANGED <<intents, checkoutVars, sent, deliveries, evidenceVars>>
    PROVE  IntentsOK' /\ SentOK' /\ EvidenceOK'
<1>1. IntentsOK'
  BY DEF TypeOK, IntentsOK, checkoutVars
<1>2. SentOK'
  BY DEF TypeOK, SentOK, checkoutVars
<1>3. EvidenceOK'
  BY DEF TypeOK, EvidenceOK, evidenceVars
<1> QED
  BY <1>1, <1>2, <1>3

\* What a step on the intents and checkouts alone keeps.
LEMMA EvidenceKept ==
    ASSUME TypeOK, UNCHANGED <<now, registrationVars, sent, deliveries, evidenceVars>>,
           checkouts \subseteq checkouts'
    PROVE  RegistrationsOK' /\ SentOK' /\ EvidenceOK'
<1>1. RegistrationsOK'
  BY DEF TypeOK, RegistrationsOK, registrationVars
<1>2. SentOK'
  <2> DEFINE Sent(C) == [intent : C, type : Types, amount : Nat, local : BOOLEAN, at : Nat]
  <2>1. Sent(checkouts) \subseteq Sent(checkouts')
    OBVIOUS
  <2>2. sent \in Seq(Sent(checkouts')) 
    BY <2>1, SeqMonotonic DEF TypeOK, SentOK
  <2> QED
    BY <2>2 DEF TypeOK, SentOK
<1>3. EvidenceOK'
  BY DEF TypeOK, EvidenceOK, evidenceVars
<1> QED
  BY <1>1, <1>2, <1>3

\* What the begin or the end of a delivery alone keeps.
LEMMA DeliveryKeeps ==
    ASSUME TypeOK, UNCHANGED <<now, registrationVars, intents, checkoutVars, sent>>
    PROVE  RegistrationsOK' /\ IntentsOK' /\ SentOK'
<1>1. RegistrationsOK'
  BY DEF TypeOK, RegistrationsOK, registrationVars
<1>2. IntentsOK'
  BY DEF TypeOK, IntentsOK, checkoutVars
<1>3. SentOK'
  BY DEF TypeOK, SentOK, checkoutVars
<1> QED
  BY <1>1, <1>2, <1>3

\* The sequence of intents after a change of one row.
LEMMA IntentUpdate ==
    ASSUME IntentsOK, NEW i \in DOMAIN intents, NEW v \in Intents,
           intents' = [intents EXCEPT ![i] = v]
    PROVE  /\ intents' \in Seq(Intents)
           /\ DOMAIN intents' = DOMAIN intents
           /\ intents'[i] = v
           /\ \A j \in DOMAIN intents : j # i => intents'[j] = intents[j]
<1>1. intents \in Seq(Intents)
  BY DEF IntentsOK
<1>2. i \in 1 .. Len(intents)
  BY <1>1, LenProperties
<1>3. intents' \in Seq(Intents)
  BY <1>1, <1>2, ExceptSeq
<1> QED
  BY <1>1, <1>2, <1>3

\* The calls to the provider keep the intents well typed, and so does an event
\* that changes the status of an intent with a stored reference.
LEMMA CallStep ==
    ASSUME TypeOK, NEW i \in DOMAIN intents,
           \/ ProviderMakesCheckout(i) \/ StoreReference(i)
           \/ MarkUncertain(i) \/ CreatorCrashes(i)
    PROVE  TypeOK'
<1> USE DEF checkoutVars
<1>0. intents \in Seq(Intents) /\ intents[i] \in Intents
  BY LenProperties, ElementOfSeq DEF TypeOK, IntentsOK
<1>1. CASE ProviderMakesCheckout(i) \/ CreatorCrashes(i)
  <2>1. IntentsOK'
    BY <1>0, <1>1 DEF TypeOK, IntentsOK, ProviderMakesCheckout, CreatorCrashes
  <2>2. RegistrationsOK' /\ SentOK' /\ EvidenceOK'
    BY <1>1, EvidenceKept DEF ProviderMakesCheckout, CreatorCrashes
  <2> QED
    BY <2>1, <2>2 DEF TypeOK
<1>2. CASE StoreReference(i)
  <2> DEFINE v == [intents[i] EXCEPT !.status = "checkout_ready", !.stored = TRUE]
  <2>1. v \in Intents /\ intents' = [intents EXCEPT ![i] = v]
    BY <1>0, <1>2 DEF StoreReference, Intents
  <2>2. v.stored = TRUE
    BY <1>0 DEF Intents
  <2> HIDE DEF v
  <2>3. /\ intents' \in Seq(Intents)
        /\ DOMAIN intents' = DOMAIN intents
        /\ intents'[i] = v
        /\ \A j \in DOMAIN intents : j # i => intents'[j] = intents[j]
    BY <2>1, IntentUpdate DEF TypeOK
  <2>4. IntentsOK'
    BY <1>2, <2>2, <2>3 DEF TypeOK, IntentsOK, StoreReference
  <2>5. RegistrationsOK' /\ SentOK' /\ EvidenceOK'
    BY <1>2, EvidenceKept DEF StoreReference
  <2> QED
    BY <2>4, <2>5 DEF TypeOK
<1>3. CASE MarkUncertain(i)
  <2> DEFINE v == [intents[i] EXCEPT !.status = "uncertain"]
  <2>1. v \in Intents /\ intents' = [intents EXCEPT ![i] = v]
    BY <1>0, <1>3 DEF MarkUncertain, Intents
  <2>2. v.stored = intents[i].stored /\ v.status = "uncertain"
    BY <1>0 DEF Intents
  <2> HIDE DEF v
  <2>3. /\ intents' \in Seq(Intents)
        /\ DOMAIN intents' = DOMAIN intents
        /\ intents'[i] = v
        /\ \A j \in DOMAIN intents : j # i => intents'[j] = intents[j]
    BY <2>1, IntentUpdate DEF TypeOK
  <2>4. IntentsOK'
    BY <1>3, <2>2, <2>3 DEF TypeOK, IntentsOK, MarkUncertain
  <2>5. RegistrationsOK' /\ SentOK' /\ EvidenceOK'
    BY <1>3, EvidenceKept DEF MarkUncertain
  <2> QED
    BY <2>4, <2>5 DEF TypeOK
<1> QED
  BY <1>1, <1>2, <1>3

\* A new intent is typed, and its creator waits for the provider.
LEMMA CreateStep ==
    ASSUME TypeOK, NEW r \in Registrations, CreateIntent(r)
    PROVE  TypeOK'
<1> DEFINE v == [status |-> "creating", stored |-> FALSE, registration |-> r,
                 forUpgrade |-> state[r] # "payment_pending"]
<1>1. v \in Intents /\ v.stored = FALSE /\ v.status = "creating"
  BY DEF Intents
<1>2. intents' = Append(intents, v)
  BY DEF CreateIntent
<1> HIDE DEF v
<1>3. /\ intents \in Seq(Intents) /\ Len(intents) \in Nat
      /\ DOMAIN intents = 1 .. Len(intents)
  BY LenProperties DEF TypeOK, IntentsOK
<1>4. /\ intents' \in Seq(Intents) /\ DOMAIN intents' = 1 .. Len(intents) + 1
      /\ intents'[Len(intents) + 1] = v
      /\ \A j \in DOMAIN intents : intents'[j] = intents[j]
  BY <1>1, <1>2, <1>3, AppendProperties, LenProperties
<1>5. IntentsOK'
  BY <1>1, <1>3, <1>4 DEF TypeOK, IntentsOK, CreateIntent
<1>6. RegistrationsOK' /\ SentOK' /\ EvidenceOK'
  BY EvidenceKept DEF CreateIntent
<1> QED
  BY <1>5, <1>6 DEF TypeOK

\* The events are appended one by one.
LEMMA SendStep ==
    ASSUME TypeOK, NEW i \in DOMAIN intents, NEW m \in Messages, ProviderSends(i, m)
    PROVE  /\ TypeOK'
           /\ Len(sent) + 1 \in Events \ DOMAIN sent
           /\ DOMAIN sent' = DOMAIN sent \union {Len(sent) + 1}
           /\ sent'[Len(sent) + 1].type = m.type
           /\ \A e \in DOMAIN sent : sent'[e] = sent[e]
<1> DEFINE v == [intent |-> i, type |-> m.type, amount |-> m.amount,
                 local |-> m.local, at |-> now]
           Sent == [intent : checkouts, type : Types, amount : Nat, local : BOOLEAN, at : Nat]
<1>1. v \in Sent /\ v.type = m.type
  BY PaymentAssumption DEF ProviderSends, TypeOK, RegistrationsOK
<1>2. sent' = Append(sent, v)
  BY DEF ProviderSends
<1>3. sent \in Seq(Sent)
  BY DEF TypeOK, SentOK
<1> HIDE DEF v, Sent
<1>4. Len(sent) \in Nat /\ DOMAIN sent = 1 .. Len(sent)
  BY <1>3, LenProperties
<1>5. /\ sent' \in Seq(Sent) /\ Len(sent') = Len(sent) + 1
      /\ DOMAIN sent' = 1 .. Len(sent) + 1
      /\ sent'[Len(sent) + 1] = v
      /\ \A e \in DOMAIN sent : sent'[e] = sent[e]
  BY <1>1, <1>2, <1>3, <1>4, AppendProperties, LenProperties
<1>6. SentOK'
  BY <1>4, <1>5, PaymentAssumption DEF SentOK, ProviderSends, checkoutVars, Sent
<1>7. RegistrationsOK' /\ IntentsOK'
  BY DEF TypeOK, RegistrationsOK, IntentsOK, ProviderSends, registrationVars, checkoutVars
<1>8. EvidenceOK'
  BY <1>4, <1>5 DEF TypeOK, EvidenceOK, ProviderSends, evidenceVars
<1> QED
  BY <1>1, <1>4, <1>5, <1>6, <1>7, <1>8, PaymentAssumption DEF TypeOK, Events, ProviderSends

\* A delivery under way is of an event that was sent.
LEMMA DeliveredWasSent ==
    ASSUME TypeOK, NEW e \in Events, NEW overdue \in BOOLEAN, EndDelivery(e, overdue)
    PROVE  e \in DOMAIN sent
BY DEF TypeOK, EvidenceOK, EndDelivery

\* The facts about an event and its intent that the handlers rely on.
LEMMA SentEvent ==
    ASSUME TypeOK, NEW e \in DOMAIN sent
    PROVE  /\ sent[e].intent \in DOMAIN intents
           /\ sent[e].type \in Types
           /\ Intent(e) \in Intents
           /\ RegistrationOf(e) \in Registrations
<1>1. sent[e] \in [intent : checkouts, type : Types, amount : Nat, local : BOOLEAN, at : Nat]
  BY LenProperties, ElementOfSeq DEF TypeOK, SentOK
<1>2. sent[e].intent \in DOMAIN intents /\ sent[e].type \in Types
  BY <1>1 DEF TypeOK, IntentsOK
<1>3. Intent(e) \in Intents
  BY <1>2, LenProperties, ElementOfSeq DEF TypeOK, IntentsOK, Intent
<1> QED
  BY <1>2, <1>3 DEF RegistrationOf, Intents

\* The receipt with its exception and ledger entry is typed evidence.
LEMMA RecordStep ==
    ASSUME TypeOK, NEW e \in Events, NEW overdue \in BOOLEAN,
           NEW outcome \in {"applied", "exception"}, NEW exception \in Kinds \union {"none"},
           NEW entry \in {"none", "payment"}, Record(e, overdue, outcome, exception, entry)
    PROVE  SentOK' /\ EvidenceOK' /\ e \in DOMAIN sent
<1>1. e \in DOMAIN sent
  BY DeliveredWasSent DEF Record
<1>2. SentOK'
  BY DEF TypeOK, SentOK, Record, checkoutVars
<1>3. deliveries' \in [Events -> [BOOLEAN -> Nat]]
      /\ \A f \in Events \ {e} : deliveries'[f] = deliveries[f]
  BY DEF Record, EndDelivery, TypeOK, EvidenceOK
<1>4. EvidenceOK'
  BY <1>1, <1>3 DEF TypeOK, EvidenceOK, Record
<1> QED
  BY <1>1, <1>2, <1>4

\* An event changes the status of an intent whose reference is stored.
LEMMA StatusStep ==
    ASSUME TypeOK, NEW e \in DOMAIN sent, Intent(e).stored,
           NEW status \in {"succeeded", "late", "mismatch", "failed", "abandoned"},
           SetStatus(e, status), UNCHANGED checkoutVars
    PROVE  IntentsOK'
<1> DEFINE i == sent[e].intent
           v == [intents[i] EXCEPT !.status = status]
<1>1. i \in DOMAIN intents /\ intents[i] \in Intents
  BY SentEvent DEF Intent
<1>2. v \in Intents /\ v.stored = intents[i].stored /\ intents' = [intents EXCEPT ![i] = v]
  BY <1>1 DEF Intents, SetStatus
<1> HIDE DEF v
<1>3. /\ intents' \in Seq(Intents)
      /\ DOMAIN intents' = DOMAIN intents
      /\ intents'[i] = v
      /\ \A j \in DOMAIN intents : j # i => intents'[j] = intents[j]
  BY <1>1, <1>2, IntentUpdate DEF TypeOK
<1> QED
  BY <1>1, <1>2, <1>3 DEF TypeOK, IntentsOK, checkoutVars, Intent

\* A delivery leaves typed rows, whatever it decides.
LEMMA FinishStep ==
    ASSUME TypeOK, NEW e \in Events, NEW overdue \in BOOLEAN, FinishDelivery(e, overdue),
           ~ RollsBack(e, overdue)
    PROVE  TypeOK'
<1> DEFINE NewStatus == {"succeeded", "late", "mismatch", "failed", "abandoned"}
<1>1. PICK outcome \in {"applied", "exception"}, exception \in Kinds \union {"none"},
           entry \in {"none", "payment"} : Record(e, overdue, outcome, exception, entry)
  BY DEF FinishDelivery, DuplicateRollsBack, UnknownIntent, ReconcileMismatch,
         ReconcileLateSuccess, ConfirmRegistration, ConfirmationRollsBack, CompleteUpgrade,
         UpgradeRollsBack, ReconcileFailure, UnsupportedEvent, Kinds
<1>2. SentOK' /\ EvidenceOK' /\ e \in DOMAIN sent
  BY <1>1, RecordStep
<1>3. RegistrationOf(e) \in Registrations /\ UNCHANGED <<now, checkoutVars>>
  BY <1>1, <1>2, SentEvent DEF Record
<1>4. RegistrationsOK'
  BY <1>3 DEF FinishDelivery, DuplicateRollsBack, UnknownIntent, ReconcileMismatch,
         ReconcileLateSuccess, ConfirmRegistration, ConfirmationRollsBack, CompleteUpgrade,
         UpgradeRollsBack, ReconcileFailure, UnsupportedEvent, registrationVars, TypeOK, RegistrationsOK
<1>5. UNCHANGED intents \/ \E status \in NewStatus : SetStatus(e, status) /\ Intent(e).stored
  BY DEF FinishDelivery, DuplicateRollsBack, UnknownIntent, ReconcileMismatch,
         ReconcileLateSuccess, ConfirmRegistration, ConfirmationRollsBack, CompleteUpgrade,
         UpgradeRollsBack, ReconcileFailure, UnsupportedEvent, Exact, Success
<1>6. IntentsOK'
  <2>1. CASE UNCHANGED intents
    BY <1>3, <2>1 DEF TypeOK, IntentsOK, checkoutVars
  <2>2. CASE \E status \in NewStatus : SetStatus(e, status) /\ Intent(e).stored
    BY <1>2, <1>3, <2>2, StatusStep
  <2> QED
    BY <1>5, <2>1, <2>2
<1> QED
  BY <1>2, <1>4, <1>6 DEF TypeOK

\* Every transaction, call and event keeps the rows well typed and in step
\* with each other.
LEMMA NextTypeOK == TypeOK /\ [Next]_vars => TypeOK'
<1> SUFFICES ASSUME TypeOK, [Next]_vars PROVE TypeOK'
  OBVIOUS
<1>1. CASE Tick
  <2>1. RegistrationsOK'
    BY <1>1 DEF Tick, TypeOK, RegistrationsOK, registrationVars
  <2> QED
    BY <1>1, <2>1, OtherRowsKept DEF Tick, TypeOK
<1>1a. CASE CloseEdition
  <2>1. RegistrationsOK'
    BY <1>1a DEF CloseEdition, TypeOK, RegistrationsOK
  <2> QED
    BY <1>1a, <2>1, OtherRowsKept DEF CloseEdition, TypeOK
<1>2. ASSUME NEW r \in Registrations, CreateIntent(r) PROVE TypeOK'
  BY <1>2, CreateStep
<1>3. ASSUME NEW r \in Registrations,
             \/ WaivePayment(r) \/ ExpireReservation(r) \/ CancelRegistration(r)
             \/ ReserveUpgrade(r) \/ ExpireUpgrade(r)
      PROVE  TypeOK'
  <2> USE <1>3 DEF WaivePayment, ExpireReservation, CancelRegistration, Close,
                   ReserveUpgrade, ExpireUpgrade
  <2>1. RegistrationsOK'
    BY PaymentAssumption DEF TypeOK, RegistrationsOK
  <2> QED
    BY <2>1, OtherRowsKept DEF TypeOK
<1>4. ASSUME NEW i \in DOMAIN intents,
             \/ ProviderMakesCheckout(i) \/ StoreReference(i)
             \/ MarkUncertain(i) \/ CreatorCrashes(i)
      PROVE  TypeOK'
  BY <1>4, CallStep
<1>5. ASSUME NEW i \in DOMAIN intents, NEW m \in Messages, ProviderSends(i, m) PROVE TypeOK'
  BY <1>5, SendStep
<1>6. ASSUME NEW e \in Events, BeginDelivery(e) PROVE TypeOK'
  <2>1. e \in DOMAIN sent
    BY <1>6, LenProperties DEF BeginDelivery, Events, TypeOK, SentOK
  <2>2. Overdue(e) \in BOOLEAN
    BY DEF Overdue, UpgradePending
  <2>3. /\ deliveries' \in [Events -> [BOOLEAN -> Nat]]
        /\ \A f \in Events \ {e} : deliveries'[f] = deliveries[f]
    BY <1>6, <2>2 DEF BeginDelivery, TypeOK, EvidenceOK
  <2>4. EvidenceOK'
    BY <1>6, <2>1, <2>3 DEF BeginDelivery, TypeOK, EvidenceOK, evidenceVars
  <2>5. RegistrationsOK' /\ IntentsOK' /\ SentOK'
    BY <1>6, DeliveryKeeps DEF BeginDelivery
  <2> QED
    BY <2>4, <2>5 DEF TypeOK
<1>7. ASSUME NEW e \in Events, NEW overdue \in BOOLEAN, RollsBack(e, overdue) PROVE TypeOK'
  <2>1. e \in DOMAIN sent
    BY <1>7, DeliveredWasSent DEF RollsBack
  <2>2. /\ deliveries' \in [Events -> [BOOLEAN -> Nat]]
        /\ \A f \in Events \ {e} : deliveries'[f] = deliveries[f]
    BY <1>7 DEF RollsBack, EndDelivery, TypeOK, EvidenceOK
  <2>3. EvidenceOK'
    BY <1>7, <2>1, <2>2 DEF RollsBack, TypeOK, EvidenceOK, evidenceVars
  <2>4. RegistrationsOK' /\ IntentsOK' /\ SentOK'
    BY <1>7, DeliveryKeeps DEF RollsBack
  <2> QED
    BY <2>3, <2>4 DEF TypeOK
<1>8. ASSUME NEW e \in Events, NEW overdue \in BOOLEAN, FinishDelivery(e, overdue)
      PROVE  TypeOK'
  BY <1>7, <1>8, FinishStep
<1>9. CASE UNCHANGED vars
  BY <1>9 DEF vars, registrationVars, checkoutVars, evidenceVars, TypeOK, RegistrationsOK,
              IntentsOK, SentOK, EvidenceOK
<1> QED
  BY <1>1, <1>1a, <1>2, <1>3, <1>4, <1>5, <1>6, <1>7, <1>8, <1>9 DEF Next

\* In every behaviour of creators, provider and deliveries the rows keep their
\* types, no event reaches an intent before its reference is stored, and only
\* an event that was sent has a receipt.
THEOREM TypeCorrect == SafetySpec => []TypeOK
BY InitTypeOK, NextTypeOK, PTL DEF SafetySpec

-----------------------------------------------------------------------------
(* The refinement.  That no event is judged twice or in part, and that no   *)
(* charge is served twice, needs more than the guards of one delivery: the  *)
(* receipt, the exception and the ledger entry of an event are written      *)
(* together, and a registration that still waits for its payment has not    *)
(* been confirmed by an earlier one.                                        *)

\* Receipt, exception and ledger entry of an event agree.
Judged == \A e \in Events : Verdict(e) # "corrupt"

\* A registration that waits for its payment has not been paid.
WaitingIsUnpaid == \A r \in Registrations : state[r] = "payment_pending" => basis[r] = "none"

IInv == TypeOK /\ Judged /\ WaitingIsUnpaid

LEMMA InitIInv == Init => IInv
<1> SUFFICES ASSUME Init PROVE IInv
  OBVIOUS
<1>1. Judged
  BY DEF Init, Judged, Verdict
<1>2. WaitingIsUnpaid
  BY DEF Init, WaitingIsUnpaid
<1> QED
  BY <1>1, <1>2, InitTypeOK DEF IInv

\* A receipt is the first word on its event: nothing was opened or entered
\* before it.
LEMMA Unjudged ==
    ASSUME IInv, NEW e \in Events, receipt[e] = "none"
    PROVE  opened[e] = "none" /\ ledger[e] = "none" /\ Verdict(e) = "none"
BY DEF IInv, Judged, Verdict

\* What a delivery makes of its event, and of no other.
LEMMA RecordVerdict ==
    ASSUME IInv, NEW e \in Events, NEW overdue \in BOOLEAN, NEW outcome, NEW exception, NEW entry,
           Record(e, overdue, outcome, exception, entry),
           \/ outcome = "exception" /\ exception \in Kinds /\ entry = "none"
           \/ outcome = "applied" /\ exception = "none" /\ entry \in {"none", "payment"}
    PROVE  /\ Verdict(e) = "none"
           /\ Verdict(e)' = IF outcome = "exception" THEN "flagged"
                            ELSE IF entry = "payment" THEN "credited" ELSE "noted"
           /\ \A f \in Events \ {e} : Verdict(f)' = Verdict(f)
<1>1. Verdict(e) = "none" /\ opened[e] = "none" /\ ledger[e] = "none"
  BY Unjudged DEF Record, AlreadyReceived
<1>2. /\ receipt' = [receipt EXCEPT ![e] = outcome]
      /\ opened' = [opened EXCEPT ![e] = exception]
      /\ ledger' = [ledger EXCEPT ![e] = entry]
  BY <1>1 DEF Record, IInv, TypeOK, EvidenceOK
<1>3. receipt'[e] = outcome /\ opened'[e] = exception /\ ledger'[e] = entry
  BY <1>2 DEF IInv, TypeOK, EvidenceOK
<1>4. \A f \in Events \ {e} :
        receipt'[f] = receipt[f] /\ opened'[f] = opened[f] /\ ledger'[f] = ledger[f]
  BY <1>2 DEF IInv, TypeOK, EvidenceOK
<1>5. Verdict(e)' = IF outcome = "exception" THEN "flagged"
                    ELSE IF entry = "payment" THEN "credited" ELSE "noted"
  BY <1>3 DEF Verdict, Kinds
<1> QED
  BY <1>1, <1>4, <1>5 DEF Verdict

\* The state of the promise, as the mapping defines it.
Claims == {e \in DOMAIN sent : sent[e].type = "succeeded"}
Verdicts == [e \in Events |-> Verdict(e)]
Charges == Registrations \X BOOLEAN
ServedCharges == [c \in Charges |-> Served(c[1], c[2])]

\* A step that leaves the evidence alone judges nothing.
LEMMA EvidenceUnchanged ==
    ASSUME UNCHANGED evidenceVars
    PROVE  Verdicts' = Verdicts /\ \A e \in Events : Verdict(e)' = Verdict(e)
BY DEF Verdicts, Verdict, evidenceVars, Events

\* What is served depends on the basis of the confirmation and on the upgrade.
LEMMA ServedUnchanged ==
    ASSUME UNCHANGED <<basis, upgrade>>
    PROVE  ServedCharges' = ServedCharges
BY DEF ServedCharges, Served

\* One event gets its verdict.
LEMMA VerdictsAfter ==
    ASSUME NEW e \in Events, NEW v, Verdict(e)' = v,
           \A f \in Events \ {e} : Verdict(f)' = Verdict(f)
    PROVE  Verdicts' = [Verdicts EXCEPT ![e] = v]
BY DEF Verdicts, Events

\* One charge is served.
LEMMA ServedAfter ==
    ASSUME NEW r \in Registrations, NEW b \in BOOLEAN,
           ~ Served(r, b), Served(r, b)',
           \A q \in Registrations, a \in BOOLEAN :
                <<q, a>> # <<r, b>> => Served(q, a)' = Served(q, a)
    PROVE  /\ <<r, b>> \in Charges /\ ~ ServedCharges[<<r, b>>]
           /\ ServedCharges' = [ServedCharges EXCEPT ![<<r, b>>] = TRUE]
<1>1. <<r, b>> \in Charges
  BY DEF Charges
<1>2. \A c \in Charges : c = <<c[1], c[2]>> /\ c[1] \in Registrations /\ c[2] \in BOOLEAN
  BY DEF Charges
<1>3. \A c \in Charges : c # <<r, b>> => Served(c[1], c[2])' = Served(c[1], c[2])
  BY <1>2
<1>4. Served(r, b)' = TRUE
  BY DEF Served
<1>5. ServedCharges' = [c \in Charges |-> IF c = <<r, b>> THEN TRUE ELSE ServedCharges[c]]
  BY <1>1, <1>2, <1>3, <1>4 DEF ServedCharges, Charges
<1> QED
  BY <1>1, <1>2, <1>5 DEF ServedCharges

\* What a step may be, seen from the promise.
PromiseStep ==
    \/ UNCHANGED <<Claims, Verdicts, ServedCharges>>
    \/ \E e \in Events :
        /\ Verdicts[e] = "none"
        /\ \/ Claims' = Claims \union {e} /\ UNCHANGED <<Verdicts, ServedCharges>>
           \/ /\ UNCHANGED <<Claims, ServedCharges>>
              /\ Verdicts' = [Verdicts EXCEPT ![e] = "flagged"]
           \/ /\ UNCHANGED <<Claims, ServedCharges>> /\ e \notin Claims
              /\ Verdicts' = [Verdicts EXCEPT ![e] = "noted"]
           \/ /\ UNCHANGED Claims /\ e \in Claims
              /\ Verdicts' = [Verdicts EXCEPT ![e] = "credited"]
              /\ \E c \in Charges :
                    ~ ServedCharges[c] /\ ServedCharges' = [ServedCharges EXCEPT ![c] = TRUE]

\* It is a step of the promise under the mapping.
LEMMA PromiseStepRefines ==
    PromiseStep => [Promise!PromiseNext]_<<Claims, Verdicts, ServedCharges>>
BY DEF PromiseStep, Claims, Verdicts, ServedCharges, Charges, Promise!PromiseNext,
       Promise!Claim, Promise!Judge, Promise!Flag, Promise!Note, Promise!Credit

\* An event that is flagged.
LEMMA FlagStep ==
    ASSUME IInv, NEW e \in Events, NEW overdue \in BOOLEAN, NEW exception \in Kinds,
           Record(e, overdue, "exception", exception, "none"), UNCHANGED registrationVars
    PROVE  PromiseStep /\ Judged' /\ WaitingIsUnpaid'
<1>1. /\ Verdict(e) = "none" /\ Verdict(e)' = "flagged"
      /\ \A f \in Events \ {e} : Verdict(f)' = Verdict(f)
  BY RecordVerdict, "exception" # "applied"
<1>2. Verdicts' = [Verdicts EXCEPT ![e] = "flagged"] /\ Verdicts[e] = "none"
  BY <1>1, VerdictsAfter DEF Verdicts
<1>3. UNCHANGED <<Claims, ServedCharges>>
  BY ServedUnchanged DEF registrationVars, Record, Claims
<1>4. Judged'
  BY <1>1, "flagged" # "corrupt" DEF Judged, IInv, Events
<1>5. WaitingIsUnpaid'
  BY DEF IInv, WaitingIsUnpaid, registrationVars
<1> QED
  BY <1>2, <1>3, <1>4, <1>5 DEF PromiseStep

\* A reported failure is noted.
LEMMA NoteStep ==
    ASSUME IInv, NEW e \in Events, NEW overdue \in BOOLEAN, ReconcileFailure(e, overdue)
    PROVE  PromiseStep /\ Judged' /\ WaitingIsUnpaid'
<1> USE DEF ReconcileFailure
<1>1. /\ Verdict(e) = "none" /\ Verdict(e)' = "noted"
      /\ \A f \in Events \ {e} : Verdict(f)' = Verdict(f)
  BY RecordVerdict, "exception" # "applied", "none" # "payment"
<1>2. Verdicts' = [Verdicts EXCEPT ![e] = "noted"] /\ Verdicts[e] = "none"
  BY <1>1, VerdictsAfter DEF Verdicts
<1>3. UNCHANGED <<Claims, ServedCharges>>
  BY ServedUnchanged DEF registrationVars, Record, Claims
<1>4. e \notin Claims
  BY DEF Claims
<1>5. Judged'
  BY <1>1, "noted" # "corrupt" DEF Judged, IInv, Events
<1>6. WaitingIsUnpaid'
  BY DEF IInv, WaitingIsUnpaid, registrationVars
<1> QED
  BY <1>2, <1>3, <1>4, <1>5, <1>6 DEF PromiseStep

\* A success that confirms a registration or completes an upgrade is credited
\* to a charge that nothing had paid.
LEMMA CreditStep ==
    ASSUME IInv, NEW e \in Events, NEW overdue \in BOOLEAN,
           ConfirmRegistration(e, overdue) \/ CompleteUpgrade(e, overdue)
    PROVE  PromiseStep /\ Judged' /\ WaitingIsUnpaid'
<1>0. Record(e, overdue, "applied", "none", "payment") /\ Success(e)
  BY DEF ConfirmRegistration, CompleteUpgrade
<1>1. /\ Verdict(e) = "none" /\ Verdict(e)' = "credited"
      /\ \A f \in Events \ {e} : Verdict(f)' = Verdict(f)
  BY <1>0, RecordVerdict, "exception" # "applied"
<1>2. Verdicts' = [Verdicts EXCEPT ![e] = "credited"] /\ Verdicts[e] = "none"
  BY <1>1, VerdictsAfter DEF Verdicts
<1>3. e \in DOMAIN sent /\ RegistrationOf(e) \in Registrations
  BY <1>0, DeliveredWasSent, SentEvent DEF IInv, Record
<1> PICK r \in Registrations : r = RegistrationOf(e)
  BY <1>3
<1>4. UNCHANGED Claims /\ e \in Claims
  BY <1>0, <1>3 DEF Record, Claims, Success
<1>5. Judged'
  BY <1>1, "credited" # "corrupt" DEF Judged, IInv, Events
<1>6. WaitingIsUnpaid' /\ \E c \in Charges :
        ~ ServedCharges[c] /\ ServedCharges' = [ServedCharges EXCEPT ![c] = TRUE]
  <2>1. CASE ConfirmRegistration(e, overdue)
    <3>1. /\ state[r] = "payment_pending"
          /\ state' = [state EXCEPT ![r] = "confirmed"]
          /\ basis' = [basis EXCEPT ![r] = "provider"]
          /\ upgrade' = upgrade
      BY <2>1 DEF ConfirmRegistration, OrdinaryIsCurrent
    <3>2. basis[r] = "none" /\ state'[r] = "confirmed" /\ basis'[r] = "provider"
      BY <1>3, <3>1 DEF IInv, WaitingIsUnpaid, TypeOK, RegistrationsOK
    <3>3. \A q \in Registrations \ {r} : state'[q] = state[q] /\ basis'[q] = basis[q]
      BY <1>3, <3>1 DEF IInv, TypeOK, RegistrationsOK
    <3>4. ~ Served(r, FALSE) /\ Served(r, FALSE)'
      BY <3>2 DEF Served
    <3>5. \A q \in Registrations, a \in BOOLEAN :
            <<q, a>> # <<r, FALSE>> => Served(q, a)' = Served(q, a)
      BY <3>1, <3>3 DEF Served
    <3>6. WaitingIsUnpaid'
      BY <3>2, <3>3 DEF IInv, WaitingIsUnpaid
    <3> QED
      BY <1>3, <3>4, <3>5, <3>6, ServedAfter
  <2>2. CASE CompleteUpgrade(e, overdue)
    <3>1. /\ upgrade[r] = "payment_pending"
          /\ upgrade' = [upgrade EXCEPT ![r] = "completed"]
          /\ state' = state /\ basis' = basis
      BY <2>2 DEF CompleteUpgrade, UpgradeIsCurrent, UpgradePending
    <3>2. upgrade'[r] = "completed" /\ \A q \in Registrations \ {r} : upgrade'[q] = upgrade[q]
      BY <1>3, <3>1 DEF IInv, TypeOK, RegistrationsOK
    <3>3. ~ Served(r, TRUE) /\ Served(r, TRUE)'
      BY <3>1, <3>2 DEF Served
    <3>4. \A q \in Registrations, a \in BOOLEAN :
            <<q, a>> # <<r, TRUE>> => Served(q, a)' = Served(q, a)
      BY <3>1, <3>2 DEF Served
    <3>5. WaitingIsUnpaid'
      BY <3>1 DEF IInv, WaitingIsUnpaid
    <3> QED
      BY <1>3, <3>3, <3>4, <3>5, ServedAfter
  <2> QED
    BY <2>1, <2>2
<1> QED
  BY <1>2, <1>4, <1>5, <1>6 DEF PromiseStep

\* A new event may claim a payment; it is not judged yet.
LEMMA ClaimStep ==
    ASSUME IInv, NEW i \in DOMAIN intents, NEW m \in Messages, ProviderSends(i, m)
    PROVE  PromiseStep
<1> DEFINE e == Len(sent) + 1
<1>1. /\ e \in Events \ DOMAIN sent
      /\ DOMAIN sent' = DOMAIN sent \union {e}
      /\ sent'[e].type = m.type
      /\ \A f \in DOMAIN sent : sent'[f] = sent[f]
  BY SendStep DEF IInv
<1> HIDE DEF e
<1>2. Verdict(e) = "none"
  BY <1>1, Unjudged DEF IInv, TypeOK, EvidenceOK
<1>3. UNCHANGED <<Verdicts, ServedCharges>>
  BY EvidenceUnchanged, ServedUnchanged DEF ProviderSends, registrationVars
<1>4. Claims' = Claims \/ Claims' = Claims \union {e}
  BY <1>1 DEF Claims
<1> QED
  BY <1>1, <1>2, <1>3, <1>4 DEF PromiseStep, Verdicts
\* Every step keeps the inductive invariant and is a step of the promise.
LEMMA StepRefines ==
    ASSUME IInv, [Next]_vars
    PROVE  IInv' /\ PromiseStep
<1>0. TypeOK'
  BY NextTypeOK DEF IInv
<1>q. ASSUME UNCHANGED evidenceVars PROVE Judged'
  BY <1>q, EvidenceUnchanged DEF IInv, Judged, Events
<1> SUFFICES Judged' /\ WaitingIsUnpaid' /\ PromiseStep
  BY <1>0 DEF IInv
<1>1. CASE UNCHANGED <<state, basis, upgrade, sent, evidenceVars>>
  <2>1. UNCHANGED <<Claims, Verdicts, ServedCharges>>
    BY <1>1, EvidenceUnchanged, ServedUnchanged DEF Claims
  <2>2. WaitingIsUnpaid'
    BY <1>1 DEF IInv, WaitingIsUnpaid
  <2> QED
    BY <1>1, <1>q, <2>1, <2>2 DEF PromiseStep
<1>2. ASSUME NEW r \in Registrations,
             WaivePayment(r) \/ ExpireReservation(r) \/ CancelRegistration(r)
      PROVE  Judged' /\ WaitingIsUnpaid' /\ PromiseStep
  <2>1. Close(r)
    BY <1>2 DEF WaivePayment, ExpireReservation, CancelRegistration
  <2>2. UNCHANGED <<Claims, Verdicts, ServedCharges>> /\ Judged'
    BY <1>q, <2>1, EvidenceUnchanged, ServedUnchanged DEF Claims, Close
  <2>3. WaitingIsUnpaid'
    BY <2>1 DEF IInv, TypeOK, RegistrationsOK, WaitingIsUnpaid, Close
  <2> QED
    BY <2>2, <2>3 DEF PromiseStep
<1>3. ASSUME NEW r \in Registrations, ReserveUpgrade(r) \/ ExpireUpgrade(r)
      PROVE  Judged' /\ WaitingIsUnpaid' /\ PromiseStep
  <2>1. /\ upgrade[r] # "completed" /\ upgrade'[r] # "completed"
        /\ \A q \in Registrations \ {r} : upgrade'[q] = upgrade[q]
        /\ UNCHANGED <<state, basis, sent, evidenceVars>>
    BY <1>3 DEF ReserveUpgrade, ExpireUpgrade, UpgradePending, IInv, TypeOK, RegistrationsOK
  <2>2. \A q \in Registrations, a \in BOOLEAN : Served(q, a)' = Served(q, a)
    BY <2>1 DEF Served
  <2>3. \A c \in Charges : Served(c[1], c[2])' = Served(c[1], c[2])
    BY <2>2 DEF Charges
  <2>4. UNCHANGED <<Claims, Verdicts, ServedCharges>> /\ Judged'
    BY <1>q, <2>1, <2>3, EvidenceUnchanged DEF Claims, ServedCharges, Charges
  <2>5. WaitingIsUnpaid'
    BY <2>1 DEF IInv, WaitingIsUnpaid
  <2> QED
    BY <2>4, <2>5 DEF PromiseStep
<1>4. ASSUME NEW i \in DOMAIN intents, NEW m \in Messages, ProviderSends(i, m)
      PROVE  Judged' /\ WaitingIsUnpaid' /\ PromiseStep
  <2>1. Judged' /\ WaitingIsUnpaid'
    BY <1>4, <1>q DEF ProviderSends, IInv, WaitingIsUnpaid, registrationVars
  <2> QED
    BY <1>4, <2>1, ClaimStep
<1>5. ASSUME NEW e \in Events, NEW overdue \in BOOLEAN, FinishDelivery(e, overdue),
             ~ RollsBack(e, overdue)
      PROVE  Judged' /\ WaitingIsUnpaid' /\ PromiseStep
  <2>1. CASE ReconcileFailure(e, overdue)
    BY <2>1, NoteStep
  <2>2. CASE ConfirmRegistration(e, overdue) \/ CompleteUpgrade(e, overdue)
    BY <2>2, CreditStep
  <2>3. CASE \/ UnknownIntent(e, overdue) \/ ReconcileMismatch(e, overdue)
             \/ ReconcileLateSuccess(e, overdue) \/ UnsupportedEvent(e, overdue)
    <3>1. UNCHANGED registrationVars /\ \E exception \in Kinds :
            Record(e, overdue, "exception", exception, "none")
      BY <2>3 DEF UnknownIntent, ReconcileMismatch, ReconcileLateSuccess, UnsupportedEvent,
                  Kinds, registrationVars
    <3> QED
      BY <3>1, FlagStep
  <2> QED
    BY <1>5, <2>1, <2>2, <2>3 DEF FinishDelivery, DuplicateRollsBack, ConfirmationRollsBack, UpgradeRollsBack
<1>6. CASE Tick \/ CloseEdition
  BY <1>1, <1>6 DEF Tick, CloseEdition, registrationVars
<1>7. ASSUME NEW r \in Registrations, CreateIntent(r)
      PROVE  UNCHANGED <<state, basis, upgrade, sent, evidenceVars>>
  BY <1>7 DEF CreateIntent, registrationVars
<1>8. ASSUME NEW i \in DOMAIN intents,
             \/ ProviderMakesCheckout(i) \/ StoreReference(i)
             \/ MarkUncertain(i) \/ CreatorCrashes(i)
      PROVE  UNCHANGED <<state, basis, upgrade, sent, evidenceVars>>
  BY <1>8 DEF ProviderMakesCheckout, StoreReference, MarkUncertain, CreatorCrashes,
              registrationVars
<1>9. ASSUME NEW e \in Events, NEW overdue \in BOOLEAN, BeginDelivery(e) \/ RollsBack(e, overdue)
      PROVE  UNCHANGED <<state, basis, upgrade, sent, evidenceVars>>
  BY <1>9 DEF BeginDelivery, RollsBack, registrationVars
<1>10. ASSUME UNCHANGED vars
       PROVE  UNCHANGED <<state, basis, upgrade, sent, evidenceVars>>
  BY <1>10 DEF vars, registrationVars
<1> QED
  BY <1>1, <1>2, <1>3, <1>4, <1>5, <1>6, <1>7, <1>8, <1>9, <1>10 DEF Next

\* The initial rows are an initial state of the promise.
LEMMA InitRefines == Init => Promise!PromiseInit
<1> SUFFICES ASSUME Init PROVE Promise!PromiseInit
  OBVIOUS
<1>1. DOMAIN sent = {}
  <2>1. \A S : sent \in Seq(S) /\ Len(sent) = 0
    BY EmptySeq DEF Init
  <2> QED
    BY <2>1, LenProperties
<1>2. [e \in Events |-> Verdict(e)] = [e \in Events |-> "none"]
  BY DEF Init, Verdict, Events
<1>3. \A r \in Registrations, b \in BOOLEAN : Served(r, b) \in BOOLEAN
  BY DEF Served
<1> QED
  BY <1>1, <1>2, <1>3 DEF Promise!PromiseInit

\* Receipt, exception and ledger entry agree, and what waits is unpaid, in
\* every behaviour.
LEMMA Inductive == SafetySpec => []IInv
BY InitIInv, StepRefines, PTL DEF SafetySpec

\* Payments implements the promise: however deliveries of one event overlap,
\* repeat or overtake each other, each event is judged once, and an admission
\* or an upgrade is paid for by exactly one credited success.
THEOREM PromiseIsKept == SafetySpec => KeepsPromise
<1>1. IInv /\ [Next]_vars => [Promise!PromiseNext]_<<Claims, Verdicts, ServedCharges>>
  BY StepRefines, PromiseStepRefines
<1> QED
  BY <1>1, InitRefines, Inductive, PTL
     DEF SafetySpec, KeepsPromise, Promise!PromiseSpec, Claims, Verdicts, ServedCharges, Charges
=============================================================================
