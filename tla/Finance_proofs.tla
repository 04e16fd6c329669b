--------------------------- MODULE Finance_proofs ---------------------------
(***************************************************************************)
(* Proofs about Finance for every set of registrations and staff, every    *)
(* price, and every bound on operations, events and settlements.  The      *)
(* first half is about the refunds and their entries; the second half      *)
(* about the sums over the ledger, from facts about SumFunctionOnSet that  *)
(* are shown by looking at the smallest set for which they would fail.     *)
(***************************************************************************)
EXTENDS Finance, SequenceTheorems, FiniteSetTheorems, WellFoundedInduction, TLAPS

-----------------------------------------------------------------------------
(* The inductive invariant *)

Rows(A) ==
    [registration : Registrations, kind : {"refund", "cancel"}, amount : A,
     status : {"proposed", "provider_pending", "completed"}, requestedBy : Staff,
     approvedBy : Staff \union {"nobody"}]

RowsOK == \E A : operations \in Seq(Rows(A))

EventsOK ==
    /\ sent \in Seq(Messages)
    /\ receipt \in [Events -> {"none", "applied", "exception"}]
    /\ ledger \in [Events -> {"none", "payment", "refund", "dispute"}]
    /\ evidence \in [Events -> Nat]

\* An event without a receipt has no entry, and one with a receipt was sent.
ReceiptFirst ==
    \A e \in Events :
        /\ receipt[e] = "none" => ledger[e] = "none"
        /\ receipt[e] # "none" => e \in DOMAIN sent

\* A refund has one entry if it is completed, and none before.
OneEntryEach ==
    \A o \in Refunds :
        IF operations[o].status = "completed"
        THEN \E e \in Events : EntriesOf(o) = {e}
        ELSE EntriesOf(o) = {}

IInv ==
    /\ RowsOK /\ EventsOK /\ ReceiptFirst /\ OneEntryEach /\ EntryMatchesRefund

\* No operations and no events.
LEMMA InitIInv == Init => IInv
<1> SUFFICES ASSUME Init PROVE IInv
  OBVIOUS
<1>1. \A S : <<>> \in Seq(S) /\ Len(<<>>) = 0
  BY EmptySeq
<1>2. DOMAIN operations = {} /\ DOMAIN sent = {}
  BY <1>1, LenProperties DEF Init
<1>3. RowsOK
  BY <1>1 DEF Init, RowsOK
<1>4. EventsOK
  BY <1>1 DEF Init, EventsOK
<1>5. OneEntryEach
  BY <1>2 DEF OneEntryEach, Refunds
<1>6. ReceiptFirst /\ EntryMatchesRefund
  BY DEF Init, ReceiptFirst, EntryMatchesRefund
<1> QED
  BY <1>3, <1>4, <1>5, <1>6 DEF IInv

\* The rows of the operations.
LEMMA RowFacts ==
    ASSUME RowsOK
    PROVE  /\ Len(operations) \in Nat /\ DOMAIN operations = 1 .. Len(operations)
           /\ \A o \in DOMAIN operations :
                /\ operations[o].status \in {"proposed", "provider_pending", "completed"}
                /\ operations[o].registration \in Registrations
                /\ operations[o].requestedBy \in Staff
<1> PICK A : operations \in Seq(Rows(A))
  BY DEF RowsOK
<1>1. Len(operations) \in Nat /\ DOMAIN operations = 1 .. Len(operations)
  BY LenProperties
<1>2. \A o \in DOMAIN operations : operations[o] \in Rows(A)
  BY <1>1, ElementOfSeq
<1> QED
  BY <1>1, <1>2 DEF Rows

-----------------------------------------------------------------------------
(* What the steps do to the operations *)

\* The operations after a proposal.
LEMMA ProposeStep ==
    ASSUME IInv, NEW r \in Registrations, NEW kind \in {"refund", "cancel"}, NEW amount,
           NEW actor \in Staff, operations' = Append(operations, Proposal(r, kind, amount, actor)),
           UNCHANGED <<sent, receipt, ledger, evidence>>
    PROVE  /\ IInv'
           /\ Len(operations) <= Len(operations')
           /\ \A o \in DOMAIN operations : operations'[o] = operations[o]
<1> DEFINE row == Proposal(r, kind, amount, actor)
           new == Len(operations) + 1
<1>0. PICK A : operations \in Seq(Rows(A))
  BY DEF IInv, RowsOK
<1>1. /\ row \in Rows(A \union {amount})
      /\ row.status = "proposed"
  BY FinanceAssumption DEF Proposal, Rows
<1>2. Rows(A) \subseteq Rows(A \union {amount})
  BY DEF Rows
<1>3. operations \in Seq(Rows(A \union {amount}))
  BY <1>0, <1>2, SeqMonotonic
<1> HIDE DEF row
<1>4. /\ operations' \in Seq(Rows(A \union {amount})) /\ Len(operations') = new
      /\ operations'[new] = row
      /\ \A o \in 1 .. Len(operations) : operations'[o] = operations[o]
  BY <1>1, <1>3, AppendProperties DEF row
<1>5. Len(operations) \in Nat /\ DOMAIN operations = 1 .. Len(operations)
  BY RowFacts DEF IInv
<1>6. DOMAIN operations' = DOMAIN operations \union {new} /\ new \notin DOMAIN operations
  BY <1>4, <1>5, LenProperties
<1>7. RowsOK'
  BY <1>4 DEF RowsOK
<1>10. EventsOK' /\ ReceiptFirst'
  BY DEF IInv, EventsOK, ReceiptFirst
<1>11. \A o : EntriesOf(o)' = EntriesOf(o)
  BY DEF EntriesOf
<1>12. EntriesOf(new) = {}
  <2>1. new # 0
    BY <1>5
  <2> QED
    BY <1>6, <2>1 DEF EntriesOf, IInv, EntryMatchesRefund, Refunds
<1>13. Refunds \subseteq Refunds' /\ Refunds' \subseteq Refunds \union {new}
  BY <1>4, <1>5, <1>6 DEF Refunds
<1>14. OneEntryEach'
  BY <1>1, <1>4, <1>5, <1>11, <1>12, <1>13 DEF IInv, OneEntryEach, Refunds
<1>15. EntryMatchesRefund'
  BY <1>4, <1>5, <1>13 DEF IInv, EntryMatchesRefund, Refunds
<1> QED
  BY <1>4, <1>5, <1>7, <1>10, <1>14, <1>15 DEF IInv

\* What an approval writes.
LEMMA ApprovalWrites ==
    ASSUME IInv, NEW o \in DOMAIN operations, NEW actor \in Staff,
           NEW status \in {"provider_pending", "completed"},
           operations' = Approved(o, status, actor)
    PROVE  /\ RowsOK' /\ DOMAIN operations' = DOMAIN operations
           /\ Len(operations') = Len(operations)
           /\ \A p \in DOMAIN operations \ {o} : operations'[p] = operations[p]
           /\ operations'[o].registration = operations[o].registration
           /\ operations'[o].kind = operations[o].kind
           /\ operations'[o].amount = operations[o].amount
           /\ operations'[o].requestedBy = operations[o].requestedBy
           /\ operations'[o].status = status /\ operations'[o].approvedBy = actor
<1> DEFINE row == [operations[o] EXCEPT !.status = status, !.approvedBy = actor]
<1>0. PICK A : operations \in Seq(Rows(A))
  BY DEF IInv, RowsOK
<1>1. Len(operations) \in Nat /\ DOMAIN operations = 1 .. Len(operations)
  BY RowFacts DEF IInv
<1>2. operations[o] \in Rows(A)
  BY <1>0, <1>1, ElementOfSeq
<1>5. /\ row \in Rows(A)
      /\ row.registration = operations[o].registration /\ row.kind = operations[o].kind
      /\ row.amount = operations[o].amount /\ row.requestedBy = operations[o].requestedBy
      /\ row.status = status /\ row.approvedBy = actor
  BY <1>2 DEF Rows
<1>6. operations' = [operations EXCEPT ![o] = row]
  BY <1>0, <1>1 DEF Approved
<1> HIDE DEF row
<1>7. /\ operations' \in Seq(Rows(A)) /\ Len(operations') = Len(operations)
      /\ \A p \in 1 .. Len(operations) : operations'[p] = IF p = o THEN row ELSE operations[p]
  BY <1>0, <1>1, <1>5, <1>6, ExceptSeq
<1>8. DOMAIN operations' = DOMAIN operations
  BY <1>1, <1>7, LenProperties
<1>9. RowsOK'
  BY <1>7 DEF RowsOK
<1> QED
  BY <1>1, <1>5, <1>7, <1>8, <1>9

\* An approval that does not complete a refund.
LEMMA ApproveStep ==
    ASSUME IInv, NEW o \in DOMAIN operations, NEW actor \in Staff, MayApprove(o, actor),
           NEW status \in {"provider_pending", "completed"},
           status = "completed" => operations[o].kind # "refund",
           operations' = Approved(o, status, actor),
           UNCHANGED <<sent, receipt, ledger, evidence>>
    PROVE  IInv'
<1>3. /\ RowsOK' /\ DOMAIN operations' = DOMAIN operations
      /\ \A p \in DOMAIN operations \ {o} : operations'[p] = operations[p]
      /\ operations'[o].registration = operations[o].registration
      /\ operations'[o].kind = operations[o].kind
      /\ operations'[o].amount = operations[o].amount
      /\ operations'[o].status = status
  BY ApprovalWrites
<1>4. operations[o].status = "proposed"
  BY DEF MayApprove
<1>8. EventsOK' /\ ReceiptFirst'
  BY DEF IInv, EventsOK, ReceiptFirst
<1>9. Refunds' = Refunds /\ \A p : EntriesOf(p)' = EntriesOf(p)
  BY <1>3 DEF Refunds, EntriesOf
<1>10. OneEntryEach'
  BY <1>3, <1>4, <1>9 DEF IInv, OneEntryEach, Refunds
<1>11. EntryMatchesRefund'
  BY <1>3, <1>9 DEF IInv, EntryMatchesRefund, Refunds
<1> QED
  BY <1>3, <1>8, <1>10, <1>11 DEF IInv

-----------------------------------------------------------------------------
(* What the events of the provider do *)

\* The first delivery of an event: it has no entry yet.
LEMMA RecordStep ==
    ASSUME IInv, NEW e \in Events, NEW m \in Messages, NEW outcome \in {"applied", "exception"},
           NEW exception, Record(e, m, outcome, exception)
    PROVE  /\ sent' \in Seq(Messages) /\ e \in DOMAIN sent' /\ sent'[e] = m
           /\ \A d \in DOMAIN sent : d \in DOMAIN sent' /\ sent'[d] = sent[d]
           /\ receipt' \in [Events -> {"none", "applied", "exception"}]
           /\ receipt'[e] = outcome /\ \A d \in Events \ {e} : receipt'[d] = receipt[d]
           /\ ledger[e] = "none" /\ evidence[e] = 0
<1>1. sent \in Seq(Messages) /\ Len(sent) \in Nat /\ DOMAIN sent = 1 .. Len(sent)
  BY LenProperties DEF IInv, EventsOK
<1>2. ledger[e] = "none" /\ evidence[e] = 0
  BY DEF IInv, ReceiptFirst, EntryMatchesRefund, EventsOK, Record, AlreadyReceived
<1>3. /\ receipt' \in [Events -> {"none", "applied", "exception"}]
      /\ receipt'[e] = outcome /\ \A d \in Events \ {e} : receipt'[d] = receipt[d]
  BY DEF Record, IInv, EventsOK
<1>4. e \in Nat /\ e >= 1
  BY FinanceAssumption DEF Events
<1>5. CASE e <= Len(sent)
  BY <1>1, <1>2, <1>3, <1>4, <1>5 DEF Record
<1>6. CASE ~ (e <= Len(sent))
  <2>1. e = Len(sent) + 1 /\ sent' = Append(sent, m)
    BY <1>1, <1>4, <1>6 DEF Record
  <2>2. /\ sent' \in Seq(Messages) /\ Len(sent') = e /\ sent'[e] = m
        /\ \A d \in 1 .. Len(sent) : sent'[d] = sent[d]
    BY <1>1, <2>1, AppendProperties
  <2>3. DOMAIN sent' = 1 .. e
    BY <2>2, LenProperties
  <2> QED
    BY <1>1, <1>2, <1>3, <1>4, <2>1, <2>2, <2>3
<1> QED
  BY <1>5, <1>6

\* An event that leaves no refund entry.
LEMMA PlainEvent ==
    ASSUME IInv, NEW e \in Events, NEW m \in Messages, NEW outcome \in {"applied", "exception"},
           NEW exception, Record(e, m, outcome, exception),
           UNCHANGED ledger \/ AddEntry(e, "payment") \/ AddEntry(e, "dispute"),
           UNCHANGED <<evidence, operations>>
    PROVE  IInv'
<1>1. /\ sent' \in Seq(Messages) /\ e \in DOMAIN sent'
      /\ \A d \in DOMAIN sent : d \in DOMAIN sent' /\ sent'[d] = sent[d]
      /\ receipt' \in [Events -> {"none", "applied", "exception"}]
      /\ receipt'[e] = outcome /\ \A d \in Events \ {e} : receipt'[d] = receipt[d]
      /\ ledger[e] = "none" /\ evidence[e] = 0
  BY RecordStep
<1>2. /\ ledger' \in [Events -> {"none", "payment", "refund", "dispute"}]
      /\ ledger'[e] # "refund" /\ \A d \in Events \ {e} : ledger'[d] = ledger[d]
  BY <1>1 DEF IInv, EventsOK, AddEntry
<1>3. EventsOK'
  BY <1>1, <1>2 DEF IInv, EventsOK
<1>4. ReceiptFirst'
  BY <1>1, <1>2 DEF IInv, ReceiptFirst
<1>5. RowsOK' /\ OneEntryEach'
  <2>1. Refunds' = Refunds /\ \A o : EntriesOf(o)' = EntriesOf(o)
    BY DEF Refunds, EntriesOf
  <2>2. RowsOK'
    BY DEF IInv, RowsOK
  <2>3. OneEntryEach'
    BY <2>1 DEF IInv, OneEntryEach
  <2> QED
    BY <2>2, <2>3
<1>6. EntryMatchesRefund'
  <2> SUFFICES ASSUME NEW d \in Events
               PROVE  /\ (evidence[d] # 0) <=> (ledger'[d] = "refund")
                      /\ evidence[d] # 0 =>
                            /\ evidence[d] \in Refunds
                            /\ operations[evidence[d]].registration = sent'[d].registration
                            /\ operations[evidence[d]].amount = sent'[d].amount
    BY DEF EntryMatchesRefund, Refunds
  <2>1. CASE d = e
    BY <1>1, <1>2, <2>1
  <2>2. CASE d # e
    <3>1. evidence[d] # 0 => d \in DOMAIN sent
      BY DEF IInv, EntryMatchesRefund, ReceiptFirst
    <3> QED
      BY <1>1, <1>2, <2>2, <3>1 DEF IInv, EntryMatchesRefund
  <2> QED
    BY <2>1, <2>2
<1> QED
  BY <1>3, <1>4, <1>5, <1>6 DEF IInv

\* The completion of a refund changes the status of its row.
LEMMA CompletionWrites ==
    ASSUME IInv, NEW o \in DOMAIN operations,
           operations' = [operations EXCEPT ![o].status = "completed"]
    PROVE  /\ RowsOK' /\ DOMAIN operations' = DOMAIN operations
           /\ Len(operations') = Len(operations)
           /\ \A p \in DOMAIN operations \ {o} : operations'[p] = operations[p]
           /\ operations'[o].registration = operations[o].registration
           /\ operations'[o].kind = operations[o].kind
           /\ operations'[o].amount = operations[o].amount
           /\ operations'[o].requestedBy = operations[o].requestedBy
           /\ operations'[o].approvedBy = operations[o].approvedBy
           /\ operations'[o].status = "completed"
<1> DEFINE row == [operations[o] EXCEPT !.status = "completed"]
<1>0. PICK A : operations \in Seq(Rows(A))
  BY DEF IInv, RowsOK
<1>1. Len(operations) \in Nat /\ DOMAIN operations = 1 .. Len(operations)
  BY RowFacts DEF IInv
<1>2. operations[o] \in Rows(A)
  BY <1>0, <1>1, ElementOfSeq
<1>3. /\ row \in Rows(A)
      /\ row.registration = operations[o].registration /\ row.kind = operations[o].kind
      /\ row.amount = operations[o].amount /\ row.requestedBy = operations[o].requestedBy
      /\ row.approvedBy = operations[o].approvedBy /\ row.status = "completed"
  BY <1>2 DEF Rows
<1>4. operations' = [operations EXCEPT ![o] = row]
  OBVIOUS
<1> HIDE DEF row
<1>5. /\ operations' \in Seq(Rows(A)) /\ Len(operations') = Len(operations)
      /\ \A p \in 1 .. Len(operations) : operations'[p] = IF p = o THEN row ELSE operations[p]
  BY <1>0, <1>1, <1>3, <1>4, ExceptSeq
<1>6. DOMAIN operations' = DOMAIN operations
  BY <1>1, <1>5, LenProperties
<1>7. RowsOK'
  BY <1>5 DEF RowsOK
<1> QED
  BY <1>1, <1>3, <1>5, <1>6, <1>7

\* A refund event completes a waiting refund of its amount.
LEMMA RefundStep ==
    ASSUME IInv, NEW e \in Events, NEW m \in Messages, Record(e, m, "applied", FALSE),
           NEW o \in Matching(m),
           AddEntry(e, "refund"), evidence' = [evidence EXCEPT ![e] = o],
           operations' = [operations EXCEPT ![o].status = "completed"]
    PROVE  IInv'
<1>1. /\ sent' \in Seq(Messages) /\ e \in DOMAIN sent' /\ sent'[e] = m
      /\ \A d \in DOMAIN sent : d \in DOMAIN sent' /\ sent'[d] = sent[d]
      /\ receipt' \in [Events -> {"none", "applied", "exception"}]
      /\ receipt'[e] = "applied" /\ \A d \in Events \ {e} : receipt'[d] = receipt[d]
      /\ ledger[e] = "none" /\ evidence[e] = 0
  BY RecordStep
<1>2. /\ o \in DOMAIN operations /\ operations[o].registration = m.registration
      /\ operations[o].kind = "refund" /\ operations[o].status = "provider_pending"
      /\ operations[o].amount = m.amount /\ m.local
  BY DEF Matching, PendingRefunds
<1>3. /\ Len(operations) \in Nat /\ DOMAIN operations = 1 .. Len(operations)
  BY RowFacts DEF IInv
<1>4. /\ RowsOK' /\ DOMAIN operations' = DOMAIN operations
      /\ \A p \in DOMAIN operations \ {o} : operations'[p] = operations[p]
      /\ operations'[o].registration = operations[o].registration
      /\ operations'[o].kind = operations[o].kind
      /\ operations'[o].amount = operations[o].amount
      /\ operations'[o].status = "completed"
  BY <1>2, CompletionWrites
<1>5. /\ ledger' \in [Events -> {"none", "payment", "refund", "dispute"}]
      /\ ledger'[e] = "refund" /\ \A d \in Events \ {e} : ledger'[d] = ledger[d]
      /\ evidence' \in [Events -> Nat]
      /\ evidence'[e] = o /\ \A d \in Events \ {e} : evidence'[d] = evidence[d]
  BY <1>2, <1>3 DEF IInv, EventsOK, AddEntry
<1>6. EventsOK' /\ ReceiptFirst'
  BY <1>1, <1>5 DEF IInv, EventsOK, ReceiptFirst
<1>8. Refunds' = Refunds
  BY <1>4 DEF Refunds
<1>9. OneEntryEach'
  <2>1. EntriesOf(o) = {}
    BY <1>2 DEF IInv, OneEntryEach, Refunds
  <2>2. EntriesOf(o)' = {e}
    BY <1>5, <2>1 DEF EntriesOf
  <2>3. \A p \in Refunds \ {o} : EntriesOf(p)' = EntriesOf(p)
    <3>1. 0 \notin Refunds
      BY <1>3 DEF Refunds
    <3> QED
      BY <1>1, <1>5, <3>1 DEF EntriesOf
  <2> QED
    BY <1>2, <1>4, <1>8, <2>2, <2>3 DEF IInv, OneEntryEach, Refunds
<1>10. EntryMatchesRefund'
  <2> SUFFICES ASSUME NEW d \in Events
               PROVE  /\ (evidence'[d] # 0) <=> (ledger'[d] = "refund")
                      /\ evidence'[d] # 0 =>
                            /\ evidence'[d] \in Refunds
                            /\ operations'[evidence'[d]].registration = sent'[d].registration
                            /\ operations'[evidence'[d]].amount = sent'[d].amount
    BY <1>8 DEF EntryMatchesRefund
  <2>1. CASE d = e
    BY <1>1, <1>2, <1>3, <1>4, <1>5, <2>1 DEF Refunds
  <2>2. CASE d # e
    <3>1. evidence[d] # 0 => d \in DOMAIN sent
      BY DEF IInv, EntryMatchesRefund, ReceiptFirst
    <3>2. \A p \in DOMAIN operations :
            /\ operations'[p].registration = operations[p].registration
            /\ operations'[p].amount = operations[p].amount
      BY <1>4
    <3> QED
      BY <1>1, <1>5, <2>2, <3>1, <3>2 DEF IInv, EntryMatchesRefund, Refunds
  <2> QED
    BY <2>1, <2>2
<1> QED
  BY <1>4, <1>6, <1>9, <1>10 DEF IInv

-----------------------------------------------------------------------------
(* The steps that leave all of this alone *)

\* A check-in, a resolved exception, a settlement, a restriction without refund.
LEMMA OtherStep ==
    ASSUME IInv, UNCHANGED <<sent, receipt, ledger, evidence, operations>>
    PROVE  IInv'
<1>1. Refunds' = Refunds /\ \A o : EntriesOf(o)' = EntriesOf(o)
  BY DEF Refunds, EntriesOf
<1>2. RowsOK'
  BY DEF IInv, RowsOK
<1>3. OneEntryEach'
  BY <1>1 DEF IInv, OneEntryEach
<1>4. EventsOK' /\ ReceiptFirst' /\ EntryMatchesRefund'
  BY <1>1 DEF IInv, EventsOK, ReceiptFirst, EntryMatchesRefund
<1> QED
  BY <1>2, <1>3, <1>4 DEF IInv

-----------------------------------------------------------------------------
(* The invariant *)

\* Every step preserves the invariant.
LEMMA Inductive == IInv /\ [Next]_vars => IInv'
<1> SUFFICES ASSUME IInv, [Next]_vars PROVE IInv'
  OBVIOUS
<1>1. ASSUME NEW r \in Registrations, CheckIn(r) PROVE IInv'
  BY <1>1, OtherStep DEF CheckIn, webhookVars
<1>2. ASSUME NEW r \in Registrations, NEW amount \in RefundAmounts, NEW actor \in Staff,
             ProposeRefund(r, amount, actor)
      PROVE  IInv'
  BY <1>2, ProposeStep DEF ProposeRefund, Propose, webhookVars
<1>3. ASSUME NEW r \in Registrations, NEW actor \in Staff, ProposeCancellation(r, actor)
      PROVE  IInv'
  BY <1>3, ProposeStep DEF ProposeCancellation, Propose, webhookVars
<1>4. ASSUME NEW r \in Registrations, NEW actor \in Staff, RestrictRegistration(r, actor)
      PROVE  IInv'
  <2>1. UNCHANGED <<sent, receipt, ledger, evidence>>
    BY <1>4 DEF RestrictRegistration, webhookVars
  <2>2. CASE UNCHANGED operations
    BY <2>1, <2>2, OtherStep
  <2>3. CASE operations' = Append(operations, Proposal(r, "refund", Available(r), actor))
    BY <2>1, <2>3, ProposeStep
  <2> QED
    BY <1>4, <2>2, <2>3 DEF RestrictRegistration
<1>5. ASSUME NEW o \in DOMAIN operations, NEW actor \in Staff, ApproveCancellation(o, actor)
      PROVE  IInv'
  BY <1>5, ApproveStep DEF ApproveCancellation, webhookVars
<1>6. ASSUME NEW o \in DOMAIN operations, NEW actor \in Staff, ApproveRefund(o, actor)
      PROVE  IInv'
  BY <1>6, ApproveStep DEF ApproveRefund, webhookVars
<1>7. ASSUME NEW e \in Events, NEW m \in Messages, ReconcileEvent(e, m)
      PROVE  IInv'
  <2>1. CASE CreditPayment(e, m)
    BY <2>1, PlainEvent DEF CreditPayment
  <2>2. CASE FlagEvent(e, m)
    BY <2>2, PlainEvent DEF FlagEvent
  <2>3. CASE ReconcileRefund(e, m)
    BY <2>3, RefundStep DEF ReconcileRefund
  <2>4. CASE ReconcileDispute(e, m)
    BY <2>4, PlainEvent DEF ReconcileDispute
  <2> QED
    BY <1>7, <2>1, <2>2, <2>3, <2>4
    DEF ReconcileEvent, FlagPayment, RefundUnmatched, DisputeMismatch
<1>8. ASSUME NEW e \in Events, ResolveException(e) PROVE IInv'
  BY <1>8, OtherStep DEF ResolveException
<1>9. ASSUME NEW S, NEW fee \in Fees, Settle(S, fee) PROVE IInv'
  BY <1>9, OtherStep DEF Settle, webhookVars
<1>10. CASE UNCHANGED vars
  BY <1>10, OtherStep DEF vars, webhookVars
<1> QED
  BY <1>1, <1>2, <1>3, <1>4, <1>5, <1>6, <1>7, <1>8, <1>9, <1>10 DEF Next

\* What has been shown holds at all times.
LEMMA Invariance == Spec => []IInv
<1> QED
  BY InitIInv, Inductive, PTL DEF Spec

\* Each completed refund has exactly one ledger entry, of its registration and
\* its amount, and no other operation has one: record_provider_refund together
\* with the unique receipt of an event, for any number of operations, events,
\* duplicates and interleavings, and whatever the times of the approvals.
THEOREM RefundsHaveEvidence == Spec => []RefundEvidence
<1>1. IInv => RefundEvidence
  <2> SUFFICES ASSUME IInv PROVE RefundEvidence
    OBVIOUS
  <2>1. ASSUME NEW o \in Refunds
        PROVE  Cardinality(EntriesOf(o)) = IF operations[o].status = "completed" THEN 1 ELSE 0
    <3>1. CASE operations[o].status = "completed"
      <4>1. PICK e \in Events : EntriesOf(o) = {e}
        BY <3>1 DEF IInv, OneEntryEach
      <4> QED
        BY <3>1, <4>1, FS_Singleton
    <3>2. CASE operations[o].status # "completed"
      <4>1. EntriesOf(o) = {}
        BY <3>2 DEF IInv, OneEntryEach
      <4> QED
        BY <3>2, <4>1, FS_EmptySet
    <3> QED
      BY <3>1, <3>2
  <2> QED
    BY <2>1 DEF IInv, RefundEvidence
<1> QED
  BY <1>1, Invariance, PTL

-----------------------------------------------------------------------------
(* What the trigger sees *)

OperationsStep ==
    /\ Len(operations) <= Len(operations')
    /\ \A o \in DOMAIN operations :
        operations'[o] # operations[o] => GuardAccepts(operations[o], operations'[o])

\* One row goes from proposed to approved, by somebody else.
LEMMA ApprovalAccepted ==
    ASSUME IInv, NEW o \in DOMAIN operations, NEW actor \in Staff, MayApprove(o, actor),
           NEW status \in {"provider_pending", "completed"},
           operations' = Approved(o, status, actor)
    PROVE  OperationsStep
<1>1. Len(operations) \in Nat
  BY RowFacts DEF IInv
<1>2. actor # "nobody"
  BY FinanceAssumption
<1>3. /\ Len(operations') = Len(operations)
      /\ \A p \in DOMAIN operations \ {o} : operations'[p] = operations[p]
      /\ operations'[o].registration = operations[o].registration
      /\ operations'[o].kind = operations[o].kind
      /\ operations'[o].amount = operations[o].amount
      /\ operations'[o].requestedBy = operations[o].requestedBy
      /\ operations'[o].status = status /\ operations'[o].approvedBy = actor
  BY ApprovalWrites
<1>4. GuardAccepts(operations[o], operations'[o])
  BY <1>2, <1>3 DEF GuardAccepts, MayApprove
<1> QED
  BY <1>1, <1>3, <1>4 DEF OperationsStep

\* The trigger of migration 0023 accepts whatever approvals, webhooks and
\* restrictions write: rows are never removed, what was proposed never changes,
\* and nobody approves their own proposal, for every set of staff.
THEOREM OperationsAreGuarded == Spec => OperationsGuarded
<1>1. IInv /\ [Next]_vars => [OperationsStep]_vars
  <2> SUFFICES ASSUME IInv, Next PROVE OperationsStep
    OBVIOUS
  <2>0. Len(operations) \in Nat
    BY RowFacts DEF IInv
  <2>1. CASE UNCHANGED operations
    BY <2>0, <2>1 DEF OperationsStep
  <2>2. ASSUME NEW r \in Registrations, NEW kind \in {"refund", "cancel"}, NEW amount,
               NEW actor \in Staff, operations' = Append(operations, Proposal(r, kind, amount, actor)),
               UNCHANGED <<sent, receipt, ledger, evidence>>
        PROVE  OperationsStep
    BY <2>2, ProposeStep DEF OperationsStep
  <2>3. ASSUME NEW o \in DOMAIN operations, NEW actor \in Staff,
               ApproveCancellation(o, actor) \/ ApproveRefund(o, actor)
        PROVE  OperationsStep
    BY <2>3, ApprovalAccepted DEF ApproveCancellation, ApproveRefund
  <2>4. ASSUME NEW e \in Events, NEW m \in Messages, ReconcileRefund(e, m)
        PROVE  OperationsStep
    <3>1. PICK o \in Matching(m) : operations' = [operations EXCEPT ![o].status = "completed"]
      BY <2>4 DEF ReconcileRefund
    <3>2. o \in DOMAIN operations /\ operations[o].status = "provider_pending"
      BY DEF Matching, PendingRefunds
    <3>3. /\ Len(operations') = Len(operations)
          /\ \A p \in DOMAIN operations \ {o} : operations'[p] = operations[p]
          /\ operations'[o].registration = operations[o].registration
          /\ operations'[o].kind = operations[o].kind
          /\ operations'[o].amount = operations[o].amount
          /\ operations'[o].requestedBy = operations[o].requestedBy
          /\ operations'[o].status = "completed"
      BY <3>1, <3>2, CompletionWrites
    <3>4. GuardAccepts(operations[o], operations'[o])
      BY <3>2, <3>3 DEF GuardAccepts
    <3> QED
      BY <2>0, <3>3, <3>4 DEF OperationsStep
  <2>5. ASSUME NEW e \in Events, NEW m \in Messages, ReconcileEvent(e, m)
        PROVE  OperationsStep
    BY <2>1, <2>4, <2>5
    DEF ReconcileEvent, CreditPayment, FlagPayment, RefundUnmatched, ReconcileDispute,
        DisputeMismatch, FlagEvent
  <2>6. ASSUME NEW r \in Registrations, NEW actor \in Staff,
               \/ \E amount \in RefundAmounts : ProposeRefund(r, amount, actor)
               \/ ProposeCancellation(r, actor)
               \/ RestrictRegistration(r, actor)
        PROVE  OperationsStep
    BY <2>1, <2>2, <2>6
    DEF ProposeRefund, ProposeCancellation, RestrictRegistration, Propose, webhookVars
  <2> QED
    BY <2>1, <2>3, <2>5, <2>6 DEF Next, CheckIn, ResolveException, Settle
<1> QED
  BY <1>1, Invariance, PTL DEF Spec, OperationsGuarded, OperationsStep

-----------------------------------------------------------------------------
(* Sums over finite sets *)

\* A set of numbers has a least one.
LEMMA LeastNumber ==
    ASSUME NEW T, T \subseteq Nat, T # {}
    PROVE  \E m \in T : \A k \in T : m <= k
<1>1. PICK m \in T : \A k \in T : ~ (<<k, m>> \in OpToRel(<, Nat))
  BY WFMin, NatLessThanWellFounded
<1>2. \A k \in T : ~ (k < m)
  BY <1>1 DEF OpToRel
<1> QED
  BY <1>2

\* The element that a sum takes first.
Chosen(s) == CHOOSE x \in s : TRUE

\* The table of the sums of f over the subsets of T.
SumTable(h, f, T) ==
    h = [s \in SUBSET T |-> IF s = {} THEN 0 ELSE f[Chosen(s)] + h[s \ {Chosen(s)}]]

\* SumFunctionOnSet looks its result up in such a table.
LEMMA SumIsTable ==
    ASSUME NEW f, NEW T
    PROVE  SumFunctionOnSet(f, T) = (CHOOSE h : SumTable(h, f, T))[T]
BY DEF SumFunctionOnSet, FoldFunctionOnSet, MapThenFoldSet, SumTable, Chosen

\* Among subsets of a finite set there is one from which no element can be
\* taken without leaving the collection.
LEMMA MinimalSet ==
    ASSUME NEW T, IsFiniteSet(T), NEW C \in SUBSET (SUBSET T), C # {}
    PROVE  \E s \in C : \A x \in s : s \ {x} \notin C
<1> DEFINE Sizes == {Cardinality(s) : s \in C}
<1>1. \A s \in C : IsFiniteSet(s) /\ Cardinality(s) \in Nat
  BY FS_Subset, FS_CardinalityType
<1>2. PICK n \in Sizes : \A k \in Sizes : n <= k
  <2>1. Sizes \subseteq Nat /\ Sizes # {}
    BY <1>1
  <2> HIDE DEF Sizes
  <2> QED
    BY <2>1, LeastNumber
<1>3. PICK s \in C : n = Cardinality(s)
  BY <1>2
<1>4. ASSUME NEW x \in s, s \ {x} \in C PROVE FALSE
  <2>1. Cardinality(s \ {x}) = n - 1
    BY <1>1, <1>3, FS_RemoveElement
  <2>2. n <= n - 1
    BY <1>2, <1>4, <2>1
  <2> QED
    BY <1>1, <1>3, <2>2
<1> QED
  BY <1>4

\* There is a table for every finite set: the one for the subsets with up to n
\* elements extends the one for those with up to n - 1.
LEMMA TableExists ==
    ASSUME NEW f, NEW T, IsFiniteSet(T)
    PROVE  \E h : SumTable(h, f, T)
<1> DEFINE Small(n) == {s \in SUBSET T : Cardinality(s) <= n}
           Filled(g, n) == [s \in Small(n) |-> IF s = {} THEN 0 ELSE f[Chosen(s)] + g[s \ {Chosen(s)}]]
           Table(h, n) == h = Filled(h, n)
           Missing == {n \in Nat : ~ \E h : Table(h, n)}
<1>1. \A s \in SUBSET T : IsFiniteSet(s) /\ Cardinality(s) \in Nat
  BY FS_Subset, FS_CardinalityType
<1>2. \A s \in SUBSET T : s # {} => Chosen(s) \in s
  BY DEF Chosen
<1>3. Missing = {}
  <2> SUFFICES ASSUME Missing # {} PROVE FALSE
    OBVIOUS
  <2>1. PICK n \in Missing : \A k \in Missing : n <= k
    <3> Missing \subseteq Nat
      OBVIOUS
    <3> HIDE DEF Missing
    <3> QED
      BY LeastNumber
  <2>2. n \in Nat /\ ~ \E h : Table(h, n)
    OBVIOUS
  <2>3. n # 0
    <3> SUFFICES ASSUME n = 0 PROVE FALSE
      OBVIOUS
    <3> DEFINE h == [s \in Small(0) |-> 0]
    <3>1. \A s \in Small(0) : s = {}
      BY <1>1, FS_EmptySet
    <3> HIDE DEF Small
    <3>2. Table(h, 0)
      BY <3>1
    <3> HIDE DEF Table
    <3> QED
      BY <2>2, <3>2
  <2>4. n - 1 \in Nat /\ ~ n <= n - 1
    BY <2>2, <2>3
  <2>5. n - 1 \notin Missing
    <3> HIDE DEF Missing
    <3> QED
      BY <2>1, <2>4
  <2>6. PICK g : Table(g, n - 1)
    <3> HIDE DEF Table
    <3> QED
      BY <2>4, <2>5
  <2>7. \A s \in Small(n) : s # {} => s \ {Chosen(s)} \in Small(n - 1)
    BY <1>1, <1>2, <2>2, FS_RemoveElement
  <2>8. Small(n - 1) \subseteq Small(n)
    BY <1>1, <2>2
  <2> DEFINE h == Filled(g, n)
  <2> HIDE DEF Small
  <2>9. \A s \in Small(n - 1) : h[s] = g[s]
    BY <2>6, <2>8
  <2>10. Table(h, n)
    BY <2>7, <2>9
  <2> HIDE DEF Table
  <2> QED
    BY <2>2, <2>10
<1> DEFINE n == Cardinality(T)
<1>4. n \in Nat /\ Small(n) = SUBSET T
  BY <1>1, FS_Subset
<1>5. PICK h : Table(h, n)
  <2> HIDE DEF Table
  <2> QED
    BY <1>3, <1>4
<1>6. SumTable(h, f, T)
  <2> HIDE DEF Small, n
  <2> QED
    BY <1>4, <1>5 DEF SumTable
<1> QED
  BY <1>6

\* A table of sums holds the sum over each subset.
LEMMA TableIsUnique ==
    ASSUME NEW f, NEW T, IsFiniteSet(T), NEW U, U \subseteq T,
           NEW g, SumTable(g, f, U), NEW h, SumTable(h, f, T)
    PROVE  \A s \in SUBSET U : g[s] = h[s]
<1> DEFINE Bad == {s \in SUBSET U : g[s] # h[s]}
<1> SUFFICES ASSUME Bad # {} PROVE FALSE
  OBVIOUS
<1>1. PICK s \in Bad : \A x \in s : s \ {x} \notin Bad
  <2>1. Bad \in SUBSET (SUBSET T)
    OBVIOUS
  <2> HIDE DEF Bad
  <2> QED
    BY <2>1, MinimalSet
<1>2. s \in SUBSET U /\ s \in SUBSET T /\ g[s] # h[s]
  OBVIOUS
<1>3. CASE s = {}
  BY <1>2, <1>3 DEF SumTable
<1>4. CASE s # {}
  <2>1. Chosen(s) \in s
    BY <1>4 DEF Chosen
  <2>2. g[s \ {Chosen(s)}] = h[s \ {Chosen(s)}]
    BY <1>1, <1>2, <2>1
  <2>3. /\ g[s] = f[Chosen(s)] + g[s \ {Chosen(s)}]
        /\ h[s] = f[Chosen(s)] + h[s \ {Chosen(s)}]
    BY <1>2, <1>4 DEF SumTable
  <2> QED
    BY <1>2, <2>2, <2>3
<1> QED
  BY <1>3, <1>4

\* So a table over a larger set gives the sum over a subset.
LEMMA SumOfSubset ==
    ASSUME NEW f, NEW T, IsFiniteSet(T), NEW h, SumTable(h, f, T)
    PROVE  \A s \in SUBSET T : SumFunctionOnSet(f, s) = h[s]
<1> TAKE s \in SUBSET T
<1>1. IsFiniteSet(s)
  BY FS_Subset
<1> DEFINE g == CHOOSE g : SumTable(g, f, s)
<1>2. SumTable(g, f, s)
  BY <1>1, TableExists
<1>3. SumFunctionOnSet(f, s) = g[s]
  BY SumIsTable
<1> HIDE DEF g
<1>4. g[s] = h[s]
  BY <1>2, TableIsUnique
<1> QED
  BY <1>3, <1>4

\* The sum over nothing.
LEMMA SumEmpty == ASSUME NEW f PROVE SumFunctionOnSet(f, {}) = 0
<1>1. PICK h : SumTable(h, f, {})
  BY TableExists, FS_EmptySet
<1>2. h[{}] = 0
  BY <1>1 DEF SumTable
<1> QED
  BY <1>1, <1>2, SumOfSubset, FS_EmptySet

\* A sum takes one element first.
LEMMA SumChosen ==
    ASSUME NEW f, NEW T, IsFiniteSet(T), T # {}
    PROVE  /\ Chosen(T) \in T
           /\ SumFunctionOnSet(f, T) = f[Chosen(T)] + SumFunctionOnSet(f, T \ {Chosen(T)})
<1>1. PICK h : SumTable(h, f, T)
  BY TableExists
<1>2. h[T] = f[Chosen(T)] + h[T \ {Chosen(T)}]
  BY <1>1 DEF SumTable
<1>3. Chosen(T) \in T
  BY DEF Chosen
<1>4. T \in SUBSET T /\ T \ {Chosen(T)} \in SUBSET T
  OBVIOUS
<1> QED
  BY <1>1, <1>2, <1>3, <1>4, SumOfSubset

\* Sums of natural numbers are natural numbers.
LEMMA SumNat ==
    ASSUME NEW f, NEW T, IsFiniteSet(T), \A x \in T : f[x] \in Nat
    PROVE  \A s \in SUBSET T : SumFunctionOnSet(f, s) \in Nat
<1> DEFINE Bad == {s \in SUBSET T : SumFunctionOnSet(f, s) \notin Nat}
<1> SUFFICES ASSUME Bad # {} PROVE FALSE
  OBVIOUS
<1>1. PICK s \in Bad : \A x \in s : s \ {x} \notin Bad
  <2>1. Bad \in SUBSET (SUBSET T)
    OBVIOUS
  <2> HIDE DEF Bad
  <2> QED
    BY <2>1, MinimalSet
<1>2. s \in SUBSET T /\ IsFiniteSet(s) /\ SumFunctionOnSet(f, s) \notin Nat
  BY FS_Subset
<1>3. s # {}
  BY <1>2, SumEmpty
<1>4. /\ Chosen(s) \in s
      /\ SumFunctionOnSet(f, s) = f[Chosen(s)] + SumFunctionOnSet(f, s \ {Chosen(s)})
  BY <1>2, <1>3, SumChosen
<1>5. SumFunctionOnSet(f, s \ {Chosen(s)}) \in Nat
  BY <1>1, <1>2, <1>4
<1> QED
  BY <1>2, <1>4, <1>5

\* A sum does not depend on the element it takes first.
LEMMA SumRemove ==
    ASSUME NEW f, NEW T, IsFiniteSet(T), \A x \in T : f[x] \in Nat
    PROVE  \A x \in T : SumFunctionOnSet(f, T) = f[x] + SumFunctionOnSet(f, T \ {x})
<1> DEFINE Splits(s, x) == SumFunctionOnSet(f, s) = f[x] + SumFunctionOnSet(f, s \ {x})
           Bad == {s \in SUBSET T : ~ \A x \in s : Splits(s, x)}
<1>1. Bad = {}
  <2> SUFFICES ASSUME Bad # {} PROVE FALSE
    OBVIOUS
  <2>1. PICK s \in Bad : \A x \in s : s \ {x} \notin Bad
    <3>1. Bad \in SUBSET (SUBSET T)
      OBVIOUS
    <3> HIDE DEF Bad
    <3> QED
      BY <3>1, MinimalSet
  <2>2. s \in SUBSET T /\ IsFiniteSet(s)
    BY FS_Subset
  <2>3. PICK x \in s : ~ Splits(s, x)
    BY <2>1
  <2> DEFINE c == Chosen(s)
  <2>4. c \in s /\ Splits(s, c)
    BY <2>2, <2>3, SumChosen
  <2>5. c # x
    BY <2>3, <2>4
  <2> HIDE DEF c
  <2>6. s \ {c} \in SUBSET T /\ s \ {x} \in SUBSET T /\ x \in s \ {c} /\ c \in s \ {x}
    BY <2>2, <2>3, <2>4, <2>5
  <2>7. Splits(s \ {c}, x) /\ Splits(s \ {x}, c)
    <3> HIDE DEF Splits
    <3>1. s \ {c} \notin Bad /\ s \ {x} \notin Bad
      BY <2>1, <2>3, <2>4
    <3> QED
      BY <2>6, <3>1
  <2>8. (s \ {c}) \ {x} = (s \ {x}) \ {c} /\ (s \ {c}) \ {x} \in SUBSET T
    BY <2>2
  <2>9. f[c] \in Nat /\ f[x] \in Nat /\ SumFunctionOnSet(f, (s \ {c}) \ {x}) \in Nat
    BY <2>2, <2>3, <2>4, <2>8, SumNat
  <2>10. Splits(s, x)
    BY <2>4, <2>7, <2>8, <2>9
  <2> QED
    BY <2>3, <2>10
<1>2. T \in SUBSET T
  OBVIOUS
<1> HIDE DEF Splits
<1>3. \A x \in T : Splits(T, x)
  BY <1>1, <1>2
<1> QED
  BY <1>3 DEF Splits

\* The sum with one element more.
LEMMA SumInsert ==
    ASSUME NEW f, NEW T, IsFiniteSet(T), NEW x, x \notin T, \A y \in T \cup {x} : f[y] \in Nat
    PROVE  SumFunctionOnSet(f, T \cup {x}) = f[x] + SumFunctionOnSet(f, T)
<1>1. IsFiniteSet(T \cup {x}) /\ (T \cup {x}) \ {x} = T /\ x \in T \cup {x}
  BY FS_AddElement
<1> QED
  BY <1>1, SumRemove

\* Functions that agree on a set have the same sum over it.
LEMMA SumAgrees ==
    ASSUME NEW T, IsFiniteSet(T), NEW f, NEW g, \A x \in T : f[x] = g[x]
    PROVE  SumFunctionOnSet(f, T) = SumFunctionOnSet(g, T)
<1> DEFINE Bad == {s \in SUBSET T : SumFunctionOnSet(f, s) # SumFunctionOnSet(g, s)}
<1> SUFFICES ASSUME Bad # {} PROVE FALSE
  OBVIOUS
<1>1. PICK s \in Bad : \A x \in s : s \ {x} \notin Bad
  <2>1. Bad \in SUBSET (SUBSET T)
    OBVIOUS
  <2> HIDE DEF Bad
  <2> QED
    BY <2>1, MinimalSet
<1>2. s \in SUBSET T /\ IsFiniteSet(s) /\ SumFunctionOnSet(f, s) # SumFunctionOnSet(g, s)
  BY FS_Subset
<1>3. s # {}
  BY <1>2, SumEmpty
<1>4. /\ Chosen(s) \in s
      /\ SumFunctionOnSet(f, s) = f[Chosen(s)] + SumFunctionOnSet(f, s \ {Chosen(s)})
      /\ SumFunctionOnSet(g, s) = g[Chosen(s)] + SumFunctionOnSet(g, s \ {Chosen(s)})
  BY <1>2, <1>3, SumChosen
<1>5. SumFunctionOnSet(f, s \ {Chosen(s)}) = SumFunctionOnSet(g, s \ {Chosen(s)})
  BY <1>1, <1>2, <1>4
<1> QED
  BY <1>2, <1>4, <1>5

\* The sum over disjoint sets is the sum of their sums.
LEMMA SumDisjoint ==
    ASSUME NEW f, NEW S, NEW T, IsFiniteSet(S), IsFiniteSet(T), S \cap T = {},
           \A x \in S \cup T : f[x] \in Nat
    PROVE  SumFunctionOnSet(f, S \cup T) = SumFunctionOnSet(f, S) + SumFunctionOnSet(f, T)
<1> DEFINE Adds(s) == SumFunctionOnSet(f, S \cup s) = SumFunctionOnSet(f, S) + SumFunctionOnSet(f, s)
           Bad == {s \in SUBSET T : ~ Adds(s)}
<1>1. Bad = {}
  <2> SUFFICES ASSUME Bad # {} PROVE FALSE
    OBVIOUS
  <2>1. PICK s \in Bad : \A x \in s : s \ {x} \notin Bad
    <3>1. Bad \in SUBSET (SUBSET T)
      OBVIOUS
    <3> HIDE DEF Bad
    <3> QED
      BY <3>1, MinimalSet
  <2>2. s \in SUBSET T /\ IsFiniteSet(s) /\ ~ Adds(s)
    BY FS_Subset
  <2>3. SumFunctionOnSet(f, S) \in Nat
    BY SumNat
  <2>4. s # {}
    <3>1. S \cup {} = S
      OBVIOUS
    <3>2. Adds({})
      BY <2>3, <3>1, SumEmpty
    <3> QED
      BY <2>2, <3>2
  <2>5. PICK x \in s : TRUE
    BY <2>4
  <2> DEFINE t == s \ {x}
  <2>6. t \in SUBSET T /\ t \notin Bad /\ x \notin t /\ s = t \cup {x}
    BY <2>1, <2>2, <2>5
  <2> HIDE DEF t
  <2>7. Adds(t)
    <3> HIDE DEF Adds
    <3> QED
      BY <2>6
  <2>8. IsFiniteSet(t) /\ IsFiniteSet(S \cup t) /\ x \notin S \cup t /\ S \cup s = (S \cup t) \cup {x}
    BY <2>2, <2>5, <2>6, FS_Subset, FS_Union
  <2>9. /\ SumFunctionOnSet(f, S \cup s) = f[x] + SumFunctionOnSet(f, S \cup t)
        /\ SumFunctionOnSet(f, s) = f[x] + SumFunctionOnSet(f, t)
    BY <2>2, <2>5, <2>6, <2>8, SumInsert
  <2>10. f[x] \in Nat /\ SumFunctionOnSet(f, t) \in Nat
    BY <2>2, <2>5, <2>6, SumNat
  <2> QED
    BY <2>2, <2>3, <2>7, <2>9, <2>10
<1>2. T \in SUBSET T
  OBVIOUS
<1>3. Adds(T)
  <2> HIDE DEF Adds
  <2> QED
    BY <1>1, <1>2
<1> QED
  BY <1>3

-----------------------------------------------------------------------------
(* Sums of amounts *)

\* The sum of the amounts of the rows S.
AmountIn(rows, S) == SumFunction([x \in S |-> rows[x].amount])

\* Sums of amounts are natural numbers.
LEMMA AmountInNat ==
    ASSUME NEW rows, NEW S, IsFiniteSet(S), \A x \in S : rows[x].amount \in Nat
    PROVE  AmountIn(rows, S) \in Nat
<1> DEFINE f == [x \in S |-> rows[x].amount]
<1>1. AmountIn(rows, S) = SumFunctionOnSet(f, S)
  BY DEF AmountIn, SumFunction
<1>2. \A x \in S : f[x] \in Nat
  OBVIOUS
<1> HIDE DEF f
<1> QED
  BY <1>1, <1>2, SumNat

\* The amounts of no rows.
LEMMA AmountInEmpty == ASSUME NEW rows PROVE AmountIn(rows, {}) = 0
<1> DEFINE f == [x \in {} |-> rows[x].amount]
<1>1. AmountIn(rows, {}) = SumFunctionOnSet(f, {})
  BY DEF AmountIn, SumFunction
<1> HIDE DEF f
<1> QED
  BY <1>1, SumEmpty

\* Rows with the same amounts have the same sum.
LEMMA AmountInAgrees ==
    ASSUME NEW rows, NEW others, NEW S, \A x \in S : rows[x].amount = others[x].amount
    PROVE  AmountIn(rows, S) = AmountIn(others, S)
<1>1. [x \in S |-> rows[x].amount] = [x \in S |-> others[x].amount]
  OBVIOUS
<1> QED
  BY <1>1 DEF AmountIn

\* The amounts of two disjoint sets of rows.
LEMMA AmountInUnion ==
    ASSUME NEW rows, NEW S, NEW T, IsFiniteSet(S), IsFiniteSet(T), S \cap T = {},
           \A x \in S \cup T : rows[x].amount \in Nat
    PROVE  AmountIn(rows, S \cup T) = AmountIn(rows, S) + AmountIn(rows, T)
<1> DEFINE f(U) == [x \in U |-> rows[x].amount]
           g == f(S \cup T)
<1>1. \A U : AmountIn(rows, U) = SumFunctionOnSet(f(U), U)
  BY DEF AmountIn, SumFunction
<1>2. /\ \A x \in S : g[x] = f(S)[x]
      /\ \A x \in T : g[x] = f(T)[x]
      /\ \A x \in S \cup T : g[x] \in Nat
  OBVIOUS
<1>3. AmountIn(rows, S \cup T) = SumFunctionOnSet(g, S \cup T)
  BY <1>1
<1> HIDE DEF f, g
<1>4. SumFunctionOnSet(g, S) = AmountIn(rows, S) /\ SumFunctionOnSet(g, T) = AmountIn(rows, T)
  BY <1>1, <1>2, SumAgrees
<1> QED
  BY <1>2, <1>3, <1>4, SumDisjoint

\* One row more.
LEMMA AmountInInsert ==
    ASSUME NEW rows, NEW S, IsFiniteSet(S), NEW x, x \notin S,
           \A y \in S \cup {x} : rows[y].amount \in Nat
    PROVE  /\ AmountIn(rows, S \cup {x}) = AmountIn(rows, S) + rows[x].amount
           /\ AmountIn(rows, {x}) = rows[x].amount
<1> DEFINE f == [y \in {x} |-> rows[y].amount]
<1>1. AmountIn(rows, {x}) = SumFunctionOnSet(f, {x})
  BY DEF AmountIn, SumFunction
<1>2. f[x] = rows[x].amount /\ \A y \in {} \cup {x} : f[y] \in Nat
  OBVIOUS
<1> HIDE DEF f
<1>3. {} \cup {x} = {x} /\ IsFiniteSet({}) /\ IsFiniteSet({x}) /\ x \notin {}
  BY FS_EmptySet, FS_Singleton
<1>4. SumFunctionOnSet(f, {} \cup {x}) = f[x] + SumFunctionOnSet(f, {})
  BY <1>2, <1>3, SumInsert
<1>5. AmountIn(rows, {x}) = rows[x].amount
  BY <1>1, <1>2, <1>3, <1>4, SumEmpty
<1>6. AmountIn(rows, S \cup {x}) = AmountIn(rows, S) + AmountIn(rows, {x})
  BY <1>3, AmountInUnion
<1> QED
  BY <1>5, <1>6

\* The sum in RefundsCovered.
LEMMA SumOfRows ==
    ASSUME NEW rows, NEW S, IsFiniteSet(S), S \subseteq DOMAIN rows
    PROVE  SumFunctionOnSet([x \in DOMAIN rows |-> rows[x].amount], S) = AmountIn(rows, S)
<1> DEFINE f == [x \in DOMAIN rows |-> rows[x].amount]
           g == [x \in S |-> rows[x].amount]
<1>1. AmountIn(rows, S) = SumFunctionOnSet(g, S)
  BY DEF AmountIn, SumFunction
<1>2. \A x \in S : f[x] = g[x]
  OBVIOUS
<1> HIDE DEF f, g
<1>3. SumFunctionOnSet(f, S) = SumFunctionOnSet(g, S)
  BY <1>2, SumAgrees
<1> QED
  BY <1>1, <1>3 DEF f

-----------------------------------------------------------------------------
(* The invariant on the money *)

\* The types that the first invariant leaves out.
MoneyTypes ==
    /\ state \in [Registrations -> {"payment_pending", "confirmed", "cancelled", "checked_in"}]
    /\ Len(sent) <= MaxEvents
    /\ exceptions \in [Events -> {"none", "open", "resolved"}]
    /\ Len(operations) <= MaxOperations
    /\ \A o \in DOMAIN operations :
        /\ operations[o].amount \in 0 .. Price
        /\ (operations[o].approvedBy = "nobody") <=> (operations[o].status = "proposed")
    /\ batches \in Seq([entries : SUBSET Events, fee : Fees, net : Nat])
    /\ overlapped \subseteq Registrations
    /\ \A e \in Events :
        /\ (receipt[e] = "none") <=> (ledger[e] = "none" /\ exceptions[e] = "none")
        /\ (receipt[e] = "exception") <=> (exceptions[e] # "none")

\* A registration is paid at most once, and then no longer waits for a payment.
PaidOnce ==
    \A r \in Registrations :
        \/ Entries(r, {"payment"}) = {}
        \/ /\ state[r] # "payment_pending"
           /\ \E e \in DOMAIN sent : Entries(r, {"payment"}) = {e} /\ sent[e].amount = Price

\* What RefundsCovered says of a registration.
Covered(r) ==
    AmountIn(sent, Entries(r, {"refund"})) + AmountIn(operations, PendingRefunds(r))
        <= AmountIn(sent, Entries(r, {"payment"}))

MoneyInv ==
    /\ MoneyTypes /\ PaidOnce
    /\ \A r \in Registrations \ overlapped : Covered(r)
    /\ Settled \subseteq Booked
    /\ SettlementsBalance

\* The entries of a registration can be added up.
LEMMA LedgerFacts ==
    ASSUME IInv, MoneyTypes
    PROVE  /\ DOMAIN sent \subseteq Events /\ IsFiniteSet(DOMAIN sent)
           /\ \A e \in DOMAIN sent : sent[e] \in Messages /\ sent[e].amount \in Nat
           /\ \A S \in SUBSET DOMAIN sent : IsFiniteSet(S) /\ AmountIn(sent, S) \in Nat
           /\ \A r, K : Entries(r, K) \subseteq DOMAIN sent
<1>1. sent \in Seq(Messages) /\ Len(sent) \in Nat /\ DOMAIN sent = 1 .. Len(sent)
  BY LenProperties DEF IInv, EventsOK
<1>2. DOMAIN sent \subseteq Events
  BY <1>1, FinanceAssumption DEF MoneyTypes, Events
<1>3. \A e \in DOMAIN sent : sent[e] \in Messages /\ sent[e].amount \in Nat
  BY <1>1, ElementOfSeq, FinanceAssumption
<1>4. IsFiniteSet(DOMAIN sent)
  BY <1>1, FS_Interval
<1>5. ASSUME NEW S \in SUBSET DOMAIN sent PROVE IsFiniteSet(S) /\ AmountIn(sent, S) \in Nat
  <2>1. IsFiniteSet(S)
    BY <1>4, FS_Subset
  <2> QED
    BY <1>3, <2>1, AmountInNat
<1> QED
  BY <1>2, <1>3, <1>4, <1>5 DEF Entries

\* The pending refunds of a registration can be added up.
LEMMA PendingFacts ==
    ASSUME IInv, MoneyTypes
    PROVE  \A r : /\ PendingRefunds(r) \subseteq DOMAIN operations /\ IsFiniteSet(PendingRefunds(r))
                  /\ \A o \in PendingRefunds(r) : operations[o].amount \in Nat
                  /\ AmountIn(operations, PendingRefunds(r)) \in Nat
<1> TAKE r
<1>1. Len(operations) \in Nat /\ DOMAIN operations = 1 .. Len(operations)
  BY RowFacts DEF IInv
<1>2. IsFiniteSet(DOMAIN operations)
  BY <1>1, FS_Interval
<1>3. PendingRefunds(r) \subseteq DOMAIN operations
  BY DEF PendingRefunds
<1>4. IsFiniteSet(PendingRefunds(r))
  BY <1>2, <1>3, FS_Subset
<1>5. \A o \in PendingRefunds(r) : operations[o].amount \in Nat
  BY <1>3, FinanceAssumption DEF MoneyTypes
<1> QED
  BY <1>3, <1>4, <1>5, AmountInNat

\* available_refund_minor never exceeds the price, and leaves what has gone back.
LEMMA AvailableFacts ==
    ASSUME IInv, MoneyInv, NEW r \in Registrations
    PROVE  /\ Available(r) \in 0 .. Price
           /\ Available(r) = 0
              \/ Available(r) + AmountIn(sent, Entries(r, {"refund"}))
                    <= AmountIn(sent, Entries(r, {"payment"}))
<1> DEFINE paid == AmountIn(sent, Entries(r, {"payment"}))
           gone == AmountIn(sent, Entries(r, {"refund", "dispute"}))
           refunded == AmountIn(sent, Entries(r, {"refund"}))
           disputed == AmountIn(sent, Entries(r, {"dispute"}))
<1>0. MoneyTypes /\ PaidOnce
  BY DEF MoneyInv
<1>1. /\ \A e \in DOMAIN sent : sent[e].amount \in Nat
      /\ \A S \in SUBSET DOMAIN sent : IsFiniteSet(S) /\ AmountIn(sent, S) \in Nat
      /\ \A K : Entries(r, K) \subseteq DOMAIN sent
  BY <1>0, LedgerFacts
<1>2. paid \in Nat /\ gone \in Nat /\ refunded \in Nat /\ disputed \in Nat
  BY <1>1
<1>3. gone = refunded + disputed
  <2>1. /\ Entries(r, {"refund", "dispute"}) = Entries(r, {"refund"}) \cup Entries(r, {"dispute"})
        /\ Entries(r, {"refund"}) \cap Entries(r, {"dispute"}) = {}
    BY DEF Entries
  <2>2. \A e \in Entries(r, {"refund"}) \cup Entries(r, {"dispute"}) : sent[e].amount \in Nat
    BY <1>1
  <2>3. IsFiniteSet(Entries(r, {"refund"})) /\ IsFiniteSet(Entries(r, {"dispute"}))
    BY <1>1
  <2> QED
    BY <2>1, <2>2, <2>3, AmountInUnion
<1>4. paid <= Price
  <2>1. CASE Entries(r, {"payment"}) = {}
    BY <2>1, AmountInEmpty, FinanceAssumption
  <2>2. ASSUME NEW e \in DOMAIN sent, Entries(r, {"payment"}) = {e}, sent[e].amount = Price
        PROVE  paid <= Price
    <3>1. /\ IsFiniteSet({}) /\ e \notin {}
          /\ \A y \in {} \cup {e} : sent[y].amount \in Nat
      BY <1>1, FS_EmptySet
    <3>2. AmountIn(sent, {e}) = sent[e].amount
      BY <3>1, AmountInInsert
    <3> QED
      BY <2>2, <3>2, FinanceAssumption
  <2> QED
    BY <1>0, <2>1, <2>2 DEF PaidOnce
<1>5. Available(r) = IF paid - gone < 0 THEN 0 ELSE paid - gone
  BY DEF Available, Amounts, AmountIn
<1> HIDE DEF paid, gone, refunded, disputed
<1>6. Available(r) \in 0 .. Price /\ (Available(r) = 0 \/ Available(r) + refunded <= paid)
  BY <1>2, <1>3, <1>4, <1>5, FinanceAssumption
<1> QED
  BY <1>6 DEF paid, refunded

-----------------------------------------------------------------------------
(* What an event of the provider does to the sums *)

\* The first delivery of an event adds at most its own entry.
LEMMA EntriesAfter ==
    ASSUME IInv, MoneyTypes, NEW e \in Events, NEW m \in Messages,
           NEW outcome \in {"applied", "exception"}, NEW exception, Record(e, m, outcome, exception),
           NEW kind \in {"none", "payment", "refund", "dispute"}, AddEntry(e, kind)
    PROVE  /\ Len(sent') <= MaxEvents
           /\ \A r, K : "none" \notin K =>
                /\ e \notin Entries(r, K)
                /\ Entries(r, K)' = IF kind \in K /\ m.registration = r
                                    THEN Entries(r, K) \cup {e} ELSE Entries(r, K)
                /\ AmountIn(sent', Entries(r, K)) = AmountIn(sent, Entries(r, K))
<1>1. /\ sent' \in Seq(Messages) /\ e \in DOMAIN sent' /\ sent'[e] = m
      /\ \A d \in DOMAIN sent : d \in DOMAIN sent' /\ sent'[d] = sent[d]
      /\ ledger[e] = "none"
  BY RecordStep
<1>2. sent \in Seq(Messages) /\ Len(sent) \in Nat /\ DOMAIN sent = 1 .. Len(sent)
  BY LenProperties DEF IInv, EventsOK
<1>3. e \in Nat /\ e >= 1 /\ e <= MaxEvents
  BY FinanceAssumption DEF Events
<1>4. Len(sent') <= MaxEvents /\ DOMAIN sent' \subseteq DOMAIN sent \cup {e}
  <2>1. CASE e <= Len(sent)
    BY <1>2, <2>1 DEF Record, MoneyTypes
  <2>2. CASE ~ (e <= Len(sent))
    <3>1. e = Len(sent) + 1 /\ sent' = Append(sent, m)
      BY <1>2, <1>3, <2>2 DEF Record
    <3>2. sent' \in Seq(Messages) /\ Len(sent') = e
      BY <1>2, <3>1, AppendProperties
    <3>3. DOMAIN sent' = 1 .. e
      BY <3>2, LenProperties
    <3> QED
      BY <1>2, <1>3, <3>1, <3>2, <3>3
  <2> QED
    BY <2>1, <2>2
<1>5. ledger'[e] = kind /\ \A d \in Events \ {e} : ledger'[d] = ledger[d]
  BY DEF AddEntry, IInv, EventsOK
<1>6. DOMAIN sent \subseteq Events
  BY LedgerFacts
<1>7. ASSUME NEW r, NEW K, "none" \notin K
      PROVE  /\ e \notin Entries(r, K)
             /\ Entries(r, K)' = IF kind \in K /\ m.registration = r
                                 THEN Entries(r, K) \cup {e} ELSE Entries(r, K)
             /\ AmountIn(sent', Entries(r, K)) = AmountIn(sent, Entries(r, K))
  <2>1. e \notin Entries(r, K)
    BY <1>1, <1>7 DEF Entries
  <2>2. Entries(r, K)' = IF kind \in K /\ m.registration = r
                         THEN Entries(r, K) \cup {e} ELSE Entries(r, K)
    BY <1>1, <1>4, <1>5, <1>6, <2>1 DEF Entries
  <2>3. \A d \in Entries(r, K) : sent'[d].amount = sent[d].amount
    BY <1>1 DEF Entries
  <2> QED
    BY <2>1, <2>2, <2>3, AmountInAgrees
<1> QED
  BY <1>4, <1>7

\* No event changes an entry that a settlement covers.
LEMMA SettledAfter ==
    ASSUME IInv, MoneyInv, NEW e \in Events, NEW m \in Messages,
           NEW outcome \in {"applied", "exception"}, NEW exception, Record(e, m, outcome, exception),
           NEW kind \in {"none", "payment", "refund", "dispute"}, AddEntry(e, kind)
    PROVE  (Settled \subseteq Booked)' /\ SettlementsBalance'
<1>1. /\ \A d \in DOMAIN sent : d \in DOMAIN sent' /\ sent'[d] = sent[d]
      /\ ledger[e] = "none"
  BY RecordStep
<1>2. Settled' = Settled /\ batches' = batches
  BY DEF Settled, Record
<1>3. ledger'[e] = kind /\ \A d \in Events \ {e} : ledger'[d] = ledger[d]
  BY DEF AddEntry, IInv, EventsOK
<1>4. DOMAIN sent \subseteq Events
  BY LedgerFacts DEF MoneyInv
<1>5. \A d \in Settled : /\ d \in DOMAIN sent' /\ sent'[d] = sent[d] /\ ledger'[d] = ledger[d]
                         /\ ledger[d] # "none"
  BY <1>1, <1>3, <1>4 DEF MoneyInv, Booked
<1>6. (Settled \subseteq Booked)'
  BY <1>2, <1>5 DEF Booked
<1>7. ASSUME NEW k PROVE Total(Settled, k)' = Total(Settled, k)
  <2>1. {d \in Settled' : ledger'[d] = k} = {d \in Settled : ledger[d] = k}
    BY <1>2, <1>5
  <2>2. \A d \in {d \in Settled : ledger[d] = k} : sent'[d].amount = sent[d].amount
    BY <1>5
  <2>3. AmountIn(sent', {d \in Settled : ledger[d] = k})
            = AmountIn(sent, {d \in Settled : ledger[d] = k})
    BY <2>2, AmountInAgrees
  <2> QED
    BY <2>1, <2>3 DEF Total, Amounts, AmountIn
<1> QED
  BY <1>2, <1>6, <1>7 DEF MoneyInv, SettlementsBalance

\* The types after an event.
LEMMA TypesAfter ==
    ASSUME IInv, MoneyTypes, NEW e \in Events, NEW m \in Messages,
           NEW outcome \in {"applied", "exception"}, NEW exception \in BOOLEAN,
           Record(e, m, outcome, exception), exception <=> outcome = "exception",
           NEW kind \in {"none", "payment", "refund", "dispute"}, AddEntry(e, kind),
           kind # "none" \/ exception,
           \/ UNCHANGED state
           \/ state' = [state EXCEPT ![m.registration] = "confirmed"],
           \/ UNCHANGED operations
           \/ \E o \in DOMAIN operations :
                /\ operations[o].status = "provider_pending"
                /\ operations' = [operations EXCEPT ![o].status = "completed"]
    PROVE  MoneyTypes'
<1>1. /\ receipt'[e] = outcome /\ \A d \in Events \ {e} : receipt'[d] = receipt[d]
      /\ ledger[e] = "none"
  BY RecordStep
<1>2. ledger'[e] = kind /\ \A d \in Events \ {e} : ledger'[d] = ledger[d]
  BY DEF AddEntry, IInv, EventsOK
<1>3. Len(sent') <= MaxEvents
  BY EntriesAfter
<1>4. exceptions[e] = "none"
  BY DEF Record, AlreadyReceived, MoneyTypes
<1>5. /\ exceptions' \in [Events -> {"none", "open", "resolved"}]
      /\ exceptions'[e] = (IF exception THEN "open" ELSE "none")
      /\ \A d \in Events \ {e} : exceptions'[d] = exceptions[d]
  BY <1>4 DEF Record, MoneyTypes
<1>6. \A d \in Events :
        /\ (receipt'[d] = "none") <=> (ledger'[d] = "none" /\ exceptions'[d] = "none")
        /\ (receipt'[d] = "exception") <=> (exceptions'[d] # "none")
  BY <1>1, <1>2, <1>5 DEF MoneyTypes
<1>7. state' \in [Registrations -> {"payment_pending", "confirmed", "cancelled", "checked_in"}]
  BY DEF MoneyTypes
<1>8. /\ Len(operations') <= MaxOperations
      /\ \A o \in DOMAIN operations' :
            /\ operations'[o].amount \in 0 .. Price
            /\ (operations'[o].approvedBy = "nobody") <=> (operations'[o].status = "proposed")
  <2>1. CASE UNCHANGED operations
    BY <2>1 DEF MoneyTypes
  <2>2. ASSUME NEW o \in DOMAIN operations, operations[o].status = "provider_pending",
               operations' = [operations EXCEPT ![o].status = "completed"]
        PROVE  <1>8!:
    <3>1. /\ DOMAIN operations' = DOMAIN operations /\ Len(operations') = Len(operations)
          /\ \A p \in DOMAIN operations \ {o} : operations'[p] = operations[p]
          /\ operations'[o].amount = operations[o].amount
          /\ operations'[o].approvedBy = operations[o].approvedBy
          /\ operations'[o].status = "completed"
      BY <2>2, CompletionWrites
    <3> QED
      BY <2>2, <3>1 DEF MoneyTypes
  <2> QED
    BY <2>1, <2>2
<1>9. /\ batches' \in Seq([entries : SUBSET Events, fee : Fees, net : Nat])
      /\ overlapped' \subseteq Registrations
  BY DEF Record, MoneyTypes
<1> QED
  BY <1>3, <1>5, <1>6, <1>7, <1>8, <1>9 DEF MoneyTypes

\* A payment is credited to a registration that waits for it.
LEMMA CreditMoney ==
    ASSUME IInv, MoneyInv, NEW e \in Events, NEW m \in Messages, CreditPayment(e, m)
    PROVE  MoneyInv'
<1>0. /\ MoneyTypes /\ Record(e, m, "applied", FALSE) /\ AddEntry(e, "payment")
      /\ m.amount = Price /\ state[m.registration] = "payment_pending"
      /\ state' = [state EXCEPT ![m.registration] = "confirmed"]
      /\ UNCHANGED operations /\ UNCHANGED overlapped
  BY DEF MoneyInv, CreditPayment, Payable, Record
<1>1. m.registration \in Registrations
  BY FinanceAssumption
<1>2. MoneyTypes'
  BY <1>0, TypesAfter
<1>3. (Settled \subseteq Booked)' /\ SettlementsBalance'
  BY <1>0, SettledAfter
<1>4. \A r, K : "none" \notin K =>
            /\ e \notin Entries(r, K)
            /\ Entries(r, K)' = IF "payment" \in K /\ m.registration = r
                                THEN Entries(r, K) \cup {e} ELSE Entries(r, K)
            /\ AmountIn(sent', Entries(r, K)) = AmountIn(sent, Entries(r, K))
  BY <1>0, EntriesAfter
<1>5. /\ sent'[e] = m /\ e \in DOMAIN sent'
      /\ \A d \in DOMAIN sent : d \in DOMAIN sent' /\ sent'[d] = sent[d]
  BY <1>0, RecordStep
<1>6. /\ \A d \in DOMAIN sent : sent[d].amount \in Nat
      /\ \A S \in SUBSET DOMAIN sent : IsFiniteSet(S) /\ AmountIn(sent, S) \in Nat
      /\ \A r, K : Entries(r, K) \subseteq DOMAIN sent
  BY <1>0, LedgerFacts
<1>7. ASSUME NEW r \in Registrations
      PROVE  /\ Entries(r, {"refund"})' = Entries(r, {"refund"})
             /\ IF m.registration = r
                THEN Entries(r, {"payment"})' = {e} /\ Entries(r, {"payment"}) = {}
                ELSE Entries(r, {"payment"})' = Entries(r, {"payment"})
  <2>1. m.registration = r => Entries(r, {"payment"}) = {}
    BY <1>0 DEF MoneyInv, PaidOnce
  <2> QED
    BY <1>4, <2>1
<1>8. PaidOnce'
  <2> SUFFICES ASSUME NEW r \in Registrations
               PROVE  \/ Entries(r, {"payment"})' = {}
                      \/ /\ state'[r] # "payment_pending"
                         /\ \E d \in DOMAIN sent' :
                                Entries(r, {"payment"})' = {d} /\ sent'[d].amount = Price
    BY DEF PaidOnce
  <2>1. CASE m.registration = r
    BY <1>0, <1>5, <1>7, <2>1 DEF MoneyTypes
  <2>2. CASE m.registration # r
    <3>1. state'[r] = state[r] /\ Entries(r, {"payment"})' = Entries(r, {"payment"})
      BY <1>0, <1>7, <2>2 DEF MoneyTypes
    <3> QED
      BY <1>5, <3>1 DEF MoneyInv, PaidOnce
  <2> QED
    BY <2>1, <2>2
<1>9. ASSUME NEW r \in Registrations \ overlapped' PROVE Covered(r)'
  <2>1. Covered(r)
    BY <1>0 DEF MoneyInv
  <2>2. PendingRefunds(r)' = PendingRefunds(r)
    BY <1>0 DEF PendingRefunds
  <2>3. AmountIn(sent', Entries(r, {"refund"})') = AmountIn(sent, Entries(r, {"refund"}))
    BY <1>4, <1>7
  <2>4. AmountIn(sent, Entries(r, {"payment"})) <= AmountIn(sent', Entries(r, {"payment"})')
    <3>1. CASE m.registration = r
      <4>1. AmountIn(sent, Entries(r, {"payment"})) = 0
        BY <1>7, <3>1, AmountInEmpty
      <4>2. AmountIn(sent', {e}) = sent'[e].amount
        <5>1. IsFiniteSet({}) /\ e \notin {} /\ \A y \in {} \cup {e} : sent'[y].amount \in Nat
          BY <1>0, <1>5, FS_EmptySet, FinanceAssumption
        <5> QED
          BY <5>1, AmountInInsert
      <4> QED
        BY <1>0, <1>5, <1>7, <3>1, <4>1, <4>2, FinanceAssumption
    <3>2. CASE m.registration # r
      BY <1>4, <1>6, <1>7, <3>2
    <3> QED
      BY <3>1, <3>2
  <2>5. /\ AmountIn(sent, Entries(r, {"refund"})) \in Nat
        /\ AmountIn(sent, Entries(r, {"payment"})) \in Nat
        /\ AmountIn(operations, PendingRefunds(r)) \in Nat
    BY <1>0, <1>6, PendingFacts
  <2>6. AmountIn(sent', Entries(r, {"payment"})') \in Nat
    <3>1. CASE m.registration = r
      <4>1. IsFiniteSet({e}) /\ \A y \in {e} : sent'[y].amount \in Nat
        BY <1>0, <1>5, FS_Singleton, FinanceAssumption
      <4> QED
        BY <1>7, <3>1, <4>1, AmountInNat
    <3>2. CASE m.registration # r
      BY <1>4, <1>6, <1>7, <3>2
    <3> QED
      BY <3>1, <3>2
  <2> QED
    BY <1>0, <2>1, <2>2, <2>3, <2>4, <2>5, <2>6 DEF Covered
<1> QED
  BY <1>2, <1>3, <1>8, <1>9 DEF MoneyInv

\* An event that leaves no entry, or the entry of a dispute.
LEMMA ReviewedMoney ==
    ASSUME IInv, MoneyInv, NEW e \in Events, NEW m \in Messages,
           Record(e, m, "exception", TRUE), NEW kind \in {"none", "payment", "refund", "dispute"},
           kind \notin {"payment", "refund"}, AddEntry(e, kind), UNCHANGED <<state, operations>>
    PROVE  MoneyInv'
<1>0. MoneyTypes /\ UNCHANGED overlapped
  BY DEF MoneyInv, Record
<1>1. MoneyTypes'
  BY <1>0, TypesAfter
<1>2. (Settled \subseteq Booked)' /\ SettlementsBalance'
  BY SettledAfter
<1>3. \A r, K : "none" \notin K =>
            /\ e \notin Entries(r, K)
            /\ Entries(r, K)' = IF kind \in K /\ m.registration = r
                                THEN Entries(r, K) \cup {e} ELSE Entries(r, K)
            /\ AmountIn(sent', Entries(r, K)) = AmountIn(sent, Entries(r, K))
  <2>1. PICK exception \in BOOLEAN : Record(e, m, "exception", exception)
    OBVIOUS
  <2> QED
    BY <1>0, <2>1, EntriesAfter
<1>4. ASSUME NEW r, NEW K \in {{"refund"}, {"payment"}}
      PROVE  /\ Entries(r, K)' = Entries(r, K)
             /\ AmountIn(sent', Entries(r, K)') = AmountIn(sent, Entries(r, K))
  BY <1>3
<1>5. \A d \in DOMAIN sent : d \in DOMAIN sent' /\ sent'[d] = sent[d]
  BY RecordStep
<1>6. PaidOnce'
  BY <1>4, <1>5 DEF MoneyInv, PaidOnce
<1>7. ASSUME NEW r \in Registrations \ overlapped' PROVE Covered(r)'
  <2>1. PendingRefunds(r)' = PendingRefunds(r)
    BY DEF PendingRefunds
  <2> QED
    BY <1>0, <1>4, <2>1 DEF Covered, MoneyInv
<1> QED
  BY <1>1, <1>2, <1>6, <1>7 DEF MoneyInv

\* The amount of a refund goes from what is promised to what has gone.
LEMMA RefundMoney ==
    ASSUME IInv, MoneyInv, NEW e \in Events, NEW m \in Messages, ReconcileRefund(e, m)
    PROVE  MoneyInv'
<1>0. /\ MoneyTypes /\ Record(e, m, "applied", FALSE) /\ AddEntry(e, "refund")
      /\ UNCHANGED <<state, overlapped>>
  BY DEF MoneyInv, ReconcileRefund, Record
<1>1. PICK o \in Matching(m) : operations' = [operations EXCEPT ![o].status = "completed"]
  BY DEF ReconcileRefund
<1>2. /\ o \in DOMAIN operations /\ o \in PendingRefunds(m.registration)
      /\ operations[o].registration = m.registration
      /\ operations[o].kind = "refund" /\ operations[o].status = "provider_pending"
      /\ operations[o].amount = m.amount
  BY DEF Matching, PendingRefunds
<1>3. MoneyTypes'
  BY <1>0, <1>1, <1>2, TypesAfter
<1>4. (Settled \subseteq Booked)' /\ SettlementsBalance'
  BY <1>0, SettledAfter
<1>5. \A r, K : "none" \notin K =>
            /\ e \notin Entries(r, K)
            /\ Entries(r, K)' = IF "refund" \in K /\ m.registration = r
                                THEN Entries(r, K) \cup {e} ELSE Entries(r, K)
            /\ AmountIn(sent', Entries(r, K)) = AmountIn(sent, Entries(r, K))
  BY <1>0, EntriesAfter
<1>6. /\ sent'[e] = m /\ \A d \in DOMAIN sent : d \in DOMAIN sent' /\ sent'[d] = sent[d]
  BY <1>0, RecordStep
<1>7. /\ \A d \in DOMAIN sent : sent[d].amount \in Nat
      /\ \A S \in SUBSET DOMAIN sent : IsFiniteSet(S) /\ AmountIn(sent, S) \in Nat
      /\ \A r, K : Entries(r, K) \subseteq DOMAIN sent
  BY <1>0, LedgerFacts
<1>8. /\ DOMAIN operations' = DOMAIN operations
      /\ \A p \in DOMAIN operations \ {o} : operations'[p] = operations[p]
      /\ operations'[o].registration = operations[o].registration
      /\ operations'[o].kind = operations[o].kind
      /\ operations'[o].amount = operations[o].amount
      /\ operations'[o].status = "completed"
  BY <1>1, <1>2, CompletionWrites
<1>9. ASSUME NEW r
      PROVE  /\ Entries(r, {"payment"})' = Entries(r, {"payment"})
             /\ AmountIn(sent', Entries(r, {"payment"})') = AmountIn(sent, Entries(r, {"payment"}))
  BY <1>5
<1>10. PaidOnce'
  BY <1>0, <1>6, <1>9 DEF MoneyInv, PaidOnce
<1>11. ASSUME NEW r \in Registrations \ overlapped' PROVE Covered(r)'
  <2>1. Covered(r)
    BY <1>0 DEF MoneyInv
  <2> DEFINE gone == Entries(r, {"refund"})
             waiting == PendingRefunds(r)
  <2>2. /\ IsFiniteSet(waiting) /\ \A p \in waiting : operations[p].amount \in Nat
        /\ AmountIn(operations, waiting) \in Nat
    BY <1>0, PendingFacts
  <2>3. /\ IsFiniteSet(gone) /\ AmountIn(sent, gone) \in Nat
        /\ \A d \in gone : d \in DOMAIN sent /\ sent[d].amount \in Nat
    BY <1>7
  <2>4. CASE m.registration # r
    <3>1. Entries(r, {"refund"})' = gone /\ AmountIn(sent', gone) = AmountIn(sent, gone)
      BY <1>5, <2>4
    <3>2. PendingRefunds(r)' = waiting
      BY <1>2, <1>8, <2>4 DEF PendingRefunds
    <3>3. AmountIn(operations', waiting) = AmountIn(operations, waiting)
      <4>1. \A p \in waiting : operations'[p].amount = operations[p].amount
        BY <1>8 DEF PendingRefunds
      <4> HIDE DEF waiting
      <4> QED
        BY <4>1, AmountInAgrees
    <3> QED
      BY <1>9, <2>1, <3>1, <3>2, <3>3 DEF Covered
  <2>5. CASE m.registration = r
    <3>1. /\ Entries(r, {"refund"})' = gone \cup {e} /\ e \notin gone
          /\ AmountIn(sent', gone) = AmountIn(sent, gone)
      BY <1>5, <2>5
    <3>2. AmountIn(sent', gone \cup {e}) = AmountIn(sent, gone) + m.amount
      <4>1. m.amount \in Nat /\ \A d \in gone \cup {e} : sent'[d].amount \in Nat
        BY <1>6, <2>3, FinanceAssumption
      <4> HIDE DEF gone
      <4>2. IsFiniteSet(gone) /\ e \notin gone
        BY <2>3, <3>1
      <4>3. AmountIn(sent', gone \cup {e}) = AmountIn(sent', gone) + sent'[e].amount
        BY <4>1, <4>2, AmountInInsert
      <4> QED
        BY <1>6, <3>1, <4>3
    <3> DEFINE rest == waiting \ {o}
    <3>3. PendingRefunds(r)' = rest /\ o \in waiting
      BY <1>2, <1>8, <2>5 DEF PendingRefunds
    <3>4. AmountIn(operations', rest) = AmountIn(operations, rest)
      <4>1. \A p \in rest : operations'[p].amount = operations[p].amount
        BY <1>8 DEF PendingRefunds
      <4> HIDE DEF rest
      <4> QED
        BY <4>1, AmountInAgrees
    <3>5. AmountIn(operations, waiting) = AmountIn(operations, rest) + m.amount
      <4>1. waiting = rest \cup {o} /\ o \notin rest
        BY <3>3
      <4>2. IsFiniteSet(rest)
        BY <2>2, FS_Subset
      <4>3. \A p \in rest \cup {o} : operations[p].amount \in Nat
        BY <2>2, <3>3
      <4> HIDE DEF rest, waiting
      <4>4. AmountIn(operations, rest \cup {o}) = AmountIn(operations, rest) + operations[o].amount
        BY <4>1, <4>2, <4>3, AmountInInsert
      <4> QED
        BY <1>2, <4>1, <4>4
    <3>6. AmountIn(operations, rest) \in Nat
      <4>1. IsFiniteSet(rest) /\ \A p \in rest : operations[p].amount \in Nat
        BY <2>2, FS_Subset
      <4> HIDE DEF rest
      <4> QED
        BY <4>1, AmountInNat
    <3>7. m.amount \in Nat /\ AmountIn(sent, Entries(r, {"payment"})) \in Nat
      BY <1>7, FinanceAssumption
    <3> HIDE DEF rest, gone, waiting
    <3>8. AmountIn(sent, gone) + AmountIn(operations, waiting)
            <= AmountIn(sent, Entries(r, {"payment"}))
      BY <2>1 DEF Covered, gone, waiting
    <3>9. AmountIn(sent', gone \cup {e}) + AmountIn(operations', rest)
            <= AmountIn(sent', Entries(r, {"payment"})')
      BY <1>9, <2>3, <3>2, <3>4, <3>5, <3>6, <3>7, <3>8
    <3> QED
      BY <3>1, <3>3, <3>9 DEF Covered
  <2> QED
    BY <2>4, <2>5
<1> QED
  BY <1>3, <1>4, <1>10, <1>11 DEF MoneyInv

-----------------------------------------------------------------------------
(* What the other steps do to the sums *)

\* No money and no operations.
LEMMA InitMoney == Init => MoneyInv
<1> SUFFICES ASSUME Init PROVE MoneyInv
  OBVIOUS
<1>1. \A S : <<>> \in Seq(S) /\ Len(<<>>) = 0
  BY EmptySeq
<1>2. DOMAIN operations = {} /\ DOMAIN sent = {} /\ DOMAIN batches = {}
  BY <1>1, LenProperties DEF Init
<1>3. MoneyTypes
  BY <1>1, <1>2, FinanceAssumption DEF Init, MoneyTypes
<1>4. (\A r, K : Entries(r, K) = {}) /\ (\A r : PendingRefunds(r) = {}) /\ Settled = {}
  BY <1>2 DEF Entries, PendingRefunds, Settled
<1>5. PaidOnce
  BY <1>4 DEF PaidOnce
<1>6. \A r \in Registrations : Covered(r)
  BY <1>4, AmountInEmpty DEF Covered
<1>7. SettlementsBalance
  <2>1. \A k : {e \in Settled : ledger[e] = k} = {}
    BY <1>4
  <2>2. \A k : Total(Settled, k) = 0
    BY <2>1, AmountInEmpty DEF Total, Amounts, AmountIn
  <2>3. ASSUME NEW f, DOMAIN f = {} PROVE SumFunction(f) = 0
    BY <2>3, SumEmpty DEF SumFunction
  <2>4. DOMAIN [b \in DOMAIN batches |-> batches[b].net + batches[b].fee] = {}
    BY <1>2
  <2> QED
    BY <2>2, <2>3, <2>4 DEF SettlementsBalance
<1> QED
  BY <1>3, <1>4, <1>5, <1>6, <1>7 DEF MoneyInv

\* A step that leaves the ledger and the settlements alone.
LEMMA SteadyLedger ==
    ASSUME MoneyInv, UNCHANGED <<sent, ledger, batches>>, MoneyTypes',
           \A r \in Registrations : state'[r] = "payment_pending" => state[r] = "payment_pending",
           \A r \in Registrations \ overlapped' : Covered(r)'
    PROVE  MoneyInv'
<1>1. \A r, K : Entries(r, K)' = Entries(r, K)
  BY DEF Entries
<1>2. PaidOnce'
  BY <1>1 DEF MoneyInv, PaidOnce
<1>3. Settled' = Settled /\ Booked' = Booked /\ \A S, k : Total(S, k)' = Total(S, k)
  BY DEF Settled, Booked, Total, Amounts
<1>4. (Settled \subseteq Booked)' /\ SettlementsBalance'
  BY <1>3 DEF MoneyInv, SettlementsBalance
<1> QED
  BY <1>2, <1>4 DEF MoneyInv

\* A registration stays covered while its pending refunds are the same.
LEMMA SteadyRefunds ==
    ASSUME NEW r, Covered(r), UNCHANGED <<sent, ledger>>,
           PendingRefunds(r)' = PendingRefunds(r),
           \A o \in PendingRefunds(r) : operations'[o].amount = operations[o].amount
    PROVE  Covered(r)'
<1>1. \A K : Entries(r, K)' = Entries(r, K)
  BY DEF Entries
<1>2. AmountIn(operations', PendingRefunds(r)) = AmountIn(operations, PendingRefunds(r))
  BY AmountInAgrees
<1> QED
  BY <1>1, <1>2 DEF Covered

\* A step that leaves the operations alone as well.
LEMMA QuietMoney ==
    ASSUME MoneyInv, UNCHANGED <<sent, receipt, ledger, operations, batches, overlapped>>,
           \/ UNCHANGED <<state, exceptions>>
           \/ /\ \E r \in Registrations, s \in {"cancelled", "checked_in"} :
                    state' = [state EXCEPT ![r] = s]
              /\ UNCHANGED exceptions
           \/ /\ \E e \in Events : /\ exceptions[e] = "open"
                                   /\ exceptions' = [exceptions EXCEPT ![e] = "resolved"]
              /\ UNCHANGED state
    PROVE  MoneyInv'
<1>1. MoneyTypes'
  <2>1. CASE UNCHANGED <<state, exceptions>>
    BY <2>1 DEF MoneyInv, MoneyTypes
  <2>2. ASSUME NEW r \in Registrations, NEW s \in {"cancelled", "checked_in"},
               state' = [state EXCEPT ![r] = s], UNCHANGED exceptions
        PROVE  MoneyTypes'
    BY <2>2 DEF MoneyInv, MoneyTypes
  <2>3. ASSUME NEW e \in Events, exceptions[e] = "open", UNCHANGED state,
               exceptions' = [exceptions EXCEPT ![e] = "resolved"]
        PROVE  MoneyTypes'
    <3>1. /\ exceptions' \in [Events -> {"none", "open", "resolved"}]
          /\ \A d \in Events : (exceptions'[d] = "none") <=> (exceptions[d] = "none")
      BY <2>3 DEF MoneyInv, MoneyTypes
    <3> QED
      BY <2>3, <3>1 DEF MoneyInv, MoneyTypes
  <2> QED
    BY <2>1, <2>2, <2>3
<1>2. \A r \in Registrations : state'[r] = "payment_pending" => state[r] = "payment_pending"
  BY DEF MoneyInv, MoneyTypes
<1>3. \A r \in Registrations \ overlapped' : Covered(r)'
  BY SteadyRefunds DEF MoneyInv, PendingRefunds
<1> QED
  BY <1>1, <1>2, <1>3, SteadyLedger

\* A proposal is for at most the price, and promises nothing yet.
LEMMA ProposeMoney ==
    ASSUME IInv, MoneyInv, NEW r \in Registrations, NEW kind \in {"refund", "cancel"},
           NEW amount \in 0 .. Price, NEW actor \in Staff, Len(operations) < MaxOperations,
           operations' = Append(operations, Proposal(r, kind, amount, actor)),
           UNCHANGED <<sent, receipt, exceptions, ledger, batches, overlapped>>,
           UNCHANGED state \/ state' = [state EXCEPT ![r] = "cancelled"]
    PROVE  MoneyInv'
<1> DEFINE row == Proposal(r, kind, amount, actor)
           new == Len(operations) + 1
<1>0. PICK A : operations \in Seq(Rows(A))
  BY DEF IInv, RowsOK
<1>1. /\ row \in Rows(A \cup {amount}) /\ row.status = "proposed" /\ row.approvedBy = "nobody"
      /\ row.amount = amount
  BY FinanceAssumption DEF Proposal, Rows
<1>2. operations \in Seq(Rows(A \cup {amount}))
  <2>1. Rows(A) \subseteq Rows(A \cup {amount})
    BY DEF Rows
  <2> QED
    BY <1>0, <2>1, SeqMonotonic
<1> HIDE DEF row
<1>3. /\ operations' \in Seq(Rows(A \cup {amount})) /\ Len(operations') = new
      /\ operations'[new] = row
      /\ \A o \in 1 .. Len(operations) : operations'[o] = operations[o]
  BY <1>1, <1>2, AppendProperties DEF row
<1>4. Len(operations) \in Nat /\ DOMAIN operations = 1 .. Len(operations)
  BY RowFacts DEF IInv
<1>5. DOMAIN operations' = DOMAIN operations \cup {new} /\ new \notin DOMAIN operations
  BY <1>3, <1>4, LenProperties
<1>6. MoneyTypes'
  <2>1. Len(operations') <= MaxOperations
    BY <1>3, <1>4, FinanceAssumption
  <2>2. \A o \in DOMAIN operations' :
            /\ operations'[o].amount \in 0 .. Price
            /\ (operations'[o].approvedBy = "nobody") <=> (operations'[o].status = "proposed")
    BY <1>1, <1>3, <1>4, <1>5 DEF MoneyInv, MoneyTypes
  <2>3. state' \in [Registrations -> {"payment_pending", "confirmed", "cancelled", "checked_in"}]
    BY DEF MoneyInv, MoneyTypes
  <2> QED
    BY <2>1, <2>2, <2>3 DEF MoneyInv, MoneyTypes
<1>7. \A s \in Registrations : state'[s] = "payment_pending" => state[s] = "payment_pending"
  BY DEF MoneyInv, MoneyTypes
<1>8. ASSUME NEW s \in Registrations \ overlapped' PROVE Covered(s)'
  <2>1. PendingRefunds(s)' = PendingRefunds(s)
    BY <1>1, <1>3, <1>4, <1>5 DEF PendingRefunds
  <2>2. \A o \in PendingRefunds(s) : operations'[o].amount = operations[o].amount
    BY <1>3, <1>4 DEF PendingRefunds
  <2> QED
    BY <2>1, <2>2, SteadyRefunds DEF MoneyInv
<1> QED
  BY <1>6, <1>7, <1>8, SteadyLedger

\* The types after an approval.
LEMMA ApprovalTypes ==
    ASSUME IInv, MoneyInv, NEW o \in DOMAIN operations, NEW actor \in Staff,
           NEW status \in {"provider_pending", "completed"},
           operations' = Approved(o, status, actor),
           UNCHANGED <<sent, receipt, exceptions, ledger, batches>>,
           overlapped' \subseteq Registrations,
           UNCHANGED state \/ \E r \in Registrations : state' = [state EXCEPT ![r] = "cancelled"]
    PROVE  MoneyTypes'
<1>1. /\ DOMAIN operations' = DOMAIN operations
      /\ Len(operations') = Len(operations)
      /\ \A p \in DOMAIN operations \ {o} : operations'[p] = operations[p]
      /\ operations'[o].amount = operations[o].amount
      /\ operations'[o].status = status /\ operations'[o].approvedBy = actor
  BY ApprovalWrites
<1>2. actor # "nobody"
  BY FinanceAssumption
<1>3. \A p \in DOMAIN operations' :
            /\ operations'[p].amount \in 0 .. Price
            /\ (operations'[p].approvedBy = "nobody") <=> (operations'[p].status = "proposed")
  BY <1>1, <1>2 DEF MoneyInv, MoneyTypes
<1>4. state' \in [Registrations -> {"payment_pending", "confirmed", "cancelled", "checked_in"}]
  BY DEF MoneyInv, MoneyTypes
<1> QED
  BY <1>1, <1>3, <1>4 DEF MoneyInv, MoneyTypes

\* The approval of a cancellation promises nothing.
LEMMA CancellationMoney ==
    ASSUME IInv, MoneyInv, NEW o \in DOMAIN operations, NEW actor \in Staff,
           ApproveCancellation(o, actor)
    PROVE  MoneyInv'
<1>1. /\ operations[o].status = "proposed" /\ operations[o].kind = "cancel"
      /\ operations' = Approved(o, "completed", actor)
      /\ state' = [state EXCEPT ![operations[o].registration] = "cancelled"]
      /\ UNCHANGED <<sent, receipt, exceptions, ledger, batches, overlapped>>
  BY DEF ApproveCancellation, MayApprove, webhookVars
<1>2. operations[o].registration \in Registrations
  BY RowFacts DEF IInv
<1>3. MoneyTypes'
  BY <1>1, <1>2, ApprovalTypes DEF MoneyInv, MoneyTypes
<1>4. \A r \in Registrations : state'[r] = "payment_pending" => state[r] = "payment_pending"
  BY <1>1 DEF MoneyInv, MoneyTypes
<1>5. /\ DOMAIN operations' = DOMAIN operations
      /\ \A p \in DOMAIN operations \ {o} : operations'[p] = operations[p]
      /\ operations'[o].kind = operations[o].kind
  BY <1>1, ApprovalWrites
<1>6. ASSUME NEW r \in Registrations \ overlapped' PROVE Covered(r)'
  <2>1. PendingRefunds(r)' = PendingRefunds(r)
    BY <1>1, <1>5 DEF PendingRefunds
  <2>2. \A p \in PendingRefunds(r) : operations'[p].amount = operations[p].amount
    BY <1>1, <1>5 DEF PendingRefunds
  <2> QED
    BY <1>1, <2>1, <2>2, SteadyRefunds DEF MoneyInv
<1> QED
  BY <1>1, <1>3, <1>4, <1>6, SteadyLedger

\* The balance covers the refund that is approved, if no other one is pending.
LEMMA ApprovedMoney ==
    ASSUME IInv, MoneyInv, NEW o \in DOMAIN operations, NEW actor \in Staff,
           ApproveRefund(o, actor)
    PROVE  MoneyInv'
<1> DEFINE r0 == operations[o].registration
<1>1. /\ operations[o].status = "proposed" /\ operations[o].kind = "refund"
      /\ operations[o].amount <= Available(r0)
      /\ operations' = Approved(o, "provider_pending", actor)
      /\ overlapped' = IF PendingRefunds(r0) = {} THEN overlapped ELSE overlapped \cup {r0}
      /\ UNCHANGED <<state, sent, receipt, exceptions, ledger, batches>>
  BY DEF ApproveRefund, MayApprove, webhookVars, BalanceSuffices
<1>2. r0 \in Registrations
  BY RowFacts DEF IInv
<1>3. MoneyTypes
  BY DEF MoneyInv
<1>4. MoneyTypes'
  <2>1. overlapped' \subseteq Registrations
    BY <1>1, <1>2, <1>3 DEF MoneyTypes
  <2> QED
    BY <1>1, <2>1, ApprovalTypes
<1>5. /\ DOMAIN operations' = DOMAIN operations
      /\ \A p \in DOMAIN operations \ {o} : operations'[p] = operations[p]
      /\ operations'[o].registration = operations[o].registration
      /\ operations'[o].kind = operations[o].kind
      /\ operations'[o].amount = operations[o].amount
      /\ operations'[o].status = "provider_pending"
  BY <1>1, ApprovalWrites
<1>6. ASSUME NEW r \in Registrations \ overlapped' PROVE Covered(r)'
  <2>0. r \notin overlapped /\ Covered(r)
    BY <1>1 DEF MoneyInv
  <2>1. CASE r # r0
    <3>1. PendingRefunds(r)' = PendingRefunds(r)
      BY <1>1, <1>5, <2>1 DEF PendingRefunds
    <3>2. \A p \in PendingRefunds(r) : operations'[p].amount = operations[p].amount
      BY <1>5 DEF PendingRefunds
    <3> QED
      BY <1>1, <2>0, <3>1, <3>2, SteadyRefunds
  <2>2. CASE r = r0
    <3>1. PendingRefunds(r) = {}
      BY <1>1, <2>2
    <3>2. PendingRefunds(r)' = {o}
      BY <1>1, <1>5, <2>2, <3>1 DEF PendingRefunds
    <3>3. operations'[o].amount \in Nat
      BY <1>3, <1>5, FinanceAssumption DEF MoneyTypes
    <3>4. AmountIn(operations', {o}) = operations[o].amount
      <4>1. IsFiniteSet({}) /\ o \notin {} /\ \A y \in {} \cup {o} : operations'[y].amount \in Nat
        BY <3>3, FS_EmptySet
      <4>2. AmountIn(operations', {o}) = operations'[o].amount
        BY <4>1, AmountInInsert
      <4> QED
        BY <1>5, <4>2
    <3>5. \A K : Entries(r, K)' = Entries(r, K)
      BY <1>1 DEF Entries
    <3> DEFINE refunded == AmountIn(sent, Entries(r, {"refund"}))
               paid == AmountIn(sent, Entries(r, {"payment"}))
    <3>6. refunded \in Nat /\ paid \in Nat
      BY <1>3, LedgerFacts
    <3>7. Available(r) \in 0 .. Price /\ (Available(r) = 0 \/ Available(r) + refunded <= paid)
      BY AvailableFacts
    <3>8. refunded + 0 <= paid
      BY <2>0, <3>1, AmountInEmpty DEF Covered
    <3> HIDE DEF refunded, paid
    <3>9. refunded + operations[o].amount <= paid
      BY <1>1, <1>5, <2>2, <3>3, <3>6, <3>7, <3>8, FinanceAssumption
    <3> QED
      BY <1>1, <3>2, <3>4, <3>5, <3>9 DEF Covered, refunded, paid
  <2> QED
    BY <2>1, <2>2
<1> QED
  BY <1>1, <1>4, <1>6, SteadyLedger

\* A settlement of entries that no other one covers.
LEMMA SettleMoney ==
    ASSUME IInv, MoneyInv, NEW S \in SUBSET Booked, NEW fee \in Fees, Settle(S, fee)
    PROVE  MoneyInv'
<1> DEFINE net == Total(S, "payment") - fee - Total(S, "refund") - Total(S, "dispute")
           batch == [entries |-> S, fee |-> fee, net |-> net]
           new == Len(batches) + 1
           Batches == [entries : SUBSET Events, fee : Fees, net : Nat]
<1>1. /\ S \cap Settled = {} /\ net >= 0 /\ batches' = Append(batches, batch)
      /\ UNCHANGED <<state, sent, receipt, exceptions, ledger, operations, overlapped>>
  BY DEF Settle, Unallocated, webhookVars
<1>2. MoneyTypes /\ Settled \subseteq Booked /\ SettlementsBalance
  BY DEF MoneyInv
<1>3. /\ DOMAIN sent \subseteq Events
      /\ \A e \in DOMAIN sent : sent[e].amount \in Nat
      /\ \A T \in SUBSET DOMAIN sent : IsFiniteSet(T) /\ AmountIn(sent, T) \in Nat
  BY <1>2, LedgerFacts
<1>4. S \subseteq DOMAIN sent /\ Settled \subseteq DOMAIN sent
  BY <1>2 DEF Booked
<1>5. \A T \in SUBSET DOMAIN sent : \A k : Total(T, k) = AmountIn(sent, {e \in T : ledger[e] = k})
  BY DEF Total, Amounts, AmountIn
<1>6. \A T \in SUBSET DOMAIN sent : \A k : Total(T, k) \in Nat
  <2> TAKE T \in SUBSET DOMAIN sent
  <2> TAKE k
  <2>1. {e \in T : ledger[e] = k} \in SUBSET DOMAIN sent
    OBVIOUS
  <2> QED
    BY <1>3, <1>5, <2>1
<1>7. fee \in Nat /\ net \in Nat
  BY <1>1, <1>4, <1>6, FinanceAssumption
<1>8. ASSUME NEW k PROVE Total(Settled \cup S, k) = Total(Settled, k) + Total(S, k)
  <2> DEFINE A == {e \in Settled : ledger[e] = k}
             B == {e \in S : ledger[e] = k}
  <2>1. A \cup B = {e \in Settled \cup S : ledger[e] = k} /\ A \cap B = {}
    BY <1>1
  <2>2. A \in SUBSET DOMAIN sent /\ B \in SUBSET DOMAIN sent
    BY <1>4
  <2>3. /\ Total(Settled, k) = AmountIn(sent, A) /\ Total(S, k) = AmountIn(sent, B)
        /\ Total(Settled \cup S, k) = AmountIn(sent, A \cup B)
    BY <1>4, <1>5, <2>1
  <2> HIDE DEF A, B
  <2>4. AmountIn(sent, A \cup B) = AmountIn(sent, A) + AmountIn(sent, B)
    <3>1. IsFiniteSet(A) /\ IsFiniteSet(B) /\ \A e \in A \cup B : sent[e].amount \in Nat
      BY <1>3, <2>2
    <3> QED
      BY <2>1, <3>1, AmountInUnion
  <2> QED
    BY <2>3, <2>4
<1>9. batch \in Batches /\ batch.entries = S /\ batch.fee = fee /\ batch.net = net
  BY <1>3, <1>4, <1>7
<1>10. batches \in Seq(Batches)
  BY <1>2 DEF MoneyTypes
<1> HIDE DEF batch, net, Batches
<1>11. /\ batches' \in Seq(Batches) /\ Len(batches') = new /\ batches'[new] = batch
       /\ \A b \in 1 .. Len(batches) : batches'[b] = batches[b]
  BY <1>1, <1>9, <1>10, AppendProperties
<1>12. Len(batches) \in Nat /\ DOMAIN batches = 1 .. Len(batches)
  BY <1>10, LenProperties
<1>13. DOMAIN batches' = DOMAIN batches \cup {new} /\ new \notin DOMAIN batches
  BY <1>11, <1>12, LenProperties
<1>14. Settled' = Settled \cup S
  BY <1>9, <1>11, <1>12, <1>13 DEF Settled
<1>15. (Settled \subseteq Booked)'
  BY <1>1, <1>2, <1>14 DEF Booked
<1>16. MoneyTypes'
  BY <1>1, <1>2, <1>11 DEF MoneyTypes, Batches
<1>17. PaidOnce' /\ \A r \in Registrations \ overlapped' : Covered(r)'
  <2>1. (\A r, K : Entries(r, K)' = Entries(r, K)) /\ (\A r : PendingRefunds(r)' = PendingRefunds(r))
    BY <1>1 DEF Entries, PendingRefunds
  <2> QED
    BY <1>1, <2>1 DEF MoneyInv, PaidOnce, Covered
<1>18. SettlementsBalance'
  <2> DEFINE f == [b \in DOMAIN batches |-> batches[b].net + batches[b].fee]
             g == [b \in DOMAIN batches' |-> batches'[b].net + batches'[b].fee]
  <2>1. \A b \in DOMAIN batches : batches[b] \in Batches
    BY <1>10, <1>12, ElementOfSeq
  <2>2. \A b \in DOMAIN batches : f[b] \in Nat
    <3>1. \A b \in DOMAIN batches : batches[b].net \in Nat /\ batches[b].fee \in Nat
      BY <2>1, FinanceAssumption DEF Batches
    <3> QED
      BY <3>1
  <2>3. (\A b \in DOMAIN batches : g[b] = f[b]) /\ g[new] = net + fee
    BY <1>9, <1>11, <1>12, <1>13
  <2>4. SumFunction(f) = SumFunctionOnSet(f, DOMAIN batches)
    BY DEF SumFunction
  <2>5. SumFunction(g) = SumFunctionOnSet(g, DOMAIN batches')
    BY DEF SumFunction
  <2>6. SumFunction(f) = Total(Settled, "payment") - Total(Settled, "refund")
                         - Total(Settled, "dispute")
    BY <1>2 DEF SettlementsBalance
  <2> HIDE DEF f, g
  <2>7. IsFiniteSet(DOMAIN batches)
    BY <1>12, FS_Interval
  <2>8. SumFunctionOnSet(g, DOMAIN batches \cup {new}) = g[new] + SumFunctionOnSet(g, DOMAIN batches)
    <3>1. \A b \in DOMAIN batches \cup {new} : g[b] \in Nat
      BY <1>7, <2>2, <2>3
    <3> HIDE DEF new
    <3> QED
      BY <1>13, <2>7, <3>1, SumInsert
  <2>9. SumFunctionOnSet(g, DOMAIN batches) = SumFunctionOnSet(f, DOMAIN batches)
    BY <2>3, <2>7, SumAgrees
  <2>10. SumFunction(g) = SumFunction(f) + net + fee
    <3>1. SumFunctionOnSet(f, DOMAIN batches) \in Nat
      BY <2>2, <2>7, SumNat
    <3> QED
      BY <1>7, <1>13, <2>3, <2>4, <2>5, <2>8, <2>9, <3>1
  <2>11. SumFunction(g) = Total(Settled \cup S, "payment") - Total(Settled \cup S, "refund")
                          - Total(Settled \cup S, "dispute")
    <3>1. \A k : Total(Settled, k) \in Nat /\ Total(S, k) \in Nat
      BY <1>4, <1>6
    <3>2. /\ Total(Settled \cup S, "payment") = Total(Settled, "payment") + Total(S, "payment")
          /\ Total(Settled \cup S, "refund") = Total(Settled, "refund") + Total(S, "refund")
          /\ Total(Settled \cup S, "dispute") = Total(Settled, "dispute") + Total(S, "dispute")
      BY <1>8
    <3>3. net = Total(S, "payment") - fee - Total(S, "refund") - Total(S, "dispute")
      BY DEF net
    <3> QED
      BY <1>7, <2>6, <2>10, <3>1, <3>2, <3>3
  <2>12. \A k : Total(Settled, k)' = Total(Settled \cup S, k)
    BY <1>1, <1>14 DEF Total, Amounts
  <2> QED
    BY <2>11, <2>12 DEF SettlementsBalance, g
<1> QED
  BY <1>15, <1>16, <1>17, <1>18 DEF MoneyInv

\* Every step preserves the invariant on the money.
LEMMA InductiveMoney == IInv /\ MoneyInv /\ [Next]_vars => MoneyInv'
<1> SUFFICES ASSUME IInv, MoneyInv, [Next]_vars PROVE MoneyInv'
  OBVIOUS
<1>0. MoneyTypes
  BY DEF MoneyInv
<1>1. ASSUME NEW r \in Registrations, CheckIn(r) PROVE MoneyInv'
  BY <1>1, QuietMoney DEF CheckIn, webhookVars
<1>2. ASSUME NEW r \in Registrations, NEW amount \in RefundAmounts, NEW actor \in Staff,
             ProposeRefund(r, amount, actor)
      PROVE  MoneyInv'
  <2>1. amount \in 0 .. Price
    BY <1>2, AvailableFacts, FinanceAssumption DEF ProposeRefund
  <2> QED
    BY <1>2, <2>1, ProposeMoney DEF ProposeRefund, Propose, webhookVars
<1>3. ASSUME NEW r \in Registrations, NEW actor \in Staff, ProposeCancellation(r, actor)
      PROVE  MoneyInv'
  <2>1. 0 \in 0 .. Price
    BY FinanceAssumption
  <2> QED
    BY <1>3, <2>1, ProposeMoney DEF ProposeCancellation, Propose, webhookVars
<1>4. ASSUME NEW r \in Registrations, NEW actor \in Staff, RestrictRegistration(r, actor)
      PROVE  MoneyInv'
  <2>1. /\ UNCHANGED <<sent, receipt, exceptions, ledger, batches, overlapped>>
        /\ state' = [state EXCEPT ![r] = "cancelled"]
    BY <1>4 DEF RestrictRegistration, webhookVars
  <2>2. CASE UNCHANGED operations
    BY <2>1, <2>2, QuietMoney
  <2>3. CASE /\ Len(operations) < MaxOperations
             /\ operations' = Append(operations, Proposal(r, "refund", Available(r), actor))
    <3>1. Available(r) \in 0 .. Price
      BY AvailableFacts
    <3> QED
      BY <2>1, <2>3, <3>1, ProposeMoney
  <2> QED
    BY <1>4, <2>2, <2>3 DEF RestrictRegistration
<1>5. ASSUME NEW o \in DOMAIN operations, NEW actor \in Staff,
             ApproveCancellation(o, actor) \/ ApproveRefund(o, actor)
      PROVE  MoneyInv'
  BY <1>5, CancellationMoney, ApprovedMoney
<1>6. ASSUME NEW e \in Events, NEW m \in Messages, ReconcileEvent(e, m)
      PROVE  MoneyInv'
  <2>1. CASE FlagEvent(e, m)
    <3>1. /\ Record(e, m, "exception", TRUE) /\ UNCHANGED <<state, operations>>
          /\ UNCHANGED ledger
      BY <2>1 DEF FlagEvent
    <3>2. AddEntry(e, "none")
      <4>1. ledger[e] = "none"
        BY <3>1, RecordStep
      <4> QED
        BY <3>1, <4>1 DEF AddEntry, IInv, EventsOK
    <3> QED
      BY <3>1, <3>2, ReviewedMoney
  <2>2. CASE ReconcileDispute(e, m)
    BY <2>2, ReviewedMoney DEF ReconcileDispute
  <2> QED
    BY <1>6, <2>1, <2>2, CreditMoney, RefundMoney
    DEF ReconcileEvent, FlagPayment, RefundUnmatched, DisputeMismatch
<1>7. ASSUME NEW e \in Events, ResolveException(e) PROVE MoneyInv'
  BY <1>7, QuietMoney DEF ResolveException
<1>8. ASSUME NEW S \in SUBSET Booked, NEW fee \in Fees, Settle(S, fee) PROVE MoneyInv'
  BY <1>8, SettleMoney
<1>9. CASE UNCHANGED vars
  BY <1>9, QuietMoney DEF vars, webhookVars
<1> QED
  BY <1>1, <1>2, <1>3, <1>4, <1>5, <1>6, <1>7, <1>8, <1>9 DEF Next

\* Both invariants hold at all times.
LEMMA InvarianceMoney == Spec => [](IInv /\ MoneyInv)
<1> QED
  BY InitIInv, Inductive, InitMoney, InductiveMoney, PTL DEF Spec

\* The rows keep their types, and what goes together is written together; in
\* particular no operation is for more than the price that was paid, because
\* available_refund_minor counts one payment at most.
THEOREM TypeCorrect == Spec => []TypeOK
<1>1. IInv /\ MoneyInv => TypeOK
  <2> SUFFICES ASSUME IInv, MoneyInv PROVE TypeOK
    OBVIOUS
  <2>1. MoneyTypes /\ EventsOK
    BY DEF IInv, MoneyInv
  <2>2. Len(operations) \in Nat /\ DOMAIN operations = 1 .. Len(operations)
    BY RowFacts DEF IInv
  <2>4. operations \in Seq(OperationRows)
    <3>1. PICK A : operations \in Seq(Rows(A))
      BY DEF IInv, RowsOK
    <3>2. ASSUME NEW o \in DOMAIN operations PROVE operations[o] \in OperationRows
      <4>1. operations[o] \in Rows(A)
        BY <2>2, <3>1, ElementOfSeq
      <4>2. operations[o].amount \in 0 .. Price
        BY <2>1 DEF MoneyTypes
      <4> QED
        BY <4>1, <4>2 DEF Rows, OperationRows
    <3>3. operations \in [1 .. Len(operations) -> OperationRows]
      BY <2>2, <3>1, <3>2, LenProperties
    <3> QED
      BY <2>2, <3>3, SeqDef
  <2>5. evidence \in [Events -> 0 .. MaxOperations]
    <3>1. ASSUME NEW e \in Events PROVE evidence[e] \in 0 .. MaxOperations
      <4>1. evidence[e] = 0 \/ evidence[e] \in DOMAIN operations
        BY DEF IInv, EntryMatchesRefund, Refunds
      <4> QED
        BY <2>1, <2>2, <4>1, FinanceAssumption DEF MoneyTypes
    <3> QED
      BY <2>1, <3>1 DEF EventsOK
  <2> QED
    BY <2>1, <2>4, <2>5 DEF TypeOK, MoneyTypes, EventsOK
<1> QED
  BY <1>1, InvarianceMoney, PTL

\* Money that has gone or has been promised back never exceeds what was paid,
\* for any number of refunds, disputes and events: approve_financial_operation
\* checks the balance again, and the only way around it is the approval of a
\* refund while an earlier one of the registration waits for the provider.
THEOREM RefundsAreCovered == Spec => []RefundsCovered
<1>1. IInv /\ MoneyInv => RefundsCovered
  <2> SUFFICES ASSUME IInv, MoneyInv, NEW r \in Registrations \ overlapped
               PROVE  Amounts(Entries(r, {"refund"}))
                        + SumFunctionOnSet([o \in DOMAIN operations |-> operations[o].amount],
                                           PendingRefunds(r))
                        <= Amounts(Entries(r, {"payment"}))
    BY DEF RefundsCovered
  <2>1. SumFunctionOnSet([o \in DOMAIN operations |-> operations[o].amount], PendingRefunds(r))
            = AmountIn(operations, PendingRefunds(r))
    BY PendingFacts, SumOfRows DEF MoneyInv
  <2>2. \A S : Amounts(S) = AmountIn(sent, S)
    BY DEF Amounts, AmountIn
  <2>3. Covered(r)
    BY DEF MoneyInv
  <2> QED
    BY <2>1, <2>2, <2>3 DEF Covered
<1> QED
  BY <1>1, InvarianceMoney, PTL

\* The settlements account for each ledger entry at most once, whatever events
\* come in between them: reconcile_provider_settlement, for any number of
\* settlements of any sets of entries.
THEOREM SettlementsAddUp == Spec => []SettlementsBalance
<1>1. MoneyInv => SettlementsBalance
  BY DEF MoneyInv
<1> QED
  BY <1>1, InvarianceMoney, PTL
=============================================================================
