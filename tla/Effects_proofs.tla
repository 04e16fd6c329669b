--------------------------- MODULE Effects_proofs ---------------------------
(***************************************************************************)
(* Proofs about EffectsOutbox, for every set of messages and tenants,      *)
(* every lease duration, retry delay, budget and attempt ceiling, and      *)
(* about EffectsWorker, for every set of supervisors and process slots,    *)
(* every option that effects_worker accepts and every schedule of crashes, *)
(* kills, orphans and late settlements.                                    *)
(***************************************************************************)
EXTENDS EffectsWorker, TLAPS

(***************************************************************************)
(* Part 1: the outbox.                                                     *)
(***************************************************************************)

-----------------------------------------------------------------------------
(* Type correctness *)

\* An empty outbox is well typed.
LEMMA InitTypeOK == Init => TypeOK
BY CeilingAssumption DEF Init, TypeOK, Status

\* Every service call keeps the columns well typed and the budget under its
\* ceiling.
LEMMA NextTypeOK == TypeOK /\ [Next]_outboxVars => TypeOK'
<1> SUFFICES ASSUME TypeOK, [Next]_outboxVars PROVE TypeOK'
  OBVIOUS
<1> USE CeilingAssumption, InputAssumption DEF TypeOK, Status, policyVars
<1>1. CASE Publish
  <2> PICK m \in Messages, b \in Budgets : InsertMessage(m, b)
    BY <1>1 DEF Publish, PublishDomainEvent, EnqueueEventDelivery
  <2> QED
    BY DEF InsertMessage, ValidBudget
<1>2. CASE Claim
  <2> PICK m \in Messages : ClaimNextEffect(m)
    BY <1>2 DEF Claim
  <2>1. LostAttempt(m) \subseteq Attempt
    BY DEF LostAttempt, Attempt, Record, Outcome
  <2> QED
    BY <2>1 DEF ClaimNextEffect
<1>3. CASE ClaimNothing
  <2> PICK t \in Tenants, found \in SUBSET Messages : QuarantineExhausted(t, found)
    BY <1>3 DEF ClaimNothing, Exhausted
  <2>1. {Record(m, attemptCount[m], "exhausted") : m \in found} \subseteq Attempt
    BY DEF Attempt, Record, Outcome
  <2> QED
    BY <2>1 DEF QuarantineExhausted
<1>4. CASE Finish
  <2> PICK m \in Messages, k \in Nat,
           next \in {"succeeded", "pending", "quarantined"}, delay \in Nat, out \in Outcome :
           Settle(m, k, next, delay, out)
    BY <1>4 DEF Finish, FinishEffectSuccess, FinishEffectTransientFailure,
                FinishEffectPermanentFailure, Outcome
  <2>1. Record(m, k, out) \in Attempt
    BY DEF Attempt, Record
  <2> QED
    BY <2>1 DEF Settle
<1>5. CASE Cancel
  BY <1>5 DEF Cancel, CancelPendingEffect
<1>6. CASE Replay
  <2> PICK m \in Messages, g \in ReplayGrants : ReplayQuarantinedEffect(m, g)
    BY <1>6 DEF Replay
  <2> QED
    BY DEF ReplayQuarantinedEffect, NextReplay, Receipt
<1>7. CASE Tick
  BY <1>7 DEF Tick, Decrement
<1>8. CASE UNCHANGED outboxVars
  BY <1>8 DEF outboxVars
<1> QED
  BY <1>1, <1>2, <1>3, <1>4, <1>5, <1>6, <1>7, <1>8 DEF Next

\* The rows keep their types and the cumulative attempt ceiling in every
\* behaviour of the services.
THEOREM TypeCorrect == Spec => []TypeOK
BY InitTypeOK, NextTypeOK, PTL DEF Spec

-----------------------------------------------------------------------------
(* The inductive invariant.  LedgerComplete alone is not inductive: that a *)
(* takeover or a settlement adds a new attempt number rests on the token   *)
(* of a processing row being the number of its current attempt, and that a *)
(* replay leaves an attempt to spend on the count never passing the limit. *)

\* What the columns of one row have to do with each other.
RowConsistent ==
    \A m \in Messages :
        /\ status[m] = "absent" => attemptCount[m] = 0 /\ replayCount[m] = 0
        /\ status[m] = "processing" => attemptCount[m] >= 1 /\ leaseToken[m] = attemptCount[m]
        /\ status[m] # "processing" => leaseToken[m] = 0
        /\ status[m] # "absent" => maxAttempts[m] >= 1
        /\ attemptCount[m] <= maxAttempts[m]

IInv ==
    /\ TypeOK
    /\ RowConsistent
    /\ LedgerComplete
    /\ PendingIsClaimable
    /\ StatusHasEvidence
    /\ ReceiptsExplainBudget

\* An empty outbox satisfies the inductive invariant.
LEMMA InitIInv == Init => IInv
<1> SUFFICES ASSUME Init PROVE IInv
  OBVIOUS
<1>1. TypeOK
  BY InitTypeOK
<1>2. RowConsistent /\ PendingIsClaimable
  BY DEF Init, RowConsistent, PendingIsClaimable
<1>3. LedgerComplete
  BY DEF Init, LedgerComplete, SettledAttempts
<1>4. StatusHasEvidence
  BY DEF Init, StatusHasEvidence
<1>5. ReceiptsExplainBudget
  BY DEF Init, ReceiptsExplainBudget
<1> QED
  BY <1>1, <1>2, <1>3, <1>4, <1>5 DEF IInv

\* The actions, as the proofs below use them.
LEMMA StepCases ==
    ASSUME TypeOK, [Next]_outboxVars
    PROVE  \/ \E m \in Messages, b \in Budgets : InsertMessage(m, b)
           \/ \E m \in Messages : ClaimNextEffect(m)
           \/ \E t \in Tenants : \E found \in SUBSET Exhausted(t) :
                QuarantineExhausted(t, found)
           \/ \E m \in Messages, k \in Nat : \E delay \in Nat :
                \/ Settle(m, k, "succeeded", delay, "succeeded")
                \/ /\ attemptCount[m] < maxAttempts[m]
                   /\ Settle(m, k, "pending", delay, "transient_failure")
                \/ Settle(m, k, "quarantined", delay, "exhausted")
                \/ Settle(m, k, "quarantined", delay, "permanent_failure")
           \/ \E m \in Messages : CancelPendingEffect(m)
           \/ \E m \in Messages, g \in ReplayGrants : ReplayQuarantinedEffect(m, g)
           \/ Tick
           \/ UNCHANGED outboxVars
<1>1. CASE Publish
  BY <1>1 DEF Publish, PublishDomainEvent, EnqueueEventDelivery
<1>2. CASE Claim
  BY <1>2 DEF Claim
<1>3. CASE ClaimNothing
  BY <1>3 DEF ClaimNothing
<1>4. CASE Finish
  <2> PICK m \in Messages : \E k \in 1 .. attemptCount[m] :
        \/ FinishEffectSuccess(m, k)
        \/ \E d \in RetryDelays : FinishEffectTransientFailure(m, k, d)
        \/ FinishEffectPermanentFailure(m, k)
    BY <1>4 DEF Finish
  <2> PICK k \in 1 .. attemptCount[m] :
        \/ FinishEffectSuccess(m, k)
        \/ \E d \in RetryDelays : FinishEffectTransientFailure(m, k, d)
        \/ FinishEffectPermanentFailure(m, k)
    OBVIOUS
  <2>1. availableIn[m] \in Nat /\ k \in Nat /\ attemptCount[m] \in Nat /\ maxAttempts[m] \in Nat
    BY CeilingAssumption DEF TypeOK
  <2>2. CASE FinishEffectSuccess(m, k)
    BY <2>1, <2>2 DEF FinishEffectSuccess
  <2>3. CASE \E d \in RetryDelays : FinishEffectTransientFailure(m, k, d)
    BY <2>1, <2>3, InputAssumption DEF FinishEffectTransientFailure
  <2>4. CASE FinishEffectPermanentFailure(m, k)
    BY <2>1, <2>4 DEF FinishEffectPermanentFailure
  <2> QED
    BY <2>2, <2>3, <2>4
<1>5. CASE Cancel
  BY <1>5 DEF Cancel
<1>6. CASE Replay
  BY <1>6 DEF Replay
<1> QED
  BY <1>1, <1>2, <1>3, <1>4, <1>5, <1>6 DEF Next

\* A service call keeps the columns of a row consistent with each other, and
\* leaves no pending row without attempts.
LEMMA RowStep == IInv /\ [Next]_outboxVars => RowConsistent' /\ PendingIsClaimable'
<1> SUFFICES ASSUME IInv, [Next]_outboxVars PROVE RowConsistent' /\ PendingIsClaimable'
  OBVIOUS
<1> USE CeilingAssumption DEF IInv, TypeOK, RowConsistent, PendingIsClaimable, policyVars
<1>1. CASE \E m \in Messages, b \in Budgets : InsertMessage(m, b)
  BY <1>1, InputAssumption DEF InsertMessage, ValidBudget
<1>2. CASE \E m \in Messages : ClaimNextEffect(m)
  <2> PICK m \in Messages : ClaimNextEffect(m)
    BY <1>2
  <2>1. status[m] \in {"pending", "processing"} /\ attemptCount[m] < maxAttempts[m]
    BY DEF ClaimNextEffect, Claimable, Ready, LeaseExpired
  <2> QED
    BY <2>1 DEF ClaimNextEffect
<1>3. CASE \E t \in Tenants : \E found \in SUBSET Exhausted(t) : QuarantineExhausted(t, found)
  BY <1>3 DEF QuarantineExhausted, Exhausted, LeaseExpired
<1>4. ASSUME NEW m \in Messages, NEW k \in Nat, NEW delay \in Nat,
             NEW next \in {"succeeded", "pending", "quarantined"}, NEW out,
             next = "pending" => attemptCount[m] < maxAttempts[m],
             Settle(m, k, next, delay, out)
      PROVE  RowConsistent' /\ PendingIsClaimable'
  BY <1>4 DEF Settle, Owns
<1>5. CASE \E m \in Messages : CancelPendingEffect(m)
  BY <1>5 DEF CancelPendingEffect
<1>6. CASE \E m \in Messages, g \in ReplayGrants : ReplayQuarantinedEffect(m, g)
  BY <1>6, InputAssumption DEF ReplayQuarantinedEffect, NextReplay
<1>7. CASE Tick
  BY <1>7 DEF Tick
<1>8. CASE UNCHANGED outboxVars
  BY <1>8 DEF outboxVars
<1> QED
  BY <1>1, <1>2, <1>3, <1>4, <1>5, <1>6, <1>7, <1>8, StepCases

\* A step that gives each row in found the outcome of its next attempt, and
\* settles nothing else, keeps the ledger complete.
LEMMA LedgerGrows ==
    ASSUME TypeOK, LedgerComplete, NEW found \in SUBSET Messages, NEW new,
           ledger' = ledger \union new,
           \A m \in Messages : SettledAttempts(m) \in Nat,
           \A m \in found : SettledAttempts(m)' = SettledAttempts(m) + 1,
           \A m \in Messages \ found : SettledAttempts(m)' = SettledAttempts(m),
           \A r \in new : r.message \in found /\ r.number = SettledAttempts(r.message) + 1,
           \A r, s \in new : r.message = s.message => r = s,
           \A m \in found : \E r \in new : r.message = m
    PROVE  LedgerComplete'
<1>1. \A r \in ledger : r.message \in Messages /\ r.number \in Nat
  BY DEF TypeOK, Attempt
<1>2. \A r \in ledger : r.number \in 1 .. SettledAttempts(r.message)
  BY DEF LedgerComplete
<1>3. (\A r \in ledger : r.number \in 1 .. SettledAttempts(r.message))'
  BY <1>1, <1>2
<1>4. (\A m \in Messages : \A n \in 1 .. SettledAttempts(m) :
            \E r \in ledger : r.message = m /\ r.number = n)'
  <2> SUFFICES ASSUME NEW m \in Messages, NEW n \in 1 .. SettledAttempts(m)'
               PROVE  \E r \in ledger' : r.message = m /\ r.number = n
    OBVIOUS
  <2>1. CASE n \in 1 .. SettledAttempts(m)
    BY <2>1 DEF LedgerComplete
  <2>2. CASE n \notin 1 .. SettledAttempts(m)
    <3>1. m \in found /\ n = SettledAttempts(m) + 1
      BY <2>2
    <3> QED
      BY <3>1
  <2> QED
    BY <2>1, <2>2
<1>5. \A r \in ledger, s \in new : ~ (r.message = s.message /\ r.number = s.number)
  BY <1>1, <1>2
<1>6. \A r, s \in ledger : r.message = s.message /\ r.number = s.number => r = s
  BY DEF LedgerComplete
<1>7. (\A r, s \in ledger : r.message = s.message /\ r.number = s.number => r = s)'
  BY <1>5, <1>6
<1> QED
  BY <1>3, <1>4, <1>7 DEF LedgerComplete

\* A step that leaves the ledger and the running attempts alone keeps the
\* ledger complete.
LEMMA LedgerKept ==
    ASSUME TypeOK, LedgerComplete, ledger' = ledger,
           \A m \in Messages : SettledAttempts(m)' = SettledAttempts(m)
    PROVE  LedgerComplete'
BY DEF TypeOK, LedgerComplete, Attempt

\* Every service call keeps the attempt ledger complete.
LEMMA LedgerStep == IInv /\ [Next]_outboxVars => LedgerComplete'
<1> SUFFICES ASSUME IInv, [Next]_outboxVars PROVE LedgerComplete'
  OBVIOUS
<1> USE DEF IInv, policyVars
<1>0. \A m \in Messages :
        /\ attemptCount[m] \in Nat
        /\ SettledAttempts(m) \in Nat
        /\ status[m] = "processing" => attemptCount[m] = SettledAttempts(m) + 1
        /\ status[m] # "processing" => attemptCount[m] = SettledAttempts(m)
  BY DEF TypeOK, RowConsistent, SettledAttempts
<1>1. CASE \E m \in Messages, b \in Budgets : InsertMessage(m, b)
  BY <1>1, LedgerKept DEF InsertMessage, TypeOK, SettledAttempts
<1>2. CASE \E m \in Messages : ClaimNextEffect(m)
  <2> PICK m \in Messages : ClaimNextEffect(m)
    BY <1>2
  <2>1. \A o \in Messages : o # m => SettledAttempts(o)' = SettledAttempts(o)
    BY DEF ClaimNextEffect, TypeOK, SettledAttempts
  <2>2. SettledAttempts(m)' = attemptCount[m]
    BY DEF ClaimNextEffect, TypeOK, SettledAttempts
  <2>3. CASE status[m] = "processing"
    <3> DEFINE new == {Record(m, attemptCount[m], "transient_failure")}
    <3>1. ledger' = ledger \union new
      BY <2>3 DEF ClaimNextEffect, LostAttempt
    <3>2. \A r \in new : r.message = m /\ r.number = attemptCount[m]
      BY DEF Record
    <3>3. \E r \in new : TRUE
      OBVIOUS
    <3>4. \A r, s \in new : r = s
      OBVIOUS
    <3> HIDE DEF new
    <3> QED
      BY <1>0, <2>1, <2>2, <2>3, <3>1, <3>2, <3>3, <3>4, LedgerGrows, {m} \in SUBSET Messages
  <2>4. CASE status[m] # "processing"
    <3>1. ledger' = ledger
      BY <2>4 DEF ClaimNextEffect, LostAttempt
    <3> QED
      BY <1>0, <2>1, <2>2, <2>4, <3>1, LedgerKept
  <2> QED
    BY <2>3, <2>4
<1>3. CASE \E t \in Tenants : \E found \in SUBSET Exhausted(t) : QuarantineExhausted(t, found)
  <2> PICK t \in Tenants, found \in SUBSET Messages :
        /\ \A m \in found : status[m] = "processing"
        /\ QuarantineExhausted(t, found)
    BY <1>3 DEF Exhausted, LeaseExpired
  <2> DEFINE new == {Record(m, attemptCount[m], "exhausted") : m \in found}
  <2>1. \A r \in new : r = Record(r.message, attemptCount[r.message], "exhausted")
                       /\ r.message \in found
    BY DEF Record
  <2>5. \A r \in new : r.message \in found /\ r.number = SettledAttempts(r.message) + 1
    <3> SUFFICES ASSUME NEW r \in new PROVE r.number = SettledAttempts(r.message) + 1
      BY <2>1
    <3>1. r.number = attemptCount[r.message] /\ r.message \in found
      BY <2>1 DEF Record
    <3> QED
      BY <1>0, <3>1
  <2>6. \A r, s \in new : r.message = s.message => r = s
    BY <2>1
  <2>7. ASSUME NEW m \in found PROVE \E r \in new : r.message = m
    <3>1. Record(m, attemptCount[m], "exhausted") \in new
      OBVIOUS
    <3>2. Record(m, attemptCount[m], "exhausted").message = m
      BY DEF Record
    <3> QED
      BY <3>1, <3>2
  <2>2. ledger' = ledger \union new
    BY DEF QuarantineExhausted
  <2>3. \A m \in found : SettledAttempts(m)' = attemptCount[m]
    BY DEF QuarantineExhausted, SettledAttempts, TypeOK
  <2>4. \A m \in Messages \ found : SettledAttempts(m)' = SettledAttempts(m)
    BY DEF QuarantineExhausted, SettledAttempts, TypeOK
  <2>8. \A m \in found : SettledAttempts(m)' = SettledAttempts(m) + 1
    BY <1>0, <2>3
  <2> HIDE DEF new
  <2>9. LedgerComplete /\ TypeOK /\ \A m \in Messages : SettledAttempts(m) \in Nat
    BY <1>0
  <2> HIDE DEF IInv
  <2> QED
    BY ONLY <2>2, <2>4, <2>5, <2>6, <2>7, <2>8, <2>9, LedgerGrows
<1>4. ASSUME NEW m \in Messages, NEW k \in Nat, NEW delay, NEW next, NEW out,
             next # "processing",
             Settle(m, k, next, delay, out)
      PROVE  LedgerComplete'
  <2> DEFINE new == {Record(m, k, out)}
  <2>1. ledger' = ledger \union new /\ status[m] = "processing"
    BY <1>4 DEF Settle, Owns
  <2>2. \A r \in new : r.message = m /\ r.number = attemptCount[m]
    BY <1>4 DEF Settle, Owns, Record
  <2>3. (\E r \in new : TRUE) /\ (\A r, s \in new : r = s)
    OBVIOUS
  <2>4. SettledAttempts(m)' = attemptCount[m]
    BY <1>4 DEF Settle, SettledAttempts, TypeOK
  <2>5. \A o \in Messages : o # m => SettledAttempts(o)' = SettledAttempts(o)
    BY <1>4 DEF Settle, SettledAttempts, TypeOK
  <2> HIDE DEF new
  <2> QED
    BY <1>0, <2>1, <2>2, <2>3, <2>4, <2>5, LedgerGrows, {m} \in SUBSET Messages
<1>5. CASE \E m \in Messages : CancelPendingEffect(m)
  BY <1>5, LedgerKept DEF CancelPendingEffect, TypeOK, SettledAttempts
<1>6. CASE \E m \in Messages, g \in ReplayGrants : ReplayQuarantinedEffect(m, g)
  BY <1>6, LedgerKept DEF ReplayQuarantinedEffect, TypeOK, SettledAttempts
<1>7. CASE Tick
  BY <1>7, LedgerKept DEF Tick, SettledAttempts
<1>8. CASE UNCHANGED outboxVars
  BY <1>8, LedgerKept DEF outboxVars, SettledAttempts
<1> QED
  BY <1>1, <1>2, <1>3, <1>4, <1>5, <1>6, <1>7, <1>8, StepCases

\* Every service call leaves a final state with its record, and touches no
\* row that has succeeded.
LEMMA EvidenceStep == IInv /\ [Next]_outboxVars => StatusHasEvidence'
<1> SUFFICES ASSUME IInv, [Next]_outboxVars PROVE StatusHasEvidence'
  OBVIOUS
<1> USE DEF IInv, policyVars, StatusHasEvidence
<1>0. /\ status \in [Messages -> Status] /\ attemptCount \in [Messages -> Nat]
      /\ \A r \in ledger : r.message \in Messages
  BY DEF TypeOK, Attempt
<1>1. CASE \E m \in Messages, b \in Budgets : InsertMessage(m, b)
  BY <1>0, <1>1 DEF InsertMessage
<1>2. CASE \E m \in Messages : ClaimNextEffect(m)
  <2> PICK m \in Messages : ClaimNextEffect(m)
    BY <1>2
  <2>1. status[m] # "succeeded" /\ status'[m] = "processing"
    BY <1>0 DEF ClaimNextEffect, Claimable, Ready, LeaseExpired
  <2>2. \A r \in LostAttempt(m) : r.outcome # "succeeded"
    BY DEF LostAttempt, Record
  <2> QED
    BY <1>0, <2>1, <2>2 DEF ClaimNextEffect
<1>3. CASE \E t \in Tenants : \E found \in SUBSET Exhausted(t) : QuarantineExhausted(t, found)
  <2> PICK t \in Tenants, found \in SUBSET Messages :
        /\ \A m \in found : status[m] = "processing"
        /\ QuarantineExhausted(t, found)
    BY <1>3 DEF Exhausted, LeaseExpired
  <2> DEFINE new == {Record(m, attemptCount[m], "exhausted") : m \in found}
  <2>1. \A r \in new : r.outcome = "exhausted"
    BY DEF Record
  <2>2. \A m \in found : Record(m, attemptCount[m], "exhausted") \in new
    OBVIOUS
  <2>3. ledger' = ledger \union new
    BY DEF QuarantineExhausted
  <2> HIDE DEF new
  <2> QED
    BY <1>0, <2>1, <2>2, <2>3 DEF QuarantineExhausted
<1>4. ASSUME NEW m \in Messages, NEW k \in Nat, NEW delay, NEW next, NEW out,
             \/ next = "succeeded" /\ out = "succeeded"
             \/ next = "pending" /\ out = "transient_failure"
             \/ next = "quarantined" /\ out \in {"exhausted", "permanent_failure"},
             Settle(m, k, next, delay, out)
      PROVE  StatusHasEvidence'
  <2> DEFINE new == Record(m, attemptCount[m], out)
  <2>1. /\ ledger' = ledger \union {new}
        /\ status' = [status EXCEPT ![m] = next]
        /\ attemptCount' = attemptCount
        /\ status[m] = "processing"
    BY <1>4 DEF Settle, Owns
  <2>2. new.outcome = out /\ new.message = m /\ new.number = attemptCount[m]
    BY DEF Record
  <2>3. (\A o \in Messages :
          /\ status[o] = "succeeded" => Record(o, attemptCount[o], "succeeded") \in ledger
          /\ status[o] = "quarantined" =>
               \E e \in {"exhausted", "permanent_failure"} :
                   Record(o, attemptCount[o], e) \in ledger)'
    BY <1>0, <1>4, <2>1
  <2>4. (\A r \in ledger : r.outcome = "succeeded" =>
            status[r.message] = "succeeded" /\ r.number = attemptCount[r.message])'
    <3> HIDE DEF new
    <3> QED
      BY <1>0, <1>4, <2>1, <2>2
  <2> QED
    BY <2>3, <2>4
<1>5. CASE \E m \in Messages : CancelPendingEffect(m)
  BY <1>0, <1>5 DEF CancelPendingEffect
<1>6. CASE \E m \in Messages, g \in ReplayGrants : ReplayQuarantinedEffect(m, g)
  BY <1>0, <1>6 DEF ReplayQuarantinedEffect
<1>7. CASE Tick
  BY <1>7 DEF Tick
<1>8. CASE UNCHANGED outboxVars
  BY <1>8 DEF outboxVars
<1> QED
  BY <1>1, <1>2, <1>3, <1>4, <1>5, <1>6, <1>7, <1>8, StepCases

\* Only a replay writes receipts or a budget, and it writes both.
LEMMA ReceiptStep == IInv /\ [Next]_outboxVars => ReceiptsExplainBudget'
<1> SUFFICES ASSUME IInv, [Next]_outboxVars PROVE ReceiptsExplainBudget'
  OBVIOUS
<1> USE DEF IInv, policyVars
<1>0. /\ maxAttempts \in [Messages -> Nat] /\ replayCount \in [Messages -> Nat]
      /\ \A r \in receipts : r \in Receipt
  BY CeilingAssumption DEF TypeOK
<1>1. CASE \E m \in Messages, b \in Budgets : InsertMessage(m, b)
  <2> PICK m \in Messages, b \in Budgets : InsertMessage(m, b)
    BY <1>1
  <2>1. \A r \in receipts : r.message # m
    BY <1>0 DEF InsertMessage, RowConsistent, ReceiptsExplainBudget
  <2> QED
    BY <1>0, <2>1 DEF InsertMessage, ReceiptsExplainBudget, Receipt
<1>2. CASE \E m \in Messages, g \in ReplayGrants : ReplayQuarantinedEffect(m, g)
  <2> PICK m \in Messages, g \in ReplayGrants : ReplayQuarantinedEffect(m, g)
    BY <1>2
  <2> DEFINE new == [message |-> m, replay |-> replayCount[m] + 1,
                     previousMax |-> maxAttempts[m], newMax |-> maxAttempts[m] + g]
  <2>1. /\ receipts' = receipts \union {new}
        /\ maxAttempts' = [maxAttempts EXCEPT ![m] = @ + g]
        /\ replayCount' = [replayCount EXCEPT ![m] = @ + 1]
        /\ g \in Nat /\ g > 0
    BY InputAssumption DEF ReplayQuarantinedEffect, NextReplay
  <2>2. /\ new.message = m /\ new.replay = replayCount[m] + 1
        /\ new.previousMax = maxAttempts[m] /\ new.newMax = maxAttempts[m] + g
    OBVIOUS
  <2>3. \A r \in receipts : /\ r.message \in Messages
                            /\ r.replay \in Nat /\ r.previousMax \in Nat /\ r.newMax \in Nat
    BY <1>0 DEF Receipt
  <2> HIDE DEF new
  <2>4. (\A r \in receipts :
          /\ r.replay \in 1 .. replayCount[r.message]
          /\ r.previousMax < r.newMax
          /\ r.replay = replayCount[r.message] => r.newMax = maxAttempts[r.message])'
    BY <1>0, <2>1, <2>2, <2>3 DEF ReceiptsExplainBudget
  <2>5. (\A o \in Messages : \A k \in 1 .. replayCount[o] :
            \E r \in receipts : r.message = o /\ r.replay = k)'
    <3> SUFFICES ASSUME NEW o \in Messages, NEW k \in 1 .. replayCount'[o]
                 PROVE  \E r \in receipts' : r.message = o /\ r.replay = k
      OBVIOUS
    <3>1. CASE k \in 1 .. replayCount[o]
      BY <2>1, <3>1 DEF ReceiptsExplainBudget
    <3>2. CASE k \notin 1 .. replayCount[o]
      BY <1>0, <2>1, <2>2, <3>2
    <3> QED
      BY <3>1, <3>2
  <2>6. \A r \in receipts : r.message = m =>
          /\ r.replay # new.replay
          /\ r.replay # new.replay + 1
          /\ new.replay = r.replay + 1 => new.previousMax = r.newMax
    <3> SUFFICES ASSUME NEW r \in receipts, r.message = m
                 PROVE  /\ r.replay # new.replay
                        /\ r.replay # new.replay + 1
                        /\ new.replay = r.replay + 1 => new.previousMax = r.newMax
      OBVIOUS
    <3>1. /\ r.replay \in 1 .. replayCount[m]
          /\ r.replay = replayCount[m] => r.newMax = maxAttempts[m]
      BY DEF ReceiptsExplainBudget
    <3> QED
      BY <1>0, <2>2, <2>3, <3>1
  <2>7. (\A r, s \in receipts : r.message = s.message =>
          /\ r.replay = s.replay => r = s
          /\ s.replay = r.replay + 1 => s.previousMax = r.newMax)'
    BY <1>0, <2>1, <2>2, <2>3, <2>6 DEF ReceiptsExplainBudget
  <2> QED
    BY <2>4, <2>5, <2>7 DEF ReceiptsExplainBudget
<1>3. ASSUME UNCHANGED policyVars PROVE ReceiptsExplainBudget'
  BY <1>3 DEF ReceiptsExplainBudget
<1> QED
  BY <1>1, <1>2, <1>3, StepCases
     DEF ClaimNextEffect, QuarantineExhausted, Settle, CancelPendingEffect, Tick, outboxVars

\* The inductive step.
LEMMA NextIInv == IInv /\ [Next]_outboxVars => IInv'
BY NextTypeOK, RowStep, LedgerStep, EvidenceStep, ReceiptStep DEF IInv

\* The four properties and RowConsistent are jointly inductive.
THEOREM Inductive == Spec => []IInv
BY InitIInv, NextIInv, PTL DEF Spec

\* No attempt is lost and none is recorded twice, whoever claims, takes over
\* or settles late.
THEOREM LedgerIsComplete == Spec => []LedgerComplete
<1>1. IInv => LedgerComplete
  BY DEF IInv
<1> QED
  BY <1>1, Inductive, PTL

\* claim_next_effect never has to leave a pending row behind for ever.
THEOREM PendingRowsAreClaimable == Spec => []PendingIsClaimable
<1>1. IInv => PendingIsClaimable
  BY DEF IInv
<1> QED
  BY <1>1, Inductive, PTL

\* A recorded success is final and a final state is on record.
THEOREM StatusIsRecorded == Spec => []StatusHasEvidence
<1>1. IInv => StatusHasEvidence
  BY DEF IInv
<1> QED
  BY <1>1, Inductive, PTL

\* The receipts account for every attempt the operators ever granted.
THEOREM BudgetIsExplained == Spec => []ReceiptsExplainBudget
<1>1. IInv => ReceiptsExplainBudget
  BY DEF IInv
<1> QED
  BY <1>1, Inductive, PTL

-----------------------------------------------------------------------------
(* The database's guards.  What a service writes has to be accepted row by *)
(* row by the trigger for updates, by the ones for receipts and attempts,  *)
(* and by the constraints of the table.                                    *)

\* The trigger accepts what happens to the row m.
RowAccepted(m) ==
    \/ Guard!Untouched(m) \/ Guard!Inserted(m) \/ Guard!PendingUpdate(m)
    \/ Guard!SettlingUpdate(m) \/ Guard!TakeoverUpdate(m) \/ Guard!ReplayUpdate(m)

\* maru_guard_outbox_message accepts every update of a service call.
LEMMA UpdatesAccepted ==
    ASSUME IInv, [Next]_outboxVars, NEW n \in Messages
    PROVE  RowAccepted(n)
<1> USE DEF IInv, TypeOK, policyVars
<1>0. CASE Guard!Untouched(n)
  BY <1>0 DEF RowAccepted
<1>1. ASSUME NEW m \in Messages, NEW b \in Budgets, InsertMessage(m, b) PROVE RowAccepted(n)
  <2>1. CASE n = m
    BY <1>1, <2>1 DEF InsertMessage, RowAccepted, Guard!Inserted
  <2>2. CASE n # m
    BY <1>0, <1>1, <2>2 DEF InsertMessage, Guard!Untouched
  <2> QED
    BY <2>1, <2>2
<1>2. ASSUME NEW m \in Messages, ClaimNextEffect(m) PROVE RowAccepted(n)
  <2>1. CASE n = m
    BY <1>2, <2>1 DEF ClaimNextEffect, Claimable, Ready, LeaseExpired, RowAccepted,
                      Guard!PendingUpdate, Guard!TakeoverUpdate, Guard!PolicyKept
  <2>2. CASE n # m
    BY <1>0, <1>2, <2>2 DEF ClaimNextEffect, Guard!Untouched
  <2> QED
    BY <2>1, <2>2
<1>3. ASSUME NEW t \in Tenants, NEW found \in SUBSET Exhausted(t), QuarantineExhausted(t, found)
      PROVE  RowAccepted(n)
  <2>1. CASE n \in found
    BY <1>3, <2>1 DEF QuarantineExhausted, Exhausted, LeaseExpired, RowAccepted,
                      Guard!SettlingUpdate, Guard!PolicyKept
  <2>2. CASE n \notin found
    BY <1>0, <1>3, <2>2 DEF QuarantineExhausted, Guard!Untouched
  <2> QED
    BY <2>1, <2>2
<1>4. ASSUME NEW m \in Messages, NEW k \in Nat, NEW delay \in Nat,
             NEW next \in {"succeeded", "pending", "quarantined"}, NEW out,
             Settle(m, k, next, delay, out)
      PROVE  RowAccepted(n)
  <2>1. CASE n = m
    BY <1>4, <2>1 DEF Settle, Owns, RowAccepted, Guard!SettlingUpdate, Guard!PolicyKept
  <2>2. CASE n # m
    BY <1>0, <1>4, <2>2 DEF Settle, Guard!Untouched
  <2> QED
    BY <2>1, <2>2
<1>5. ASSUME NEW m \in Messages, CancelPendingEffect(m) PROVE RowAccepted(n)
  <2>1. CASE n = m
    BY <1>5, <2>1 DEF CancelPendingEffect, RowAccepted, Guard!PendingUpdate, Guard!PolicyKept
  <2>2. CASE n # m
    BY <1>0, <1>5, <2>2 DEF CancelPendingEffect, Guard!Untouched
  <2> QED
    BY <2>1, <2>2
<1>6. ASSUME NEW m \in Messages, NEW g \in ReplayGrants, ReplayQuarantinedEffect(m, g)
      PROVE  RowAccepted(n)
  <2>1. CASE n = m
    <3> DEFINE r == [message |-> m, replay |-> NextReplay(m), previousMax |-> maxAttempts[m],
                     newMax |-> maxAttempts[m] + g]
    <3>1. /\ r \in receipts' /\ maxAttempts'[m] = maxAttempts[m] + g
          /\ replayCount'[m] = replayCount[m] + 1 /\ NextReplay(m) = replayCount[m] + 1
          /\ status[m] = "quarantined" /\ status'[m] = "pending"
          /\ attemptCount'[m] = attemptCount[m]
      BY <1>6 DEF ReplayQuarantinedEffect, NextReplay
    <3>2. maxAttempts[m] \in Nat /\ g \in Nat /\ g >= 1
      BY <1>6, CeilingAssumption, InputAssumption DEF ReplayQuarantinedEffect
    <3> QED
      BY <2>1, <3>1, <3>2 DEF RowAccepted, Guard!ReplayUpdate
  <2>2. CASE n # m
    BY <1>0, <1>6, <2>2 DEF ReplayQuarantinedEffect, Guard!Untouched
  <2> QED
    BY <2>1, <2>2
<1>7. CASE Tick \/ UNCHANGED outboxVars
  BY <1>0, <1>7 DEF Tick, outboxVars, Guard!Untouched
<1> QED
  BY <1>1, <1>2, <1>3, <1>4, <1>5, <1>6, <1>7, StepCases

\* maru_guard_effect_replay_receipt accepts every receipt.
LEMMA ReceiptsAccepted ==
    ASSUME IInv, [Next]_outboxVars
    PROVE  Guard!ReceiptInserts
<1>1. ASSUME NEW m \in Messages, NEW g \in ReplayGrants, ReplayQuarantinedEffect(m, g)
      PROVE  Guard!ReceiptInserts
  <2>1. maxAttempts[m] \in Nat /\ g \in Int
    BY CeilingAssumption, InputAssumption DEF IInv, TypeOK
  <2>2. \A r \in receipts' \ receipts :
            /\ r.message = m /\ r.replay = replayCount[m] + 1
            /\ r.previousMax = maxAttempts[m] /\ r.newMax = maxAttempts[m] + g
    BY <1>1 DEF ReplayQuarantinedEffect, NextReplay
  <2>3. receipts \subseteq receipts' /\ status[m] = "quarantined"
        /\ maxAttempts[m] + g <= MAX_EFFECT_TOTAL_ATTEMPTS
        /\ g \in 1 .. MAX_EFFECT_REPLAY_ADDITIONAL_ATTEMPTS
    BY <1>1 DEF ReplayQuarantinedEffect
  <2> QED
    BY <2>1, <2>2, <2>3 DEF Guard!ReceiptInserts
<1>2. CASE UNCHANGED receipts
  BY <1>2 DEF Guard!ReceiptInserts
<1>3. CASE \E m \in Messages, b \in Budgets : InsertMessage(m, b)
  BY <1>2, <1>3 DEF InsertMessage
<1>4. CASE \E m \in Messages : ClaimNextEffect(m) \/ CancelPendingEffect(m)
  BY <1>2, <1>4 DEF ClaimNextEffect, CancelPendingEffect, policyVars
<1>5. CASE \E t \in Tenants : \E found \in SUBSET Exhausted(t) : QuarantineExhausted(t, found)
  BY <1>2, <1>5 DEF QuarantineExhausted, policyVars
<1>6. ASSUME NEW m, NEW k, NEW next, NEW delay, NEW out, Settle(m, k, next, delay, out)
      PROVE  Guard!ReceiptInserts
  BY <1>2, <1>6 DEF Settle, policyVars
<1>7. CASE Tick \/ UNCHANGED outboxVars
  BY <1>2, <1>7 DEF Tick, policyVars, outboxVars
<1> QED
  BY <1>1, <1>3, <1>4, <1>5, <1>6, <1>7, StepCases DEF IInv

\* EffectAttempt rows are only added, one per attempt.
LEMMA AttemptsAccepted ==
    ASSUME IInv, [Next]_outboxVars
    PROVE  Guard!AttemptInserts
<1>1. ledger \subseteq ledger'
  <2>1. CASE \E m \in Messages, b \in Budgets : InsertMessage(m, b)
    BY <2>1 DEF InsertMessage
  <2>2. CASE \E m \in Messages : ClaimNextEffect(m) \/ CancelPendingEffect(m)
    BY <2>2 DEF ClaimNextEffect, CancelPendingEffect
  <2>3. CASE \E t \in Tenants : \E found \in SUBSET Exhausted(t) : QuarantineExhausted(t, found)
    BY <2>3 DEF QuarantineExhausted
  <2>4. ASSUME NEW m, NEW k, NEW next, NEW delay, NEW out, Settle(m, k, next, delay, out)
        PROVE  ledger \subseteq ledger'
    BY <2>4 DEF Settle
  <2>5. CASE \E m \in Messages, g \in ReplayGrants : ReplayQuarantinedEffect(m, g)
    BY <2>5 DEF ReplayQuarantinedEffect
  <2>6. CASE Tick \/ UNCHANGED outboxVars
    BY <2>6 DEF Tick, outboxVars
  <2> QED
    BY <2>1, <2>2, <2>3, <2>4, <2>5, <2>6, StepCases DEF IInv
<1>2. LedgerComplete'
  BY NextIInv DEF IInv
<1> QED
  BY <1>1, <1>2 DEF LedgerComplete, Guard!AttemptInserts

\* Whatever publishers, workers and operators do, in whatever order, the
\* triggers and constraints of the database refuse none of it: EffectsOutbox
\* implements OutboxGuard.
THEOREM DatabaseAccepts == Spec => GuardAccepts
<1>1. Init => Guard!GuardInit
  BY DEF Init, Guard!GuardInit
<1>2. IInv /\ [Next]_outboxVars => [Guard!GuardNext]_(Guard!guardVars)
  <2> SUFFICES ASSUME IInv, [Next]_outboxVars PROVE Guard!GuardNext
    OBVIOUS
  <2>1. \A m \in Messages : RowAccepted(m)
    BY UpdatesAccepted
  <2>2. Guard!ReceiptInserts /\ Guard!AttemptInserts
    BY ReceiptsAccepted, AttemptsAccepted
  <2>3. (Guard!RowChecks)'
    <3>1. IInv'
      BY NextIInv
    <3> QED
      BY <3>1, CeilingAssumption DEF IInv, TypeOK, RowConsistent, Guard!RowChecks
  <2> QED
    BY <2>1, <2>2, <2>3 DEF RowAccepted, Guard!GuardNext
<1> QED
  BY <1>1, <1>2, Inductive, PTL DEF Spec, GuardAccepts, Guard!GuardSpec

(***************************************************************************)
(* Part 2: the workers.                                                    *)
(***************************************************************************)

-----------------------------------------------------------------------------
(* The processes *)

Process ==
    [pc : {"dead", "launched", "claimed", "handling", "settling"},
     owner : Supervisors \union {Nobody}, tenant : Tenants \union {Nobody},
     message : Messages \union {Nobody}, attempt : Nat, leaseLeft : Nat, deadline : Nat,
     hardLeft : Nat, verdict : {"none", "success", "transient", "permanent"}]

Holds(p) == p.pc \in {"claimed", "handling", "settling"}

\* What a process knows: its tenant, then its claim, then its verdict.
Knows(p) ==
    /\ p.pc = "launched" => p.tenant \in Tenants
    /\ Holds(p) => p.message \in Messages /\ p.attempt \in 1 .. attemptCount[p.message]
    /\ p.pc = "settling" => p.verdict # "none"
    /\ p.pc = "dead" => p.owner = Nobody

ProcessesOK == child \in [Children -> Process] /\ \A c \in Children : Knows(child[c])

SameClaim(p, q) == p.message = q.message /\ p.attempt = q.attempt

\* No two processes ever hold the same claim.
OneHolder ==
    \A c, d \in Children :
        Holds(child[c]) /\ Holds(child[d]) /\ SameClaim(child[c], child[d]) => c = d

WInv == TypeOK /\ ProcessesOK /\ OneHolder

\* An attempt is counted for good.
AttemptsGrow == \A m \in Messages : attemptCount'[m] \in Nat /\ attemptCount[m] <= attemptCount'[m]

\* One process moves on: it drops its claim, keeps it, or has a new one.
LEMMA OneSlot ==
    ASSUME WInv, AttemptsGrow, NEW c \in Children, NEW p \in Process,
           child' = [child EXCEPT ![c] = p], Knows(p)',
           \/ ~ Holds(p)
           \/ Holds(child[c]) /\ SameClaim(p, child[c])
           \/ p.attempt > attemptCount[p.message]
    PROVE  ProcessesOK' /\ OneHolder'
<1>1. /\ child' \in [Children -> Process] /\ child'[c] = p
      /\ \A d \in Children \ {c} : child'[d] = child[d]
  BY DEF WInv, ProcessesOK
<1>2. \A d \in Children : Holds(child[d]) =>
            /\ child[d].message \in Messages /\ child[d].attempt \in Nat
            /\ 1 <= child[d].attempt /\ child[d].attempt <= attemptCount[child[d].message]
  BY DEF WInv, ProcessesOK, Knows, TypeOK
<1>3. \A m \in Messages : attemptCount[m] \in Nat
  BY DEF WInv, TypeOK
<1>4. \A d \in Children \ {c} : Knows(child[d])'
  BY <1>1, <1>2, <1>3 DEF WInv, ProcessesOK, Knows, Holds, AttemptsGrow
<1>5. ProcessesOK'
  BY <1>1, <1>4 DEF ProcessesOK, Knows, Holds
<1>6. p.attempt \in Nat
  BY DEF Process
<1>7. \A d \in Children \ {c} : ~ (Holds(p) /\ Holds(child[d]) /\ SameClaim(p, child[d]))
  BY <1>2, <1>3, <1>6 DEF WInv, OneHolder, SameClaim
<1>8. OneHolder'
  BY <1>1, <1>7 DEF WInv, OneHolder, SameClaim, Holds
<1> QED
  BY <1>5, <1>8

-----------------------------------------------------------------------------
(* The outbox seen from the processes *)

\* A step of the processes is a call of one service, or none.
LEMMA UsesServices ==
    ASSUME WInv, [WorkerNext]_workerVars
    PROVE  [Next]_outboxVars
<1>0. CASE UNCHANGED outboxVars
  BY <1>0
<1>1. CASE Launch
  BY <1>0, <1>1 DEF Launch, LaunchChild
<1>2. CASE ClaimsOne
  BY <1>2 DEF ClaimsOne, ChildClaims, Next, Claim
<1>3. CASE WorkerTick
  BY <1>3 DEF WorkerTick, Next
<1>4. CASE Outside
  BY <1>4 DEF Outside, Next
<1>5. ASSUME NEW w \in Supervisors, SupervisorCrashes(w) PROVE [Next]_outboxVars
  BY <1>0, <1>5 DEF SupervisorCrashes
<1>6. ASSUME NEW c \in Children,
             \/ HardKill(c) \/ ChildLosesLease(c) \/ ChildRefuses(c) \/ ChildStartsHandler(c)
             \/ HandlerReturns(c) \/ ChildSettlesTooLate(c) \/ ChildCrashes(c)
             \/ \E v \in {"transient", "permanent"} : HandlerRaises(c, v)
      PROVE  [Next]_outboxVars
  BY <1>0, <1>6 DEF HardKill, ChildLosesLease, ChildRefuses, ChildStartsHandler, HandlerReturns,
                    ChildSettlesTooLate, ChildCrashes, HandlerRaises
<1>7. ASSUME NEW c \in Children, NEW found \in SUBSET Exhausted(child[c].tenant),
             child[c].pc = "launched", QuarantineExhausted(child[c].tenant, found)
      PROVE  [Next]_outboxVars
  BY <1>7 DEF WInv, ProcessesOK, Knows, Next, ClaimNothing
<1>8. ASSUME NEW c \in Children, ChildSettles(c) PROVE [Next]_outboxVars
  <2> DEFINE m == child[c].message
             k == child[c].attempt
  <2>1. m \in Messages /\ k \in 1 .. attemptCount[m]
    BY <1>8 DEF ChildSettles, WInv, ProcessesOK, Knows, Holds
  <2>2. child[c].verdict \in {"success", "transient", "permanent"}
    BY <1>8 DEF ChildSettles, WInv, ProcessesOK, Knows, Process
  <2>3. \/ FinishEffectSuccess(m, k)
        \/ \E d \in RetryDelays : FinishEffectTransientFailure(m, k, d)
        \/ FinishEffectPermanentFailure(m, k)
    BY <1>8, <2>2 DEF ChildSettles
  <2> QED
    BY <2>1, <2>3 DEF Next, Finish
<1>9. ASSUME NEW c \in Children, ChildFindsNothing(c) PROVE [Next]_outboxVars
  BY <1>7, <1>9 DEF ChildFindsNothing
<1>10. ASSUME NEW c \in Children, NEW found \in SUBSET Exhausted(child[c].tenant),
              ChildSkipsLocked(c, found)
       PROVE  [Next]_outboxVars
  BY <1>7, <1>10 DEF ChildSkipsLocked
<1>11. CASE UNCHANGED workerVars
  BY <1>0, <1>11 DEF workerVars
<1> QED
  BY <1>1, <1>2, <1>3, <1>4, <1>5, <1>6, <1>8, <1>9, <1>10, <1>11 DEF WorkerNext

\* No service takes an attempt back.
LEMMA ServicesCount ==
    ASSUME TypeOK, [Next]_outboxVars
    PROVE  AttemptsGrow
<1>1. \A m \in Messages : attemptCount[m] \in Nat
  BY DEF TypeOK
<1>2. TypeOK'
  BY NextTypeOK
<1>3. CASE UNCHANGED attemptCount
  BY <1>1, <1>3 DEF AttemptsGrow
<1>4. ASSUME NEW m \in Messages, ClaimNextEffect(m) PROVE AttemptsGrow
  BY <1>1, <1>4 DEF TypeOK, ClaimNextEffect, AttemptsGrow
<1>5. CASE \E m \in Messages, b \in Budgets : InsertMessage(m, b)
  BY <1>3, <1>5 DEF InsertMessage
<1>6. CASE \E t \in Tenants : \E found \in SUBSET Exhausted(t) : QuarantineExhausted(t, found)
  BY <1>3, <1>6 DEF QuarantineExhausted
<1>7. ASSUME NEW m, NEW k, NEW next, NEW delay, NEW out, Settle(m, k, next, delay, out)
      PROVE  AttemptsGrow
  BY <1>3, <1>7 DEF Settle
<1>8. CASE \E m \in Messages : CancelPendingEffect(m)
  BY <1>3, <1>8 DEF CancelPendingEffect
<1>9. CASE \E m \in Messages, g \in ReplayGrants : ReplayQuarantinedEffect(m, g)
  BY <1>3, <1>9 DEF ReplayQuarantinedEffect
<1>10. CASE Tick \/ UNCHANGED outboxVars
  BY <1>3, <1>10 DEF Tick, outboxVars
<1> QED
  BY <1>4, <1>5, <1>6, <1>7, <1>8, <1>9, <1>10, StepCases

-----------------------------------------------------------------------------
(* The processes step by step *)

\* What the fields of a process are.
LEMMA ProcessFields ==
    ASSUME WInv, NEW c \in Children
    PROVE  /\ child[c] \in Process /\ Knows(child[c])
           /\ child[c].owner \in Supervisors \union {Nobody}
           /\ child[c].attempt \in Nat /\ child[c].leaseLeft \in Nat
           /\ child[c].deadline \in Nat /\ child[c].hardLeft \in Nat
BY DEF WInv, ProcessesOK, Process

\* A process that ends leaves its slot.
LEMMA SlotFreed ==
    ASSUME WInv, AttemptsGrow, NEW c \in Children, Exit(c)
    PROVE  ProcessesOK' /\ OneHolder'
<1>1. Dead \in Process /\ Dead.pc = "dead" /\ Dead.owner = Nobody
  BY DEF Dead, Process
<1>2. Knows(Dead)' /\ ~ Holds(Dead)
  BY <1>1 DEF Knows, Holds
<1> QED
  BY <1>1, <1>2, OneSlot DEF Exit

\* A process that keeps its claim and moves on.
LEMMA SlotMoves ==
    ASSUME WInv, AttemptsGrow, NEW c \in Children, Holds(child[c]), NEW p \in Process,
           child' = [child EXCEPT ![c] = p], Holds(p), SameClaim(p, child[c]),
           p.pc = "settling" => p.verdict # "none"
    PROVE  ProcessesOK' /\ OneHolder'
<1>1. /\ p.message \in Messages /\ p.attempt \in Nat /\ 1 <= p.attempt
      /\ p.attempt <= attemptCount[p.message] /\ attemptCount[p.message] \in Nat
  BY DEF WInv, ProcessesOK, Knows, SameClaim, TypeOK
<1>2. Knows(p)'
  BY <1>1 DEF Knows, Holds, AttemptsGrow
<1> QED
  BY <1>2, OneSlot

\* A new process, without a claim.
LEMMA SlotTaken ==
    ASSUME WInv, AttemptsGrow, NEW w \in Supervisors, NEW c \in Children, NEW t \in Tenants,
           LaunchChild(w, c, t)
    PROVE  ProcessesOK' /\ OneHolder'
<1> DEFINE p == [Dead EXCEPT !.pc = "launched", !.owner = w, !.tenant = t, !.hardLeft = HardTimeout]
<1>1. p \in Process /\ p.pc = "launched" /\ p.tenant = t
  BY WorkerOptionsAssumption DEF Dead, Process
<1>2. child' = [child EXCEPT ![c] = p]
  BY DEF LaunchChild
<1> HIDE DEF p
<1>3. Knows(p)' /\ ~ Holds(p)
  BY <1>1 DEF Knows, Holds
<1> QED
  BY <1>1, <1>2, <1>3, OneSlot

\* A claim is a new attempt, so nobody else holds it.
LEMMA SlotClaims ==
    ASSUME WInv, AttemptsGrow, NEW c \in Children, NEW m \in Messages, ChildClaims(c, m)
    PROVE  ProcessesOK' /\ OneHolder'
<1>0. child[c] \in Process
  BY ProcessFields
<1>1. attemptCount[m] \in Nat /\ attemptCount'[m] = attemptCount[m] + 1
  BY DEF WInv, TypeOK, ChildClaims, ClaimNextEffect
<1>2. PICK k \in Nat : k = attemptCount[m] + 1
  BY <1>1
<1>3. LeaseDuration \in Nat
  BY InputAssumption
<1>4. PICK p : p = [child[c] EXCEPT !.pc = "claimed", !.message = m, !.attempt = k,
                                    !.leaseLeft = LeaseDuration]
  OBVIOUS
<1>5. p \in Process /\ p.pc = "claimed" /\ p.message = m /\ p.attempt = k
  BY <1>0, <1>3, <1>4 DEF Process
<1>6. child' = [child EXCEPT ![c] = p]
  BY <1>2, <1>4 DEF ChildClaims, WInv, ProcessesOK
<1>7. Knows(p)'
  BY <1>1, <1>2, <1>5 DEF Knows
<1>8. p.attempt > attemptCount[p.message]
  BY <1>1, <1>2, <1>5
<1> QED
  BY <1>5, <1>6, <1>7, <1>8, OneSlot

\* Refusals, starts, returns and exceptions of a handler.
LEMMA SlotHandles ==
    ASSUME WInv, AttemptsGrow, NEW c \in Children,
           \/ ChildRefuses(c) \/ ChildStartsHandler(c) \/ HandlerReturns(c)
           \/ \E v \in {"transient", "permanent"} : HandlerRaises(c, v)
    PROVE  ProcessesOK' /\ OneHolder'
<1>0. child[c] \in Process /\ child[c].leaseLeft \in Nat /\ child \in [Children -> Process]
  BY ProcessFields DEF WInv, ProcessesOK
<1>1. ASSUME NEW v \in {"success", "transient", "permanent"}, Holds(child[c]),
             child' = [child EXCEPT ![c].pc = "settling", ![c].verdict = v]
      PROVE  ProcessesOK' /\ OneHolder'
  <2> DEFINE p == [child[c] EXCEPT !.pc = "settling", !.verdict = v]
  <2>1. /\ p \in Process /\ p.pc = "settling" /\ p.verdict = v
        /\ p.message = child[c].message /\ p.attempt = child[c].attempt
    BY <1>0 DEF Process
  <2>2. child' = [child EXCEPT ![c] = p]
    BY <1>0, <1>1
  <2> HIDE DEF p
  <2> QED
    BY <1>1, <2>1, <2>2, SlotMoves DEF Holds, SameClaim
<1>2. CASE ChildStartsHandler(c)
  <2>a. PICK n : n = IF child[c].leaseLeft < ExecutionTimeout
                     THEN child[c].leaseLeft ELSE ExecutionTimeout
    OBVIOUS
  <2>b. n \in Nat
    BY <1>0, <2>a, WorkerOptionsAssumption
  <2>0. child' = [child EXCEPT ![c].pc = "handling", ![c].deadline = n]
    BY <1>2, <2>a DEF ChildStartsHandler
  <2> DEFINE p == [child[c] EXCEPT !.pc = "handling", !.deadline = n]
  <2>1. /\ p \in Process /\ p.pc = "handling"
        /\ p.message = child[c].message /\ p.attempt = child[c].attempt
    BY <1>0, <2>b DEF Process
  <2>2. child' = [child EXCEPT ![c] = p]
    BY <1>0, <2>0
  <2>3. child[c].pc = "claimed"
    BY <1>2 DEF ChildStartsHandler
  <2> HIDE DEF p
  <2> QED
    BY <2>1, <2>2, <2>3, SlotMoves DEF Holds, SameClaim
<1>3. CASE ChildRefuses(c)
  BY <1>1, <1>3 DEF ChildRefuses, Holds
<1>4. CASE HandlerReturns(c)
  BY <1>1, <1>4 DEF HandlerReturns, Holds
<1>5. CASE \E v \in {"transient", "permanent"} : HandlerRaises(c, v)
  BY <1>1, <1>5 DEF HandlerRaises, Holds
<1> QED
  BY <1>2, <1>3, <1>4, <1>5

\* An orphan keeps its claim.
LEMMA SlotOrphaned ==
    ASSUME WInv, AttemptsGrow, NEW w \in Supervisors, SupervisorCrashes(w)
    PROVE  ProcessesOK' /\ OneHolder'
<1>0. PICK c \in Children : /\ child[c].owner = w
                            /\ child' = [child EXCEPT ![c].owner = Nobody, ![c].hardLeft = 0]
  BY DEF SupervisorCrashes
<1>p. PICK p : p = [child[c] EXCEPT !.owner = Nobody, !.hardLeft = 0]
  OBVIOUS
<1>1. child[c] \in Process /\ Knows(child[c])
  BY ProcessFields
<1>2. /\ p \in Process /\ p.pc = child[c].pc /\ p.tenant = child[c].tenant
      /\ p.message = child[c].message /\ p.attempt = child[c].attempt
      /\ p.verdict = child[c].verdict /\ p.owner = Nobody
  BY <1>p, <1>1 DEF Process
<1>3. child' = [child EXCEPT ![c] = p]
  BY <1>p, <1>0, <1>1
<1>4. CASE Holds(child[c])
  BY <1>1, <1>2, <1>3, <1>4, SlotMoves DEF Holds, SameClaim, Knows
<1>5. CASE ~ Holds(child[c])
  <2>1. Knows(p)' /\ ~ Holds(p)
    BY <1>1, <1>2, <1>5 DEF Knows, Holds
  <2> QED
    BY <1>2, <1>3, <2>1, OneSlot
<1> QED
  BY <1>4, <1>5

\* The clock changes no claim.
LEMMA SlotsTick ==
    ASSUME WInv, WorkerTick
    PROVE  ProcessesOK' /\ OneHolder'
<1>1. \A n \in Nat : Decrement(n) \in Nat
  BY DEF Decrement
<1>2. \A c \in Children : /\ child'[c] \in Process
                          /\ child'[c].pc = child[c].pc /\ child'[c].tenant = child[c].tenant
                          /\ child'[c].message = child[c].message
                          /\ child'[c].attempt = child[c].attempt
                          /\ child'[c].verdict = child[c].verdict
                          /\ child'[c].owner = child[c].owner
  <2> TAKE c \in Children
  <2> DEFINE p == [child[c] EXCEPT !.leaseLeft = Decrement(@), !.deadline = Decrement(@),
                                   !.hardLeft = Decrement(@)]
  <2>1. child'[c] = p
    BY DEF WorkerTick
  <2>2. child[c] \in Process
    BY ProcessFields
  <2> QED
    BY <1>1, <2>1, <2>2 DEF Process
<1>3. child' \in [Children -> Process]
  <2>1. child' = [c \in Children |-> child'[c]]
    BY DEF WorkerTick
  <2> QED
    BY <1>2, <2>1
<1>4. attemptCount' = attemptCount
  BY DEF WorkerTick, Tick
<1>5. ProcessesOK'
  BY <1>2, <1>3, <1>4 DEF WInv, ProcessesOK, Knows, Holds
<1>6. OneHolder'
  BY <1>2 DEF WInv, OneHolder, Holds, SameClaim
<1> QED
  BY <1>5, <1>6

\* Nothing happens to the processes.
LEMMA SlotsKept ==
    ASSUME WInv, AttemptsGrow, UNCHANGED child
    PROVE  ProcessesOK' /\ OneHolder'
<1>1. \A m \in Messages : attemptCount[m] \in Nat
  BY DEF WInv, TypeOK
<1>2. \A c \in Children : Knows(child[c])'
  BY <1>1 DEF WInv, ProcessesOK, Knows, Holds, AttemptsGrow
<1> QED
  BY <1>2 DEF WInv, ProcessesOK, OneHolder, Holds, SameClaim

\* No process at the start.
LEMMA InitWInv == WorkerInit => WInv
<1> SUFFICES ASSUME WorkerInit PROVE WInv
  OBVIOUS
<1>1. TypeOK
  BY InitTypeOK DEF WorkerInit
<1>2. Dead \in Process /\ Dead.pc = "dead" /\ Dead.owner = Nobody
  BY DEF Dead, Process
<1>3. \A c \in Children : child[c] = Dead
  BY DEF WorkerInit
<1>4. ProcessesOK
  BY <1>2, <1>3 DEF WorkerInit, ProcessesOK, Knows, Holds
<1>5. OneHolder
  BY <1>2, <1>3 DEF OneHolder, Holds
<1> QED
  BY <1>1, <1>4, <1>5 DEF WInv

\* Every step keeps the processes in order.
LEMMA NextWInv == WInv /\ [WorkerNext]_workerVars => WInv'
<1> SUFFICES ASSUME WInv, [WorkerNext]_workerVars PROVE WInv'
  OBVIOUS
<1>0. TypeOK' /\ AttemptsGrow
  BY UsesServices, NextTypeOK, ServicesCount DEF WInv
<1> SUFFICES ProcessesOK' /\ OneHolder'
  BY <1>0 DEF WInv
<1>1. CASE Launch
  BY <1>0, <1>1, SlotTaken DEF Launch
<1>2. CASE ClaimsOne
  BY <1>0, <1>2, SlotClaims DEF ClaimsOne
<1>3. CASE WorkerTick
  BY <1>3, SlotsTick
<1>4. CASE Outside
  BY <1>0, <1>4, SlotsKept DEF Outside
<1>5. ASSUME NEW w \in Supervisors, SupervisorCrashes(w) PROVE ProcessesOK' /\ OneHolder'
  BY <1>0, <1>5, SlotOrphaned
<1>6. ASSUME NEW c \in Children, Exit(c) PROVE ProcessesOK' /\ OneHolder'
  BY <1>0, <1>6, SlotFreed
<1>7. ASSUME NEW c \in Children,
             \/ ChildRefuses(c) \/ ChildStartsHandler(c) \/ HandlerReturns(c)
             \/ \E v \in {"transient", "permanent"} : HandlerRaises(c, v)
      PROVE  ProcessesOK' /\ OneHolder'
  BY <1>0, <1>7, SlotHandles
<1>8. ASSUME NEW c \in Children,
             \/ HardKill(c) \/ ChildFindsNothing(c) \/ ChildLosesLease(c) \/ ChildSettles(c)
             \/ ChildSettlesTooLate(c) \/ ChildCrashes(c)
             \/ \E found \in SUBSET Exhausted(child[c].tenant) : ChildSkipsLocked(c, found)
      PROVE  ProcessesOK' /\ OneHolder'
  BY <1>6, <1>8 DEF HardKill, ChildFindsNothing, ChildLosesLease, ChildSettles,
                    ChildSettlesTooLate, ChildCrashes, ChildSkipsLocked, Exit
<1>9. CASE UNCHANGED workerVars
  BY <1>0, <1>9, SlotsKept DEF workerVars
<1> QED
  BY <1>1, <1>2, <1>3, <1>4, <1>5, <1>7, <1>8, <1>9 DEF WorkerNext

\* Processes are well formed and no claim has two holders, for ever.
LEMMA WorkerInvariance == WorkerSpec => []WInv
<1> QED
  BY InitWInv, NextWInv, PTL DEF WorkerSpec

-----------------------------------------------------------------------------
(* The processes implement the outbox *)

\* Supervisors and children, with all their crashes and late calls, use the
\* outbox only in ways EffectsOutbox describes.
THEOREM WorkersUseServices == WorkerSpec => ImplementsOutbox
<1>1. WorkerInit => Init
  BY DEF WorkerInit
<1>2. WInv /\ [WorkerNext]_workerVars => [Next]_outboxVars
  BY UsesServices
<1> QED
  BY <1>1, <1>2, WorkerInvariance, PTL DEF WorkerSpec, ImplementsOutbox, Spec

\* So the attempts of the workers are all on record, and the database accepts
\* everything they write.
THEOREM WorkersKeepTheLedger == WorkerSpec => []LedgerComplete /\ GuardAccepts
<1> QED
  BY WorkersUseServices, LedgerIsComplete, DatabaseAccepts, PTL DEF ImplementsOutbox

-----------------------------------------------------------------------------
(* A success was delivered.  The verdict of a process is true when it is   *)
(* made, and stays true until it is written, however long that takes.      *)

VerdictsTrue ==
    \A c \in Children :
        child[c].pc = "settling" /\ child[c].verdict = "success" =>
            <<child[c].message, child[c].attempt>> \in delivered

\* No service but finish_effect_success makes a row a success, and none
\* counts another attempt of one.
LEMMA SuccessIsOld ==
    ASSUME TypeOK,
           \/ UNCHANGED outboxVars \/ Tick \/ Publish \/ Cancel \/ Replay \/ Claim \/ ClaimNothing
           \/ \E m \in Messages : \E k, delay, out : \E next \in {"pending", "quarantined"} :
                Settle(m, k, next, delay, out)
    PROVE  \A m \in Messages : status'[m] = "succeeded" =>
                status[m] = "succeeded" /\ attemptCount'[m] = attemptCount[m]
<1> USE DEF TypeOK
<1>1. CASE UNCHANGED outboxVars \/ Tick
  BY <1>1 DEF outboxVars, Tick
<1>2. CASE Publish
  BY <1>2 DEF Publish, PublishDomainEvent, EnqueueEventDelivery, InsertMessage
<1>3. CASE Cancel \/ Replay
  BY <1>3 DEF Cancel, Replay, CancelPendingEffect, ReplayQuarantinedEffect
<1>4. CASE Claim
  BY <1>4 DEF Claim, ClaimNextEffect
<1>5. CASE ClaimNothing
  BY <1>5 DEF ClaimNothing, QuarantineExhausted
<1>6. ASSUME NEW m \in Messages, NEW k, NEW delay, NEW out, NEW next \in {"pending", "quarantined"},
             Settle(m, k, next, delay, out)
      PROVE  \A o \in Messages : status'[o] = "succeeded" =>
                status[o] = "succeeded" /\ attemptCount'[o] = attemptCount[o]
  BY <1>6 DEF Settle
<1> QED
  BY <1>1, <1>2, <1>3, <1>4, <1>5, <1>6

\* The verdicts stay true.
LEMMA VerdictStep ==
    ASSUME WInv, VerdictsTrue, [WorkerNext]_workerVars
    PROVE  VerdictsTrue'
<1>0. child \in [Children -> Process] /\ \A c \in Children : child[c] \in Process
  BY DEF WInv, ProcessesOK
<1>1. ASSUME NEW c \in Children, NEW p, child' = [child EXCEPT ![c] = p],
             p.pc = "settling" /\ p.verdict = "success" =>
                 <<p.message, p.attempt>> \in delivered',
             delivered \subseteq delivered'
      PROVE  VerdictsTrue'
  BY <1>0, <1>1 DEF VerdictsTrue
<1>2. CASE Launch
  <2> PICK w \in Supervisors, c \in Children, t \in Tenants : LaunchChild(w, c, t)
    BY <1>2 DEF Launch
  <2> DEFINE p == [Dead EXCEPT !.pc = "launched", !.owner = w, !.tenant = t,
                               !.hardLeft = HardTimeout]
  <2>1. p.pc = "launched"
    BY DEF Dead
  <2>2. child' = [child EXCEPT ![c] = p] /\ delivered' = delivered
    BY DEF LaunchChild
  <2> HIDE DEF p
  <2> QED
    BY <1>1, <2>1, <2>2
<1>3. ASSUME NEW c \in Children, Exit(c), UNCHANGED delivered PROVE VerdictsTrue'
  <2>1. Dead.pc = "dead"
    BY DEF Dead
  <2> QED
    BY <1>1, <1>3, <2>1 DEF Exit
<1>4. CASE ClaimsOne
  <2> PICK c \in Children, m \in Messages : ChildClaims(c, m)
    BY <1>4 DEF ClaimsOne
  <2> DEFINE p == [child[c] EXCEPT !.pc = "claimed", !.message = m,
                                   !.attempt = attemptCount[m] + 1, !.leaseLeft = LeaseDuration]
  <2>1. p.pc = "claimed"
    BY <1>0 DEF Process
  <2>2. child' = [child EXCEPT ![c] = p] /\ delivered' = delivered
    BY <1>0 DEF ChildClaims
  <2> HIDE DEF p
  <2> QED
    BY <1>1, <2>1, <2>2
<1>5. ASSUME NEW c \in Children, NEW v \in {"transient", "permanent"},
             child' = [child EXCEPT ![c].pc = "settling", ![c].verdict = v],
             delivered \subseteq delivered'
      PROVE  VerdictsTrue'
  <2> DEFINE p == [child[c] EXCEPT !.pc = "settling", !.verdict = v]
  <2>1. p.verdict = v
    BY <1>0 DEF Process
  <2>2. child' = [child EXCEPT ![c] = p]
    BY <1>0, <1>5
  <2> HIDE DEF p
  <2> QED
    BY <1>1, <1>5, <2>1, <2>2
<1>6. ASSUME NEW c \in Children, HandlerReturns(c) PROVE VerdictsTrue'
  <2>1. CASE child[c].deadline > 0
    <3> DEFINE p == [child[c] EXCEPT !.pc = "settling", !.verdict = "success"]
    <3>1. p.message = child[c].message /\ p.attempt = child[c].attempt
      BY <1>0 DEF Process
    <3>2. child' = [child EXCEPT ![c] = p]
      BY <1>0, <1>6, <2>1 DEF HandlerReturns
    <3> HIDE DEF p
    <3> QED
      BY <1>1, <1>6, <3>1, <3>2 DEF HandlerReturns
  <2>2. CASE ~ (child[c].deadline > 0)
    BY <1>5, <1>6, <2>2 DEF HandlerReturns
  <2> QED
    BY <2>1, <2>2
<1>7. ASSUME NEW c \in Children, ChildStartsHandler(c) PROVE VerdictsTrue'
  <2>1. PICK n : child' = [child EXCEPT ![c].pc = "handling", ![c].deadline = n]
    BY <1>7 DEF ChildStartsHandler
  <2> DEFINE p == [child[c] EXCEPT !.pc = "handling", !.deadline = n]
  <2>2. p.pc = "handling"
    BY <1>0 DEF Process
  <2>3. child' = [child EXCEPT ![c] = p] /\ delivered' = delivered
    BY <1>0, <1>7, <2>1 DEF ChildStartsHandler
  <2> HIDE DEF p
  <2> QED
    BY <1>1, <2>2, <2>3
<1>8. ASSUME NEW w \in Supervisors, SupervisorCrashes(w) PROVE VerdictsTrue'
  <2>1. PICK c \in Children : child' = [child EXCEPT ![c].owner = Nobody, ![c].hardLeft = 0]
    BY <1>8 DEF SupervisorCrashes
  <2> DEFINE p == [child[c] EXCEPT !.owner = Nobody, !.hardLeft = 0]
  <2>2. /\ p.pc = child[c].pc /\ p.verdict = child[c].verdict
        /\ p.message = child[c].message /\ p.attempt = child[c].attempt
    BY <1>0 DEF Process
  <2>3. child' = [child EXCEPT ![c] = p] /\ delivered' = delivered
    BY <1>0, <1>8, <2>1 DEF SupervisorCrashes
  <2> HIDE DEF p
  <2> QED
    BY <1>1, <2>2, <2>3 DEF VerdictsTrue
<1>9. CASE WorkerTick
  <2>1. \A c \in Children : /\ child'[c].pc = child[c].pc /\ child'[c].verdict = child[c].verdict
                            /\ child'[c].message = child[c].message
                            /\ child'[c].attempt = child[c].attempt
    <3> TAKE c \in Children
    <3>1. child'[c] = [child[c] EXCEPT !.leaseLeft = Decrement(@), !.deadline = Decrement(@),
                                       !.hardLeft = Decrement(@)]
      BY <1>9 DEF WorkerTick
    <3> QED
      BY <1>0, <3>1 DEF Process
  <2>2. delivered' = delivered
    BY <1>9 DEF WorkerTick
  <2> QED
    BY <2>1, <2>2 DEF VerdictsTrue
<1>10. CASE UNCHANGED <<child, delivered>>
  BY <1>10 DEF VerdictsTrue
<1>11. ASSUME NEW c \in Children, ChildRefuses(c) \/ \E v \in {"transient", "permanent"} : HandlerRaises(c, v)
       PROVE  VerdictsTrue'
  BY <1>5, <1>11 DEF ChildRefuses, HandlerRaises
<1>12. ASSUME NEW c \in Children,
              \/ HardKill(c) \/ ChildFindsNothing(c) \/ ChildLosesLease(c) \/ ChildSettles(c)
              \/ ChildSettlesTooLate(c) \/ ChildCrashes(c)
              \/ \E found \in SUBSET Exhausted(child[c].tenant) : ChildSkipsLocked(c, found)
       PROVE  VerdictsTrue'
  BY <1>3, <1>12 DEF HardKill, ChildFindsNothing, ChildLosesLease, ChildSettles,
                     ChildSettlesTooLate, ChildCrashes, ChildSkipsLocked, Exit
<1> QED
  BY <1>2, <1>4, <1>6, <1>7, <1>8, <1>9, <1>10, <1>11, <1>12 DEF WorkerNext, Outside, workerVars

\* A success that is written is one that was delivered, and stays so.
LEMMA DeliveredStep ==
    ASSUME WInv, VerdictsTrue, SucceededWasDelivered, [WorkerNext]_workerVars
    PROVE  SucceededWasDelivered'
<1>1. delivered \subseteq delivered'
  BY DEF WorkerNext, workerVars, Launch, LaunchChild, ClaimsOne, ChildClaims, WorkerTick, Outside,
         SupervisorCrashes, HardKill, ChildFindsNothing, ChildSkipsLocked, ChildLosesLease,
         ChildRefuses, ChildStartsHandler, HandlerReturns, HandlerRaises, ChildSettles,
         ChildSettlesTooLate, ChildCrashes
<1>2. ASSUME \A m \in Messages : status'[m] = "succeeded" =>
                status[m] = "succeeded" /\ attemptCount'[m] = attemptCount[m]
      PROVE  SucceededWasDelivered'
  BY <1>1, <1>2 DEF SucceededWasDelivered
<1>3. CASE \/ UNCHANGED outboxVars \/ Tick \/ Publish \/ Cancel \/ Replay \/ Claim \/ ClaimNothing
           \/ \E m \in Messages : \E k, delay, out : \E next \in {"pending", "quarantined"} :
                Settle(m, k, next, delay, out)
  BY <1>2, <1>3, SuccessIsOld DEF WInv
<1>4. ASSUME NEW c \in Children, ChildSettles(c) PROVE SucceededWasDelivered'
  <2>1. PICK m : m = child[c].message
    OBVIOUS
  <2>2. PICK k : k = child[c].attempt
    OBVIOUS
  <2>3. m \in Messages
    BY <1>4, <2>1 DEF ChildSettles, WInv, ProcessesOK, Knows, Holds
  <2>4. child[c].pc = "settling" /\ child[c].verdict \in {"success", "transient", "permanent"}
    BY <1>4 DEF ChildSettles, WInv, ProcessesOK, Knows, Process
  <2>5. CASE child[c].verdict = "success"
    <3>1. FinishEffectSuccess(m, k)
      BY <1>4, <2>1, <2>2, <2>5 DEF ChildSettles
    <3>2. <<m, k>> \in delivered
      BY <2>1, <2>2, <2>4, <2>5 DEF VerdictsTrue
    <3>3. attemptCount[m] = k /\ attemptCount' = attemptCount
      BY <3>1 DEF FinishEffectSuccess, Settle, Owns
    <3>4. \A n \in Messages \ {m} : status'[n] = status[n]
      BY <3>1 DEF FinishEffectSuccess, Settle, WInv, TypeOK
    <3> QED
      BY <1>1, <3>2, <3>3, <3>4 DEF SucceededWasDelivered
  <2>6. CASE child[c].verdict = "transient"
    <3>1. PICK d \in RetryDelays : FinishEffectTransientFailure(m, k, d)
      BY <1>4, <2>1, <2>2, <2>6 DEF ChildSettles
    <3> QED
      BY <1>3, <2>3, <3>1 DEF FinishEffectTransientFailure
  <2>7. CASE child[c].verdict = "permanent"
    <3>1. FinishEffectPermanentFailure(m, k)
      BY <1>4, <2>1, <2>2, <2>7 DEF ChildSettles
    <3> QED
      BY <1>3, <2>3, <3>1 DEF FinishEffectPermanentFailure
  <2> QED
    BY <2>4, <2>5, <2>6, <2>7
<1>5. ASSUME NEW c \in Children, NEW found \in SUBSET Exhausted(child[c].tenant),
             child[c].pc = "launched", QuarantineExhausted(child[c].tenant, found)
      PROVE  SucceededWasDelivered'
  BY <1>3, <1>5 DEF WInv, ProcessesOK, Knows, ClaimNothing
<1>6. ASSUME NEW c \in Children,
             \/ ChildFindsNothing(c)
             \/ \E found \in SUBSET Exhausted(child[c].tenant) : ChildSkipsLocked(c, found)
      PROVE  SucceededWasDelivered'
  BY <1>5, <1>6 DEF ChildFindsNothing, ChildSkipsLocked
<1>7. CASE ClaimsOne \/ WorkerTick \/ Outside
  BY <1>3, <1>7 DEF ClaimsOne, ChildClaims, Claim, WorkerTick, Outside
<1> QED
  BY <1>3, <1>4, <1>6, <1>7
  DEF WorkerNext, workerVars, Launch, LaunchChild, SupervisorCrashes, HardKill, ChildLosesLease,
      ChildRefuses, ChildStartsHandler, HandlerReturns, HandlerRaises, ChildSettlesTooLate,
      ChildCrashes

\* At least once: a delivery counts as succeeded only after the handler of its
\* last attempt returned in time, in whatever order the children that ever
\* held it settle, die, are killed or are orphaned.
THEOREM SuccessMeansDelivered == WorkerSpec => []SucceededWasDelivered
<1> DEFINE DInv == VerdictsTrue /\ SucceededWasDelivered
<1>1. WorkerInit => DInv
  <2> SUFFICES ASSUME WorkerInit PROVE DInv
    OBVIOUS
  <2>1. \A c \in Children : child[c].pc = "dead"
    BY DEF WorkerInit, Dead
  <2>2. \A m \in Messages : status[m] = "absent"
    BY DEF WorkerInit, Init
  <2> QED
    BY <2>1, <2>2 DEF VerdictsTrue, SucceededWasDelivered
<1>2. WInv /\ DInv /\ [WorkerNext]_workerVars => DInv'
  BY VerdictStep, DeliveredStep
<1> QED
  BY <1>1, <1>2, WorkerInvariance, PTL DEF WorkerSpec

-----------------------------------------------------------------------------
(* Supervised handlers keep their lease.  The lease of a claim outlasts    *)
(* the hard timeout of the process that made it by the same time from then *)
(* on; the delivery is not given to anybody else while the lease runs.     *)

InClaim(p) == p.pc \in {"claimed", "handling"}

Covered(p) ==
    p.pc # "dead" /\ p.owner # Nobody =>
        /\ p.hardLeft <= HardTimeout
        /\ InClaim(p) => /\ Owns(p.message, p.attempt)
                         /\ leaseLeft[p.message] + HardTimeout >= p.hardLeft + LeaseDuration

LeaseCovers == \A c \in Children : Covered(child[c])

\* A row whose lease runs changes only when its holder settles.
LEMMA RowKept ==
    ASSUME TypeOK, NEW m \in Messages, NEW k, Owns(m, k), leaseLeft[m] > 0,
           \/ UNCHANGED outboxVars \/ Publish \/ Cancel \/ Replay \/ Claim \/ ClaimNothing
           \/ \E n \in Messages \ {m} : \E j, next, delay, out : Settle(n, j, next, delay, out)
    PROVE  Owns(m, k)' /\ leaseLeft'[m] = leaseLeft[m]
<1> USE DEF TypeOK, Owns
<1>1. CASE UNCHANGED outboxVars
  BY <1>1 DEF outboxVars
<1>2. CASE Publish
  BY <1>2 DEF Publish, PublishDomainEvent, EnqueueEventDelivery, InsertMessage
<1>3. CASE Cancel
  BY <1>3 DEF Cancel, CancelPendingEffect
<1>4. CASE Replay
  BY <1>4 DEF Replay, ReplayQuarantinedEffect
<1>5. CASE Claim
  BY <1>5 DEF Claim, ClaimNextEffect, Claimable, Ready, LeaseExpired
<1>6. CASE ClaimNothing
  BY <1>6 DEF ClaimNothing, QuarantineExhausted, Exhausted, LeaseExpired
<1>7. ASSUME NEW n \in Messages \ {m}, NEW j, NEW next, NEW delay, NEW out,
             Settle(n, j, next, delay, out)
      PROVE  Owns(m, k)' /\ leaseLeft'[m] = leaseLeft[m]
  BY <1>7 DEF Settle
<1> QED
  BY <1>1, <1>2, <1>3, <1>4, <1>5, <1>6, <1>7

\* The claim of the process c survives the step.
Survives(c) ==
    Supervised(c) /\ InClaim(child[c]) =>
        \A m, k : m = child[c].message /\ k = child[c].attempt =>
            Owns(m, k)' /\ leaseLeft'[m] = leaseLeft[m]

\* Every service call but the settlement of that very claim lets it survive.
LEMMA ClaimSurvives ==
    ASSUME HardTimeout < LeaseDuration, WInv, LeaseCovers, NEW c \in Children,
           \/ UNCHANGED outboxVars \/ Publish \/ Cancel \/ Replay \/ Claim \/ ClaimNothing
           \/ \E d \in Children \ {c} : \E next, delay, out :
                /\ child[d].pc = "settling"
                /\ Settle(child[d].message, child[d].attempt, next, delay, out)
    PROVE  Survives(c)
<1> SUFFICES ASSUME Supervised(c), InClaim(child[c]) PROVE Survives(c)
  BY DEF Survives
<1>1. PICK m \in Messages : m = child[c].message
  BY DEF WInv, ProcessesOK, Knows, Holds, InClaim
<1>2. PICK k : k = child[c].attempt
  OBVIOUS
<1>3. Owns(m, k) /\ leaseLeft[m] + HardTimeout >= child[c].hardLeft + LeaseDuration
  BY <1>1, <1>2 DEF LeaseCovers, Covered, Supervised, Alive
<1>4. leaseLeft[m] \in Nat /\ child[c].hardLeft \in Nat /\ LeaseDuration \in Nat /\ HardTimeout \in Nat
  BY ProcessFields, InputAssumption, WorkerOptionsAssumption DEF WInv, TypeOK
<1>5. leaseLeft[m] > 0
  BY <1>3, <1>4
<1>6. ASSUME NEW d \in Children \ {c}, child[d].pc = "settling", NEW next, NEW delay, NEW out,
             Settle(child[d].message, child[d].attempt, next, delay, out)
      PROVE  \E n \in Messages \ {m} : \E j, x, y, z : Settle(n, j, x, y, z)
  <2>1. child[d].message \in Messages
    BY <1>6 DEF WInv, ProcessesOK, Knows, Holds
  <2>2. ASSUME child[d].message = m PROVE FALSE
    <3>1. child[d].attempt = attemptCount[m]
      BY <1>6, <2>2 DEF Settle, Owns
    <3>2. child[c].attempt = attemptCount[m]
      BY <1>2, <1>3 DEF Owns
    <3> QED
      BY <1>1, <1>6, <2>2, <3>1, <3>2 DEF WInv, OneHolder, Holds, InClaim, SameClaim
  <2> QED
    BY <1>6, <2>1, <2>2
<1>7. Owns(m, k)' /\ leaseLeft'[m] = leaseLeft[m]
  BY <1>3, <1>5, <1>6, RowKept DEF WInv
<1> QED
  BY <1>1, <1>2, <1>7 DEF Survives

\* One process moves on and the claims of the others survive.
LEMMA CoverKept ==
    ASSUME WInv, LeaseCovers, NEW c \in Children, NEW p, child' = [child EXCEPT ![c] = p],
           Covered(p)', \A d \in Children \ {c} : Survives(d)
    PROVE  LeaseCovers'
<1>1. child'[c] = p /\ \A d \in Children \ {c} : child'[d] = child[d]
  BY DEF WInv, ProcessesOK
<1>2. \A d \in Children \ {c} : Covered(child[d])'
  BY <1>1 DEF LeaseCovers, Covered, Survives, Supervised, Alive, Owns
<1> QED
  BY <1>1, <1>2 DEF LeaseCovers, Covered, Owns

\* A process that keeps its claim and its timeout stays covered.
LEMMA StaysCovered ==
    ASSUME WInv, LeaseCovers, NEW c \in Children, Survives(c), NEW p,
           p.owner = child[c].owner, p.hardLeft = child[c].hardLeft,
           child[c].pc # "dead", SameClaim(p, child[c]), InClaim(p) => InClaim(child[c])
    PROVE  Covered(p)'
<1>1. Covered(child[c])
  BY DEF LeaseCovers
<1> QED
  BY <1>1 DEF Covered, Survives, Supervised, Alive, Owns, SameClaim, InClaim

\* A new claim has the whole lease ahead, and its process at most the hard
\* timeout.
LEMMA ClaimCovered ==
    ASSUME HardTimeout < LeaseDuration, WInv, LeaseCovers, NEW c \in Children, NEW m \in Messages,
           ChildClaims(c, m)
    PROVE  LeaseCovers'
<1>0. child[c] \in Process /\ child[c].hardLeft \in Nat /\ child \in [Children -> Process]
  BY ProcessFields DEF WInv, ProcessesOK
<1>1. PICK k : k = attemptCount[m] + 1
  OBVIOUS
<1>2. PICK p : p = [child[c] EXCEPT !.pc = "claimed", !.message = m, !.attempt = k,
                                    !.leaseLeft = LeaseDuration]
  OBVIOUS
<1>3. /\ p.message = m /\ p.attempt = k
      /\ p.owner = child[c].owner /\ p.hardLeft = child[c].hardLeft
  BY <1>0, <1>2 DEF Process
<1>4. child' = [child EXCEPT ![c] = p]
  BY <1>0, <1>1, <1>2 DEF ChildClaims
<1>5. Owns(m, k)' /\ leaseLeft'[m] = LeaseDuration
  BY <1>1 DEF ChildClaims, ClaimNextEffect, Owns, WInv, TypeOK
<1>6. p.owner # Nobody => p.hardLeft <= HardTimeout
  BY <1>3 DEF LeaseCovers, Covered, ChildClaims
<1>7. Covered(p)'
  <2>1. LeaseDuration \in Nat /\ HardTimeout \in Nat
    BY InputAssumption, WorkerOptionsAssumption
  <2> QED
    BY <1>0, <1>3, <1>5, <1>6, <2>1 DEF Covered, Owns
<1>8. \A d \in Children : Survives(d)
  BY ClaimSurvives DEF ChildClaims, Claim
<1> QED
  BY <1>4, <1>7, <1>8, CoverKept

\* The clock takes as much from the lease as from the hard timeout, and stops
\* while a kill is due.
LEMMA TickCovered ==
    ASSUME WInv, LeaseCovers, WorkerTick
    PROVE  LeaseCovers'
<1> SUFFICES ASSUME NEW c \in Children PROVE Covered(child[c])'
  BY DEF LeaseCovers
<1>0. child[c] \in Process /\ child[c].hardLeft \in Nat /\ Covered(child[c])
  BY ProcessFields DEF LeaseCovers
<1>1. child'[c] = [child[c] EXCEPT !.leaseLeft = Decrement(@), !.deadline = Decrement(@),
                                   !.hardLeft = Decrement(@)]
  BY DEF WorkerTick
<1>2. /\ child'[c].pc = child[c].pc /\ child'[c].owner = child[c].owner
      /\ child'[c].message = child[c].message /\ child'[c].attempt = child[c].attempt
      /\ child'[c].hardLeft = Decrement(child[c].hardLeft)
  BY <1>0, <1>1 DEF Process
<1>3. child[c].pc # "dead" /\ child[c].owner # Nobody => child[c].hardLeft > 0
  BY DEF WorkerTick, Supervised, Alive
<1>4. UNCHANGED <<status, leaseToken, attemptCount>>
  BY DEF WorkerTick, Tick
<1>5. ASSUME InClaim(child[c])
      PROVE  /\ child[c].message \in Messages /\ leaseLeft[child[c].message] \in Nat
             /\ leaseLeft'[child[c].message] = Decrement(leaseLeft[child[c].message])
  BY <1>5 DEF WInv, ProcessesOK, Knows, Holds, InClaim, TypeOK, WorkerTick, Tick
<1>6. LeaseDuration \in Nat /\ HardTimeout \in Nat
  BY InputAssumption, WorkerOptionsAssumption
<1>7. InClaim(child[c])' <=> InClaim(child[c])
  BY <1>2 DEF InClaim
<1> SUFFICES ASSUME child[c].pc # "dead", child[c].owner # Nobody
             PROVE  /\ child'[c].hardLeft <= HardTimeout
                    /\ InClaim(child[c]) =>
                        /\ Owns(child[c].message, child[c].attempt)'
                        /\ leaseLeft'[child[c].message] + HardTimeout
                                >= child'[c].hardLeft + LeaseDuration
  BY <1>2, <1>7 DEF Covered
<1>8. child'[c].hardLeft = child[c].hardLeft - 1
  BY <1>0, <1>2, <1>3 DEF Decrement
<1>9. child[c].hardLeft <= HardTimeout
  BY <1>0 DEF Covered
<1>10. ASSUME InClaim(child[c])
       PROVE  leaseLeft'[child[c].message] + HardTimeout >= child'[c].hardLeft + LeaseDuration
  <2>1. leaseLeft[child[c].message] + HardTimeout >= child[c].hardLeft + LeaseDuration
    BY <1>0, <1>10 DEF Covered
  <2>2. leaseLeft'[child[c].message] >= leaseLeft[child[c].message] - 1
    BY <1>5, <1>10 DEF Decrement
  <2>3. leaseLeft'[child[c].message] \in Nat
    BY <1>5, <1>10 DEF Decrement
  <2> QED
    BY <1>0, <1>5, <1>6, <1>8, <1>10, <2>1, <2>2, <2>3
<1>11. InClaim(child[c]) => Owns(child[c].message, child[c].attempt)'
  BY <1>0, <1>2, <1>4 DEF Covered, Owns
<1> QED
  BY <1>0, <1>6, <1>8, <1>9, <1>10, <1>11

\* Every step keeps the leases ahead of the hard timeouts.
LEMMA CoverStep ==
    ASSUME HardTimeout < LeaseDuration, WInv, LeaseCovers, [WorkerNext]_workerVars
    PROVE  LeaseCovers'
<1>0. /\ child \in [Children -> Process] /\ \A c \in Children : child[c] \in Process
      /\ HardTimeout \in Nat
  BY WorkerOptionsAssumption DEF WInv, ProcessesOK
<1>1. CASE UNCHANGED outboxVars \/ Outside
  <2>1. \A d \in Children : Survives(d)
    BY <1>1, ClaimSurvives DEF Outside
  <2>2. ASSUME NEW c \in Children, NEW p, child' = [child EXCEPT ![c] = p], Covered(p)'
        PROVE  LeaseCovers'
    BY <2>1, <2>2, CoverKept
  <2>3. ASSUME NEW c \in Children, Alive(c), NEW p, child' = [child EXCEPT ![c] = p],
               p.owner = child[c].owner, p.hardLeft = child[c].hardLeft,
               SameClaim(p, child[c]), InClaim(p) => InClaim(child[c])
        PROVE  LeaseCovers'
    BY <2>1, <2>2, <2>3, StaysCovered DEF Alive
  <2>4. ASSUME NEW c \in Children, Exit(c) PROVE LeaseCovers'
    <3>1. Covered(Dead)'
      BY DEF Covered, Dead
    <3> QED
      BY <2>2, <2>4, <3>1 DEF Exit
  <2>5. CASE Launch
    <3> PICK w \in Supervisors, c \in Children, t \in Tenants : LaunchChild(w, c, t)
      BY <2>5 DEF Launch
    <3> DEFINE p == [Dead EXCEPT !.pc = "launched", !.owner = w, !.tenant = t,
                                 !.hardLeft = HardTimeout]
    <3>1. p.pc = "launched" /\ p.hardLeft = HardTimeout
      BY DEF Dead
    <3>2. child' = [child EXCEPT ![c] = p]
      BY DEF LaunchChild
    <3> HIDE DEF p
    <3>3. Covered(p)'
      BY <1>0, <3>1 DEF Covered, InClaim
    <3> QED
      BY <2>2, <3>2, <3>3
  <2>6. ASSUME NEW w \in Supervisors, SupervisorCrashes(w) PROVE LeaseCovers'
    <3>1. PICK c \in Children : child' = [child EXCEPT ![c].owner = Nobody, ![c].hardLeft = 0]
      BY <2>6 DEF SupervisorCrashes
    <3>2. PICK p : p = [child[c] EXCEPT !.owner = Nobody, !.hardLeft = 0]
      OBVIOUS
    <3>3. p.owner = Nobody /\ child' = [child EXCEPT ![c] = p]
      BY <1>0, <3>1, <3>2 DEF Process
    <3>4. Covered(p)'
      BY <3>3 DEF Covered
    <3> QED
      BY <2>2, <3>3, <3>4
  <2>7. ASSUME NEW c \in Children, Alive(c), NEW v,
               child' = [child EXCEPT ![c].pc = "settling", ![c].verdict = v]
        PROVE  LeaseCovers'
    <3>1. PICK p : p = [child[c] EXCEPT !.pc = "settling", !.verdict = v]
      OBVIOUS
    <3>2. /\ p.pc = "settling" /\ p.owner = child[c].owner /\ p.hardLeft = child[c].hardLeft
          /\ p.message = child[c].message /\ p.attempt = child[c].attempt
      BY <1>0, <3>1 DEF Process
    <3>3. child' = [child EXCEPT ![c] = p]
      BY <1>0, <2>7, <3>1
    <3> QED
      BY <2>3, <2>7, <3>2, <3>3 DEF InClaim, SameClaim
  <2>8. ASSUME NEW c \in Children, ChildStartsHandler(c) PROVE LeaseCovers'
    <3>1. PICK n : child' = [child EXCEPT ![c].pc = "handling", ![c].deadline = n]
      BY <2>8 DEF ChildStartsHandler
    <3>2. PICK p : p = [child[c] EXCEPT !.pc = "handling", !.deadline = n]
      OBVIOUS
    <3>3. /\ p.pc = "handling" /\ p.owner = child[c].owner /\ p.hardLeft = child[c].hardLeft
          /\ p.message = child[c].message /\ p.attempt = child[c].attempt
      BY <1>0, <3>2 DEF Process
    <3>4. child' = [child EXCEPT ![c] = p]
      BY <1>0, <3>1, <3>2
    <3>5. child[c].pc = "claimed"
      BY <2>8 DEF ChildStartsHandler
    <3> QED
      BY <2>3, <3>3, <3>4, <3>5 DEF InClaim, SameClaim, Alive
  <2>9. ASSUME NEW c \in Children,
               \/ ChildRefuses(c) \/ HandlerReturns(c)
               \/ \E v \in {"transient", "permanent"} : HandlerRaises(c, v)
        PROVE  LeaseCovers'
    BY <2>7, <2>9 DEF ChildRefuses, HandlerReturns, HandlerRaises, Alive
  <2>10. CASE UNCHANGED child
    BY <2>1, <2>10 DEF LeaseCovers, Covered, Survives, Supervised, Alive, Owns
  <2>11. ASSUME NEW c \in Children,
               \/ HardKill(c) \/ ChildFindsNothing(c) \/ ChildLosesLease(c) \/ ChildSettles(c)
               \/ ChildSettlesTooLate(c) \/ ChildCrashes(c)
               \/ \E found \in SUBSET Exhausted(child[c].tenant) : ChildSkipsLocked(c, found)
        PROVE  LeaseCovers'
    BY <2>4, <2>11 DEF HardKill, ChildFindsNothing, ChildLosesLease, ChildSettles,
                      ChildSettlesTooLate, ChildCrashes, ChildSkipsLocked, Exit
  <2>12. CASE ClaimsOne
    BY <2>12, ClaimCovered DEF ClaimsOne
  <2>13. CASE WorkerTick
    BY <2>13, TickCovered
  <2> QED
    BY <2>5, <2>6, <2>8, <2>9, <2>10, <2>11, <2>12, <2>13 DEF WorkerNext, Outside, workerVars
<1>2. CASE ClaimsOne
  BY <1>2, ClaimCovered DEF ClaimsOne
<1>3. CASE WorkerTick
  BY <1>3, TickCovered
<1>4. ASSUME NEW c \in Children, Exit(c), \A d \in Children \ {c} : Survives(d)
      PROVE  LeaseCovers'
  <2>1. Covered(Dead)'
    BY DEF Covered, Dead
  <2> QED
    BY <1>4, <2>1, CoverKept DEF Exit
<1>5. ASSUME NEW c \in Children, NEW found \in SUBSET Exhausted(child[c].tenant),
             child[c].pc = "launched", QuarantineExhausted(child[c].tenant, found), Exit(c)
      PROVE  LeaseCovers'
  <2>1. ClaimNothing
    BY <1>5 DEF WInv, ProcessesOK, Knows, ClaimNothing
  <2>2. \A d \in Children : Survives(d)
    BY <2>1, ClaimSurvives
  <2> QED
    BY <1>4, <1>5, <2>2
<1>6. ASSUME NEW c \in Children, ChildSettles(c) PROVE LeaseCovers'
  <2>1. child[c].pc = "settling" /\ Exit(c)
    BY <1>6 DEF ChildSettles
  <2>2. child[c].verdict \in {"success", "transient", "permanent"}
    BY <1>0, <2>1 DEF WInv, ProcessesOK, Knows, Process
  <2>3. \E next, delay, out : Settle(child[c].message, child[c].attempt, next, delay, out)
    BY <1>6, <2>2 DEF ChildSettles, FinishEffectSuccess, FinishEffectTransientFailure,
                      FinishEffectPermanentFailure
  <2>4. \A d \in Children \ {c} : Survives(d)
    BY <2>1, <2>3, ClaimSurvives
  <2> QED
    BY <1>4, <2>1, <2>4
<1>7. ASSUME NEW c \in Children,
             \/ ChildFindsNothing(c)
             \/ \E found \in SUBSET Exhausted(child[c].tenant) : ChildSkipsLocked(c, found)
      PROVE  LeaseCovers'
  BY <1>5, <1>7 DEF ChildFindsNothing, ChildSkipsLocked
<1> QED
  BY <1>1, <1>2, <1>3, <1>6, <1>7
  DEF WorkerNext, workerVars, Launch, LaunchChild, SupervisorCrashes, HardKill, ChildLosesLease,
      ChildRefuses, ChildStartsHandler, HandlerReturns, HandlerRaises, ChildSettlesTooLate,
      ChildCrashes

\* While a supervised handler runs its lease is not over and nobody else has
\* the delivery, for all timeouts with hard_timeout < lease_duration and any
\* number of supervisors, orphans and crashes.
THEOREM HardTimeoutKeepsLease ==
    HardTimeout < LeaseDuration => (WorkerSpec => []SupervisedKeepsLease)
<1> SUFFICES ASSUME HardTimeout < LeaseDuration PROVE WorkerSpec => []SupervisedKeepsLease
  OBVIOUS
<1>1. WorkerInit => LeaseCovers
  <2> SUFFICES ASSUME WorkerInit PROVE LeaseCovers
    OBVIOUS
  <2>1. \A c \in Children : child[c].pc = "dead"
    BY DEF WorkerInit, Dead
  <2> QED
    BY <2>1 DEF LeaseCovers, Covered
<1>2. WInv /\ LeaseCovers /\ [WorkerNext]_workerVars => LeaseCovers'
  BY CoverStep
<1>3. WInv /\ LeaseCovers => SupervisedKeepsLease
  <2> SUFFICES ASSUME WInv, LeaseCovers, NEW c \in Children, Supervised(c),
                      child[c].pc = "handling"
               PROVE  /\ Owns(child[c].message, child[c].attempt)
                      /\ leaseLeft[child[c].message] > 0
    BY DEF SupervisedKeepsLease
  <2>1. /\ Owns(child[c].message, child[c].attempt)
        /\ leaseLeft[child[c].message] + HardTimeout >= child[c].hardLeft + LeaseDuration
    BY DEF LeaseCovers, Covered, Supervised, Alive, InClaim
  <2>2. child[c].message \in Messages
    BY DEF WInv, ProcessesOK, Knows, Holds
  <2>3. leaseLeft[child[c].message] \in Nat /\ child[c].hardLeft \in Nat
    BY <2>2, ProcessFields DEF WInv, TypeOK
  <2> QED
    BY <2>1, <2>3, InputAssumption, WorkerOptionsAssumption
<1> QED
  BY <1>1, <1>2, <1>3, WorkerInvariance, PTL DEF WorkerSpec
=============================================================================
