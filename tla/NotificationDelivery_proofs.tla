-------------------- MODULE NotificationDelivery_proofs --------------------
(***************************************************************************)
(* Proofs about NotificationDelivery for every finite set of invocations   *)
(* of the handler.                                                         *)
(***************************************************************************)
EXTENDS NotificationDelivery, FiniteSetTheorems, TLAPS

-----------------------------------------------------------------------------
(* The inductive invariant *)

Statuses == {"absent", "pending", "succeeded", "suppressed", "permanent_failed"}
Labels == {"waiting", "entered", "sending", "accepted", "refused", "ended"}

TypeOK ==
    /\ pc \in [Handlers -> Labels]
    /\ message \in {"absent", "unread", "read"}
    /\ delivery \in Statuses
    /\ attempts \in Nat /\ emails \in Nat
    /\ enabled \in BOOLEAN /\ supervised \in BOOLEAN

Sending == {h \in Handlers : pc[h] = "sending"}

\* A handler that runs has its message, and one whose email was accepted has
\* sent it.
RunningHasMessage ==
    \A h \in Handlers :
        /\ h \in Running => message # "absent"
        /\ pc[h] = "accepted" => emails > 0

\* A supervised handler runs alone, and once the delivery is settled it has
\* nothing left to send or to record.
SupervisedRunsAlone ==
    supervised =>
        /\ \A g, h \in Running : g = h
        /\ Settled => \A h \in Handlers : pc[h] \notin {"sending", "accepted", "refused"}

IInv == TypeOK /\ SendsAreCounted /\ RunningHasMessage /\ SucceededWasEmailed /\ SupervisedRunsAlone

\* Nothing has happened yet.
LEMMA InitIInv == NotificationInit => IInv
<1> SUFFICES ASSUME NotificationInit PROVE IInv
  OBVIOUS
<1> USE DEF NotificationInit
<1>1. TypeOK
  BY DEF TypeOK, Statuses, Labels
<1>2. SendsAreCounted
  <2>1. {h \in Handlers : pc[h] = "sending"} = {}
    OBVIOUS
  <2> QED
    BY <2>1, FS_EmptySet DEF SendsAreCounted
<1>3. RunningHasMessage /\ SucceededWasEmailed /\ SupervisedRunsAlone
  BY DEF RunningHasMessage, SucceededWasEmailed, SupervisedRunsAlone, Running, Settled
<1> QED
  BY <1>1, <1>2, <1>3 DEF IInv

\* The invocations that are sending after one of them has moved.
LEMMA SendingMoves ==
    ASSUME TypeOK, NEW h \in Handlers, NEW l \in Labels, Goto(h, l)
    PROVE  /\ Cardinality(Sending) \in Nat /\ Cardinality(Sending') \in Nat
           /\ l # "sending" => Cardinality(Sending') <= Cardinality(Sending)
           /\ l # "sending" /\ pc[h] = "sending" => Cardinality(Sending') = Cardinality(Sending) - 1
           /\ Cardinality(Sending') <= Cardinality(Sending) + 1
<1>0. pc'[h] = l /\ \A g \in Handlers : g # h => pc'[g] = pc[g]
  BY DEF TypeOK, Goto
<1>1. IsFiniteSet(Sending) /\ IsFiniteSet(Sending')
  BY HandlerAssumption, FS_Subset DEF Sending
<1>2. Cardinality(Sending) \in Nat /\ Cardinality(Sending') \in Nat
  BY <1>1, FS_CardinalityType
<1>3. ASSUME l # "sending"
      PROVE  /\ Cardinality(Sending') <= Cardinality(Sending)
             /\ pc[h] = "sending" => Cardinality(Sending') = Cardinality(Sending) - 1
  <2>1. Sending' = Sending \ {h} /\ (pc[h] = "sending" <=> h \in Sending)
    BY <1>0, <1>3 DEF Sending
  <2>2. Cardinality(Sending') = IF h \in Sending THEN Cardinality(Sending) - 1 ELSE Cardinality(Sending)
    BY <1>1, <2>1, FS_RemoveElement
  <2> QED
    BY <1>2, <2>1, <2>2
<1>4. CASE l = "sending"
  <2>1. Sending' = Sending \union {h}
    BY <1>0, <1>4 DEF Sending
  <2>2. Cardinality(Sending') = IF h \in Sending THEN Cardinality(Sending) ELSE Cardinality(Sending) + 1
    BY <1>1, <2>1, FS_AddElement
  <2> QED
    BY <1>2, <1>4, <2>2
<1> QED
  BY <1>2, <1>3, <1>4

\* Every step of an invocation, a reader or the account keeps the invariant.
LEMMA NextIInv == IInv /\ [NotificationNext]_notificationVars => IInv'
<1> SUFFICES ASSUME IInv, [NotificationNext]_notificationVars PROVE IInv'
  OBVIOUS
<1>0. CASE \/ MarkMessageRead \/ ChangePreference \/ UNCHANGED notificationVars
  <2>1. UNCHANGED <<pc, delivery, attempts, emails, supervised>>
    BY <1>0 DEF MarkMessageRead, ChangePreference, notificationVars
  <2>2. TypeOK' /\ (message # "absent" => message' # "absent")
    BY <1>0 DEF MarkMessageRead, ChangePreference, notificationVars, IInv, TypeOK
  <2>3. SendsAreCounted'
    BY <2>1 DEF IInv, SendsAreCounted
  <2> QED
    BY <2>1, <2>2, <2>3 DEF IInv, RunningHasMessage, SucceededWasEmailed, SupervisedRunsAlone,
                            Running, Settled
<1>1. ASSUME NEW h \in Handlers, 
             \/ EnterHandler(h) \/ RejectHandler(h) \/ SkipSettled(h) \/ SuppressDelivery(h)
             \/ BeginDelivery(h) \/ ProviderAccepts(h) \/ ProviderRefuses(h) \/ ProviderFails(h)
             \/ RecordSuccess(h) \/ RecordRefusal(h) \/ HandlerCrashes(h)
      PROVE  IInv'
  <2> USE <1>1 DEF EnterHandler, RejectHandler, SkipSettled, SuppressDelivery, BeginDelivery,
                   ProviderAccepts, ProviderRefuses, ProviderFails, RecordSuccess,
                   RecordRefusal, HandlerCrashes
  <2>1. PICK l \in Labels \ {"waiting"} : Goto(h, l)
    BY DEF Labels
  <2>2. pc'[h] = l /\ \A g \in Handlers : g # h => pc'[g] = pc[g]
    BY <2>1 DEF IInv, TypeOK, Goto
  <2>3. TypeOK'
    <3>1. pc' \in [Handlers -> Labels]
      BY <2>1 DEF Goto, IInv, TypeOK
    <3>2. attempts' \in Nat /\ emails' \in Nat
      BY DEF IInv, TypeOK
    <3>3. message' \in {"absent", "unread", "read"} /\ delivery' \in Statuses
      BY DEF IInv, TypeOK, Statuses
    <3> QED
      BY <3>1, <3>2, <3>3 DEF IInv, TypeOK
  <2>4. SendsAreCounted'
    <3>0. /\ attempts \in Nat /\ emails \in Nat /\ emails + Cardinality(Sending) <= attempts
      BY DEF IInv, TypeOK, SendsAreCounted, Sending
    <3>1. /\ Cardinality(Sending) \in Nat /\ Cardinality(Sending') \in Nat
          /\ l # "sending" => Cardinality(Sending') <= Cardinality(Sending)
          /\ l # "sending" /\ pc[h] = "sending" => Cardinality(Sending') = Cardinality(Sending) - 1
          /\ Cardinality(Sending') <= Cardinality(Sending) + 1
      BY <2>1, SendingMoves DEF IInv
    <3>2. \/ l = "sending" /\ attempts' = attempts + 1 /\ emails' = emails
          \/ /\ l # "sending" /\ pc[h] = "sending" /\ attempts' = attempts
             /\ emails' \in {emails, emails + 1}
          \/ l # "sending" /\ attempts' \in {attempts, attempts + 1} /\ emails' = emails
      <4>1. CASE BeginDelivery(h)
        BY <2>2, <4>1 DEF Goto, IInv, TypeOK
      <4>2. CASE ProviderAccepts(h) \/ ProviderFails(h)
        BY <2>2, <3>0, <4>2 DEF Goto, IInv, TypeOK
      <4>3. CASE ~ BeginDelivery(h) /\ ~ ProviderAccepts(h) /\ ~ ProviderFails(h)
        BY <2>2, <4>3 DEF Goto, IInv, TypeOK
      <4> QED
        BY <4>1, <4>2, <4>3
    <3>3. emails' + Cardinality(Sending') <= attempts'
      BY <3>0, <3>1, <3>2
    <3> QED
      BY <3>3 DEF SendsAreCounted, Sending
  <2>5. message' # "absent" \/ message' = message
    OBVIOUS
  <2>6. emails' >= emails /\ emails \in Nat
    BY <2>3 DEF IInv, TypeOK
  <2>7. RunningHasMessage'
    <3>1. h \in Running' => message' # "absent"
      <4>1. CASE EnterHandler(h)
        BY <4>1 DEF IInv, TypeOK
      <4>2. CASE RejectHandler(h)
        BY <4>2, <2>2 DEF IInv, TypeOK, Goto, Running
      <4>3. CASE ~ EnterHandler(h) /\ ~ RejectHandler(h)
        BY <4>3, <2>5 DEF IInv, RunningHasMessage, Running
      <4> QED
        BY <4>1, <4>2, <4>3
    <3>2. pc'[h] = "accepted" => emails' > 0
      BY <2>2, <2>6 DEF IInv, TypeOK, Goto
    <3>3. \A g \in Handlers : g # h => /\ g \in Running' => message' # "absent"
                                       /\ pc'[g] = "accepted" => emails' > 0
      <4> SUFFICES ASSUME NEW g \in Handlers, g # h
                   PROVE  /\ g \in Running' => message' # "absent"
                          /\ pc'[g] = "accepted" => emails' > 0
        OBVIOUS
      <4>1. pc'[g] = pc[g]
        BY <2>2
      <4>2. g \in Running' => g \in Running
        BY <4>1 DEF Running
      <4>3. g \in Running' => message' # "absent"
        BY <2>5, <4>2 DEF IInv, RunningHasMessage
      <4>4. pc[g] = "accepted" => emails > 0
        BY DEF IInv, RunningHasMessage
      <4>5. pc'[g] = "accepted" => emails' > 0
        BY <2>3, <2>6, <4>1, <4>4 DEF TypeOK
      <4> QED
        BY <4>3, <4>5
    <3> QED
      BY <3>1, <3>2, <3>3 DEF RunningHasMessage
  <2>8. SucceededWasEmailed'
    <3>1. CASE RecordSuccess(h)
      BY <3>1 DEF IInv, RunningHasMessage, SucceededWasEmailed, Running
    <3>2. CASE ~ RecordSuccess(h)
      <4>1. delivery' = "succeeded" => delivery = "succeeded"
        BY <3>2 DEF IInv, TypeOK
      <4> QED
        BY <2>3, <2>5, <2>6, <4>1 DEF IInv, SucceededWasEmailed, TypeOK
    <3> QED
      BY <3>1, <3>2
  <2>9. SupervisedRunsAlone'
    <3> SUFFICES ASSUME supervised
                 PROVE  /\ \A g, k \in Running' : g = k
                        /\ Settled' => \A g \in Handlers : pc'[g] \notin {"sending", "accepted", "refused"}
      BY DEF SupervisedRunsAlone
    <3>1. \A g, k \in Running : g = k
      BY DEF IInv, SupervisedRunsAlone
    <3>2. EnterHandler(h) \/ RejectHandler(h) => Running = {}
      BY DEF MayEnter
    <3>3. ~ EnterHandler(h) /\ ~ RejectHandler(h) => h \in Running
      BY DEF Running
    <3>4. Running' \subseteq Running \union {h}
      BY <2>2 DEF Running
    <3>5. Running' \subseteq {h}
      BY <3>1, <3>2, <3>3, <3>4
    <3>6. Settled' => pc'[h] \notin {"sending", "accepted", "refused"}
      <4>1. CASE delivery' = delivery
        BY <2>2, <4>1 DEF IInv, SupervisedRunsAlone, Settled, Goto, TypeOK
      <4>2. CASE delivery' # delivery
        BY <2>2, <4>2 DEF Settled, Goto, IInv, TypeOK
      <4> QED
        BY <4>1, <4>2
    <3> QED
      BY <3>5, <3>6 DEF Running
  <2> QED
    BY <2>3, <2>4, <2>7, <2>8, <2>9 DEF IInv
<1> QED
  BY <1>0, <1>1 DEF NotificationNext

\* The inductive invariant holds in every behaviour.
LEMMA Inductive == NotificationSpec => []IInv
BY InitIInv, NextIInv, PTL DEF NotificationSpec

-----------------------------------------------------------------------------
(* The theorems *)

\* No email leaves without having been counted, however many invocations
\* overlap and wherever they die.
THEOREM EverySendIsCounted == NotificationSpec => []SendsAreCounted
<1>1. IInv => SendsAreCounted
  BY DEF IInv
<1> QED
  BY <1>1, Inductive, PTL

\* What is recorded as succeeded has been handed to the provider, and its inbox
\* message exists.
THEOREM SuccessMeansEmailed == NotificationSpec => []SucceededWasEmailed
<1>1. IInv => SucceededWasEmailed
  BY DEF IInv
<1> QED
  BY <1>1, Inductive, PTL

\* Under a supervised worker, retries and replays leave a settled delivery
\* alone: no status changes and no further email is sent.
THEOREM SettledStaysQuiet == NotificationSpec => SettledDeliveryIsQuiet
<1>1. IInv /\ [NotificationNext]_notificationVars
        => [supervised /\ delivery \in {"succeeded", "suppressed"} =>
                UNCHANGED <<delivery, emails>>]_notificationVars
  <2> SUFFICES ASSUME IInv, NotificationNext, supervised, Settled
               PROVE  UNCHANGED <<delivery, emails>>
    BY DEF Settled
  <2>1. \A h \in Handlers : pc[h] \notin {"sending", "accepted", "refused"}
    BY DEF IInv, SupervisedRunsAlone
  <2> QED
    BY <2>1 DEF NotificationNext, MarkMessageRead, ChangePreference, EnterHandler, RejectHandler,
                SkipSettled, SuppressDelivery, BeginDelivery, ProviderAccepts, ProviderRefuses,
                ProviderFails, RecordSuccess, RecordRefusal, HandlerCrashes
<1> QED
  BY <1>1, Inductive, PTL DEF NotificationSpec, SettledDeliveryIsQuiet
=============================================================================
