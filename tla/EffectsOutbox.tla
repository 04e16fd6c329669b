---------------------------- MODULE EffectsOutbox ----------------------------
(***************************************************************************)
(* The transactional outbox of maru.effects: what the service functions of *)
(* effects/services.py do to the OutboxMessage rows, the append-only       *)
(* EffectAttempt ledger and the EffectReplayReceipt rows.                  *)
(*                                                                         *)
(* Every service function is one database transaction that locks the row   *)
(* it changes, so each is one atomic action.  Time is kept as count-down   *)
(* timers: availableIn[m] is how long until available_at, leaseLeft[m] how *)
(* long until lease_expires_at, both 0 once the instant has passed; Tick   *)
(* is the passing of one unit of time.  A lease token (uuid4, fresh at     *)
(* every claim) is named by the attempt number it was issued for, 0 is     *)
(* NULL.  The model is of one workload pool: every query filters on the    *)
(* pool and the routing envelope of a row never changes.                   *)
(***************************************************************************)
EXTENDS Integers, FiniteSets

CONSTANTS
    Messages,                 \* OutboxMessage rows, one per (event, destination)
    Tenants,                  \* organizations
    EventOf,                  \* message -> its DomainEvent
    TenantOf,                 \* message -> organization_id
    Budgets,                  \* max_attempts values given at publication
    LeaseDuration,            \* lease_duration of a claim, in time units
    RetryDelays,              \* retry_after values handlers ask for
    ReplayGrants,             \* additional_attempts values operators ask for
    MAX_EFFECT_TOTAL_ATTEMPTS,
    MAX_EFFECT_REPLAY_ADDITIONAL_ATTEMPTS

ASSUME CeilingAssumption ==
    /\ MAX_EFFECT_TOTAL_ATTEMPTS \in Nat \ {0}
    /\ MAX_EFFECT_REPLAY_ADDITIONAL_ATTEMPTS \in Nat
ASSUME RoutingAssumption ==
    /\ TenantOf \in [Messages -> Tenants]
    /\ \A m, o \in Messages : EventOf[m] = EventOf[o] => TenantOf[m] = TenantOf[o]
ASSUME InputAssumption ==
    /\ Budgets \subseteq Int
    /\ LeaseDuration \in Nat \ {0}
    /\ RetryDelays \subseteq Nat
    /\ ReplayGrants \subseteq Int

VARIABLES
    status,        \* OutboxMessage.status, "absent" before the row exists
    availableIn,   \* available_at as a count-down
    leaseLeft,     \* lease_expires_at as a count-down
    leaseToken,    \* lease_token
    attemptCount,  \* attempt_count
    maxAttempts,   \* max_attempts
    replayCount,   \* replay_count
    ledger,        \* EffectAttempt rows
    receipts       \* EffectReplayReceipt rows

rowVars == <<status, availableIn, leaseLeft, leaseToken, attemptCount>>
policyVars == <<maxAttempts, replayCount, receipts>>
outboxVars == <<status, availableIn, leaseLeft, leaseToken, attemptCount,
                maxAttempts, replayCount, ledger, receipts>>

Status == {"absent", "pending", "processing", "succeeded", "quarantined", "cancelled"}
Outcome == {"succeeded", "transient_failure", "permanent_failure", "exhausted"}
Attempt == [message : Messages, number : Nat, outcome : Outcome]
Receipt == [message : Messages, replay : Nat, previousMax : Nat, newMax : Nat]

Init ==
    /\ status = [m \in Messages |-> "absent"]
    /\ availableIn = [m \in Messages |-> 0]
    /\ leaseLeft = [m \in Messages |-> 0]
    /\ leaseToken = [m \in Messages |-> 0]
    /\ attemptCount = [m \in Messages |-> 0]
    /\ maxAttempts = [m \in Messages |-> 0]
    /\ replayCount = [m \in Messages |-> 0]
    /\ ledger = {}
    /\ receipts = {}

-----------------------------------------------------------------------------
(* Publication *)

\* Variant: no ceiling on the budget of a new row.
PositiveBudget(budget) == budget >= 1

\* _validate_effect_attempt_budget
ValidBudget(budget) == budget \in 1 .. MAX_EFFECT_TOTAL_ATTEMPTS

\* The row that OutboxMessage.objects.create inserts.
InsertMessage(m, budget) ==
    /\ ValidBudget(budget)
    /\ status[m] = "absent"
    /\ status' = [status EXCEPT ![m] = "pending"]
    /\ availableIn' = [availableIn EXCEPT ![m] = 0]
    /\ maxAttempts' = [maxAttempts EXCEPT ![m] = budget]
    /\ UNCHANGED <<leaseLeft, leaseToken, attemptCount, replayCount, ledger, receipts>>

EventExists(e) == \E o \in Messages : EventOf[o] = e /\ status[o] # "absent"

\* The event and its first delivery are inserted by one transaction.
PublishDomainEvent(m, budget) ==
    /\ ~ EventExists(EventOf[m])
    /\ InsertMessage(m, budget)

\* A further destination of an event that is already persisted.
EnqueueEventDelivery(m, budget) ==
    /\ EventExists(EventOf[m])
    /\ InsertMessage(m, budget)

-----------------------------------------------------------------------------
(* Claiming *)

\* Variant: a running lease counts as expired.
LeaseHeld(m) == status[m] = "processing"

LeaseExpired(m) == status[m] = "processing" /\ leaseLeft[m] = 0
Ready(m) == status[m] = "pending" /\ availableIn[m] = 0

Claimable(m) ==
    /\ Ready(m) \/ LeaseExpired(m)
    /\ attemptCount[m] < maxAttempts[m]

Candidates(t) == {m \in Messages : TenantOf[m] = t /\ Claimable(m)}

\* Variant: spent rows are left as they are.
NoneExhausted(t) == {}

\* Rows a claim by tenant t that finds no candidate quarantines.
Exhausted(t) ==
    {m \in Messages : /\ TenantOf[m] = t
                      /\ LeaseExpired(m)
                      /\ attemptCount[m] >= maxAttempts[m]}

Record(m, n, out) == [message |-> m, number |-> n, outcome |-> out]

\* Variant: a takeover that leaves no trace of the lease it ends.
LostAttemptForgotten(m) == {}

\* The EffectAttempt row a claim writes for the lease it takes over.
LostAttempt(m) ==
    IF status[m] = "processing"
    THEN {Record(m, attemptCount[m], "transient_failure")}
    ELSE {}

\* claim_next_effect returns a claim on m.  The query takes the oldest
\* unlocked candidate; SKIP LOCKED passes over rows that concurrent
\* transactions hold, so any candidate may be the one that is returned.
ClaimNextEffect(m) ==
    /\ Claimable(m)
    /\ ledger' = ledger \union LostAttempt(m)
    /\ status' = [status EXCEPT ![m] = "processing"]
    /\ leaseLeft' = [leaseLeft EXCEPT ![m] = LeaseDuration]
    /\ leaseToken' = [leaseToken EXCEPT ![m] = attemptCount[m] + 1]
    /\ attemptCount' = [attemptCount EXCEPT ![m] = @ + 1]
    /\ UNCHANGED <<availableIn, policyVars>>

\* claim_next_effect finds no candidate: _quarantine_exhausted closes the
\* spent rows found unlocked.  Candidates that other transactions hold are
\* invisible to the query, so this may happen while there are some.
QuarantineExhausted(t, found) ==
    /\ found \subseteq Exhausted(t)
    /\ status' = [m \in Messages |-> IF m \in found THEN "quarantined" ELSE status[m]]
    /\ leaseLeft' = [m \in Messages |-> IF m \in found THEN 0 ELSE leaseLeft[m]]
    /\ leaseToken' = [m \in Messages |-> IF m \in found THEN 0 ELSE leaseToken[m]]
    /\ ledger' = ledger \union {Record(m, attemptCount[m], "exhausted") : m \in found}
    /\ UNCHANGED <<availableIn, attemptCount, policyVars>>

-----------------------------------------------------------------------------
(* Settling a claim.  k is the attempt number, and so the token, of the    *)
(* ClaimedEffect that the caller holds.                                    *)

\* Variant: any holder of any claim on a processing row may settle it.
OwnsByStatus(m, k) == status[m] = "processing"

\* _locked_claim: the claim still owns the row, however late it is.
Owns(m, k) ==
    /\ status[m] = "processing"
    /\ leaseToken[m] = k
    /\ attemptCount[m] = k

\* What the three finish_effect functions share.
Settle(m, k, next, delay, out) ==
    /\ Owns(m, k)
    /\ status' = [status EXCEPT ![m] = next]
    /\ availableIn' = [availableIn EXCEPT ![m] = delay]
    /\ leaseLeft' = [leaseLeft EXCEPT ![m] = 0]
    /\ leaseToken' = [leaseToken EXCEPT ![m] = 0]
    /\ ledger' = ledger \union {Record(m, k, out)}
    /\ UNCHANGED <<attemptCount, policyVars>>

FinishEffectSuccess(m, k) ==
    Settle(m, k, "succeeded", availableIn[m], "succeeded")

\* Variant: the budget is compared with the attempts after this one.
FinishTransientOneTooMany(m, k, delay) ==
    IF attemptCount[m] > maxAttempts[m]
    THEN Settle(m, k, "quarantined", delay, "exhausted")
    ELSE Settle(m, k, "pending", delay, "transient_failure")

FinishEffectTransientFailure(m, k, delay) ==
    IF attemptCount[m] >= maxAttempts[m]
    THEN Settle(m, k, "quarantined", delay, "exhausted")
    ELSE Settle(m, k, "pending", delay, "transient_failure")

FinishEffectPermanentFailure(m, k) ==
    Settle(m, k, "quarantined", availableIn[m], "permanent_failure")

-----------------------------------------------------------------------------
(* Operators *)

\* Raises for processing rows and ignores every other row but a pending one.
CancelPendingEffect(m) ==
    /\ status[m] = "pending"
    /\ status' = [status EXCEPT ![m] = "cancelled"]
    /\ UNCHANGED <<availableIn, leaseLeft, leaseToken, attemptCount, ledger, policyVars>>

\* Variant: the sequence number of the replay is not advanced.
NextReplayStuck(m) == replayCount[m]

NextReplay(m) == replayCount[m] + 1

ReplayQuarantinedEffect(m, grant) ==
    /\ grant \in 1 .. MAX_EFFECT_REPLAY_ADDITIONAL_ATTEMPTS
    /\ status[m] = "quarantined"
    /\ maxAttempts[m] + grant <= MAX_EFFECT_TOTAL_ATTEMPTS
    /\ receipts' = receipts \union
            {[message |-> m, replay |-> NextReplay(m),
              previousMax |-> maxAttempts[m], newMax |-> maxAttempts[m] + grant]}
    /\ maxAttempts' = [maxAttempts EXCEPT ![m] = @ + grant]
    /\ status' = [status EXCEPT ![m] = "pending"]
    /\ availableIn' = [availableIn EXCEPT ![m] = 0]
    /\ replayCount' = [replayCount EXCEPT ![m] = NextReplay(m)]
    /\ UNCHANGED <<leaseLeft, leaseToken, attemptCount, ledger>>

\* timezone.now() moves on by one unit.
Decrement(n) == IF n = 0 THEN 0 ELSE n - 1
Tick ==
    /\ availableIn' = [m \in Messages |-> Decrement(availableIn[m])]
    /\ leaseLeft' = [m \in Messages |-> Decrement(leaseLeft[m])]
    /\ UNCHANGED <<status, leaseToken, attemptCount, ledger, policyVars>>

-----------------------------------------------------------------------------
(* The most general client: publishers and operators act at any time, and  *)
(* whoever was ever given a claim may try to settle it at any later time.  *)

Publish == \E m \in Messages, b \in Budgets :
    PublishDomainEvent(m, b) \/ EnqueueEventDelivery(m, b)
Claim == \E m \in Messages : ClaimNextEffect(m)
ClaimNothing == \E t \in Tenants : \E found \in SUBSET Exhausted(t) :
    QuarantineExhausted(t, found)
Finish == \E m \in Messages : \E k \in 1 .. attemptCount[m] :
    \/ FinishEffectSuccess(m, k)
    \/ \E d \in RetryDelays : FinishEffectTransientFailure(m, k, d)
    \/ FinishEffectPermanentFailure(m, k)
Cancel == \E m \in Messages : CancelPendingEffect(m)
Replay == \E m \in Messages, g \in ReplayGrants : ReplayQuarantinedEffect(m, g)

Next == Publish \/ Claim \/ ClaimNothing \/ Finish \/ Cancel \/ Replay \/ Tick

Spec == Init /\ [][Next]_outboxVars
-----------------------------------------------------------------------------
(* Properties *)

\* Every column keeps its domain, and the cumulative attempt ceiling of the
\* table's CHECK constraints is respected by publication, claims and replays.
TypeOK ==
    /\ status \in [Messages -> Status]
    /\ availableIn \in [Messages -> Nat]
    /\ leaseLeft \in [Messages -> Nat]
    /\ leaseToken \in [Messages -> Nat]
    /\ attemptCount \in [Messages -> Nat]
    /\ maxAttempts \in [Messages -> 0 .. MAX_EFFECT_TOTAL_ATTEMPTS]
    /\ replayCount \in [Messages -> Nat]
    /\ ledger \subseteq Attempt
    /\ receipts \subseteq Receipt

\* The attempts of m whose outcome must be known: all but a running one.
SettledAttempts(m) ==
    IF status[m] = "processing" THEN attemptCount[m] - 1 ELSE attemptCount[m]

\* However claims, takeovers and late settlements interleave, every attempt
\* but the one in flight has exactly one EffectAttempt row: none is lost and
\* the unique (message, attempt_number) constraint never refuses an insert.
LedgerComplete ==
    /\ \A r \in ledger : r.number \in 1 .. SettledAttempts(r.message)
    /\ \A m \in Messages : \A n \in 1 .. SettledAttempts(m) :
            \E r \in ledger : r.message = m /\ r.number = n
    /\ \A r, s \in ledger : r.message = s.message /\ r.number = s.number => r = s

\* A pending row always has an attempt left, so claim_next_effect, which
\* skips rows without one and quarantines only processing rows, can never
\* leave a pending row stuck for ever.
PendingIsClaimable ==
    \A m \in Messages : status[m] = "pending" => attemptCount[m] < maxAttempts[m]

\* The final state of a row agrees with its ledger: a success is recorded for
\* the last attempt of succeeded rows and nowhere else, so a delivery that
\* succeeded is never claimed or replayed again, and a quarantined row shows
\* the exhausted or permanent failure that put it there.
StatusHasEvidence ==
    /\ \A m \in Messages :
        /\ status[m] = "succeeded" => Record(m, attemptCount[m], "succeeded") \in ledger
        /\ status[m] = "quarantined" =>
             \E out \in {"exhausted", "permanent_failure"} :
                 Record(m, attemptCount[m], out) \in ledger
    /\ \A r \in ledger : r.outcome = "succeeded" =>
            status[r.message] = "succeeded" /\ r.number = attemptCount[r.message]

\* Every increase of a retry budget is explained by a receipt: the receipts
\* of a row are numbered 1 .. replay_count without a gap, each raises the
\* limit from where its predecessor left it, and the last one gives
\* max_attempts.
ReceiptsExplainBudget ==
    /\ \A r \in receipts :
        /\ r.replay \in 1 .. replayCount[r.message]
        /\ r.previousMax < r.newMax
        /\ r.replay = replayCount[r.message] => r.newMax = maxAttempts[r.message]
    /\ \A m \in Messages : \A k \in 1 .. replayCount[m] :
            \E r \in receipts : r.message = m /\ r.replay = k
    /\ \A r, s \in receipts : r.message = s.message =>
        /\ r.replay = s.replay => r = s
        /\ s.replay = r.replay + 1 => s.previousMax = r.newMax

\* No write of the services is ever refused by the database's own guards on
\* transitions, leases, budgets, receipts and attempt rows: EffectsOutbox
\* implements OutboxGuard.
Guard == INSTANCE OutboxGuard
GuardAccepts == Guard!GuardSpec
=============================================================================
