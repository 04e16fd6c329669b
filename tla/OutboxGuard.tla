---------------------------- MODULE OutboxGuard ----------------------------
(***************************************************************************)
(* What PostgreSQL promises about the outbox whatever the application      *)
(* does: the trigger functions maru_guard_outbox_message and               *)
(* maru_guard_effect_replay_receipt, the append-only guard on attempts,    *)
(* and the CHECK and UNIQUE constraints of the tables.  A transaction that *)
(* breaks one of them is rolled back with an IntegrityError.  The services *)
(* of EffectsOutbox are shown to implement this specification: no write    *)
(* they make is ever refused by the database, but for a replay by an actor *)
(* who has been deactivated meanwhile (see ReceiptInserts).                *)
(***************************************************************************)
EXTENDS Integers

CONSTANTS Messages, MAX_EFFECT_TOTAL_ATTEMPTS, MAX_EFFECT_REPLAY_ADDITIONAL_ATTEMPTS

VARIABLES status, leaseLeft, leaseToken, attemptCount, maxAttempts, replayCount,
          ledger, receipts

guardVars == <<status, leaseLeft, leaseToken, attemptCount, maxAttempts,
               replayCount, ledger, receipts>>

\* The columns of row m are not written.
Untouched(m) ==
    /\ status'[m] = status[m]
    /\ leaseToken'[m] = leaseToken[m]
    /\ attemptCount'[m] = attemptCount[m]
    /\ maxAttempts'[m] = maxAttempts[m]
    /\ replayCount'[m] = replayCount[m]

Inserted(m) == status[m] = "absent" /\ status'[m] # "absent"

PolicyKept(m) == maxAttempts'[m] = maxAttempts[m] /\ replayCount'[m] = replayCount[m]

PendingUpdate(m) ==
    /\ status[m] = "pending"
    /\ PolicyKept(m)
    /\ \/ status'[m] = "processing" /\ attemptCount'[m] = attemptCount[m] + 1
       \/ status'[m] = "cancelled" /\ attemptCount'[m] = attemptCount[m]

SettlingUpdate(m) ==
    /\ status[m] = "processing"
    /\ PolicyKept(m)
    /\ status'[m] \in {"pending", "succeeded", "quarantined"}
    /\ attemptCount'[m] = attemptCount[m]

\* A lease may be taken over only once it has expired.
TakeoverUpdate(m) ==
    /\ status[m] = "processing"
    /\ PolicyKept(m)
    /\ status'[m] = "processing"
    /\ leaseLeft[m] = 0
    /\ attemptCount'[m] = attemptCount[m] + 1

\* A budget grows only together with the exact next receipt.
ReplayUpdate(m) ==
    /\ status[m] = "quarantined"
    /\ status'[m] = "pending"
    /\ attemptCount'[m] = attemptCount[m]
    /\ maxAttempts'[m] > maxAttempts[m]
    /\ replayCount'[m] = replayCount[m] + 1
    /\ \E r \in receipts' : /\ r.message = m
                           /\ r.previousMax = maxAttempts[m]
                           /\ r.newMax = maxAttempts'[m]
                           /\ r.replay = replayCount'[m]

\* Receipts are append-only and must match the quarantined row.  That their
\* actor is an active account is checked too; accounts are not modelled, and a
\* replay that this refuses changes nothing.
ReceiptInserts ==
    /\ receipts \subseteq receipts'
    /\ \A r \in receipts' \ receipts :
        /\ r.newMax - r.previousMax \in 1 .. MAX_EFFECT_REPLAY_ADDITIONAL_ATTEMPTS
        /\ r.newMax <= MAX_EFFECT_TOTAL_ATTEMPTS
        /\ status[r.message] = "quarantined"
        /\ maxAttempts[r.message] = r.previousMax
        /\ replayCount[r.message] + 1 = r.replay

\* Attempts are append-only, one per message and attempt number.
AttemptInserts ==
    /\ ledger \subseteq ledger'
    /\ \A r, s \in ledger' : r.message = s.message /\ r.number = s.number => r = s

\* The CHECK constraints of effects_outboxmessage.
RowChecks ==
    \A m \in Messages : status[m] # "absent" =>
        /\ maxAttempts[m] \in 1 .. MAX_EFFECT_TOTAL_ATTEMPTS
        /\ attemptCount[m] <= maxAttempts[m]
        /\ status[m] = "processing" <=> leaseToken[m] # 0

GuardInit ==
    /\ \A m \in Messages : status[m] = "absent"
    /\ ledger = {}
    /\ receipts = {}

GuardNext ==
    /\ \A m \in Messages :
        \/ Untouched(m)
        \/ Inserted(m)
        \/ PendingUpdate(m)
        \/ SettlingUpdate(m)
        \/ TakeoverUpdate(m)
        \/ ReplayUpdate(m)
    /\ ReceiptInserts
    /\ AttemptInserts
    /\ RowChecks'

GuardSpec == GuardInit /\ [][GuardNext]_guardVars
=============================================================================
