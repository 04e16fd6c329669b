---------------------------- MODULE EffectsWorker ----------------------------
(***************************************************************************)
(* The effect workers: supervisor processes (the effects_worker command),  *)
(* the disposable child processes they start (effects_run_once), and the   *)
(* outbox they share.  A child claims one delivery, runs its handler and   *)
(* settles the claim, each in a transaction of its own; between any two of *)
(* them other children, publishers, operators, the clock, a hard timeout   *)
(* or a crash may come in.                                                 *)
(*                                                                         *)
(* subprocess.run kills a supervised child when its hard timeout is over,  *)
(* so time does not pass while such a kill is due.  When a supervisor dies *)
(* its child lives on without a hard timeout: an orphan.  A handler may    *)
(* return, raise or hang; nothing but a kill ends one that hangs.          *)
(***************************************************************************)
EXTENDS EffectsOutbox

CONSTANTS
    Supervisors,        \* effects_worker processes
    Children,           \* process slots for effects_run_once children
    ExecutionTimeout,   \* --execution-timeout-seconds
    HardTimeout,        \* --hard-timeout-seconds
    Nobody              \* no supervisor, no message

\* What effects_worker validates before it starts, and no more.
ASSUME WorkerOptionsAssumption ==
    /\ ExecutionTimeout \in 1 .. LeaseDuration
    /\ HardTimeout \in Nat
    /\ HardTimeout > ExecutionTimeout
\* There is a slot for the child of every supervisor; the others bound the
\* number of orphans.
ASSUME SlotAssumption ==
    /\ IsFiniteSet(Children)
    /\ Cardinality(Children) >= Cardinality(Supervisors)
    /\ Nobody \notin Supervisors

VARIABLES
    child,       \* the state of every process slot
    delivered    \* history: the <<message, attempt>> whose handler returned

workerVars == <<outboxVars, child, delivered>>

\* One process: pc is where it is, owner its supervisor (Nobody: an orphan),
\* message, attempt and leaseLeft its ClaimedEffect, deadline the time left
\* to EffectContext.deadline, hardLeft to the hard timeout.
Dead == [pc |-> "dead", owner |-> Nobody, tenant |-> Nobody, message |-> Nobody,
         attempt |-> 0, leaseLeft |-> 0, deadline |-> 0, hardLeft |-> 0, verdict |-> "none"]

Alive(c) == child[c].pc # "dead"
Supervised(c) == Alive(c) /\ child[c].owner # Nobody
Orphans == {c \in Children : Alive(c) /\ child[c].owner = Nobody}

WorkerInit ==
    /\ Init
    /\ child = [c \in Children |-> Dead]
    /\ delivered = {}

-----------------------------------------------------------------------------
(* The supervisor loop *)

\* eligible_tenant_ids
EligibleTenants ==
    {TenantOf[m] : m \in {o \in Messages :
        \/ Ready(o) /\ attemptCount[o] < maxAttempts[o]
        \/ LeaseExpired(o)}}

\* One cycle of effects_worker: pick an eligible tenant, start a child for it
\* and wait for it.  (Which tenant is TenantScheduler's matter.)
LaunchChild(w, c, t) ==
    /\ \A d \in Children : child[d].owner # w
    /\ ~ Alive(c)
    /\ t \in EligibleTenants
    /\ child' = [child EXCEPT ![c] =
                    [Dead EXCEPT !.pc = "launched", !.owner = w, !.tenant = t,
                                 !.hardLeft = HardTimeout]]
    /\ UNCHANGED <<outboxVars, delivered>>

\* Variant: the kill also hands the delivery back, without an attempt row.
HardKillReleases(c) ==
    /\ Supervised(c)
    /\ child[c].hardLeft = 0
    /\ child' = [child EXCEPT ![c] = Dead]
    /\ status' = [m \in Messages |-> IF m = child[c].message THEN "pending" ELSE status[m]]
    /\ UNCHANGED <<availableIn, leaseLeft, leaseToken, attemptCount, ledger, policyVars, delivered>>

\* subprocess.TimeoutExpired: the child is killed, its claim is left behind.
HardKill(c) ==
    /\ Supervised(c)
    /\ child[c].hardLeft = 0
    /\ child' = [child EXCEPT ![c] = Dead]
    /\ UNCHANGED <<outboxVars, delivered>>

-----------------------------------------------------------------------------
(* The child: effects_run_once, run_claimed_effect *)

Exit(c) == child' = [child EXCEPT ![c] = Dead]

ChildClaims(c, m) ==
    /\ child[c].pc = "launched"
    /\ m \in Candidates(child[c].tenant)
    /\ ClaimNextEffect(m)
    /\ child' = [child EXCEPT ![c].pc = "claimed", ![c].message = m,
                              ![c].attempt = attemptCount[m] + 1,
                              ![c].leaseLeft = LeaseDuration]
    /\ UNCHANGED delivered

\* No candidate: the spent rows of the tenant are quarantined, result "idle".
ChildFindsNothing(c) ==
    /\ child[c].pc = "launched"
    /\ Candidates(child[c].tenant) = {}
    /\ QuarantineExhausted(child[c].tenant, Exhausted(child[c].tenant))
    /\ Exit(c)
    /\ UNCHANGED delivered

\* The same when concurrent transactions hold every candidate and all but
\* the rows found of the spent ones.
ChildSkipsLocked(c, found) ==
    /\ child[c].pc = "launched"
    /\ QuarantineExhausted(child[c].tenant, found)
    /\ Exit(c)
    /\ UNCHANGED delivered

\* _active_message
Active(c) ==
    LET m == child[c].message IN
    /\ child[c].leaseLeft > 0
    /\ Owns(m, child[c].attempt)
    /\ leaseLeft[m] > 0

\* The lease was lost before the handler could start.
ChildLosesLease(c) ==
    /\ child[c].pc = "claimed"
    /\ ~ Active(c)
    /\ Exit(c)
    /\ UNCHANGED <<outboxVars, delivered>>

\* Invalid payload, forbidden route or no handler: a permanent failure.
ChildRefuses(c) ==
    /\ child[c].pc = "claimed"
    /\ Active(c)
    /\ child' = [child EXCEPT ![c].pc = "settling", ![c].verdict = "permanent"]
    /\ UNCHANGED <<outboxVars, delivered>>

ChildStartsHandler(c) ==
    /\ child[c].pc = "claimed"
    /\ Active(c)
    /\ child' = [child EXCEPT
            ![c].pc = "handling",
            ![c].deadline = IF child[c].leaseLeft < ExecutionTimeout
                            THEN child[c].leaseLeft ELSE ExecutionTimeout]
    /\ UNCHANGED <<outboxVars, delivered>>

\* The handler returns; _ensure_before_deadline turns a late return into
\* EffectTimeoutError, a transient failure.
HandlerReturns(c) ==
    /\ child[c].pc = "handling"
    /\ child' = [child EXCEPT
            ![c].pc = "settling",
            ![c].verdict = IF child[c].deadline > 0 THEN "success" ELSE "transient"]
    /\ delivered' = delivered \union {<<child[c].message, child[c].attempt>>}
    /\ UNCHANGED outboxVars

\* PermanentEffectError, or TransientEffectError and any other exception.
HandlerRaises(c, verdict) ==
    /\ child[c].pc = "handling"
    /\ child' = [child EXCEPT ![c].pc = "settling", ![c].verdict = verdict]
    /\ UNCHANGED <<outboxVars, delivered>>

\* finish_effect_success, _mark_transient or _mark_permanent.
ChildSettles(c) ==
    LET m == child[c].message
        k == child[c].attempt
    IN  /\ child[c].pc = "settling"
        /\ CASE child[c].verdict = "success" -> FinishEffectSuccess(m, k)
             [] child[c].verdict = "transient" ->
                    \E d \in RetryDelays : FinishEffectTransientFailure(m, k, d)
             [] child[c].verdict = "permanent" -> FinishEffectPermanentFailure(m, k)
        /\ Exit(c)
        /\ UNCHANGED delivered

\* LeaseLostError: nothing is written.
ChildSettlesTooLate(c) ==
    /\ child[c].pc = "settling"
    /\ ~ Owns(child[c].message, child[c].attempt)
    /\ Exit(c)
    /\ UNCHANGED <<outboxVars, delivered>>

-----------------------------------------------------------------------------
(* Failures, the clock and the other users of the outbox *)

ChildCrashes(c) ==
    /\ Alive(c)
    /\ Exit(c)
    /\ UNCHANGED <<outboxVars, delivered>>

\* The supervisor dies and is restarted; its child survives as an orphan.
SupervisorCrashes(w) ==
    /\ Cardinality(Orphans) < Cardinality(Children) - Cardinality(Supervisors)
    /\ \E c \in Children :
        /\ child[c].owner = w
        /\ child' = [child EXCEPT ![c].owner = Nobody, ![c].hardLeft = 0]
    /\ UNCHANGED <<outboxVars, delivered>>

WorkerTick ==
    /\ \A c \in Children : Supervised(c) => child[c].hardLeft > 0
    /\ Tick
    /\ child' = [c \in Children |->
            [child[c] EXCEPT !.leaseLeft = Decrement(@), !.deadline = Decrement(@),
                             !.hardLeft = Decrement(@)]]
    /\ UNCHANGED delivered

Outside ==
    /\ Publish \/ Cancel \/ Replay
    /\ UNCHANGED <<child, delivered>>

Launch == \E w \in Supervisors, c \in Children, t \in Tenants : LaunchChild(w, c, t)
ClaimsOne == \E c \in Children, m \in Messages : ChildClaims(c, m)

WorkerNext ==
    \/ Launch
    \/ ClaimsOne
    \/ WorkerTick
    \/ Outside
    \/ \E w \in Supervisors : SupervisorCrashes(w)
    \/ \E c \in Children :
        \/ HardKill(c)
        \/ ChildFindsNothing(c)
        \/ \E found \in SUBSET Exhausted(child[c].tenant) : ChildSkipsLocked(c, found)
        \/ ChildLosesLease(c)
        \/ ChildRefuses(c)
        \/ ChildStartsHandler(c)
        \/ HandlerReturns(c)
        \/ \E v \in {"transient", "permanent"} : HandlerRaises(c, v)
        \/ ChildSettles(c)
        \/ ChildSettlesTooLate(c)
        \/ ChildCrashes(c)

WorkerSpec == WorkerInit /\ [][WorkerNext]_workerVars

(***************************************************************************)
(* Fairness: time passes, a supervisor loop keeps cycling, and a child     *)
(* that is not in a handler keeps running.  Handlers get none: they may    *)
(* hang.  Row locks last for one short transaction, so a claim that is     *)
(* tried for ever is not refused by SKIP LOCKED for ever (strong           *)
(* fairness).                                                              *)
(***************************************************************************)
Fairness ==
    /\ WF_workerVars(WorkerTick)
    /\ WF_workerVars(Launch)
    /\ SF_workerVars(ClaimsOne)
    /\ \A c \in Children :
        /\ WF_workerVars(HardKill(c))
        /\ SF_workerVars(ChildFindsNothing(c))
        /\ WF_workerVars(ChildLosesLease(c) \/ ChildRefuses(c) \/ ChildStartsHandler(c))
        /\ WF_workerVars(ChildSettles(c) \/ ChildSettlesTooLate(c))

FairWorkerSpec == WorkerSpec /\ Fairness

-----------------------------------------------------------------------------
(* Properties *)

\* While a supervised handler runs, its lease is not over and its delivery
\* belongs to nobody else: a supervised child is killed before the outbox
\* gives its delivery to another child.  Needs HardTimeout < LeaseDuration.
SupervisedKeepsLease ==
    \A c \in Children : Supervised(c) /\ child[c].pc = "handling" =>
        Owns(child[c].message, child[c].attempt) /\ leaseLeft[child[c].message] > 0

\* At least once: a delivery counts as succeeded only if the handler of its
\* last attempt, and not of a lost one, returned.
SucceededWasDelivered ==
    \A m \in Messages : status[m] = "succeeded" => <<m, attemptCount[m]>> \in delivered

\* The processes use the outbox only through its services, late and
\* repeated calls included, so all that is proved of EffectsOutbox holds.
ImplementsOutbox == Spec

\* Every published delivery is eventually settled, whatever hangs, crashes
\* or loses its lease: it succeeds, is cancelled or is quarantined.
Unsettled(m) == status[m] \in {"pending", "processing"}
EveryDeliverySettles == \A m \in Messages : Unsettled(m) ~> ~ Unsettled(m)
=============================================================================
