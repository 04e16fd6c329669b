--------------------------- MODULE TenantScheduler ---------------------------
(***************************************************************************)
(* Which tenant a supervisor serves next: FairTenantScheduler.select over  *)
(* the tenants that eligible_tenant_ids reports, one delivery per cycle of *)
(* the effects_worker loop.  Tenants are numbered in the order in which    *)
(* select sorts their identifiers.  The work of a tenant is a queue length;*)
(* deliveries arrive at any time.                                          *)
(***************************************************************************)
EXTENDS Integers, FiniteSets, FiniteSetsExt

CONSTANTS
    TenantCount,   \* tenants 1 .. TenantCount
    MaxQueue       \* bound on the ready deliveries of a tenant

ASSUME SchedulerAssumption == TenantCount \in Nat \ {0} /\ MaxQueue \in Nat \ {0}

Tenants == 1 .. TenantCount
NoTenant == 0

VARIABLES
    queue,        \* ready deliveries of every tenant
    lastServed,   \* FairTenantScheduler._last_served
    passedOver,   \* history: cycles since the tenant began to wait
    disturbed     \* history: a tenant ran dry, or the worker restarted, since

schedulerVars == <<queue, lastServed, passedOver, disturbed>>

Eligible == {t \in Tenants : queue[t] > 0}

\* Variant: the index is not advanced past the tenant served last.
SelectFrom(last, candidates) ==
    LET after == {t \in candidates : t >= last}
    IN  IF last \notin candidates \/ after = {} THEN Min(candidates) ELSE Min(after)

\* FairTenantScheduler.select for a non-empty set of candidates
Select(last, candidates) ==
    LET after == {t \in candidates : t > last}
    IN  IF last \notin candidates \/ after = {} THEN Min(candidates) ELSE Min(after)

SchedulerInit ==
    /\ queue = [t \in Tenants |-> 0]
    /\ lastServed = NoTenant
    /\ passedOver = [t \in Tenants |-> 0]
    /\ disturbed = [t \in Tenants |-> FALSE]

\* One cycle: select a tenant and let a child settle one of its deliveries.
Cycle ==
    /\ Eligible # {}
    /\ LET t == Select(lastServed, Eligible) IN
        /\ lastServed' = t
        /\ queue' = [queue EXCEPT ![t] = @ - 1]
        /\ passedOver' = [u \in Tenants |->
                IF u = t \/ u \notin Eligible THEN 0
                ELSE IF passedOver[u] > TenantCount THEN passedOver[u]
                ELSE passedOver[u] + 1]
        /\ disturbed' = [u \in Tenants |->
                IF u = t \/ u \notin Eligible THEN FALSE
                ELSE disturbed[u] \/ queue[t] = 1]

Arrive(t) ==
    /\ queue[t] < MaxQueue
    /\ queue' = [queue EXCEPT ![t] = @ + 1]
    /\ UNCHANGED <<lastServed, passedOver, disturbed>>

\* A restarted effects_worker has a new FairTenantScheduler.
Restart ==
    /\ lastServed' = NoTenant
    /\ disturbed' = [u \in Tenants |-> u \in Eligible]
    /\ UNCHANGED <<queue, passedOver>>

SchedulerNext == Cycle \/ Restart \/ \E t \in Tenants : Arrive(t)

SchedulerSpec == SchedulerInit /\ [][SchedulerNext]_schedulerVars

\* The loop goes on for ever; the process supervisor of the runbook restarts
\* a worker that dies, and restarts are not the rule.
FairSchedulerSpec ==
    /\ SchedulerInit
    /\ [][Cycle \/ \E t \in Tenants : Arrive(t)]_schedulerVars
    /\ WF_schedulerVars(Cycle)

-----------------------------------------------------------------------------
(* Properties *)

\* As long as every tenant that is served keeps work in its queue and the
\* worker is not restarted, the rotation is fair: a waiting tenant is passed
\* over at most once by each other tenant.
FairWhileBacklogged ==
    \A t \in Tenants : t \in Eligible /\ ~ disturbed[t] => passedOver[t] < TenantCount

\* A tenant is served twice in a row only when nobody else has work: one
\* organization's backlog never occupies consecutive cycles of others.
NoMonopoly ==
    [][Cycle /\ lastServed' = lastServed => Eligible = {lastServed}]_schedulerVars

\* "One worker rotates fairly across eligible tenant queues": a tenant with
\* ready work is eventually served.
EligibleTenantServed ==
    \A t \in Tenants : t \in Eligible ~> lastServed = t
=============================================================================
