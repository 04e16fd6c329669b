SPECIFICATION FairWorkerSpec
CONSTANTS
    Nobody = Nobody
    t1 = t1
    Messages = {m1}
    Tenants = {t1}
    EventOf <- MCEventOf
    TenantOf <- MCTenantOf
    Supervisors = {w1, w2}
    Children = {c1, c2, c3}
    Budgets = {1, 2}
    RetryDelays = {1}
    ReplayGrants = {1}
    MAX_EFFECT_TOTAL_ATTEMPTS = 2
    MAX_EFFECT_REPLAY_ADDITIONAL_ATTEMPTS = 1
    ExecutionTimeout = 1
    HardTimeout = 2
    LeaseDuration = 3
INVARIANTS
    SupervisedKeepsLease
    SucceededWasDelivered
PROPERTIES
    ImplementsOutbox
    EveryDeliverySettles
