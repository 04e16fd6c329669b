SPECIFICATION Spec
CONSTANTS
    m1 = m1
    m2 = m2
    t1 = t1
    Messages = {m1, m2}
    Tenants = {t1}
    EventOf <- MCEventOf
    TenantOf <- MCTenantOf
    Budgets = {0, 1, 2, 5}
    LeaseDuration = 2
    RetryDelays = {0, 1}
    ReplayGrants = {0, 1, 2, 3}
    MAX_EFFECT_TOTAL_ATTEMPTS = 4
    MAX_EFFECT_REPLAY_ADDITIONAL_ATTEMPTS = 2
INVARIANTS
    TypeOK
    LedgerComplete
    PendingIsClaimable
    StatusHasEvidence
    ReceiptsExplainBudget
PROPERTIES
    GuardAccepts
