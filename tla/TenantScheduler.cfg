SPECIFICATION SchedulerSpec
CONSTANTS
    TenantCount = 3
    MaxQueue = 3
INVARIANTS
    FairWhileBacklogged
PROPERTIES
    NoMonopoly
