CONSTANTS
    r1 = r1
    r2 = r2
    Registrations = {r1, r2}
    Staff = {s1, s2}
    Price = 2
    Messages <- AllMessages
    RefundAmounts = {1}
    Fees = {0}
    MaxOperations = 2
    MaxEvents = 3
    MaxBatches = 2
SYMMETRY Interchangeable
SPECIFICATION Spec
INVARIANTS TypeOK RefundEvidence RefundsCovered SettlementsBalance
PROPERTY OperationsGuarded
CHECK_DEADLOCK FALSE
