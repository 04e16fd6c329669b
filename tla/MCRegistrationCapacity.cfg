SPECIFICATION Spec
CONSTANTS
    free = free
    low = low
    high = high
    Nobody = Nobody
    NoProduct = NoProduct
    Accounts = {a1, a2, a3}
    Minors = {}
    Products = {low, high}
    Codes = {"entry", "sponsor"}
    Price <- ProductPrice
    Code <- ProductCode
    Capacity <- ProductCapacity
    Ceiling <- ProductCeiling
    OverallCapacity = 2
    OverallCeiling = 2
    WaitlistEnabled <- AllWaitlists
    AutomaticPromotion = TRUE
    PaymentWindow = 1
    BatchSizes = {2}
    Closing = {}
    OthersClose = FALSE
    MaxInactive = 0
    MaxInflight = 1
SYMMETRY AccountSymmetry
INVARIANTS
    TypeOK
    OversubscriptionBounded
    EntitlementFollowsAdmission
PROPERTIES
    TriggerAcceptsTransitions
