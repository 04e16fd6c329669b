SPECIFICATION Spec
CONSTANTS
    free = free
    low = low
    high = high
    Nobody = Nobody
    NoProduct = NoProduct
    Accounts = {a1, a2}
    Minors = {a1}
    Products = {low, high}
    Codes = {"entry", "sponsor"}
    Price <- ProductPrice
    Code <- ProductCode
    Capacity <- ProductCapacity
    Ceiling <- ProductCeiling
    OverallCapacity = 2
    OverallCeiling = 3
    WaitlistEnabled <- AllWaitlists
    AutomaticPromotion = TRUE
    PaymentWindow = 1
    BatchSizes = {2}
    Closing = {low}
    OthersClose = FALSE
    MaxInactive = 1
    MaxInflight = 0
INVARIANTS
    NoOversubscription
