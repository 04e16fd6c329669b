SPECIFICATION FairSpec
CONSTANTS
    free = free
    low = low
    high = high
    Nobody = Nobody
    NoProduct = NoProduct
    Accounts = {a1, a2}
    Minors = {a1}
    Products = {free, high}
    Codes = {"entry", "sponsor"}
    Price <- ProductPrice
    Code <- ProductCode
    Capacity <- ProductCapacity
    Ceiling <- ProductCeiling
    OverallCapacity = 2
    OverallCeiling = 2
    WaitlistEnabled <- AllWaitlists
    AutomaticPromotion = TRUE
    PaymentWindow = 1
    BatchSizes = {2}
    Closing = {high}
    OthersClose = TRUE
    MaxInactive = 1
    MaxInflight = 1
PROPERTIES
    OverdueReleased
