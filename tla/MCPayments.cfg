CONSTANTS
    Registrations = {r1}
    Price = 2
    Difference = 1
    Due = 1
    Hold = 1
    Messages <- SupportedMessages
    MaxIntents = 2
    MaxLost = 0
    MaxEvents = 2
    MaxDeliveries = 2
    MaxTime = 1
SPECIFICATION SafetySpec
INVARIANT TypeOK
PROPERTY KeepsPromise
CHECK_DEADLOCK FALSE
