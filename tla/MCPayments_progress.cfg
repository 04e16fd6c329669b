CONSTANTS
    Registrations = {r1}
    Price = 2
    Difference = 1
    Due = 1
    Hold = 1
    Messages <- UnusualMessages
    MaxIntents = 1
    MaxLost = 1
    MaxEvents = 2
    MaxDeliveries = 2
    MaxTime = 1
SPECIFICATION Spec
PROPERTY EverySuccessAccounted
CHECK_DEADLOCK FALSE
