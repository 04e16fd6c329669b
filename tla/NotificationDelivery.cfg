SPECIFICATION NotificationSpec
CONSTANTS
    Handlers = {h1, h2, h3, h4}
INVARIANTS
    SendsAreCounted
    SucceededWasEmailed
PROPERTIES
    SettledDeliveryIsQuiet
