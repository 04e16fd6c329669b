CONSTANTS
    Registrations = {r1}
    Devices = {d1}
    MaxGenerators = 2
    MaxCredentials = 2
    MaxManifests = 2
    MaxScans = 2
SPECIFICATION Spec
INVARIANTS TypeOK ArrivesOnce DeviceLogComplete RevocationPropagates
PROPERTY EveryScanAnswered
CHECK_DEADLOCK FALSE
