SPECIFICATION Spec
CONSTANTS
    Channel = {c0}
    Uncorrelated = uncorrelated
    EventKey = {k0}
    Initial = {"QUEUED"}
    NoSale = NoSale
    MaxAttempts = 1
    MaxEpoch = 1
PROPERTIES LatePublishIsTakenDown
