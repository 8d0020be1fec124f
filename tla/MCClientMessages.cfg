CONSTANTS
    None = None
    Wrap = 2
    MaxMessages = 3
    Cap = 2
    Servers = {"cpp"}
    Events = {"push", "skip", "misread", "close", "reset"}
SPECIFICATION Spec
INVARIANTS ClientTypeOK OnePlace
PROPERTY ImplementsDelivery
