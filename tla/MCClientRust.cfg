CONSTANTS
    None = None
    Wrap = 2
    MaxMessages = 1
    Cap = 2
    Servers = {"rust"}
    Events = {}
SPECIFICATION Spec
INVARIANT NackNamesMessage
