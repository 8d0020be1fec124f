CONSTANTS
    None = None
    Wrap = 2
    MaxMessages = 2
    Cap = 1
    Servers = {"cpp", "rust"}
    Events = {"push", "close", "reset"}
SPECIFICATION FairSpec
PROPERTIES BothThreadsEnd SentUntilTaken
