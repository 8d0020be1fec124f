CONSTANTS
    t1 = t1
    t2 = t2
    u1 = u1
    u2 = u2
    None = None
    All = All
    Threads = {t1, t2}
    Usernames = {u1, u2}
    Sockets = {3, 4}
    MaxRequests = 1
    MaxInAll = 2
    PeerFaults = {"close", "reset"}
    Offered <- AllRequests
SPECIFICATION Spec
SYMMETRY Symmetry
INVARIANTS TypeOK SessionOwnsEntry EveryEntryHasASession DirectMessagesReachAddressee
           ForwardedWasAcked AcceptedIsSettled
PROPERTY UsesSharedClients
