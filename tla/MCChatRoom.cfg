CONSTANTS
    t1 = t1
    t2 = t2
    t3 = t3
    u1 = u1
    u2 = u2
    u3 = u3
    None = None
    All = All
    Threads = {t1, t2, t3}
    Usernames = {u1, u2, u3}
    Sockets = {3, 4, 5}
    MaxRequests = 2
    MaxInAll = 2
    PeerFaults = {"reset"}
    Offered <- Talk
SPECIFICATION RoomSpec
SYMMETRY Symmetry
INVARIANTS SenderOrder NothingTwice RoomSeesAll
