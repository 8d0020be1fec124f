CONSTANTS
    t1 = t1
    t2 = t2
    t3 = t3
    ann = ann
    bob = bob
    cid = cid
    Threads = {t1, t2}
    Usernames = {ann, bob}
    None = None
    All = All
    Faults = {}
    MaxRequests = 1
SPECIFICATION Spec
SYMMETRY Symmetry
INVARIANT LoggedInAreInMap
