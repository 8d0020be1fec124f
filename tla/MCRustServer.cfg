CONSTANTS
    t1 = t1
    t2 = t2
    t3 = t3
    ann = ann
    bob = bob
    cid = cid
    Threads = {t1, t2, t3}
    Usernames = {ann, bob, cid}
    None = None
    All = All
    Faults = {"reset", "panic"}
    MaxRequests = 1
SPECIFICATION Spec
SYMMETRY Symmetry
INVARIANTS RustTypeOK EntriesAreServed SessionsHaveEntries FramesComeOutRight PassedOnWasAcked RoomHearsAll RecipientsStay
