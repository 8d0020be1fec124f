CONSTANTS
    t1 = t1
    t2 = t2
    t3 = t3
    u1 = u1
    u2 = u2
    None = None
    Threads = {t1, t2, t3}
    Usernames = {u1, u2}
    Sockets = {3, 4}
SPECIFICATION SCSpec
SYMMETRY Symmetry
INVARIANTS SCTypeOK LockHeldInside CheckedNameStaysFree
PROPERTIES FrozenWhileRead ImplementsDirectory
