SPECIFICATION FairSpec
CONSTANTS
    Proc = {p1, p2, p3}
    Key = {k1, k2}
    Mutex = {m1, m2, m3}
    NoOne = NoOne
    Nil = Nil
INVARIANTS
    TypeOK
    SectionsAreSafe
PROPERTIES
    ImplementsKeyLock
    LockReturns
