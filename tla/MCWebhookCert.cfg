SPECIFICATION FairSpec
CONSTANTS
    m1 = m1
    m2 = m2
    w1 = w1
    w2 = w2
    c1 = c1
    c2 = c2
    c3 = c3
    c4 = c4
    c5 = c5
    c6 = c6
    NoCert = NoCert
    Broken = Broken
    Managers = {m1, m2}
    Hooks = {w1, w2}
    Certs = {c1, c2, c3, c4, c5, c6}
    Steps = 2
    MaxEnv = 3
INVARIANTS
    ServedIsStored
PROPERTIES
    OneCertChosen
    BundleNeverReplaced
    EventuallyUp
    EventuallyTrusted
CHECK_DEADLOCK FALSE
