SPECIFICATION FairSpec
CONSTANTS
    node = node
    lease = lease
    crd = crd
    ctl = ctl
    pod = pod
    secret = secret
    cm = cm
    svc = svc
    sys = sys
    user = user
    e1 = e1
    e2 = e2
    e3 = e3
    NoKey = NoKey
    NoNs = NoNs
    NoEntry = NoEntry
    Keys <- MCKeys
    Kind <- MCKind
    Namespaces = {sys, user}
    Ns <- MCNs
    Owner <- MCOwner
    Entries <- MCEntries
    NodeOf <- MCNodeOf
    Seeds <- MCSeeds
    System = {sys}
    Persistent = TRUE
    MaxEnv = 2
INVARIANTS
    AccountedFor
    ServingHasLayout
PROPERTIES
    ForeignSpared
    EventuallyConverged
CHECK_DEADLOCK TRUE
