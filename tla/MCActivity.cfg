SPECIFICATION FairSpec
CONSTANTS
    d1 = d1
    d2 = d2
    h1 = h1
    h2 = h2
    ip1 = ip1
    Decoys = {d1, d2}
    NoDecoy = NoDecoy
    Handlers = {h1, h2}
    IPs = {ip1}
    NoIP = NoIP
    Faults = {"crash", "signal", "error", "lostack", "delete", "reconcile"}
    MaxTime = 4
    MaxFaults = 2
    RetrySteps = 2
INVARIANTS
    TypeOK
    RequestsConserved
    UnflushedIsPending
PROPERTIES
    ActivityOnlyGrows
    EventuallyPersisted
