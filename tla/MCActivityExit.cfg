SPECIFICATION Spec
CONSTANTS
    h2 = h2
    d2 = d2
    d1 = d1
    h1 = h1
    ip1 = ip1
    Decoys = {d1}
    NoDecoy = NoDecoy
    Handlers = {h1}
    IPs = {ip1}
    NoIP = NoIP
    Faults = {"signal"}
    MaxTime = 3
    MaxFaults = 1
    RetrySteps = 2
PROPERTIES
    GracefulExitKeepsTail
