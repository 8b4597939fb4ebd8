SPECIFICATION FairSpec
CONSTANTS
    d1 = d1
    d2 = d2
    p1 = p1
    n1 = n1
    n2 = n2
    NoDecoy = NoDecoy
    Implicit = Implicit
    NoJoin = NoJoin
    Decoys = {d1, d2}
    Pods = {p1}
    Namespaces = {n1, n2}
    DecoyNs <- ApartNs
    DecoyName <- OwnNames
    PodNs <- OnePodAway
    Lag = {"decoys", "pods", "secrets"}
    MaxEnv = 3
PROPERTY EventuallySettled
