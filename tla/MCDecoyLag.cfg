SPECIFICATION Spec
CONSTANTS
    d1 = d1
    d2 = d2
    p1 = p1
    n1 = n1
    n2 = n2
    NoDecoy = NoDecoy
    Implicit = Implicit
    NoJoin = NoJoin
    Decoys = {d1}
    Pods = {p1}
    Namespaces = {n1, n2}
    DecoyNs <- OneNs
    DecoyName <- OneName
    PodNs <- OnePodAway
    Lag = {"secrets"}
    MaxEnv = 4
INVARIANT MirrorGuarded
