CONSTANTS
    None = None
    NoPatch = NoPatch
    AutoVolumes <- MCAutoVolumes
    Containers = {"main", "init"}
    Volumes <- MCVolumes
    Paths <- MCPaths
    Shapes <- MCShapes
    DecoyPorts = {6443, 7443}
    ServiceIPs = {"", "None", "ip1", "ip2"}
    RealServices <- MCRealServices
    DecoyNs = "decoys"
    MaxEnv = 1
SPECIFICATION Spec
INVARIANTS
    TypeOK
    OnlyDecoyMounted
    OneAddress
PROPERTIES
    MountsResolve
