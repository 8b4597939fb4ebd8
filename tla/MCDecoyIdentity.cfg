CONSTANTS
    None = None
    NoPatch = NoPatch
    AutoVolumes <- MCAutoVolumes
    Specs <- MCSpecs
    InitSpecs <- MCInitSpecs
    IPs <- MCIPs
    UserIPs <- MCUserIPs
    Ids <- MCIds
    DecoyNs = "decoys"
    Candidates <- MCCandidates
    MaxEnv = 2
SPECIFICATION FairSpec
INVARIANTS
    TypeOK
    TemplateCovers
    SeedResolves
PROPERTIES
    IdentityKept
    NoIdleRollout
    EventuallySettled
CHECK_DEADLOCK FALSE
