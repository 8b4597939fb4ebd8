CONSTANTS
    None = None
    NoPatch = NoPatch
    AutoVolumes <- MCAutoVolumes
    Specs <- MCSpecs
    InitSpecs <- MCInitSpecs
    IPs <- MCIPs
    UserIPs <- MCHeadless
    Ids <- MCIds
    DecoyNs = "decoys"
    Candidates <- MCCandidates
    MaxEnv = 1
SPECIFICATION FairSpec
PROPERTY RewritesEnd
CHECK_DEADLOCK FALSE
