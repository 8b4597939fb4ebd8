SPECIFICATION FairSpec
CONSTANTS
    app = app
    etcd = etcd
    NoContainer = NoContainer
    Requests <- MCRequests
    Processes <- MCProcesses
    Containers <- MCContainers
    Shellless = {etcd}
    Settings <- MCSettings
    LogLines <- MCLogLines
    NotFoundText <- MCNotFoundText
    maxPendingLine = 2
    Char = {"o", "e", "n", "r"}
    MaxFail = 1
INVARIANTS
    PendingBounded
    TranscriptFaithful
    
    StatusComesLast
    NothingLeftBehind

    
CHECK_DEADLOCK FALSE
