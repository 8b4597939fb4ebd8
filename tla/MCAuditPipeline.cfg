SPECIFICATION FairSpec
CONSTANTS
    d1 = d1
    d2 = d2
    b1 = b1
    chat = chat
    hook = hook
    log = log
    h1 = h1
    h2 = h2
    NoRef = NoRef
    NoSub = NoSub
    NoSecret = NoSecret
    NoAddress = NoAddress
    Unresolved = Unresolved
    NoName = NoName
    NoHandler = NoHandler
    JoinEvent <- MCJoinEvent
    Decoys <- MCDecoys
    Batches = {b1}
    From <- MCFrom
    Events <- MCEvents
    Bodies <- MCBodies
    Garbled = Garbled
    Names = {chat, hook, log}
    Configs <- MCConfigs
    Handlers = {h1, h2}
    EmbedsPerMessage = 2
    MaxAttempts = 2
    MaxEnv = 2
INVARIANTS
    DeliveredInFull
    
PROPERTIES
    EveryBatchSettles
    SeriesFollowDecoys
CHECK_DEADLOCK FALSE
