CONSTANTS
    c1 = c1
    c2 = c2
    t1 = t1
    t2 = t2
    n1 = n1
    NoClient = NoClient
    Deployments <- MCDeployments
    Clients = {c1, c2}
    IngestTopics = {t1}
    LateTopics = {t2}
    MaxPosts = 2
    MaxFrames = 1
    Streams <- MCStreams
    HeaderBytes = 2
    TrailerBytes = 1
    MaxPayload = 1
    kMaxBufferBytes = 3
    MaxSends = 2
    Paths = {n1}
    MaxEvents = 2
    TidMod = 3
    MaxReads = 4
    MaxExtra = 1
    MaxLate = 1
SPECIFICATION Spec
INVARIANTS
    SubscriptionsReachBroker
    ChunkingInvisible
    SerialWritesInOrder
    NoWriteLost
    AnswersMatchRequests
    StopLeavesNoWorker
PROPERTY MainThreadAdvances
CHECK_DEADLOCK FALSE
