SPECIFICATION Spec
CONSTANTS
    v1 = v1
    v2 = v2
    link = link
    m = m
    loras = loras
    checkpoints = checkpoints
    None = None
    s1 = s1
    s2 = s2
    Slots = {s1, s2}
    Urls = {v1}
    Types = {loras}
    Files = {}
    ModelOf <- MCModelOf
    VersionOf <- MCVersionOf
    Listing <- MCListing
    Requests <- OneDeclared
    InitialCatalogs <- FreshStart
    StrayFiles = {}
    MaxJobs = 2
SYMMETRY Perms
INVARIANTS
    TypeOK
    OneWorkerPerJob
    PickedRowWaits
    WorkedRowIsClaimed
    DownloadingHasWorker
    TokensBelongToTasks
    ProgressHasTask
    QueueInv
PROPERTIES
    ImplementsBoard
CHECK_DEADLOCK FALSE
