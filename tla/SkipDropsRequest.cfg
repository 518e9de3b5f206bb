SPECIFICATION Spec
CONSTANTS
    v1 = v1
    v2 = v2
    link = link
    m = m
    loras = loras
    checkpoints = checkpoints
    None = None
    s1 = s1
    s2 = s2
    Slots = {s1}
    Urls = {v1, v2}
    Types = {loras}
    Files = {}
    ModelOf <- MCModelOf
    VersionOf <- MCVersionOf
    Listing <- MCListing
    Requests <- OneVersion
    InitialCatalogs <- LegacyStarts
    StrayFiles = {}
    MaxJobs = 2
PROPERTIES
    QueuedRowsAreKept
CHECK_DEADLOCK FALSE
