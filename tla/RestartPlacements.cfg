SPECIFICATION Spec
CONSTANTS
    v1 = v1
    v2 = v2
    link = link
    m = m
    loras = loras
    checkpoints = checkpoints
    None = None
    s1 = s1
    s2 = s2
    Slots = {s1}
    Urls = {v1, v2}
    Types = {loras, checkpoints}
    Files = {}
    ModelOf <- MCModelOf
    VersionOf <- MCVersionOf
    Listing <- MCListing
    Requests <- TwoTypes
    InitialCatalogs <- FreshStart
    StrayFiles = {}
    MaxJobs = 2
PROPERTIES
    RestartKeepsPlacements
CHECK_DEADLOCK FALSE
