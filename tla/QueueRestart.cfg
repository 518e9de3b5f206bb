SPECIFICATION Spec
CONSTANTS
    v1 = v1
    v2 = v2
    link = link
    m = m
    loras = loras
    checkpoints = checkpoints
    None = None
    s1 = s1
    s2 = s2
    Slots = {s1}
    Urls = {v1, v2, link}
    Types = {loras}
    Files = {}
    ModelOf <- MCModelOf
    VersionOf <- MCVersionOf
    Listing <- MCListing
    Requests <- VersionOrFile
    InitialCatalogs <- LegacyStarts
    StrayFiles <- Stray
    MaxJobs = 2
INVARIANTS
    DoneNamesFile
PROPERTIES
    BootQueuesNothingCompleted
    RowsAreNotLost
CHECK_DEADLOCK FALSE
