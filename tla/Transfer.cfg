SPECIFICATION FairSpec
CONSTANTS
    hub = hub
    version = version
    link = link
    library = library
    rival = rival
    x = x
    y = y
    c = c
    d = d
    e = e
    n = n
    id = id
    None = None
    Jobs = {hub, version, link, library}
    Repeated = {hub}
    Source <- MCSource
    Contents = {x, y}
    Full = 2
    Workloads <- MCWorkloads
INVARIANTS
    TransferInv
    ResumesOwnPrefix
PROPERTIES
    VerifiedIsWhole
    ReplacementsAreKnown
    RetriesSucceed
CHECK_DEADLOCK FALSE
