SPECIFICATION Spec
CONSTANTS
    hub = hub
    version = version
    link = link
    library = library
    rival = rival
    x = x
    y = y
    c = c
    d = d
    e = e
    n = n
    id = id
    None = None
    Jobs = {hub, rival}
    Repeated = {}
    Source <- MCSource
    Contents = {x, y}
    Full = 2
    Workloads <- RaceWorkloads
PROPERTIES
    DestinationsAreKept
CHECK_DEADLOCK FALSE
