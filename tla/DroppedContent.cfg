SPECIFICATION Spec
CONSTANTS
    one = one
    two = two
    twin = twin
    model = model
    loras = loras
    checkpoints = checkpoints
    flux = flux
    n1 = n1
    n2 = n2
    None = None
    Urls = {one, two, twin}
    Types = {loras, checkpoints}
    Files = {}
    ModelOf <- MCModelOf
    VersionOf <- MCVersionOf
    FileName <- MCFileName
    Stem <- MCStem
    DirOf <- MCDirOf
    Identified = {one, two}
    Unpublished = {}
    Number <- MCNumber
    BaseModel <- MCBaseModel
    Listings <- MCListings
    Deleters = {}
    Libraries <- JustNamesakes
    MaxRows = 3
PROPERTIES
    DroppedContentIsElsewhere
CHECK_DEADLOCK FALSE
