SPECIFICATION FairSpec
CONSTANTS
    one = one
    two = two
    twin = twin
    model = model
    loras = loras
    checkpoints = checkpoints
    flux = flux
    n1 = n1
    n2 = n2
    None = None
    Urls = {one, two, twin}
    Types = {loras, checkpoints}
    Files = {}
    ModelOf <- MCModelOf
    VersionOf <- MCVersionOf
    FileName <- MCFileName
    Stem <- MCStem
    DirOf <- MCDirOf
    Identified = {one, two}
    Unpublished = {}
    Number <- MCNumber
    BaseModel <- MCBaseModel
    Listings <- MCListings
    Deleters = {"delete1", "delete2"}
    Libraries <- MCLibraries
    MaxRows = 3
INVARIANTS
    UpdateInv
PROPERTIES
    FilesStayNamed
    MissingAreAccountedFor
    UpdatesAreReported
CHECK_DEADLOCK FALSE
