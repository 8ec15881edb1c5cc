SPECIFICATION Spec
CONSTANTS
    c1 = c1
    c2 = c2
    c3 = c3
    fw1 = fw1
    fw2 = fw2
    prom = prom
    NoCall = NoCall
    NoRequest = NoRequest
    NoFile = NoFile
    NotLoaded = NotLoaded
    Target <- ThreeTargets
    Call <- TwoCalls
    Requests <- AllRequests
    Files <- ThreeFiles
    SingleLoop = TRUE
    MaxOutput = 1
    WalkCap = 2
    MaxInventoryEdits = 2
INVARIANTS
    TypeOK
    IInv
    ContactsAreAllowed
    OneInventory
    NoFakeSuccess
PROPERTIES
    NoInventoryIsCurrent
    LoopIsGivenBack
