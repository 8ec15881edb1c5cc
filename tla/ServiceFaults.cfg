SPECIFICATION Spec
CONSTANTS
    c1 = c1
    c2 = c2
    c3 = c3
    fw1 = fw1
    fw2 = fw2
    NoCall = NoCall
    NoRequest = NoRequest
    OffInventory = OffInventory
    BadEntry = BadEntry
    Missing = Missing
    UnsafeName = UnsafeName
    PaddedName = PaddedName
    NotANumber = NotANumber
    Infinity = Infinity
    Device <- OneDevice
    LowerCase <- OneDevice
    Lifetimes <- HeldLifetimes
    Call <- TwoCalls
    NumProfiles = 1
    Requests <- AnyLifetime
    InitialTexts <- OneProfileTexts
    SingleLoop = TRUE
    MaxReloads = 1
    MaxConsoleEdits = 1
INVARIANTS
    TypeOK
    IInv
    UnsavedIsReported
PROPERTIES
    ValidatedMeansTook
    EveryCallEnds
