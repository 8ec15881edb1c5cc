SPECIFICATION HostSpec
CONSTANTS
    fw1 = fw1
    NoCall = NoCall
    NoRequest = NoRequest
    OffInventory = OffInventory
    BadEntry = BadEntry
    Missing = Missing
    UnsafeName = UnsafeName
    PaddedName = PaddedName
    NotANumber = NotANumber
    Infinity = Infinity
    Device <- OneDevice
    LowerCase <- OneDevice
    Lifetimes <- HeldLifetimes
    Call <- Turns
    MaxTurns = 4
    NumProfiles = 1
    Goal <- Fix
    Requests <- HostRequests
    InitialTexts <- OneProfileTexts
    SingleLoop = TRUE
    MaxReloads = 1
    MaxConsoleEdits = 0
INVARIANTS
    HostIInv
    UntouchedUntilApproved
    FixedIsDurable
    RestoredIsOriginal
PROPERTIES
    RemediationSettles
