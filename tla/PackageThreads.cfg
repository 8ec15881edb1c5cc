SPECIFICATION Spec
CONSTANTS
    c1 = c1
    c2 = c2
    c3 = c3
    fw1 = fw1
    fw2 = fw2
    NoCall = NoCall
    NoRequest = NoRequest
    OffInventory = OffInventory
    BadEntry = BadEntry
    Missing = Missing
    UnsafeName = UnsafeName
    PaddedName = PaddedName
    NotANumber = NotANumber
    Infinity = Infinity
    Device <- TwoDevices
    LowerCase <- TwoDevices
    Lifetimes <- HeldLifetimes
    Call <- TwoCalls
    NumProfiles = 2
    Requests <- EveryDevice
    InitialTexts <- TwoProfileTexts
    SingleLoop = FALSE
    MaxReloads = 1
    MaxConsoleEdits = 0
INVARIANTS
    UnsavedIsReported
PROPERTIES
    WriteAsAdmitted
    NoFalseAlarm
    EveryCallEnds
