SPECIFICATION Spec
CONSTANTS
    c1 = c1
    c2 = c2
    fw1 = fw1
    fw2 = fw2
    NoRequest = NoRequest
    OffInventory = OffInventory
    BadEntry = BadEntry
    Missing = Missing
    UnsafeName = UnsafeName
    PaddedName = PaddedName
    NotANumber = NotANumber
    Infinity = Infinity
    Call <- TwoCalls
    Device <- TwoDevices
    LowerCase <- TwoDevices
    Lifetimes <- HeldLifetimes
    NumProfiles = 1
    FixtureTexts <- OneFixture
    Changes <- DemoChanges
    Commands <- AskedCommands
    OidLists <- AskedOids
    Piece <- Pieces
    Capitals <- UpperCase
    MaxCommandLen = 12
SYMMETRY CallSymmetry
INVARIANTS
    TypeOK
    IInv
    SourceGetsOnlyReads
    CheckedIsWhatRuns
PROPERTIES
    DemosAreReversible
