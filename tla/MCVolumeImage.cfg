SPECIFICATION FairSpec
CONSTANTS
    small = small
    large = large
    plain = plain
    gone = gone
    None = None
    Version = {small, large, plain, gone}
    Kind <- MCKind
    Size <- MCSize
    Format = {"qcow2", "raw"}
    GivenSize = {3}
    MaxHTTPRetries = 3
INVARIANTS
    TypeOK
    ContentIsWhole
    ImageIsDeclared
    BackingFits
    ServerErrorsAreRetried
PROPERTIES
    ImplementsCreate
    CreateEnds
CHECK_DEADLOCK FALSE
