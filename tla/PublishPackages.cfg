\* Pairs of operations while sources and packages are edited and the power may fail.
SPECIFICATION Spec
CONSTANTS
    Processes = {1, 2}
    Assignments <- Pairs
    Outputs = {"a", "z"}
    Names = {"t1", "t2"}
    Assets = {"entrypoint", "schema"}
    MaxVersion = 2
    NamesRepeat = TRUE
    MaxOutages = 1
    Heavy <- HeavyPackages
    EditsPublished = TRUE
    NoName = NoName
INVARIANTS
    TypeOK
    SuccessStands
    NothingLeftBehind
    TemporaryIntact
    ArchiveWhole
PROPERTIES
    PublishedOnce
CHECK_DEADLOCK FALSE
