\* A published package is edited while it is archived.
SPECIFICATION Spec
CONSTANTS
    Processes = {1, 2}
    Assignments <- BuildArchive
    Outputs = {"a", "z"}
    Names = {"t1", "t2"}
    Assets = {"entrypoint", "schema"}
    MaxVersion = 2
    NamesRepeat = FALSE
    MaxOutages = 0
    Heavy = {}
    EditsPublished = TRUE
    NoName = NoName
INVARIANTS
    ArchiveVerified
CHECK_DEADLOCK FALSE
