\* A package is built and two processes archive it.
SPECIFICATION Spec
CONSTANTS
    Processes = {1, 2, 3}
    Assignments <- BuildArchiveArchive
    Outputs = {"a", "z"}
    Names = {"t1", "t2", "t3"}
    Assets = {"entrypoint"}
    MaxVersion = 1
    NamesRepeat = FALSE
    MaxOutages = 0
    Heavy = {}
    EditsPublished = FALSE
    NoName = NoName
PROPERTIES
    NeverOverwritten
CHECK_DEADLOCK FALSE
