\* One input port, and a host that may stop at any time.
SPECIFICATION FairSpec
CONSTANTS
    Ports = {"input"}
    AllPorts = "all"
    MaxBatches = 3
    PipeCapacity = 2
INVARIANTS
    TypeOK
    CompletedMeansConsumed
PROPERTIES
    KeepsPromise
    GuestExits
