\* A goroutine that decodes, reads and calls, one that identifies and fails.
SPECIFICATION Spec
CONSTANTS
    reader = reader
    caller = caller
    emitter = emitter
    NoThread = NoThread
    Threads = {reader, caller}
    Operations <- Agent
    InputCount = 3
    MaxRequests = 1
    MaxSpoiled = 1
    PipeCapacity = 1
INVARIANTS
    RequestIdentityWhole
    EndIsLast
