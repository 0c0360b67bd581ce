\* A call gives up and Next gets its answer.
SPECIFICATION Spec
CONSTANTS
    reader = reader
    caller = caller
    emitter = emitter
    NoThread = NoThread
    Threads = {reader, caller, emitter}
    Operations <- Concurrent
    InputCount = 2
    MaxRequests = 1
    MaxSpoiled = 1
    PipeCapacity = 1
INVARIANTS
    UnsolicitedIsUnrequested
