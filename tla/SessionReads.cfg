\* One goroutine reads to the end while another calls and a third emits.
SPECIFICATION ReadingSpec
CONSTANTS
    reader = reader
    caller = caller
    emitter = emitter
    NoThread = NoThread
    Threads = {reader, caller, emitter}
    Operations <- Reading
    InputCount = 3
    MaxRequests = 1
    MaxSpoiled = 1
    PipeCapacity = 1
PROPERTIES
    EveryOperationReturns
    ReadersFinish
