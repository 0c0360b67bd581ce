\* A reader, a caller, and a goroutine that emits or calls.
SPECIFICATION Spec
CONSTANTS
    reader = reader
    caller = caller
    emitter = emitter
    NoThread = NoThread
    Threads = {reader, caller, emitter}
    Operations <- Concurrent
    InputCount = 3
    MaxRequests = 2
    MaxSpoiled = 1
    PipeCapacity = 2
INVARIANTS
    TypeOK
    NoCircularWait
    InputsConserved
    Correlated
    RequestsInOrder
PROPERTIES
    DeliveryInOrder
    KeepsPromise
