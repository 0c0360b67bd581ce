\* Two senders and a decoder over a stream of three units.
SPECIFICATION FairSpec
CONSTANTS
    Senders = {s1, s2}
    NoSender = NoSender
    Messages <- AtTheLimits
    EncoderLimit = 4
    DecoderLimit = 4
    MaxMetadata = 1
    LengthPrefix = 1
    HeaderUnits = 2
    PipeCapacity = 3
    MaxFrames = 3
INVARIANTS
    TypeOK
    NoneRefused
    EndIsClean
PROPERTIES
    FramesArrive
    SendReturns
    WrittenIsRead
