\* Messages passed on twice, and sessions of two messages.
SPECIFICATION Spec
CONSTANTS
    NoText = NoText
    Nil = Nil
    ABIVersion = "v1"
    MaxSessionNodes = 2
    MaxSessionEdges = 3
    MaxSecrets = 1
    MaxSecretBytes = 4
    MaxTLSBytes = 4
    DigestLength = 2
    MaxColumns = 3
    MaxPreviewRows = 3
    MaxPreviewBytes = 3
    DataTypes = {"int64", "string"}
    Value = {0, 1, 2}
    Zero = 0
    Null = Null
    MaxRows = 2
    NotText = {"raw"}
    MaxMapPairs = 2
    Messages <- SomeMessages
    FollowUps <- SomeFollowUps
    MaxHops = 2
INVARIANTS
    AcceptedIsReceived
    ContentSurvives
    AnswerHasResult
    PeerEdgesMeet
    StartedConnects
PROPERTIES
    RelayIsStable
CHECK_DEADLOCK FALSE
