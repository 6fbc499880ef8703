SPECIFICATION Spec
CONSTANTS
    Fetches <- MCFetches
    Batches <- MCBatches
    Plans <- MCPlans
    MaxFaults = 1
    Ints = {3, 5}
    Texts = {2}
    SafeInt = 4
    MaxRows = 2
    Buffer = 2
    MaxUpload = 3
INVARIANTS
    TypeOK
    OwnResponse
    ReadsOwnAnswers
    ObjectsWhole
    Accounted
    AckIffConsumed
PROPERTIES
    ImplementsSerial
    EveryTaskEnds
