SPECIFICATION Spec
CONSTANTS
    pipe = pipe
    srtURL = srtURL
    NoInput = NoInput
    AnyInput = AnyInput
    Inputs <- MCInputs
    MaxStarts = 4
    MaxAttempt = 64
INVARIANTS
    TypeOK
    AtMostOneFfmpeg
    LiveProcessIsOwned
    StoppedMeansSilent
    RestartsAreBackedOff
    BackoffSaturates
PROPERTIES
    CallsReturn
    CrashIsRepaired
    ImplementsRelaySession
