SPECIFICATION Spec
CONSTANTS
    pipe = pipe
    srtURL = srtURL
    NoInput = NoInput
    AnyInput = AnyInput
    Inputs <- MCInputs
    MaxStarts = 3
    MaxAttempt = 64
PROPERTIES
    RestartsTheWantedSession
