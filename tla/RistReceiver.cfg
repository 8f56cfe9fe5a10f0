SPECIFICATION Spec
CONSTANTS
    MaxStarts = 3
INVARIANTS
    TypeOK
    CloseLeavesNoReceiver
    GivingUpIsReported
PROPERTIES
    CloseEnds
    ReceiverComesBack
CHECK_DEADLOCK FALSE
