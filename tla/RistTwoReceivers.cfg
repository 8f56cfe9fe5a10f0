SPECIFICATION Spec
CONSTANTS
    MaxStarts = 3
INVARIANTS
    OneReceiver
CHECK_DEADLOCK FALSE
