SPECIFICATION LogSpec
CONSTANTS
    stream = stream
    backup = backup
    private = private
    Nobody = Nobody
    Dirs <- MCDirs
    streamDir = stream
    Senders <- MCSenders
    AllowedLists <- MCLists
INVARIANTS
    LogTypeOK
    NamedIntruderIsCut
    SinglePathRejectsOnlySlashes
PROPERTIES
    TeardownIsNotActivity
    NamedSenderIsJudgedByItsName
