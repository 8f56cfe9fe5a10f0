SPECIFICATION ServerSpec
CONSTANTS
    conn1 = conn1
    pub1 = pub1
    rist = rist
    rtmpLive = rtmpLive
    srtLive = srtLive
    ristLive = ristLive
    live = live
    NoKey = NoKey
    NoSession = NoSession
    AnySession = AnySession
    Conns <- MCConns
    Pubs <- MCPubs
    Sessions <- MCSessions
    KeyOf <- MCKeyOf
    Keys <- MCKeys
    PathOf <- MCPathOf
    SourceTimeout = 2
    MaxCallbacks = 1
    FreshAge = 0
    StaleAge = 0
INVARIANTS
    ServerTypeOK
    ClosedRtmpHasNoSlot
    ExitIsSilent
PROPERTY ShutdownEnds
CHECK_DEADLOCK FALSE
