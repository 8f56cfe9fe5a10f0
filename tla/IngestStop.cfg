SPECIFICATION IngestSpec
CONSTANTS
    conn1 = conn1
    conn2 = conn2
    pub1 = pub1
    pub2 = pub2
    rist = rist
    rtmpLive = rtmpLive
    srtLive = srtLive
    srtOther = srtOther
    srtlaLive = srtlaLive
    ristLive = ristLive
    live = live
    other = other
    NoKey = NoKey
    NoSession = NoSession
    AnySession = AnySession
    Conns <- MCConns
    Pubs <- MCPubs
    Sessions <- MCSessions
    KeyOf <- MCKeyOf
    Keys <- MCKeys
    PathOf <- MCPathOf
    SourceTimeout = 3
    MaxCallbacks = 1
    FreshAge = 0
    StaleAge = 1
PROPERTIES
    ActiveFeedIsRelayed
