SPECIFICATION Spec
CONSTANTS
    conn1 = conn1
    conn2 = conn2
    webhook = webhook
    rist = rist
    rtmpLive = rtmpLive
    rtmpOther = rtmpOther
    srtLive = srtLive
    ristLive = ristLive
    NoKey = NoKey
    NoSession = NoSession
    Sessions <- MCSessions
    Keys <- MCKeys
    KeyOf <- MCKeyOf
    SourceTimeout = 3
    MaxCallbacks = 2
PROPERTIES
    TimeoutClearsInactiveSlot
