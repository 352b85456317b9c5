\* Sessions, egress and local services, over a TLS layer that never blocks.
CONSTANTS
    SessionIds = {s1, s2}
    NoSession = NoSession
    ServiceIds = {1, 2}
    SvcTable <- MCSvcTable
    InCap = 1
    ReadMax = 2
    EgressMax = 1
    OutCap = 2
    MaxMsgId = 2
    MaxVersion = 0
    MaxPeerMsgs = 2
    MaxLocal = 2
    MsgIdMod = 65536
    TlsWants = {}
    TlsWriteWants = {}
    PeerKinds = {"DATA", "HUP"}
    DrainBatch = FALSE

SYMMETRY Symmetry
SPECIFICATION Spec

INVARIANT TypeOK
INVARIANT WatchdogArmed
INVARIANT NoLostSessionWakeup
INVARIANT NoStarvedSession
VIEW View
