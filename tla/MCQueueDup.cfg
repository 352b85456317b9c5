\* A session ID that comes back after its session was dropped (spec 8).
CONSTANTS
    SessionIds = {s1}
    NoSession = NoSession
    ServiceIds = {1, 2}
    SvcTable <- MCSvcTable
    InCap = 2
    ReadMax = 2
    EgressMax = 1
    OutCap = 2
    MaxMsgId = 2
    MaxVersion = 0
    MaxPeerMsgs = 3
    MaxLocal = 0
    MsgIdMod = 65536
    TlsWants = {}
    TlsWriteWants = {}
    PeerKinds = {"DATA", "HUP"}
    DrainBatch = FALSE

SPECIFICATION Spec

INVARIANT SessionFairShare
VIEW View
