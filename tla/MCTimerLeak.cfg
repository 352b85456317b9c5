\* A session that ends, and a session ID that comes back.
CONSTANTS
    SessionIds = {s1}
    NoSession = NoSession
    ServiceIds = {1, 2}
    SvcTable <- MCSvcTable
    InCap = 2
    ReadMax = 2
    EgressMax = 1
    OutCap = 2
    MaxMsgId = 2
    MaxVersion = 0
    MaxPeerMsgs = 2
    MaxLocal = 0
    MsgIdMod = 65536
    TlsWants = {}
    TlsWriteWants = {}
    PeerKinds = {"DATA", "HUP"}
    DrainBatch = FALSE

SPECIFICATION Spec

INVARIANT SessionTimerPerLiveSession
VIEW View
