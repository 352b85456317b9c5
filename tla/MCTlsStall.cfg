\* Tunnel output waiting behind a TLS want-read (spec 4.3).
CONSTANTS
    SessionIds = {s1}
    NoSession = NoSession
    ServiceIds = {1, 2}
    SvcTable <- MCSvcTable
    InCap = 2
    ReadMax = 2
    EgressMax = 1
    OutCap = 2
    MaxMsgId = 2
    MaxVersion = 0
    MaxPeerMsgs = 1
    MaxLocal = 0
    MsgIdMod = 65536
    TlsWants = {"wantRead"}
    TlsWriteWants = {}
    PeerKinds = {"DATA"}
    DrainBatch = FALSE

SPECIFICATION Spec

INVARIANT PendingOutputNotBlockedOnInput
VIEW View
