\* Data of a local service that closes right after sending.
CONSTANTS
    SessionIds = {s1}
    NoSession = NoSession
    ServiceIds = {1, 2}
    SvcTable <- MCSvcTable
    InCap = 2
    ReadMax = 2
    EgressMax = 1
    OutCap = 2
    MaxMsgId = 2
    MaxVersion = 0
    MaxPeerMsgs = 1
    MaxLocal = 1
    MsgIdMod = 65536
    TlsWants = {}
    TlsWriteWants = {}
    PeerKinds = {"DATA"}
    DrainBatch = FALSE

SPECIFICATION Spec

PROPERTY LocalCloseLosesNoData
VIEW View
